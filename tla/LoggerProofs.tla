---------------------------- MODULE LoggerProofs ----------------------------
(***************************************************************************)
(* ResolveLogger for any number of logging and checkpointing threads, any  *)
(* calls and any counter updates per call: reports are whole, checkpoints  *)
(* are complete, retries always see a new state, and the logger implements *)
(* the ledger.                                                             *)
(*                                                                         *)
(* The invariant: Locks says which cells are taken, waited for or being    *)
(* logged into; Entries and UniqueCell say whose entries a cell holds;     *)
(* Covering says where the calls are that a running checkpoint must cover. *)
(*                                                                         *)
(* BatchLogger for every limit, every set of lengths and every way of      *)
(* flushing: events leave once and in the order in which they were logged, *)
(* the cached byte count is exact and no request is filled past its limit. *)
(*                                                                         *)
(* Exposure for every set of values, clock offsets, keys and reports:      *)
(* what a client reports is logged whole and dated by the server's clock.  *)
(*                                                                         *)
(* Aggregation for every batch: the counters of the resolve logger and the *)
(* aggregate of the messages agree.  Each of their folds is followed by    *)
(* its trace, and the traces are related step by step.                     *)
(***************************************************************************)
EXTENDS ResolveLogger, BatchLogger, Exposure, Aggregation, FoldProofs, TLAPS

IInv == TypeOK /\ Locks /\ Entries /\ UniqueCell /\ Covering

LEMMA InitInv == Init => IInv
<1> SUFFICES ASSUME Init PROVE IInv
  OBVIOUS
<1> USE ResolveLoggerAssumption
<1>1. TypeOK
  BY DEF Init, TypeOK, Cells, LoggerPCs, FlusherPCs
<1>2. Locks
  BY DEF Init, Locks, Cells, Waiters
<1>3. Entries
  BY DEF Init, Entries, CallsIn
<1>4. UniqueCell
  BY DEF Init, UniqueCell
<1>5. Covering
  BY DEF Init, Covering
<1> QED BY <1>1, <1>2, <1>3, <1>4, <1>5 DEF IInv

\* An entry of a call that some logger is executing is that logger's own.
LEMMA OwnEntries ==
  ASSUME IInv, NEW l \in Loggers, call[l] \in Calls, NEW c \in Cells, NEW p \in Parts,
         <<call[l], p>> \in content[c]
  PROVE  lpc[l] = "reading" /\ lref[l] = c /\ p \notin todo[l]
BY ResolveLoggerAssumption DEF IInv, Entries

\* Actions that touch neither cells nor flushers keep what is said of them.
LEMMA StartInv == ASSUME IInv, NEW l \in Loggers, NEW k \in Calls, Start(l, k) PROVE IInv'
<1> USE ResolveLoggerAssumption
<1>1. /\ lpc[l] = "idle" /\ k \notin done /\ \A m \in Loggers : call[m] # k
      /\ lpc' = [lpc EXCEPT ![l] = "load"] /\ call' = [call EXCEPT ![l] = k]
      /\ UNCHANGED <<cur, content, taken, lref, todo, done, fpc, fref, before>>
  BY DEF Start, flusherVars
<1>2. TypeOK'
  BY <1>1 DEF IInv, TypeOK, LoggerPCs
<1>3. Locks'
  BY <1>1 DEF IInv, TypeOK, Locks, Waiters
<1>4. Entries'
  BY <1>1 DEF IInv, TypeOK, Entries, CallsIn
<1>5. UniqueCell' /\ Covering'
  BY <1>1 DEF IInv, UniqueCell, Covering, CallsIn
<1> QED BY <1>2, <1>3, <1>4, <1>5 DEF IInv

LEMMA LoadInv == ASSUME IInv, NEW l \in Loggers, Load(l) PROVE IInv'
<1> USE ResolveLoggerAssumption
<1>1. /\ lpc[l] = "load" /\ lpc' = [lpc EXCEPT ![l] = "loaded"]
      /\ lref' = [lref EXCEPT ![l] = cur]
      /\ UNCHANGED <<cur, content, taken, call, todo, done, fpc, fref, before>>
  BY DEF Load, flusherVars
<1>2. TypeOK'
  BY <1>1 DEF IInv, TypeOK, LoggerPCs
<1>3. Locks'
  BY <1>1 DEF IInv, TypeOK, Locks, Waiters, Cells
<1>4. Entries'
  BY <1>1 DEF IInv, TypeOK, Entries, CallsIn
<1>5. UniqueCell' /\ Covering'
  BY <1>1 DEF IInv, UniqueCell, Covering, CallsIn
<1> QED BY <1>2, <1>3, <1>4, <1>5 DEF IInv

LEMMA RetryInv == ASSUME IInv, NEW l \in Loggers, Retry(l) PROVE IInv'
<1> USE ResolveLoggerAssumption
<1>1. /\ lpc[l] = "loaded" /\ lpc' = [lpc EXCEPT ![l] = "load"]
      /\ UNCHANGED <<cur, content, taken, call, lref, todo, done, fpc, fref, before>>
  BY DEF Retry, flusherVars
<1>2. TypeOK'
  BY <1>1 DEF IInv, TypeOK, LoggerPCs
<1>3. Locks'
  BY <1>1 DEF IInv, TypeOK, Locks, Waiters
<1>4. Entries'
  BY <1>1 DEF IInv, TypeOK, Entries, CallsIn
<1>5. UniqueCell' /\ Covering'
  BY <1>1 DEF IInv, UniqueCell, Covering, CallsIn
<1> QED BY <1>2, <1>3, <1>4, <1>5 DEF IInv

LEMMA EnterInv == ASSUME IInv, NEW l \in Loggers, Enter(l) PROVE IInv'
<1> USE ResolveLoggerAssumption
<1>1. /\ lpc[l] = "loaded" /\ ~taken[lref[l]]
      /\ lpc' = [lpc EXCEPT ![l] = "reading"] /\ todo' = [todo EXCEPT ![l] = Parts]
      /\ UNCHANGED <<cur, content, taken, call, lref, done, fpc, fref, before>>
  BY DEF Enter, flusherVars
<1>2. TypeOK'
  BY <1>1 DEF IInv, TypeOK, LoggerPCs
<1>3. Locks'
  BY <1>1 DEF IInv, TypeOK, Locks, Waiters
<1>4. call[l] \in Calls
  BY <1>1 DEF IInv, TypeOK, Entries
<1>5. \A c \in Cells, p \in Parts : <<call[l], p>> \notin content[c]
  BY <1>1, <1>4, OwnEntries
<1>6. Entries'
  <2>1. ASSUME NEW m \in Loggers, lpc'[m] = "reading", NEW p \in Parts
        PROVE  p \notin todo'[m] <=> <<call[m], p>> \in content[lref[m]]
    BY <1>1, <1>5, <2>1 DEF IInv, TypeOK, Entries
  <2>2. ASSUME NEW c \in Cells, NEW k \in Calls, NEW p \in Parts, <<k, p>> \in content[c],
               k \notin done \/ k \notin CallsIn(c)
        PROVE  \E m \in Loggers : /\ lpc'[m] = "reading" /\ call[m] = k
                                  /\ lref[m] = c /\ p \notin todo'[m]
    <3>1. PICK m \in Loggers : lpc[m] = "reading" /\ call[m] = k /\ lref[m] = c /\ p \notin todo[m]
      BY <2>2 DEF IInv, Entries
    <3> QED BY <1>1, <3>1 DEF IInv, TypeOK
  <2>3. \A m \in Loggers : lpc'[m] = "idle" <=> call'[m] = NoCall
    BY <1>1 DEF IInv, TypeOK, Entries
  <2> QED BY <1>1, <2>1, <2>2, <2>3 DEF IInv, Entries, CallsIn
<1>7. UniqueCell' /\ Covering'
  BY <1>1 DEF IInv, UniqueCell, Covering, CallsIn
<1> QED BY <1>2, <1>3, <1>6, <1>7 DEF IInv

\* Apply: what it changes, and that no cell had the entry before.
LEMMA ApplyFacts ==
  ASSUME IInv, NEW l \in Loggers, NEW p \in Parts, Apply(l, p)
  PROVE  /\ call[l] \in Calls /\ lref[l] \in Cells /\ ~taken[lref[l]]
         /\ \A c \in Cells : <<call[l], p>> \notin content[c]
         /\ \A c \in Cells, k \in Calls, q \in Parts :
              <<k, q>> \in content'[c] <=>
                (<<k, q>> \in content[c] \/ (c = lref[l] /\ k = call[l] /\ q = p))
<1>1. lpc[l] = "reading" /\ p \in todo[l]
  BY DEF Apply
<1>2. call[l] \in Calls
  BY <1>1 DEF IInv, TypeOK, Entries
<1>3. \A c \in Cells : <<call[l], p>> \notin content[c]
  BY <1>1, <1>2, OwnEntries
<1>4. \A c \in Cells : content'[c] = IF c = lref[l] THEN content[c] \cup {<<call[l], p>>}
                                                   ELSE content[c]
  BY DEF Apply, IInv, TypeOK
<1>5. \A k \in Calls, q \in Parts : <<k, q>> = <<call[l], p>> <=> k = call[l] /\ q = p
  OBVIOUS
<1>6. \A c \in Cells, k \in Calls, q \in Parts :
        <<k, q>> \in content'[c] <=>
                (<<k, q>> \in content[c] \/ (c = lref[l] /\ k = call[l] /\ q = p))
  BY <1>4, <1>5, ZenonT(30)
<1> QED BY <1>1, <1>2, <1>3, <1>6 DEF IInv, TypeOK, Locks

LEMMA ApplyInv == ASSUME IInv, NEW l \in Loggers, NEW p \in Parts, Apply(l, p) PROVE IInv'
<1> USE ResolveLoggerAssumption
<1>0. PICK k \in Calls, r \in Cells : k = call[l] /\ r = lref[l]
  BY ApplyFacts
<1>1. /\ lpc[l] = "reading" /\ p \in todo[l]
      /\ todo' = [todo EXCEPT ![l] = @ \ {p}]
      /\ UNCHANGED <<cur, taken, lpc, call, lref, done, fpc, fref, before>>
  BY DEF Apply, flusherVars
<1>2. /\ \A c \in Cells : <<k, p>> \notin content[c]
      /\ \A c \in Cells, j \in Calls, q \in Parts :
           <<j, q>> \in content'[c] <=> <<j, q>> \in content[c] \/ (c = r /\ j = k /\ q = p)
  BY <1>0, ApplyFacts
<1>3. TypeOK'
  BY <1>0, <1>1 DEF IInv, TypeOK, Apply
<1>4. Locks'
  BY <1>1 DEF IInv, Locks, Waiters
<1>5. \A c \in Cells : CallsIn(c) \subseteq CallsIn(c)'
  BY <1>2 DEF CallsIn
<1>6. Entries'
  <2>1. ASSUME NEW m \in Loggers, lpc[m] = "reading", NEW q \in Parts
        PROVE  q \notin todo'[m] <=> <<call[m], q>> \in content'[lref[m]]
    <3>1. lref[m] \in Cells
      BY DEF IInv, TypeOK
    <3>2. CASE m = l
      BY <1>0, <1>1, <1>2, <2>1, <3>2 DEF IInv, TypeOK, Entries
    <3>3. CASE m # l
      <4>1. call[m] # k /\ call[m] \in Calls
        BY <1>0, <2>1, <3>3 DEF IInv, TypeOK, Entries
      <4> QED BY <1>1, <1>2, <2>1, <3>1, <3>3, <4>1 DEF IInv, TypeOK, Entries
    <3> QED BY <3>2, <3>3
  <2>2. ASSUME NEW c \in Cells, NEW j \in Calls, NEW q \in Parts, <<j, q>> \in content'[c],
               j \notin done \/ j \notin CallsIn(c)'
        PROVE  \E m \in Loggers : /\ lpc[m] = "reading" /\ call[m] = j
                                  /\ lref[m] = c /\ q \notin todo'[m]
    <3>1. CASE <<j, q>> \in content[c]
      <4>1. PICK m \in Loggers : lpc[m] = "reading" /\ call[m] = j /\ lref[m] = c /\ q \notin todo[m]
        BY <1>5, <2>2, <3>1 DEF IInv, Entries
      <4> QED BY <1>1, <4>1 DEF IInv, TypeOK
    <3>2. CASE <<j, q>> \notin content[c]
      <4>1. c = r /\ j = k /\ q = p
        BY <1>2, <2>2, <3>2
      <4> QED BY <1>0, <1>1, <4>1 DEF IInv, TypeOK
    <3> QED BY <3>1, <3>2
  <2>3. \A j \in done : \E c \in Cells : c <= cur /\ j \in CallsIn(c)'
    BY <1>5 DEF IInv, Entries
  <2> QED BY <1>1, <2>1, <2>2, <2>3 DEF IInv, Entries
<1>7. UniqueCell'
  <2>1. \A c \in Cells, q \in Parts : <<k, q>> \in content[c] => c = r
    BY <1>0, OwnEntries
  <2>2. ASSUME NEW c \in Cells, NEW d \in Cells, NEW j \in Calls, NEW q \in Parts, NEW s \in Parts,
               <<j, q>> \in content'[c], <<j, s>> \in content'[d]
        PROVE  c = d
    <3>1. CASE j = k
      BY <1>2, <2>1, <2>2, <3>1
    <3>2. CASE j # k
      <4>1. <<j, q>> \in content[c] /\ <<j, s>> \in content[d]
        BY <1>2, <2>2, <3>2
      <4> QED BY <4>1 DEF IInv, UniqueCell
    <3> QED BY <3>1, <3>2
  <2> QED BY <2>2 DEF UniqueCell
<1>8. Covering'
  BY <1>1, <1>5 DEF IInv, Covering
<1> QED BY <1>3, <1>4, <1>6, <1>7, <1>8 DEF IInv

LEMMA FinishInv == ASSUME IInv, NEW l \in Loggers, Finish(l) PROVE IInv'
<1> USE ResolveLoggerAssumption
<1>1. /\ lpc[l] = "reading" /\ todo[l] = {}
      /\ done' = done \cup {call[l]}
      /\ lpc' = [lpc EXCEPT ![l] = "idle"] /\ call' = [call EXCEPT ![l] = NoCall]
      /\ UNCHANGED <<cur, content, taken, lref, todo, fpc, fref, before>>
  BY DEF Finish, flusherVars
<1>2. call[l] \in Calls /\ lref[l] \in Cells
  BY <1>1 DEF IInv, TypeOK, Entries
<1>3. TypeOK'
  BY <1>1, <1>2 DEF IInv, TypeOK, LoggerPCs
<1>4. Locks'
  BY <1>1 DEF IInv, TypeOK, Locks, Waiters
<1>5. call[l] \in CallsIn(lref[l])
  BY <1>1, <1>2 DEF IInv, Entries, CallsIn
<1>6. \A c \in Cells : CallsIn(c)' = CallsIn(c)
  BY <1>1 DEF CallsIn
<1>7. Entries'
  <2>1. ASSUME NEW c \in Cells, NEW k \in Calls, NEW p \in Parts, <<k, p>> \in content[c],
               k \notin done' \/ k \notin CallsIn(c)
        PROVE  \E m \in Loggers : /\ lpc'[m] = "reading" /\ call'[m] = k
                                  /\ lref[m] = c /\ p \notin todo[m]
    <3>1. k # call[l]
      <4>1. SUFFICES ASSUME k = call[l] PROVE FALSE
        OBVIOUS
      <4>2. c = lref[l]
        BY <1>2, <2>1, <4>1, OwnEntries
      <4> QED BY <1>1, <1>5, <2>1, <4>1, <4>2
    <3>2. PICK m \in Loggers : lpc[m] = "reading" /\ call[m] = k /\ lref[m] = c /\ p \notin todo[m]
      BY <1>1, <2>1 DEF IInv, Entries
    <3> QED BY <1>1, <3>1, <3>2 DEF IInv, TypeOK
  <2>2. \A m \in Loggers : lpc'[m] = "idle" <=> call'[m] = NoCall
    BY <1>1 DEF IInv, TypeOK, Entries
  <2>3. \A m, n \in Loggers : call'[m] = call'[n] /\ call'[m] # NoCall => m = n
    BY <1>1 DEF IInv, TypeOK, Entries
  <2>4. \A m \in Loggers : call'[m] \notin done'
    BY <1>1, <1>2 DEF IInv, TypeOK, Entries
  <2>5. \A m \in Loggers : lpc'[m] = "reading" =>
          \A p \in Parts : p \notin todo[m] <=> <<call'[m], p>> \in content[lref[m]]
    BY <1>1 DEF IInv, TypeOK, Entries
  <2>6. \A k \in done' : \E c \in Cells : c <= cur /\ k \in CallsIn(c)
    BY <1>1, <1>2, <1>5 DEF IInv, Entries, Locks
  <2> QED BY <1>1, <1>6, <2>1, <2>2, <2>3, <2>4, <2>5, <2>6 DEF Entries
<1>8. UniqueCell' /\ Covering'
  BY <1>1, <1>6 DEF IInv, UniqueCell, Covering
<1> QED BY <1>3, <1>4, <1>7, <1>8 DEF IInv

LEMMA SwapInv == ASSUME IInv, NEW f \in Flushers, Swap(f) PROVE IInv'
<1> USE ResolveLoggerAssumption
<1>1. /\ fpc[f] = "idle" /\ cur < MaxCells /\ cur' = cur + 1
      /\ fpc' = [fpc EXCEPT ![f] = "swapped"] /\ fref' = [fref EXCEPT ![f] = cur]
      /\ before' = [before EXCEPT ![f] = done]
      /\ UNCHANGED <<content, taken, lpc, call, lref, todo, done>>
  BY DEF Swap, loggerVars
<1>2. cur \in Cells /\ cur' \in Cells
  BY <1>1 DEF IInv, TypeOK, Cells
<1>3. TypeOK'
  BY <1>1, <1>2 DEF IInv, TypeOK, FlusherPCs
<1>4. ~taken[cur] /\ Waiters(cur) = {}
  BY <1>2 DEF IInv, Locks, Cells
<1>5. \A c \in Cells : Waiters(c)' = IF c = cur THEN {f} ELSE Waiters(c)
  BY <1>1, <1>4 DEF IInv, TypeOK, Waiters
<1>6. Locks'
  <2>1. \A g \in Flushers : fpc'[g] # "idle" => fref'[g] < cur'
    BY <1>1 DEF IInv, TypeOK, Locks, Cells
  <2>2. \A g \in Flushers : fpc'[g] = "swapped" => ~taken'[fref'[g]]
    BY <1>1, <1>4 DEF IInv, TypeOK, Locks
  <2>3. \A g, h \in Flushers :
          fpc'[g] = "swapped" /\ fpc'[h] = "swapped" /\ fref'[g] = fref'[h] => g = h
    BY <1>1, <1>4 DEF IInv, TypeOK, Locks, Waiters
  <2>4. \A c \in Cells : c < cur' <=> taken'[c] \/ Waiters(c)' # {}
    BY <1>1, <1>2, <1>4, <1>5 DEF IInv, Locks, Cells
  <2>5. \A l \in Loggers : lref'[l] <= cur'
    BY <1>1, <1>2 DEF IInv, TypeOK, Locks, Cells
  <2> QED BY <1>1, <2>1, <2>2, <2>3, <2>4, <2>5 DEF IInv, Locks
<1>7. \A c \in Cells : CallsIn(c)' = CallsIn(c)
  BY <1>1 DEF CallsIn
<1>8. Entries'
  <2>1. \A k \in done : \E c \in Cells : c <= cur' /\ k \in CallsIn(c)
    BY <1>1, <1>2 DEF IInv, Entries, Cells
  <2> QED BY <1>1, <1>7, <2>1 DEF IInv, Entries
<1>9. UniqueCell'
  BY <1>1 DEF IInv, UniqueCell
<1>10. Covering'
  BY <1>1, <1>7 DEF IInv, TypeOK, Covering, Entries
<1> QED BY <1>3, <1>6, <1>8, <1>9, <1>10 DEF IInv

LEMMA TakeInv == ASSUME IInv, NEW f \in Flushers, Take(f) PROVE IInv'
<1> USE ResolveLoggerAssumption
<1> DEFINE r == fref[f]
<1>1. /\ fpc[f] = "swapped" /\ Readers(r) = {}
      /\ taken' = [taken EXCEPT ![r] = TRUE] /\ fpc' = [fpc EXCEPT ![f] = "writing"]
      /\ UNCHANGED <<cur, content, fref, before, lpc, call, lref, todo, done>>
  BY DEF Take, loggerVars
<1>2. r \in Cells /\ r < cur
  BY <1>1 DEF IInv, TypeOK, Locks
<1>3. TypeOK'
  BY <1>1 DEF IInv, TypeOK, FlusherPCs
<1>4. \A c \in Cells : Waiters(c)' = IF c = r THEN {} ELSE Waiters(c)
  BY <1>1 DEF IInv, TypeOK, Locks, Waiters
<1>5. Locks'
  <2>1. \A g \in Flushers : fpc'[g] = "swapped" => ~taken'[fref'[g]]
    BY <1>1 DEF IInv, TypeOK, Locks
  <2>2. \A c \in Cells : c < cur' <=> taken'[c] \/ Waiters(c)' # {}
    BY <1>1, <1>2, <1>4 DEF IInv, TypeOK, Locks
  <2>3. \A l \in Loggers : lpc'[l] = "reading" => ~taken'[lref'[l]]
    BY <1>1 DEF IInv, TypeOK, Locks, Readers
  <2>4. \A g \in Flushers : fpc'[g] # "idle" => fref'[g] < cur'
    BY <1>1 DEF IInv, TypeOK, Locks
  <2>5. \A g, h \in Flushers :
          fpc'[g] = "swapped" /\ fpc'[h] = "swapped" /\ fref'[g] = fref'[h] => g = h
    BY <1>1 DEF IInv, TypeOK, Locks
  <2> QED BY <1>1, <2>1, <2>2, <2>3, <2>4, <2>5 DEF IInv, Locks
<1>6. \A c \in Cells : CallsIn(c)' = CallsIn(c)
  BY <1>1 DEF CallsIn
<1>7. Entries' /\ UniqueCell'
  BY <1>1, <1>6 DEF IInv, Entries, UniqueCell
<1>8. Covering'
  BY <1>1, <1>6 DEF IInv, TypeOK, Covering
<1> QED BY <1>3, <1>5, <1>7, <1>8 DEF IInv

LEMMA ReturnInv == ASSUME IInv, NEW f \in Flushers, Return(f) PROVE IInv'
<1>1. /\ fpc[f] = "writing" /\ fpc' = [fpc EXCEPT ![f] = "idle"]
      /\ UNCHANGED <<cur, content, taken, fref, before, lpc, call, lref, todo, done>>
  BY DEF Return, loggerVars
<1>2. TypeOK'
  BY <1>1 DEF IInv, TypeOK, FlusherPCs
<1>3. \A c \in Cells : Waiters(c)' = Waiters(c) /\ CallsIn(c)' = CallsIn(c)
  BY <1>1 DEF IInv, TypeOK, Waiters, CallsIn
<1>4. Locks'
  BY <1>1, <1>3 DEF IInv, TypeOK, Locks
<1>5. Entries' /\ UniqueCell' /\ Covering'
  BY <1>1, <1>3 DEF IInv, TypeOK, Entries, UniqueCell, Covering
<1> QED BY <1>2, <1>4, <1>5 DEF IInv

LEMMA StepInv == IInv /\ [Next]_vars => IInv'
<1> SUFFICES ASSUME IInv, [Next]_vars PROVE IInv'
  OBVIOUS
<1>1. CASE UNCHANGED vars
  BY <1>1 DEF IInv, TypeOK, Locks, Entries, UniqueCell, Covering, Waiters, CallsIn, vars
<1>2. ASSUME NEW l \in Loggers, LogStep(l) PROVE IInv'
  BY <1>2, LoadInv, EnterInv, RetryInv, FinishInv, ApplyInv DEF LogStep
<1>3. ASSUME NEW l \in Loggers, NEW k \in Calls, Start(l, k) PROVE IInv'
  BY <1>3, StartInv
<1>4. ASSUME NEW f \in Flushers, Swap(f) \/ Take(f) \/ Return(f) PROVE IInv'
  BY <1>4, SwapInv, TakeInv, ReturnInv
<1> QED BY <1>1, <1>2, <1>3, <1>4 DEF Next

(* No report ever shows a part of a resolve, and nothing is logged into a  *)
(* cell after its report.                                                  *)
THEOREM ReportsWhole == Spec => []WholeCalls
<1>1. IInv => WholeCalls
  BY DEF IInv, Entries, Locks, WholeCalls
<1> QED BY InitInv, StepInv, <1>1, PTL DEF Spec

(* No resolve is split over two reports, for any number of loggers,        *)
(* checkpoints and calls.                                                  *)
THEOREM CallsCorrect == Spec => []CallsWhole
<1>1. IInv => TypeOK
  BY DEF IInv
<1> QED BY InitInv, StepInv, <1>1, ReportsWhole, PTL DEF Spec, CallsWhole

(* Every call that returned before a checkpoint began is reported when the *)
(* checkpoint has its state, or held by a concurrent checkpoint.           *)
THEOREM CheckpointsComplete == Spec => []CheckpointCovers
<1>1. IInv => CheckpointCovers
  <2> SUFFICES ASSUME IInv, NEW f \in Flushers, fpc[f] = "writing", NEW k \in before[f]
               PROVE  \E c \in Cells : k \in CallsIn(c) /\ (taken[c] \/ Waiters(c) # {})
    BY DEF CheckpointCovers
  <2>1. PICK c \in Cells : c <= fref[f] /\ k \in CallsIn(c)
    BY DEF IInv, Covering
  <2>2. c < cur
    BY <2>1, SMTT(30) DEF IInv, TypeOK, Locks, Cells
  <2> QED BY <2>1, <2>2 DEF IInv, Locks
<1> QED BY InitInv, StepInv, <1>1, PTL DEF Spec

(* A logger that has to retry always finds another current state.          *)
THEOREM RetriesAdvance == Spec => RetrySeesNewState
<1>1. IInv => \A l \in Loggers : Retry(l) => cur # lref[l]
  <2> SUFFICES ASSUME IInv, NEW l \in Loggers, Retry(l), cur = lref[l] PROVE FALSE
    OBVIOUS
  <2>1. ~taken[cur] /\ Waiters(cur) = {} /\ cur \in Cells
    BY DEF IInv, TypeOK, Locks, Cells
  <2>2. Writers(cur) = {}
    BY <2>1 DEF IInv, TypeOK, Locks, Writers, Cells
  <2> QED BY <2>1, <2>2 DEF Retry
<1> QED BY InitInv, StepInv, <1>1, PTL DEF Spec, RetrySeesNewState

\* The last update of a call records it; a Take reports the calls of a cell.
LEMMA LedgerStep == IInv /\ [Next]_vars => [Ledger!Next]_(Ledger!ledgerVars)
<1> SUFFICES ASSUME IInv, [Next]_vars PROVE [Ledger!Next]_(Ledger!ledgerVars)
  OBVIOUS
<1>1. ASSUME UNCHANGED <<content, taken>> PROVE UNCHANGED Ledger!ledgerVars
  BY <1>1 DEF Ledger!ledgerVars, ledgerPending, ledgerReported, CallsIn
<1>2. ASSUME NEW l \in Loggers, NEW p \in Parts, Apply(l, p)
      PROVE  [Ledger!Next]_(Ledger!ledgerVars)
  <2>0. PICK k \in Calls, r \in Cells : k = call[l] /\ r = lref[l]
    BY <1>2, ApplyFacts
  <2>1. /\ ~taken[r]
        /\ \A c \in Cells : <<k, p>> \notin content[c]
        /\ \A c \in Cells, j \in Calls, q \in Parts :
             <<j, q>> \in content'[c] <=> <<j, q>> \in content[c] \/ (c = r /\ j = k /\ q = p)
    BY <1>2, <2>0, ApplyFacts
  <2>2. taken' = taken
    BY <1>2 DEF Apply
  <2>3. \A c \in Cells : c # r => CallsIn(c)' = CallsIn(c)
    BY <2>1 DEF CallsIn
  <2>4. CallsIn(r)' = CallsIn(r) \/ CallsIn(r)' = CallsIn(r) \cup {k}
    BY <2>1 DEF CallsIn
  <2>5. \A c \in Cells : k \notin CallsIn(c)
    BY <2>1 DEF CallsIn
  <2>6. ledgerReported' = ledgerReported
    BY <2>1, <2>2, <2>3 DEF ledgerReported
  <2>7. CASE CallsIn(r)' = CallsIn(r)
    <3>1. \A c \in Cells : CallsIn(c)' = CallsIn(c)
      BY <2>3, <2>7
    <3> QED BY <2>2, <2>6, <3>1 DEF ledgerPending, Ledger!ledgerVars
  <2>8. CASE CallsIn(r)' = CallsIn(r) \cup {k}
    <3>1. ledgerPending' = ledgerPending \cup {k}
      BY <2>1, <2>2, <2>3, <2>8 DEF ledgerPending
    <3>2. k \notin ledgerPending \cup ledgerReported
      BY <2>5 DEF ledgerPending, ledgerReported
    <3> QED BY <2>1, <2>6, <3>1, <3>2 DEF Ledger!Next, Ledger!Record
  <2> QED BY <2>4, <2>7, <2>8
<1>3. ASSUME NEW f \in Flushers, Take(f) PROVE [Ledger!Next]_(Ledger!ledgerVars)
  <2>0. PICK r \in Cells : r = fref[f]
    BY DEF IInv, TypeOK
  <2>1. /\ ~taken[r] /\ content' = content
        /\ \A c \in Cells : taken'[c] = (c = r \/ taken[c])
    BY <1>3, <2>0 DEF Take, IInv, TypeOK, Locks
  <2>2. \A c \in Cells : CallsIn(c)' = CallsIn(c)
    BY <2>1 DEF CallsIn
  <2>3. \A c \in Cells : c # r => CallsIn(c) \cap CallsIn(r) = {}
    BY <2>1, ResolveLoggerAssumption DEF IInv, UniqueCell, CallsIn
  <2>4. CallsIn(r) \subseteq ledgerPending
    BY <2>1 DEF ledgerPending
  <2>5. ledgerPending' = ledgerPending \ CallsIn(r)
    BY <2>1, <2>2, <2>3 DEF ledgerPending
  <2>6. ledgerReported' = ledgerReported \cup CallsIn(r)
    BY <2>1, <2>2 DEF ledgerReported
  <2> QED BY <2>4, <2>5, <2>6 DEF Ledger!Next, Ledger!Report
<1>4. CASE UNCHANGED vars
  BY <1>1, <1>4 DEF vars
<1>5. ASSUME NEW l \in Loggers, NEW k \in Calls, Start(l, k) PROVE UNCHANGED <<content, taken>>
  BY <1>5 DEF Start
<1>6. ASSUME NEW l \in Loggers, Load(l) \/ Enter(l) \/ Retry(l) \/ Finish(l)
      PROVE  UNCHANGED <<content, taken>>
  BY <1>6 DEF Load, Enter, Retry, Finish
<1>7. ASSUME NEW f \in Flushers, Swap(f) \/ Return(f) PROVE UNCHANGED <<content, taken>>
  BY <1>7 DEF Swap, Return
<1> QED BY <1>1, <1>2, <1>3, <1>4, <1>5, <1>6, <1>7 DEF Next, LogStep

(* The resolve logger implements the ledger: each call is recorded once    *)
(* and reported once.                                                      *)
THEOREM RefinesLedger == Spec => ImplementsLedger
<1>1. Init => Ledger!Init
  BY ResolveLoggerAssumption DEF Init, Ledger!Init, ledgerPending, ledgerReported, CallsIn
<1> QED BY InitInv, StepInv, LedgerStep, <1>1, PTL DEF Spec, ImplementsLedger, Ledger!Spec

-----------------------------------------------------------------------------
(* The emitting loop pops a prefix of the pending events.                  *)
LEMMA BatchIsPrefix ==
  ASSUME NEW es \in Seq(Event), NEW j
  PROVE  Batch(es, j) \in 0 .. Len(es) /\ Fits(es, Batch(es, j), j)
<1> DEFINE S == {n \in 0 .. Len(es) : Fits(es, n, j)}
<1>1. Len(es) \in Nat /\ S \in SUBSET (0 .. Len(es)) /\ 0 \in S
  BY DEF Fits
<1>2. Max(S) \in S
  <2> HIDE DEF S
  <2> QED BY <1>1, BoundedMax
<1>3. Max(S) \in 0 .. Len(es) /\ Fits(es, Max(S), j)
  BY <1>2
<1>4. Batch(es, j) = Max(S)
  BY DEF Batch
<1> HIDE DEF S
<1> QED BY <1>3, <1>4

LEMMA Associative ==
  \A u, v, w \in Seq(Event) : (u \o v) \o w = u \o (v \o w)
BY ConcatAssociative, SMTT(30)

(* Cutting a sequence into a sent and a kept part changes nothing between  *)
(* what precedes and what follows it.                                      *)
LEMMA SplitConcat ==
  ASSUME NEW s \in Seq(Event), NEW p \in Seq(Event), NEW q \in Seq(Event), NEW n \in 0 .. Len(p)
  PROVE  (s \o SubSeq(p, 1, n)) \o SubSeq(p, n + 1, Len(p)) \o q = s \o p \o q
<1> DEFINE a == SubSeq(p, 1, n)
           b == SubSeq(p, n + 1, Len(p))
<1>1. /\ a \in Seq(Event) /\ Len(a) = n
      /\ \A k \in 1 .. n : a[k] = p[k]
  BY SubSeqProperties
<1>2. /\ b \in Seq(Event) /\ Len(b) = Len(p) - n
      /\ \A k \in 1 .. Len(p) - n : b[k] = p[k + n]
  BY SubSeqProperties
<1> HIDE DEF a, b
<1>3. a \o b = p
  <2>1. SubSeq(p, 1, n) \o SubSeq(p, n + 1, Len(p)) = SubSeq(p, 1, Len(p))
    <3>1. 1 \in 1 .. Len(p) + 1 /\ n \in 1 - 1 .. Len(p) /\ Len(p) \in n .. Len(p)
      OBVIOUS
    <3> QED BY <3>1, ConcatAdjacentSubSeq
  <2>2. SubSeq(p, 1, Len(p)) = p
    BY SubSeqFull
  <2> QED BY <2>1, <2>2 DEF a, b
<1>4. (s \o a) \o b = s \o (a \o b)
  BY <1>1, <1>2, Associative, ZenonT(30)
<1> QED BY <1>3, <1>4 DEF a, b

(* Moving an event from the head of one sequence to the tail of the one    *)
(* before it does not change their concatenation.                          *)
LEMMA MoveConcat ==
  ASSUME NEW s \in Seq(Event), NEW p \in Seq(Event), NEW q \in Seq(Event), q # <<>>
  PROVE  s \o Append(p, Head(q)) \o Tail(q) = s \o p \o q
<1>0. Append(p, Head(q)) \in Seq(Event)
  OBVIOUS
<1>1. Head(q) \in Event /\ Tail(q) \in Seq(Event) /\ Len(Tail(q)) = Len(q) - 1
      /\ \A k \in 1 .. Len(q) - 1 : Tail(q)[k] = q[k + 1]
  OBVIOUS
<1>2. Append(p, Head(q)) \o Tail(q) = p \o q
  <2> DEFINE u == Append(p, Head(q)) \o Tail(q)
  <2>1. u \in Seq(Event) /\ Len(u) = Len(p) + Len(q)
    BY <1>1
  <2>2. \A k \in 1 .. Len(p) + Len(q) : u[k] = (p \o q)[k]
    BY <1>1
  <2>3. p \o q \in Seq(Event) /\ Len(p \o q) = Len(p) + Len(q)
    OBVIOUS
  <2> QED BY <2>1, <2>2, <2>3, SeqEqual
<1>3. s \o Append(p, Head(q)) \o Tail(q) = s \o (Append(p, Head(q)) \o Tail(q))
  BY <1>0, <1>1, Associative, ZenonT(30)
<1>4. (s \o p) \o q = s \o (p \o q)
  BY Associative, Zenon
<1> QED BY <1>2, <1>3, <1>4

-----------------------------------------------------------------------------
\* InOrder is inductive with the types of the four sequences.
BatchInv ==
  /\ queue \in Seq(Event) /\ pending \in Seq(Event)
  /\ log \in Seq(Event) /\ sent \in Seq(Event)
  /\ InOrder

LEMMA BatchInitInv == BatchInit => BatchInv
BY DEF BatchInit, BatchInv, InOrder

LEMMA BatchStepInv == BatchInv /\ [BatchNext]_batchVars => BatchInv'
<1> SUFFICES ASSUME BatchInv, [BatchNext]_batchVars PROVE BatchInv'
  OBVIOUS
<1>1. ASSUME NEW l \in Lens, Log(l) PROVE BatchInv'
  <2> DEFINE e == [id |-> Len(log) + 1, len |-> l]
  <2>1. e \in Event
    BY <1>1, BatchAssumption DEF Log, Event, BatchInv
  <2>2. /\ queue' = Append(queue, e) /\ log' = Append(log, e)
        /\ UNCHANGED <<pending, sent>>
    BY <1>1 DEF Log
  <2> HIDE DEF e
  <2>3. sent \o pending \o Append(queue, e) = Append(sent \o pending \o queue, e)
    <3>1. sent \o pending \in Seq(Event) /\ queue \in Seq(Event)
      BY DEF BatchInv
    <3>2. ASSUME NEW u \in Seq(Event) PROVE u \o Append(queue, e) = Append(u \o queue, e)
      <4>1. u \o Append(queue, e) \in Seq(Event) /\ Append(u \o queue, e) \in Seq(Event)
        BY <2>1, <3>1
      <4>2. Len(u \o Append(queue, e)) = Len(u) + Len(queue) + 1
            /\ Len(Append(u \o queue, e)) = Len(u) + Len(queue) + 1
        BY <2>1, <3>1
      <4>3. \A k \in 1 .. Len(u) + Len(queue) + 1 :
              (u \o Append(queue, e))[k] = Append(u \o queue, e)[k]
        BY <2>1, <3>1
      <4> QED BY <4>1, <4>2, <4>3, SeqEqual
    <3> QED BY <3>1, <3>2
  <2> QED BY <2>1, <2>2, <2>3 DEF BatchInv, InOrder
<1>2. ASSUME NEW j \in Jobs, Lock(j) PROVE BatchInv'
  BY <1>2 DEF Lock, BatchInv, InOrder
<1>3. ASSUME Pull PROVE BatchInv'
  <2>1. /\ queue # <<>> /\ pending' = Append(pending, Head(queue)) /\ queue' = Tail(queue)
        /\ UNCHANGED <<log, sent>>
    BY <1>3 DEF Pull
  <2>2. Head(queue) \in Event /\ Tail(queue) \in Seq(Event)
    BY <2>1 DEF BatchInv
  <2>3. sent \in Seq(Event) /\ pending \in Seq(Event) /\ queue \in Seq(Event)
    BY DEF BatchInv
  <2>4. sent \o Append(pending, Head(queue)) \o Tail(queue) = sent \o pending \o queue
    BY <2>1, <2>3, MoveConcat
  <2>5. pending' \in Seq(Event) /\ queue' \in Seq(Event) /\ sent' \in Seq(Event) /\ log' \in Seq(Event)
    BY <2>1, <2>2 DEF BatchInv
  <2>6. sent' \o pending' \o queue' = log'
    BY <2>1, <2>4, Zenon DEF BatchInv, InOrder
  <2> QED BY <2>5, <2>6 DEF BatchInv, InOrder
<1>4. ASSUME Emit PROVE BatchInv'
  <2> DEFINE n == Batch(pending, job)
  <2>1. n \in 0 .. Len(pending)
    BY BatchIsPrefix DEF BatchInv
  <2>2. CASE /\ pending' = SubSeq(pending, n + 1, Len(pending))
             /\ sent' = sent \o SubSeq(pending, 1, n)
             /\ UNCHANGED <<queue, log>>
    <3> HIDE DEF n
    <3>0. sent \in Seq(Event) /\ pending \in Seq(Event) /\ queue \in Seq(Event)
      BY DEF BatchInv
    <3>1. SubSeq(pending, n + 1, Len(pending)) \in Seq(Event)
          /\ SubSeq(pending, 1, n) \in Seq(Event)
      BY <2>1, SubSeqProperties DEF BatchInv
    <3>2. (sent \o SubSeq(pending, 1, n)) \o SubSeq(pending, n + 1, Len(pending)) \o queue
            = sent \o pending \o queue
      BY <2>1, <3>0, SplitConcat
    <3>3. sent' \o pending' \o queue' = log'
      BY <2>2, <3>2, Zenon DEF BatchInv, InOrder
    <3>4. sent' \in Seq(Event)
      BY <2>2, <3>0, <3>1
    <3> QED BY <2>2, <3>1, <3>3, <3>4 DEF BatchInv, InOrder
  <2>3. CASE UNCHANGED <<pending, sent, queue, log>>
    BY <2>3 DEF BatchInv, InOrder
  <2> QED BY <1>4, <2>2, <2>3 DEF Emit
<1>5. CASE UNCHANGED batchVars
  BY <1>5 DEF batchVars, BatchInv, InOrder
<1> QED BY <1>1, <1>2, <1>3, <1>4, <1>5 DEF BatchNext

(* Whatever checkpoints do, with whatever limits, every event logged is    *)
(* sent, pending or queued, once, in the order of the log.                 *)
THEOREM OrderKept == BatchSpec => []InOrder
<1>1. BatchInv => InOrder
  BY DEF BatchInv
<1> QED BY BatchInitInv, BatchStepInv, <1>1, PTL DEF BatchSpec

-----------------------------------------------------------------------------
(* The byte count and the limit.                                           *)

BInv == BatchTypeOK /\ PendingBytesExact /\ WithinLimit

LEMMA EventsHaveLengths ==
  HasLengths(Event) /\ \A e \in Event : e.len > 0
<1>1. \A e \in Event : e.len \in Lens
  BY DEF Event
<1>2. \A l \in Lens : l \in Nat /\ l > 0
  BY BatchAssumption
<1> QED BY <1>1, <1>2 DEF HasLengths

LEMMA SumLenIsLenSum == \A es : SumLen(es) = LenSum(es)
BY DEF SumLen, LenSum

LEMMA JobTypes ==
  \A j \in Jobs : j.limit \in Nat /\ j.start \in Nat
BY BatchAssumption DEF Jobs, Filling, OnlyFull, Everything

(* What a checkpoint writes: it fits beside what the request holds, or is  *)
(* one event in an empty request.  A request that is already over its      *)
(* limit has no room, and there is no event without bytes to put there.    *)
LEMMA WrittenFits ==
  ASSUME NEW es \in Seq(Event), NEW j \in Jobs, NEW n \in 1 .. Len(es),
         Fits(es, n, j)
  PROVE  \/ j.start + SumLen(SubSeq(es, 1, n)) <= j.limit
         \/ n = 1 /\ j.start = 0
<1> DEFINE front == SubSeq(es, 1, n)
<1>1. front \in Seq(Event) /\ Len(front) = n /\ front[n] \in Event
  <2>1. \A k \in 1 .. n : es[k] \in Event
    OBVIOUS
  <2>2. front \in Seq(Event) /\ Len(front) = n
    BY <2>1, SubSeqProperties
  <2> QED BY <2>2
<1>2. j.limit \in Nat /\ j.start \in Nat
  BY JobTypes
<1> HIDE DEF front
<1>3. SumLen(front) \in Nat /\ SumLen(front) > 0
  <2>1. LenSum(front) \in Nat /\ LenSum(front) >= front[n].len
    BY <1>1, EventsHaveLengths, LenSumType, LenSumAtLeast
  <2>2. front[n].len \in Nat /\ front[n].len > 0
    BY <1>1, EventsHaveLengths DEF HasLengths
  <2> QED BY <2>1, <2>2, SumLenIsLenSum
<1>4. \/ n = 1 /\ j.start = 0
      \/ SumLen(front) <= SatSub(j.limit, j.start)
  BY DEF Fits, Room, front
<1>5. SumLen(front) <= SatSub(j.limit, j.start) => j.start + SumLen(front) <= j.limit
  BY <1>2, <1>3 DEF SatSub
<1> QED BY <1>4, <1>5 DEF front

LEMMA InitBounds == BatchInit => BInv
<1> SUFFICES ASSUME BatchInit PROVE BInv
  OBVIOUS
<1>1. PendingBytesExact
  BY SumLenIsLenSum, LenSumEmpty DEF BatchInit, PendingBytesExact
<1>2. BatchTypeOK /\ WithinLimit
  BY DEF BatchInit, BatchTypeOK, WithinLimit
<1> QED BY <1>1, <1>2 DEF BInv

LEMMA PullBounds ==
  ASSUME BInv, Pull
  PROVE  BInv'
<1>1. /\ queue # <<>> /\ pending' = Append(pending, Head(queue))
      /\ pending_bytes' = pending_bytes + Head(queue).len
      /\ queue' = Tail(queue)
      /\ UNCHANGED <<job, log, sent, last>>
  BY DEF Pull
<1>2. queue \in Seq(Event) /\ pending \in Seq(Event) /\ pending_bytes \in Nat
      /\ Head(queue) \in Event /\ Tail(queue) \in Seq(Event)
  BY <1>1 DEF BInv, BatchTypeOK
<1>3. Head(queue).len \in Nat
  BY <1>2, EventsHaveLengths DEF HasLengths
<1>4. BatchTypeOK'
  <2>1. pending' \in Seq(Event) /\ queue' \in Seq(Event) /\ pending_bytes' \in Nat
    BY <1>1, <1>2, <1>3
  <2> QED BY <1>1, <2>1 DEF BInv, BatchTypeOK
<1>5. PendingBytesExact'
  <2>1. LenSum(Append(pending, Head(queue))) = LenSum(pending) + Head(queue).len
    BY <1>2, EventsHaveLengths, LenSumAppend
  <2>2. pending_bytes = LenSum(pending)
    BY SumLenIsLenSum DEF BInv, PendingBytesExact
  <2>3. pending_bytes' = LenSum(pending')
    BY <1>1, <2>1, <2>2
  <2> QED BY <2>3, SumLenIsLenSum DEF PendingBytesExact
<1>6. WithinLimit'
  BY <1>1 DEF BInv, WithinLimit
<1> QED BY <1>4, <1>5, <1>6 DEF BInv

LEMMA EmitBounds ==
  ASSUME BInv, Emit
  PROVE  BInv'
<1> DEFINE n == Batch(pending, job)
           front == SubSeq(pending, 1, n)
           back  == SubSeq(pending, n + 1, Len(pending))
<1>0. pending \in Seq(Event) /\ sent \in Seq(Event) /\ pending_bytes \in Nat
      /\ job \in Jobs /\ job' = NoJob /\ UNCHANGED <<queue, log>>
  BY DEF BInv, BatchTypeOK, Emit
<1>1. n \in 0 .. Len(pending) /\ Fits(pending, n, job)
  BY <1>0, BatchIsPrefix
<1>2. \/ /\ pending' = back /\ pending_bytes' = SatSub(pending_bytes, SumLen(front))
         /\ sent' = sent \o front
         /\ last' = [written |-> SumLen(front), count |-> n, job |-> job]
      \/ /\ last' = [written |-> 0, count |-> 0, job |-> job]
         /\ UNCHANGED <<pending, pending_bytes, sent>>
  BY DEF Emit
<1> HIDE DEF n
<1>3. CASE /\ pending' = back /\ pending_bytes' = SatSub(pending_bytes, SumLen(front))
           /\ sent' = sent \o front
           /\ last' = [written |-> SumLen(front), count |-> n, job |-> job]
  <2>1. front \in Seq(Event) /\ back \in Seq(Event)
    <3>1. Len(pending) \in Nat /\ n \in Nat /\ \A k \in 1 .. Len(pending) : pending[k] \in Event
      BY <1>0, <1>1
    <3>2. \A k \in 1 .. n : pending[k] \in Event
      BY <1>1, <3>1
    <3>3. \A k \in n + 1 .. Len(pending) : pending[k] \in Event
      BY <1>1, <3>1
    <3> QED BY <1>0, <1>1, <3>1, <3>2, <3>3, SubSeqProperties
  <2>2. LenSum(pending) = LenSum(front) + LenSum(back)
        /\ LenSum(front) \in 0 .. LenSum(pending)
    BY <1>0, <1>1, EventsHaveLengths, LenSumSplit
  <2>3. SumLen(front) = LenSum(front) /\ SumLen(back) = LenSum(back)
        /\ pending_bytes = LenSum(pending)
        /\ LenSum(front) \in Nat /\ LenSum(back) \in Nat
    <3> HIDE DEF front, back
    <3> QED BY <2>1, SumLenIsLenSum, EventsHaveLengths, LenSumType DEF BInv, PendingBytesExact
  <2>4. WithinLimit'
    <3> SUFFICES ASSUME n > 0
                 PROVE  \/ job.start + SumLen(front) <= job.limit
                        \/ n = 1 /\ job.start = 0
      BY <1>3 DEF WithinLimit
    <3>1. n \in 1 .. Len(pending)
      BY <1>1
    <3> QED BY <1>0, <1>1, <3>1, WrittenFits
  <2> HIDE DEF front, back
  <2>5. SatSub(pending_bytes, SumLen(front)) = SumLen(back)
    BY <2>2, <2>3 DEF SatSub
  <2>6. PendingBytesExact'
    BY <1>3, <2>5 DEF PendingBytesExact
  <2>7. BatchTypeOK'
    <3>1. pending' \in Seq(Event) /\ sent' \in Seq(Event) /\ pending_bytes' \in Nat
      BY <1>0, <1>3, <2>1, <2>3, <2>5
    <3>2. last' \in [written : Nat, count : Nat, job : Jobs \cup {NoJob}]
      BY <1>0, <1>1, <1>3, <2>3
    <3> QED BY <1>0, <3>1, <3>2 DEF BInv, BatchTypeOK
  <2> QED BY <2>4, <2>6, <2>7 DEF BInv
<1>4. CASE /\ last' = [written |-> 0, count |-> 0, job |-> job]
           /\ UNCHANGED <<pending, pending_bytes, sent>>
  <2>1. PendingBytesExact'
    BY <1>4 DEF BInv, PendingBytesExact
  <2>2. WithinLimit'
    BY <1>4 DEF WithinLimit
  <2>3. BatchTypeOK'
    BY <1>0, <1>4 DEF BInv, BatchTypeOK
  <2> QED BY <2>1, <2>2, <2>3 DEF BInv
<1> QED BY <1>2, <1>3, <1>4

LEMMA StepBounds == BInv /\ [BatchNext]_batchVars => BInv'
<1> SUFFICES ASSUME BInv, [BatchNext]_batchVars PROVE BInv'
  OBVIOUS
<1>1. ASSUME NEW l \in Lens, Log(l) PROVE BInv'
  <2> DEFINE e == [id |-> Len(log) + 1, len |-> l]
  <2>1. e \in Event
    BY <1>1, BatchAssumption DEF Log, Event, BInv, BatchTypeOK
  <2>2. /\ queue' = Append(queue, e) /\ log' = Append(log, e)
        /\ UNCHANGED <<pending, pending_bytes, job, sent, last>>
    BY <1>1 DEF Log
  <2> HIDE DEF e
  <2>3. queue' \in Seq(Event) /\ log' \in Seq(Event)
    BY <2>1, <2>2 DEF BInv, BatchTypeOK
  <2> QED BY <2>2, <2>3 DEF BInv, BatchTypeOK, PendingBytesExact, WithinLimit
<1>2. ASSUME NEW j \in Jobs, Lock(j) PROVE BInv'
  BY <1>2 DEF Lock, BInv, BatchTypeOK, PendingBytesExact, WithinLimit
<1>3. CASE UNCHANGED batchVars
  BY <1>3 DEF batchVars, BInv, BatchTypeOK, PendingBytesExact, WithinLimit
<1> QED BY <1>1, <1>2, <1>3, PullBounds, EmitBounds DEF BatchNext

(* The cached byte count is exact after any number of checkpoints, and no  *)
(* request is filled past its limit but by one event that travels alone.   *)
THEOREM BoundsKept == BatchSpec => []BatchBounds
<1>1. BInv => BatchBounds
  BY DEF BInv, BatchBounds
<1> QED BY InitBounds, StepBounds, <1>1, PTL DEF BatchSpec

-----------------------------------------------------------------------------
(* Deferred exposures.                                                     *)

\* A token that holds the assignments of the resolve.
Sealed(t) == t # << >> /\ t[1].payload = ToApply

\* A client shows a flag before it reports it, and a report is sent before it
\* is received: by the client's clock, none of these is later than now.
Reported(m) ==
  /\ Sealed(m.token)
  /\ m.send_time \in Int /\ m.send_time <= now + offset
  /\ \A f \in DOMAIN m.flags : m.flags[f] \in Int /\ m.flags[f] <= m.send_time

Dated(e) ==
  e.of # << >> => /\ e.time \in Int /\ e.of[1].flags[e.flag] \in Int
                  /\ e.of[1].flags[e.flag] - offset <= e.time /\ e.time <= now

ExposureInv ==
  /\ now \in Nat /\ offset \in Int
  /\ token = << >> \/ Sealed(token)
  /\ \A f \in DOMAIN shown : shown[f] \in Int /\ shown[f] <= now + offset
  /\ \A m \in requests : Reported(m)
  /\ \A e \in logged : Dated(e)
  /\ LoggedWhole

LEMMA ExposureInvInit == ExposureInit => ExposureInv
BY ExposureAssumption DEF ExposureInit, ExposureInv, LoggedWhole

\* A report is received.
LEMMA ApplyKeeps ==
  ASSUME ExposureInv, NEW m \in requests, apply_flags(m)
  PROVE  (\A e \in logged' : Dated(e)) /\ LoggedWhole'
<1> DEFINE given == {v \in ToApply : v.flag \in DOMAIN m.flags}
           new == {Entry(v, Adjusted(m, v.flag), <<m>>) : v \in given}
<1>1. Reported(m) /\ now \in Nat /\ offset \in Int
  BY DEF ExposureInv
<1>2. decrypt_resolve_token(m.token, Keys[key]) # << >>
  BY DEF apply_flags
<1>3. decrypt_resolve_token(m.token, Keys[key]) = <<ToApply>>
  BY <1>1, <1>2 DEF decrypt_resolve_token, Reported, Sealed
<1>4. /\ logged' = logged \cup new
      /\ \A f \in DOMAIN m.flags : \E v \in ToApply : v.flag = f
  BY <1>3 DEF apply_flags
<1>5. ASSUME NEW v \in given
      PROVE  LET e == Entry(v, Adjusted(m, v.flag), <<m>>)
             IN  e.flag = v.flag /\ e.of = <<m>> /\ e.flag \in Assigned /\ Dated(e)
  <2> DEFINE t == Adjusted(m, v.flag)
             e == Entry(v, t, <<m>>)
  <2>1. e.flag = v.flag /\ e.of = <<m>> /\ e.time = t /\ v.flag \in DOMAIN m.flags /\ v \in ToApply
    BY DEF Entry
  <2>2. /\ t = now - (m.send_time - m.flags[v.flag])
        /\ m.send_time \in Int /\ m.flags[v.flag] \in Int
        /\ m.send_time <= now + offset /\ m.flags[v.flag] <= m.send_time
    BY <1>1, <2>1 DEF Adjusted, Reported
  <2> HIDE DEF e, t, given
  <2>3. e.of[1].flags[e.flag] = m.flags[v.flag]
    BY <2>1
  <2>4. t \in Int /\ m.flags[v.flag] - offset <= t /\ t <= now
    BY <1>1, <2>2
  <2>5. Dated(e)
    BY <2>1, <2>2, <2>3, <2>4 DEF Dated
  <2>6. e.flag \in Assigned
    BY <2>1 DEF Assigned
  <2> QED BY <2>1, <2>5, <2>6 DEF e, t
<1>6. \A e \in logged : Dated(e)
  BY DEF ExposureInv
<1>7. ASSUME NEW f \in DOMAIN m.flags PROVE \E d \in new : d.flag = f /\ d.of = <<m>>
  <2>1. PICK v \in given : v.flag = f
    BY <1>4
  <2>2. Entry(v, Adjusted(m, v.flag), <<m>>) \in new
    OBVIOUS
  <2> HIDE DEF given, new
  <2> QED BY <1>5, <2>1, <2>2
<1>8. ASSUME NEW e \in new
      PROVE  /\ Dated(e) /\ e.flag \in Assigned /\ e.of = <<m>>
  <2>1. PICK v \in given : e = Entry(v, Adjusted(m, v.flag), <<m>>)
    OBVIOUS
  <2> HIDE DEF given, new
  <2> QED BY <1>5, <2>1
<1> HIDE DEF given, new
<1>9. ASSUME NEW e \in logged'
      PROVE  /\ e.flag \in Assigned
             /\ e.of # << >> => \A f \in DOMAIN e.of[1].flags : \E d \in logged' : d.flag = f /\ d.of = e.of
  <2>1. CASE e \in logged
    BY <1>4, <2>1 DEF ExposureInv, LoggedWhole
  <2>2. CASE e \in new
    BY <1>4, <1>7, <1>8, <2>2
  <2> QED BY <1>4, <2>1, <2>2
<1>10. LoggedWhole'
  BY <1>9 DEF LoggedWhole
<1> QED BY <1>4, <1>6, <1>8, <1>10

LEMMA ExposureInvStep == ExposureInv /\ [ExposureNext]_exposureVars => ExposureInv'
<1> SUFFICES ASSUME ExposureInv, [ExposureNext]_exposureVars PROVE ExposureInv'
  OBVIOUS
<1>1. CASE Tick
  <2>1. /\ now' = now + 1 /\ offset' = offset /\ token' = token /\ shown' = shown
        /\ requests' = requests /\ logged' = logged
    BY <1>1 DEF Tick
  <2>2. \A m \in requests : Reported(m)'
    BY <2>1 DEF Reported, ExposureInv
  <2>3. \A e \in logged : Dated(e)'
    BY <2>1 DEF Dated, ExposureInv
  <2> QED BY <2>1, <2>2, <2>3 DEF ExposureInv, LoggedWhole
<1>2. CASE Redeploy \/ UNCHANGED exposureVars
  <2>1. /\ now' = now /\ offset' = offset /\ token' = token /\ shown' = shown
        /\ requests' = requests /\ logged' = logged
    BY <1>2 DEF Redeploy, exposureVars
  <2> QED BY <2>1 DEF ExposureInv, LoggedWhole, Reported, Dated
<1>3. CASE ResolveApply
  <2> DEFINE new == {Entry(v, now, << >>) : v \in ToApply}
  <2>1. /\ now' = now /\ offset' = offset /\ token' = token /\ shown' = shown
        /\ requests' = requests /\ logged' = logged \cup new
    BY <1>3 DEF ResolveApply
  <2>2. ASSUME NEW e \in new PROVE e.of = << >> /\ e.flag \in Assigned
    <3>1. PICK v \in ToApply : e = Entry(v, now, << >>)
      OBVIOUS
    <3> QED BY <3>1 DEF Entry, Assigned
  <2> HIDE DEF new
  <2>3. LoggedWhole'
    BY <2>1, <2>2 DEF ExposureInv, LoggedWhole
  <2>4. \A e \in logged' : Dated(e)'
    BY <2>1, <2>2 DEF ExposureInv, Dated
  <2> QED BY <2>1, <2>3, <2>4 DEF ExposureInv, Reported
<1>4. CASE ResolveDeferred
  <2>1. /\ now' = now /\ offset' = offset /\ shown' = shown
        /\ requests' = requests /\ logged' = logged
        /\ token' = <<[payload |-> ToApply, key |-> Keys[key]]>>
    BY <1>4 DEF ResolveDeferred, encrypt_resolve_token
  <2>2. Sealed(token)'
    BY <2>1 DEF Sealed
  <2> QED BY <2>1, <2>2 DEF ExposureInv, LoggedWhole, Reported, Dated
<1>5. ASSUME NEW f, Show(f) PROVE ExposureInv'
  <2>1. /\ now' = now /\ offset' = offset /\ token' = token
        /\ requests' = requests /\ logged' = logged
        /\ shown' = [g \in DOMAIN shown \cup {f} |-> IF g = f THEN now + offset ELSE shown[g]]
    BY <1>5 DEF Show
  <2>2. \A g \in DOMAIN shown' : shown'[g] \in Int /\ shown'[g] <= now' + offset'
    BY <2>1 DEF ExposureInv
  <2> QED BY <2>1, <2>2 DEF ExposureInv, LoggedWhole, Reported, Dated
<1>6. CASE Send
  <2> DEFINE m == [token |-> token, send_time |-> now + offset, flags |-> shown]
  <2>1. /\ now' = now /\ offset' = offset /\ token' = token /\ shown' = shown
        /\ requests' = requests \cup {m} /\ logged' = logged /\ token # << >>
    BY <1>6 DEF Send
  <2>2. Reported(m)
    BY <2>1 DEF Reported, ExposureInv
  <2> HIDE DEF m
  <2> QED BY <2>1, <2>2 DEF ExposureInv, LoggedWhole, Reported, Dated
<1>7. ASSUME NEW m \in requests, apply_flags(m) PROVE ExposureInv'
  <2>1. /\ now' = now /\ offset' = offset /\ token' = token /\ shown' = shown /\ requests' = requests
    BY <1>7 DEF apply_flags
  <2>2. (\A e \in logged' : Dated(e)) /\ LoggedWhole'
    BY <1>7, ApplyKeeps
  <2>3. \A e \in logged' : Dated(e)'
    BY <2>1, <2>2 DEF Dated
  <2> QED BY <2>1, <2>2, <2>3 DEF ExposureInv, Reported
<1> QED BY <1>1, <1>2, <1>3, <1>4, <1>5, <1>6, <1>7 DEF ExposureNext

(* Exposures are logged for what was assigned, each report whole or not at *)
(* all, and dated between the showing of the flag and the receipt of the   *)
(* report by the server's clock, whatever the client's clock says, however *)
(* late, often or out of order a report arrives, and whenever the worker   *)
(* is redeployed with another key (apply_flags, decrypt_resolve_token).    *)
THEOREM ExposureCorrect == ExposureSpec => []ExposureSound
<1>1. ExposureInv => ExposureSound
  BY DEF ExposureInv, ExposureSound, DatedRight, Dated
<1> QED BY <1>1, ExposureInvInit, ExposureInvStep, PTL DEF ExposureSpec

-----------------------------------------------------------------------------
(* Aggregation.                                                            *)

\* What a batch may name.
ResolvedValues == UNION {{r.values[i] : i \in DOMAIN r.values} : r \in Resolves}
FallenRules == UNION {{v.fallthrough[i] : i \in DOMAIN v.fallthrough} : v \in ResolvedValues}
FlagNames == {v.flag : v \in ResolvedValues}
RuleNames == {v.rule : v \in ResolvedValues} \cup {x.rule : x \in FallenRules}
IdNames == {v.id : v \in ResolvedValues} \cup {x.id : x \in FallenRules}
VariantNames == {v.variant : v \in ResolvedValues} \cup {NoName}
Applied == UNION {{r.assigned[i] : i \in DOMAIN r.assigned} : r \in Resolves}

\* Counts by name, of a rule, of a flag, and of all flags.
Partial(K, V) == UNION {[D -> V] : D \in SUBSET K}
RuleInfos == [count : Nat, assignments : Partial(IdNames, Nat)]
Infos == [rules : Partial(RuleNames, RuleInfos), variants : Partial(VariantNames, Nat)]
Counters == Partial(FlagNames, Infos)

\* Two flags, or two maps of flags, that agree but for their assignments.
SameCounts(a, b) ==
  /\ a.variants = b.variants
  /\ DOMAIN a.rules = DOMAIN b.rules
  /\ \A r \in DOMAIN a.rules : a.rules[r].count = b.rules[r].count

SameFlags(fs, cs) == DOMAIN fs = DOMAIN cs /\ \A f \in DOMAIN fs : SameCounts(fs[f], cs[f])

LEMMA PartialIs ==
  ASSUME NEW K, NEW V
  PROVE  /\ \A f : f \in Partial(K, V) <=>
                     f = [x \in DOMAIN f |-> f[x]] /\ DOMAIN f \subseteq K /\ \A x \in DOMAIN f : f[x] \in V
         /\ NoEntries \in Partial(K, V) /\ DOMAIN NoEntries = {}
<1>1. ASSUME NEW f, f \in Partial(K, V)
      PROVE  f = [x \in DOMAIN f |-> f[x]] /\ DOMAIN f \subseteq K /\ \A x \in DOMAIN f : f[x] \in V
  <2>1. PICK D \in SUBSET K : f \in [D -> V]
    BY <1>1 DEF Partial
  <2> QED BY <2>1
<1>2. ASSUME NEW f, f = [x \in DOMAIN f |-> f[x]], DOMAIN f \subseteq K, \A x \in DOMAIN f : f[x] \in V
      PROVE  f \in Partial(K, V)
  <2>1. f \in [DOMAIN f -> V]
    BY <1>2
  <2> QED BY <1>2, <2>1 DEF Partial
<1>3. DOMAIN NoEntries = {} /\ NoEntries \in [{} -> V]
  BY DEF NoEntries
<1>4. NoEntries \in Partial(K, V)
  BY <1>3 DEF Partial
<1> QED BY <1>1, <1>2, <1>3, <1>4

LEMMA PutIs ==
  ASSUME NEW f, NEW k, NEW v
  PROVE  /\ DOMAIN Put(f, k, v) = DOMAIN f \cup {k}
         /\ Put(f, k, v)[k] = v
         /\ \A x \in DOMAIN f : x # k => Put(f, k, v)[x] = f[x]
BY DEF Put

LEMMA PutIn ==
  ASSUME NEW K, NEW V, NEW f \in Partial(K, V), NEW k \in K, NEW v \in V
  PROVE  Put(f, k, v) \in Partial(K, V)
<1>1. DOMAIN f \subseteq K /\ \A x \in DOMAIN f : f[x] \in V
  BY PartialIs
<1> DEFINE D == DOMAIN f \cup {k}
<1>2. D \in SUBSET K /\ Put(f, k, v) \in [D -> V]
  BY <1>1 DEF Put
<1> QED BY <1>2 DEF Partial

LEMMA GetIn ==
  ASSUME NEW K, NEW V, NEW f \in Partial(K, V), NEW k, NEW d \in V
  PROVE  Get(f, k, d) \in V
BY PartialIs DEF Get

LEMMA LookupIn ==
  ASSUME NEW K, NEW f \in Partial(K, Nat), NEW k
  PROVE  Lookup0(f, k) \in Nat
BY PartialIs DEF Lookup0

LEMMA NamesIn ==
  /\ NoRuleInfo \in RuleInfos /\ NoInfo \in Infos /\ NoEntries \in Counters
  /\ \A v \in ResolvedValues :
       /\ v.flag \in FlagNames /\ v.rule \in RuleNames /\ v.id \in IdNames
       /\ v.variant \in VariantNames /\ NoName \in VariantNames
  /\ \A x \in FallenRules : x.rule \in RuleNames /\ x.id \in IdNames
<1>1. NoRuleInfo \in RuleInfos
  BY PartialIs DEF NoRuleInfo, RuleInfos
<1>2. NoInfo \in Infos
  BY PartialIs DEF NoInfo, Infos
<1>3. NoEntries \in Counters
  BY PartialIs DEF Counters
<1> QED BY <1>1, <1>2, <1>3 DEF FlagNames, RuleNames, IdNames, VariantNames

\* A rule of a flag that is counted.
LEMMA CountRuleIs ==
  ASSUME NEW info \in Infos, NEW rule \in RuleNames, NEW id \in IdNames
  PROVE  /\ CountRule(info, rule, id) \in Infos
         /\ CountRule(info, rule, id).variants = info.variants
         /\ \E e \in RuleInfos :
              /\ CountRule(info, rule, id).rules = Put(info.rules, rule, e)
              /\ e.count = Get(info.rules, rule, NoRuleInfo).count + 1
<1> DEFINE known == Get(info.rules, rule, NoRuleInfo)
           e == [count |-> known.count + 1, assignments |-> increment(known.assignments, id)]
<1>1. info.rules \in Partial(RuleNames, RuleInfos) /\ info.variants \in Partial(VariantNames, Nat)
  BY DEF Infos
<1>2. known \in RuleInfos
  BY <1>1, NamesIn, GetIn
<1>3. e \in RuleInfos
  <2> HIDE DEF known
  <2>1. known.count \in Nat /\ known.assignments \in Partial(IdNames, Nat)
    BY <1>2 DEF RuleInfos
  <2>2. increment(known.assignments, id) \in Partial(IdNames, Nat)
    <3>1. Lookup0(known.assignments, id) + 1 \in Nat
      BY <2>1, LookupIn
    <3> QED BY <2>1, <3>1, PutIn DEF increment
  <2> QED BY <2>1, <2>2 DEF RuleInfos
<1>4. CountRule(info, rule, id) = [info EXCEPT !.rules = Put(info.rules, rule, e)]
  BY DEF CountRule
<1>5. e.count = known.count + 1
  OBVIOUS
<1> HIDE DEF e, known
<1>6. Put(info.rules, rule, e) \in Partial(RuleNames, RuleInfos)
  BY <1>1, <1>3, PutIn
<1>7. /\ CountRule(info, rule, id) \in Infos
      /\ CountRule(info, rule, id).variants = info.variants
      /\ CountRule(info, rule, id).rules = Put(info.rules, rule, e)
  BY <1>4, <1>6 DEF Infos
<1> QED BY <1>3, <1>5, <1>7 DEF known

\* The subsets of a domain of one.
LEMMA OneIndex == \A S \in SUBSET {1} : S # {} => S = {1} /\ Max(S) = 1 /\ S \ {Max(S)} = {}
<1>1. {1} \in SUBSET (1 .. 1) /\ {1} # {} /\ 1 \in Nat
  OBVIOUS
<1>2. Max({1}) = 1
  BY <1>1, MaxUpTo
<1> QED BY <1>2

LEMMA OneAssignment ==
  ASSUME NEW m, NEW id
  PROVE  AddedTo(m, <<[id |-> id, count |-> 1]>>) = Put(NoEntries, id, Lookup0(m, id) + 1)
<1> DEFINE s == <<[id |-> id, count |-> 1]>>
           D == DOMAIN s
           Op(f, a) == Put(f, a.id, Lookup0(m, a.id) + a.count)
           h == [S \in SUBSET D |-> IF S = {} THEN NoEntries ELSE Op(NoEntries, s[1])]
           X == CHOOSE it : it = [S \in SUBSET D |->
                  IF S = {} THEN NoEntries ELSE Op(it[S \ {Max(S)}], s[Max(S)])]
<1>1. D = {1} /\ s[1].id = id /\ s[1].count = 1
  OBVIOUS
<1>2. h = [S \in SUBSET D |-> IF S = {} THEN NoEntries ELSE Op(h[S \ {Max(S)}], s[Max(S)])]
  <2>1. ASSUME NEW S \in SUBSET D, S # {} PROVE h[S] = Op(h[S \ {Max(S)}], s[Max(S)])
    <3>1. Max(S) = 1 /\ S \ {Max(S)} = {}
      BY <1>1, <2>1, OneIndex
    <3>2. h[{}] = NoEntries /\ h[S] = Op(NoEntries, s[1])
      BY <2>1
    <3> HIDE DEF h, s, Op
    <3> QED BY <3>1, <3>2
  <2>2. h[{}] = NoEntries /\ h = [S \in SUBSET D |-> h[S]]
    OBVIOUS
  <2> HIDE DEF h, D, Op, s
  <2> QED BY <2>1, <2>2
<1>3. X = [S \in SUBSET D |-> IF S = {} THEN NoEntries ELSE Op(X[S \ {Max(S)}], s[Max(S)])]
  <2> HIDE DEF h, D, Op, s
  <2> QED BY <1>2
<1>4. AddedTo(m, s) = X[D]
  BY DEF AddedTo, FoldLeft, MapThenFoldSet
<1>5. X[{}] = NoEntries /\ X[D] = Op(X[{}], s[1])
  <2> HIDE DEF X, Op, s
  <2>1. D \in SUBSET D /\ {} \in SUBSET D /\ D # {}
    BY <1>1
  <2>2. Max(D) = 1 /\ D \ {Max(D)} = {}
    BY <1>1, OneIndex
  <2> HIDE DEF D
  <2> QED BY <1>3, <2>1, <2>2
<1> HIDE DEF X
<1> QED BY <1>1, <1>4, <1>5

\* A rule of a flag that is aggregated.
RuleEntries == {RuleEntry(rule, id) : rule \in RuleNames, id \in IdNames}

LEMMA WithRuleIs ==
  ASSUME NEW info \in Infos, NEW rule \in RuleNames, NEW id \in IdNames
  PROVE  /\ WithRule(info, RuleEntry(rule, id)) \in Infos
         /\ WithRule(info, RuleEntry(rule, id)).variants = info.variants
         /\ \E e \in RuleInfos :
              /\ WithRule(info, RuleEntry(rule, id)).rules = Put(info.rules, rule, e)
              /\ e.count = Get(info.rules, rule, NoRuleInfo).count + 1
<1> DEFINE r == RuleEntry(rule, id)
           known == Get(info.rules, rule, NoRuleInfo)
           counts == Put(NoEntries, id, Lookup0(known.assignments, id) + 1)
           e == [count |-> known.count + 1, assignments |-> counts]
<1>1. info.rules \in Partial(RuleNames, RuleInfos) /\ info.variants \in Partial(VariantNames, Nat)
  BY DEF Infos
<1>2. known \in RuleInfos
  BY <1>1, NamesIn, GetIn
<1>3. e \in RuleInfos
  <2> HIDE DEF known
  <2>1. known.count \in Nat /\ known.assignments \in Partial(IdNames, Nat)
    BY <1>2 DEF RuleInfos
  <2>2. counts \in Partial(IdNames, Nat)
    <3>1. Lookup0(known.assignments, id) + 1 \in Nat /\ NoEntries \in Partial(IdNames, Nat)
      BY <2>1, LookupIn, PartialIs
    <3> QED BY <3>1, PutIn
  <2> HIDE DEF counts
  <2> QED BY <2>1, <2>2 DEF RuleInfos
<1>4. r.rule = rule /\ r.count = 1 /\ r.assignments = <<[id |-> id, count |-> 1]>>
  BY DEF RuleEntry
<1>5. AddedTo(known.assignments, <<[id |-> id, count |-> 1]>>) = counts
  BY OneAssignment
<1>6. WithRule(info, r) = [info EXCEPT !.rules = Put(info.rules, rule, e)]
  <2> HIDE DEF r
  <2>1. WithRule(info, r) =
          [info EXCEPT !.rules = Put(info.rules, r.rule,
             [count |-> known.count + r.count, assignments |-> AddedTo(known.assignments, r.assignments)])]
    BY <1>4 DEF WithRule
  <2> HIDE DEF known, counts
  <2> QED BY <1>4, <1>5, <2>1
<1>7. e.count = known.count + 1
  OBVIOUS
<1> HIDE DEF e, known
<1>8. Put(info.rules, rule, e) \in Partial(RuleNames, RuleInfos)
  BY <1>1, <1>3, PutIn
<1>9. /\ WithRule(info, r) \in Infos
      /\ WithRule(info, r).variants = info.variants
      /\ WithRule(info, r).rules = Put(info.rules, rule, e)
  BY <1>6, <1>8 DEF Infos
<1> QED BY <1>3, <1>7, <1>9 DEF known

\* Counting a rule and aggregating it come to the same count.
LEMMA RuleAlike ==
  ASSUME NEW a \in Infos, NEW b \in Infos, SameCounts(a, b), NEW rule \in RuleNames, NEW id \in IdNames
  PROVE  SameCounts(WithRule(a, RuleEntry(rule, id)), CountRule(b, rule, id))
<1> DEFINE agg == WithRule(a, RuleEntry(rule, id))
           cnt == CountRule(b, rule, id)
<1>1. PICK e \in RuleInfos : agg.rules = Put(a.rules, rule, e) /\ e.count = Get(a.rules, rule, NoRuleInfo).count + 1
  BY WithRuleIs
<1>2. PICK d \in RuleInfos : cnt.rules = Put(b.rules, rule, d) /\ d.count = Get(b.rules, rule, NoRuleInfo).count + 1
  BY CountRuleIs
<1>3. agg.variants = a.variants /\ cnt.variants = b.variants
  BY WithRuleIs, CountRuleIs
<1> HIDE DEF agg, cnt
<1>4. e.count = d.count
  BY <1>1, <1>2 DEF SameCounts, Get
<1>5. SameCounts(agg, cnt)
  <2>1. agg.variants = cnt.variants /\ DOMAIN a.rules = DOMAIN b.rules
    BY <1>3 DEF SameCounts
  <2> DEFINE px == Put(a.rules, rule, e)
             py == Put(b.rules, rule, d)
  <2>a. /\ DOMAIN px = DOMAIN a.rules \cup {rule} /\ px[rule] = e
        /\ \A n \in DOMAIN a.rules : n # rule => px[n] = a.rules[n]
    BY DEF Put
  <2>b. /\ DOMAIN py = DOMAIN b.rules \cup {rule} /\ py[rule] = d
        /\ \A n \in DOMAIN b.rules : n # rule => py[n] = b.rules[n]
    BY DEF Put
  <2>c. agg.rules = px /\ cnt.rules = py
    BY <1>1, <1>2
  <2> HIDE DEF px, py
  <2>2. DOMAIN agg.rules = DOMAIN a.rules \cup {rule} /\ DOMAIN cnt.rules = DOMAIN b.rules \cup {rule}
    BY <2>a, <2>b, <2>c
  <2>3. ASSUME NEW n \in DOMAIN agg.rules PROVE agg.rules[n].count = cnt.rules[n].count
    <3>1. CASE n = rule
      <4>1. agg.rules[n] = e /\ cnt.rules[n] = d
        BY <3>1, <2>a, <2>b, <2>c
      <4> QED BY <4>1, <1>4
    <3>2. CASE n # rule
      <4>1. n \in DOMAIN a.rules /\ n \in DOMAIN b.rules
        BY <2>1, <2>2, <3>2
      <4>2. agg.rules[n] = a.rules[n] /\ cnt.rules[n] = b.rules[n]
        BY <4>1, <3>2, <2>a, <2>b, <2>c
      <4> QED BY <4>1, <4>2 DEF SameCounts
    <3> QED BY <3>1, <3>2
  <2> QED BY <2>1, <2>2, <2>3 DEF SameCounts
<1> QED BY <1>5 DEF agg, cnt

\* Counting and aggregating the rules of a flag, step by step.
CountStep == [p \in Infos \X FallenRules |-> CountRule(p[1], p[2].rule, p[2].id)]
RuleStep == [p \in Infos \X RuleEntries |-> WithRule(p[1], p[2])]

LEMMA CountStepIn == CountStep \in [Infos \X FallenRules -> Infos]
<1> SUFFICES ASSUME NEW p \in Infos \X FallenRules PROVE CountRule(p[1], p[2].rule, p[2].id) \in Infos
  BY DEF CountStep
<1> QED BY CountRuleIs, NamesIn

LEMMA RuleStepIn == RuleStep \in [Infos \X RuleEntries -> Infos]
<1> SUFFICES ASSUME NEW p \in Infos \X RuleEntries PROVE WithRule(p[1], p[2]) \in Infos
  BY DEF RuleStep
<1>1. PICK rule \in RuleNames, id \in IdNames : p[2] = RuleEntry(rule, id)
  BY DEF RuleEntries
<1> QED BY <1>1, WithRuleIs

\* The rules a flag fell through, counted.
CountFell(info, fell) == FoldLeft(LAMBDA f, x : CountRule(f, x.rule, x.id), info, fell)

\* What counting them computes, rule by rule.
LEMMA CountTrace ==
  ASSUME NEW b \in Infos, NEW s \in Seq(FallenRules)
  PROVE  \E g : Traces(g, Infos, CountStep, b, s) /\ CountFell(b, s) = g[Len(s)]
<1> DEFINE D == DOMAIN s
           Op(a, e) == CountRule(a, e.rule, e.id)
           X == CHOOSE it : it = [S \in SUBSET D |->
                  IF S = {} THEN b ELSE Op(it[S \ {Max(S)}], s[Max(S)])]
<1>1. D = 1 .. Len(s) /\ Len(s) \in Nat /\ \A k \in D : s[k] \in FallenRules
  OBVIOUS
<1>a. PICK h, g : Traced(h, g, Infos, CountStep, b, s)
  <2> HIDE DEF D, X, Op
  <2> QED BY CountStepIn, TraceExists
<1>2. /\ FoldFcn(h, Infos, CountStep, b, s, Len(s))
      /\ Traces(g, Infos, CountStep, b, s) /\ g[Len(s)] = h[1 .. Len(s)]
  BY <1>a DEF Traced
<1>3. ASSUME NEW S \in SUBSET D, S # {} PROVE h[S] = Op(h[S \ {Max(S)}], s[Max(S)])
  <2>1. Max(S) \in D
    BY <1>1, <1>3, MaxUpTo
  <2>2. h[S \ {Max(S)}] \in Infos /\ s[Max(S)] \in FallenRules
    BY <1>1, <1>2, <2>1 DEF FoldFcn
  <2>3. h[S] = CountStep[<<h[S \ {Max(S)}], s[Max(S)]>>]
    BY <1>1, <1>2, <1>3 DEF FoldFcn
  <2> HIDE DEF D
  <2> QED BY <2>2, <2>3 DEF CountStep
<1>4. h \in [SUBSET D -> Infos] /\ h[{}] = b
  BY <1>1, <1>2 DEF FoldFcn
<1>5. h = [S \in SUBSET D |-> IF S = {} THEN b ELSE Op(h[S \ {Max(S)}], s[Max(S)])]
  <2> HIDE DEF D, Op
  <2> QED BY <1>3, <1>4
<1>6. X = [S \in SUBSET D |-> IF S = {} THEN b ELSE Op(X[S \ {Max(S)}], s[Max(S)])]
  <2> HIDE DEF D, Op
  <2> QED BY <1>5
<1>7. CountFell(b, s) = X[D]
  BY DEF CountFell, FoldLeft, MapThenFoldSet
<1>8. X[1 .. Len(s)] = h[1 .. Len(s)]
  <2> HIDE DEF X, Op
  <2>1. X[{}] = h[{}]
    BY <1>4, <1>6
  <2>2. ASSUME NEW S \in SUBSET (1 .. Len(s)), S # {}, X[S \ {Max(S)}] = h[S \ {Max(S)}] PROVE X[S] = h[S]
    <3>1. S \in SUBSET D
      BY <1>1
    <3>2. X[S] = Op(X[S \ {Max(S)}], s[Max(S)])
      <4> HIDE DEF D
      <4> QED BY <1>6, <2>2, <3>1
    <3>3. h[S] = Op(h[S \ {Max(S)}], s[Max(S)])
      BY <1>3, <2>2, <3>1
    <3> QED BY <2>2, <3>2, <3>3
  <2> QED BY <1>1, <2>1, <2>2, FoldsAlike
<1> HIDE DEF X
<1> QED BY <1>1, <1>2, <1>7, <1>8

\* What aggregating the rules of a flag computes.
LEMMA RuleTrace ==
  ASSUME NEW b \in Infos, NEW s \in Seq(RuleEntries)
  PROVE  \E g : Traces(g, Infos, RuleStep, b, s) /\ FoldLeft(WithRule, b, s) = g[Len(s)]
<1> DEFINE D == DOMAIN s
           Op(a, e) == WithRule(a, e)
           X == CHOOSE it : it = [S \in SUBSET D |->
                  IF S = {} THEN b ELSE Op(it[S \ {Max(S)}], s[Max(S)])]
<1>1. D = 1 .. Len(s) /\ Len(s) \in Nat /\ \A k \in D : s[k] \in RuleEntries
  OBVIOUS
<1>a. PICK h, g : Traced(h, g, Infos, RuleStep, b, s)
  <2> HIDE DEF D, X, Op
  <2> QED BY RuleStepIn, TraceExists
<1>2. /\ FoldFcn(h, Infos, RuleStep, b, s, Len(s))
      /\ Traces(g, Infos, RuleStep, b, s) /\ g[Len(s)] = h[1 .. Len(s)]
  BY <1>a DEF Traced
<1>3. ASSUME NEW S \in SUBSET D, S # {} PROVE h[S] = Op(h[S \ {Max(S)}], s[Max(S)])
  <2>1. Max(S) \in D
    BY <1>1, <1>3, MaxUpTo
  <2>2. h[S \ {Max(S)}] \in Infos /\ s[Max(S)] \in RuleEntries
    BY <1>1, <1>2, <2>1 DEF FoldFcn
  <2>3. h[S] = RuleStep[<<h[S \ {Max(S)}], s[Max(S)]>>]
    BY <1>1, <1>2, <1>3 DEF FoldFcn
  <2> HIDE DEF D
  <2> QED BY <2>2, <2>3 DEF RuleStep
<1>4. h \in [SUBSET D -> Infos] /\ h[{}] = b
  BY <1>1, <1>2 DEF FoldFcn
<1>5. h = [S \in SUBSET D |-> IF S = {} THEN b ELSE Op(h[S \ {Max(S)}], s[Max(S)])]
  <2> HIDE DEF D, Op
  <2> QED BY <1>3, <1>4
<1>6. X = [S \in SUBSET D |-> IF S = {} THEN b ELSE Op(X[S \ {Max(S)}], s[Max(S)])]
  <2> HIDE DEF D, Op
  <2> QED BY <1>5
<1>7. FoldLeft(WithRule, b, s) = X[D]
  BY DEF FoldLeft, MapThenFoldSet
<1>8. X[1 .. Len(s)] = h[1 .. Len(s)]
  <2> HIDE DEF X, Op
  <2>1. X[{}] = h[{}]
    BY <1>4, <1>6
  <2>2. ASSUME NEW S \in SUBSET (1 .. Len(s)), S # {}, X[S \ {Max(S)}] = h[S \ {Max(S)}] PROVE X[S] = h[S]
    <3>1. S \in SUBSET D
      BY <1>1
    <3>2. X[S] = Op(X[S \ {Max(S)}], s[Max(S)])
      <4> HIDE DEF D
      <4> QED BY <1>6, <2>2, <3>1
    <3>3. h[S] = Op(h[S \ {Max(S)}], s[Max(S)])
      BY <1>3, <2>2, <3>1
    <3> QED BY <2>2, <3>2, <3>3
  <2> QED BY <1>1, <2>1, <2>2, FoldsAlike
<1> HIDE DEF X
<1> QED BY <1>1, <1>2, <1>7, <1>8

LEMMA ListsIn ==
  /\ \A r \in Resolves : r.values \in Seq(ResolvedValues) /\ r.assigned \in Seq(Applied)
  /\ \A v \in ResolvedValues : v.fallthrough \in Seq(FallenRules)
<1>1. ASSUME NEW T, NEW s, Listed(s), \A i \in DOMAIN s : s[i] \in T PROVE s \in Seq(T)
  <2> DEFINE E == {s[i] : i \in DOMAIN s}
  <2>1. s \in Seq(E) /\ E \subseteq T
    BY <1>1 DEF Listed
  <2> HIDE DEF E
  <2> QED BY <2>1
<1>2. ASSUME NEW r \in Resolves PROVE r.values \in Seq(ResolvedValues) /\ r.assigned \in Seq(Applied)
  <2>1. Listed(r.values) /\ Listed(r.assigned)
    BY ResolvesAssumption
  <2>2. /\ \A i \in DOMAIN r.values : r.values[i] \in ResolvedValues
        /\ \A i \in DOMAIN r.assigned : r.assigned[i] \in Applied
    BY DEF ResolvedValues, Applied
  <2> QED BY <2>1, <2>2, <1>1
<1>3. ASSUME NEW v \in ResolvedValues PROVE v.fallthrough \in Seq(FallenRules)
  <2>1. PICK r \in Resolves : \E i \in DOMAIN r.values : v = r.values[i]
    BY DEF ResolvedValues
  <2>2. Listed(v.fallthrough)
    BY <2>1, ResolvesAssumption
  <2>3. \A i \in DOMAIN v.fallthrough : v.fallthrough[i] \in FallenRules
    BY DEF FallenRules
  <2> QED BY <2>2, <2>3, <1>1
<1> QED BY <1>2, <1>3

LEMMA ConcatParts ==
  ASSUME NEW E, NEW p \in Seq(E), NEW q \in Seq(E)
  PROVE  /\ p \o q \in Seq(E) /\ Len(p \o q) = Len(p) + Len(q)
         /\ \A i \in 1 .. Len(p) : (p \o q)[i] = p[i]
         /\ Len(q) = 1 => (p \o q)[Len(p) + 1] = q[1]
<1>1. Len(p) \in Nat /\ Len(q) \in Nat
  OBVIOUS
<1>2. /\ p \o q \in Seq(E) /\ Len(p \o q) = Len(p) + Len(q)
      /\ \A i \in 1 .. Len(p) + Len(q) : (p \o q)[i] = IF i <= Len(p) THEN p[i] ELSE q[i - Len(p)]
  BY ConcatProperties
<1>3. \A i \in 1 .. Len(p) : i \in 1 .. Len(p) + Len(q) /\ i <= Len(p)
  BY <1>1
<1>4. Len(q) = 1 => (p \o q)[Len(p) + 1] = q[1]
  <2> SUFFICES ASSUME Len(q) = 1 PROVE (p \o q)[Len(p) + 1] = q[1]
    OBVIOUS
  <2>1. Len(p) + 1 \in 1 .. Len(p) + Len(q) /\ ~(Len(p) + 1 <= Len(p)) /\ Len(p) + 1 - Len(p) = 1
    BY <1>1
  <2> QED BY <1>2, <2>1
<1> QED BY <1>2, <1>3, <1>4

\* F holds the rules that a resolved flag is logged with.
RulesLogged(v, n, F) ==
  /\ n \in Nat /\ F \in Seq(RuleEntries)
  /\ Len(F) = IF v.rule = NoName THEN n ELSE n + 1
  /\ \A k \in 1 .. n : F[k] = RuleEntry(v.fallthrough[k].rule, v.fallthrough[k].id)
  /\ v.rule # NoName => F[n + 1] = RuleEntry(v.rule, v.id)

LEMMA RulesOf ==
  ASSUME NEW v \in ResolvedValues, NEW n, n = Len(v.fallthrough), NEW F, F = FlagInfo(v).rules
  PROVE  RulesLogged(v, n, F)
<1> DEFINE fell == v.fallthrough
           G == [i \in DOMAIN fell |-> RuleEntry(fell[i].rule, fell[i].id)]
           M == IF v.rule = NoName THEN << >> ELSE <<RuleEntry(v.rule, v.id)>>
<1>1. fell \in Seq(FallenRules)
  BY ListsIn
<1>2. n \in Nat /\ DOMAIN fell = 1 .. n /\ \A i \in 1 .. n : fell[i] \in FallenRules
  <2> HIDE DEF fell
  <2>1. n = Len(fell)
    BY DEF fell
  <2> QED BY <1>1, <2>1
<1>3. \A i \in 1 .. n : RuleEntry(fell[i].rule, fell[i].id) \in RuleEntries
  BY <1>2, NamesIn DEF RuleEntries
<1>4. G \in Seq(RuleEntries) /\ Len(G) = n /\ \A i \in 1 .. n : G[i] = RuleEntry(fell[i].rule, fell[i].id)
  <2>1. G = [i \in 1 .. n |-> RuleEntry(fell[i].rule, fell[i].id)]
    BY <1>2
  <2> HIDE DEF fell
  <2> QED BY <1>2, <1>3, <2>1
<1>5. RuleEntry(v.rule, v.id) \in RuleEntries
  BY NamesIn DEF RuleEntries
<1>6. M \in Seq(RuleEntries) /\ (v.rule = NoName => Len(M) = 0) /\ (v.rule # NoName => Len(M) = 1 /\ M[1] = RuleEntry(v.rule, v.id))
  <2>1. CASE v.rule = NoName
    BY <2>1
  <2>2. CASE v.rule # NoName
    BY <2>2, <1>5
  <2> QED BY <2>1, <2>2
<1>7. F = G \o M
  BY DEF FlagInfo
<1> HIDE DEF G, M
<1>8. /\ F \in Seq(RuleEntries) /\ Len(F) = Len(G) + Len(M)
      /\ \A i \in 1 .. Len(G) : F[i] = G[i]
      /\ Len(M) = 1 => F[Len(G) + 1] = M[1]
  <2>1. G \in Seq(RuleEntries) /\ M \in Seq(RuleEntries)
    BY <1>4, <1>6
  <2>2. /\ G \o M \in Seq(RuleEntries) /\ Len(G \o M) = Len(G) + Len(M)
        /\ \A i \in 1 .. Len(G) : (G \o M)[i] = G[i]
        /\ Len(M) = 1 => (G \o M)[Len(G) + 1] = M[1]
    BY <2>1, ConcatParts
  <2> QED BY <1>7, <2>2, Zenon
<1>9. \A k \in 1 .. n : F[k] = RuleEntry(fell[k].rule, fell[k].id)
  BY <1>4, <1>8
<1>10. v.rule # NoName => F[n + 1] = RuleEntry(v.rule, v.id)
  BY <1>4, <1>6, <1>8
<1>11. Len(F) = IF v.rule = NoName THEN n ELSE n + 1
  <2>1. Len(F) = n + Len(M)
    BY <1>4, <1>8
  <2>2. CASE v.rule = NoName
    BY <1>2, <1>6, <2>1, <2>2
  <2>3. CASE v.rule # NoName
    BY <1>2, <1>6, <2>1, <2>3
  <2> QED BY <2>2, <2>3
<1> QED BY <1>2, <1>8, <1>9, <1>10, <1>11 DEF RulesLogged

\* The rules of a resolved flag, counted or aggregated.
LEMMA RulesAlike ==
  ASSUME NEW a \in Infos, NEW b \in Infos, SameCounts(a, b), NEW v \in ResolvedValues
  PROVE  LET agg == FoldLeft(WithRule, a, FlagInfo(v).rules)
             fell == CountFell(b, v.fallthrough)
             cnt == IF v.rule = NoName THEN fell ELSE CountRule(fell, v.rule, v.id)
         IN  agg \in Infos /\ cnt \in Infos /\ SameCounts(agg, cnt)
<1> DEFINE s == v.fallthrough
           F == FlagInfo(v).rules
           n == Len(s)
<1>1. /\ n \in Nat /\ F \in Seq(RuleEntries) /\ s \in Seq(FallenRules)
      /\ Len(F) = IF v.rule = NoName THEN n ELSE n + 1
      /\ \A k \in 1 .. n : F[k] = RuleEntry(s[k].rule, s[k].id)
      /\ v.rule # NoName => F[n + 1] = RuleEntry(v.rule, v.id)
  <2>1. s \in Seq(FallenRules)
    BY ListsIn
  <2> HIDE DEF F, n
  <2>2. n = Len(v.fallthrough) /\ F = FlagInfo(v).rules
    BY DEF F, n
  <2>3. /\ n \in Nat /\ F \in Seq(RuleEntries)
        /\ Len(F) = IF v.rule = NoName THEN n ELSE n + 1
        /\ \A k \in 1 .. n : F[k] = RuleEntry(v.fallthrough[k].rule, v.fallthrough[k].id)
        /\ v.rule # NoName => F[n + 1] = RuleEntry(v.rule, v.id)
    <3>1. RulesLogged(v, n, F)
      BY <2>2, RulesOf
    <3> QED BY <3>1 DEF RulesLogged
  <2> QED BY <2>1, <2>3
<1> HIDE DEF F, n, s
<1>2. PICK g : Traces(g, Infos, RuleStep, a, F) /\ FoldLeft(WithRule, a, F) = g[Len(F)]
  BY <1>1, RuleTrace
<1>3. PICK h : Traces(h, Infos, CountStep, b, s) /\ CountFell(b, s) = h[Len(s)]
  BY <1>1, CountTrace
<1>4. Len(s) = n /\ n \in 0 .. Len(F) /\ \A k \in 1 .. n : k \in 1 .. Len(F) /\ k - 1 \in 0 .. n /\ s[k] \in FallenRules
  <2>1. Len(s) = n
    BY DEF n
  <2> QED BY <1>1, <2>1
<1>5. /\ g[0] = a /\ h[0] = b
      /\ \A k \in 0 .. n : g[k] \in Infos /\ h[k] \in Infos
      /\ \A k \in 0 .. Len(F) : g[k] \in Infos
  <2>1. \A k \in 0 .. n : k \in 0 .. Len(F)
    BY <1>1, <1>4
  <2> QED BY <1>2, <1>3, <1>4, <2>1 DEF Traces
<1>6. ASSUME NEW k \in 1 .. n, SameCounts(g[k - 1], h[k - 1]) PROVE SameCounts(g[k], h[k])
  <2>1. g[k] = RuleStep[<<g[k - 1], F[k]>>] /\ h[k] = CountStep[<<h[k - 1], s[k]>>]
    BY <1>2, <1>3, <1>4 DEF Traces
  <2>2. g[k - 1] \in Infos /\ h[k - 1] \in Infos /\ s[k] \in FallenRules
    BY <1>4, <1>5
  <2>3. s[k].rule \in RuleNames /\ s[k].id \in IdNames /\ F[k] = RuleEntry(s[k].rule, s[k].id)
    BY <1>1, <2>2, NamesIn
  <2>4. F[k] \in RuleEntries
    BY <2>3 DEF RuleEntries
  <2>5. g[k] = WithRule(g[k - 1], F[k]) /\ h[k] = CountRule(h[k - 1], s[k].rule, s[k].id)
    BY <2>1, <2>2, <2>4 DEF RuleStep, CountStep
  <2>6. SameCounts(WithRule(g[k - 1], RuleEntry(s[k].rule, s[k].id)), CountRule(h[k - 1], s[k].rule, s[k].id))
    BY <1>6, <2>2, <2>3, RuleAlike
  <2> QED BY <2>3, <2>5, <2>6
<1>7. \A k \in 0 .. n : SameCounts(g[k], h[k])
  <2> DEFINE T == {k \in 0 .. n : SameCounts(g[k], h[k])}
  <2>1. 0 \in T
    BY <1>1, <1>5
  <2>2. ASSUME NEW k \in 0 .. n - 1, k \in T PROVE k + 1 \in T
    <3>1. k + 1 \in 1 .. n /\ k + 1 - 1 = k /\ k + 1 \in 0 .. n
      BY <1>1
    <3>2. SameCounts(g[k + 1 - 1], h[k + 1 - 1])
      BY <2>2, <3>1
    <3>3. SameCounts(g[k + 1], h[k + 1])
      BY <1>6, <3>1, <3>2
    <3> QED BY <3>1, <3>3
  <2>3. 0 .. n \subseteq T
    <3> HIDE DEF T
    <3> QED BY <1>1, <2>1, <2>2, RangeInduct
  <2> QED BY <2>3
<1> DEFINE agg == FoldLeft(WithRule, a, F)
           fell == CountFell(b, s)
           cnt == IF v.rule = NoName THEN fell ELSE CountRule(fell, v.rule, v.id)
<1>8. agg = g[Len(F)] /\ fell = h[n]
  BY <1>2, <1>3, <1>4
<1> HIDE DEF agg, fell
<1>9. agg \in Infos /\ fell \in Infos /\ SameCounts(g[n], fell) /\ g[n] \in Infos
  BY <1>1, <1>4, <1>5, <1>7, <1>8
<1>10. CASE v.rule = NoName
  <2>1. agg = g[n] /\ cnt = fell
    BY <1>1, <1>8, <1>10
  <2> QED BY <1>9, <2>1 DEF agg, fell, F, s
<1>11. CASE v.rule # NoName
  <2>1. Len(F) = n + 1 /\ n + 1 \in 1 .. Len(F) /\ F[n + 1] = RuleEntry(v.rule, v.id) /\ n + 1 - 1 = n
    BY <1>1, <1>11
  <2>2. F[n + 1] \in RuleEntries /\ v.rule \in RuleNames /\ v.id \in IdNames
    BY <2>1, NamesIn DEF RuleEntries
  <2>3. agg = RuleStep[<<g[n], F[n + 1]>>]
    <3>1. g[n + 1] = RuleStep[<<g[n], F[n + 1]>>]
      <4>1. \A k \in 1 .. Len(F) : g[k] = RuleStep[<<g[k - 1], F[k]>>]
        BY <1>2 DEF Traces
      <4>2. PICK k \in 1 .. Len(F) : k = n + 1
        BY <2>1
      <4>3. g[k] = RuleStep[<<g[k - 1], F[k]>>]
        BY <4>1
      <4>4. k - 1 = n
        BY <1>1, <4>2
      <4> QED BY ONLY <4>2, <4>3, <4>4
    <3> QED BY <1>8, <2>1, <3>1
  <2>4. agg = WithRule(g[n], RuleEntry(v.rule, v.id))
    BY <1>9, <2>1, <2>2, <2>3 DEF RuleStep
  <2>5. cnt = CountRule(fell, v.rule, v.id)
    BY <1>11
  <2>6. SameCounts(agg, cnt) /\ cnt \in Infos
    BY <1>9, <2>2, <2>4, <2>5, RuleAlike, CountRuleIs
  <2> QED BY <1>9, <2>6 DEF agg, fell, F, s
<1> QED BY <1>10, <1>11

LEMMA OneVariant ==
  ASSUME NEW info, NEW v
  PROVE  FoldLeft(WithVariant, info, <<v>>) = WithVariant(info, v)
<1> DEFINE s == <<v>>
           D == DOMAIN s
           h == [S \in SUBSET D |-> IF S = {} THEN info ELSE WithVariant(info, s[1])]
           X == CHOOSE it : it = [S \in SUBSET D |->
                  IF S = {} THEN info ELSE WithVariant(it[S \ {Max(S)}], s[Max(S)])]
<1>1. D = {1} /\ s[1] = v
  OBVIOUS
<1>2. h = [S \in SUBSET D |-> IF S = {} THEN info ELSE WithVariant(h[S \ {Max(S)}], s[Max(S)])]
  <2>1. ASSUME NEW S \in SUBSET D, S # {} PROVE h[S] = WithVariant(h[S \ {Max(S)}], s[Max(S)])
    <3>1. Max(S) = 1 /\ S \ {Max(S)} = {}
      BY <1>1, <2>1, OneIndex
    <3>2. h[{}] = info /\ h[S] = WithVariant(info, s[1])
      BY <2>1
    <3> HIDE DEF h, s
    <3> QED BY <3>1, <3>2
  <2>2. h[{}] = info /\ h = [S \in SUBSET D |-> h[S]]
    OBVIOUS
  <2> HIDE DEF h, D, s
  <2> QED BY <2>1, <2>2
<1>3. X = [S \in SUBSET D |-> IF S = {} THEN info ELSE WithVariant(X[S \ {Max(S)}], s[Max(S)])]
  <2> HIDE DEF h, D, s
  <2> QED BY <1>2
<1>4. FoldLeft(WithVariant, info, s) = X[D]
  BY DEF FoldLeft, MapThenFoldSet
<1>5. X[{}] = info /\ X[D] = WithVariant(X[{}], s[1])
  <2> HIDE DEF X, s
  <2>1. D \in SUBSET D /\ {} \in SUBSET D /\ D # {}
    BY <1>1
  <2>2. Max(D) = 1 /\ D \ {Max(D)} = {}
    BY <1>1, OneIndex
  <2> HIDE DEF D
  <2> QED BY <1>3, <2>1, <2>2
<1> HIDE DEF X
<1> QED BY <1>1, <1>4, <1>5

\* A resolved flag, counted or aggregated.
LEMMA ValueAlike ==
  ASSUME NEW a \in Infos, NEW b \in Infos, SameCounts(a, b), NEW v \in ResolvedValues
  PROVE  LET agg == update_rule_variant_info(a, FlagInfo(v))
             cnt == CountValue(b, v)
         IN  agg \in Infos /\ cnt \in Infos /\ SameCounts(agg, cnt)
<1> DEFINE fell == CountFell(b, v.fallthrough)
           agg == FoldLeft(WithRule, a, FlagInfo(v).rules)
           cnt == IF v.rule = NoName THEN fell ELSE CountRule(fell, v.rule, v.id)
           name == IF v.rule = NoName THEN NoName ELSE v.variant
           e == [variant |-> name, count |-> 1]
<1>1. agg \in Infos /\ cnt \in Infos /\ SameCounts(agg, cnt)
  BY RulesAlike
<1>2. name \in VariantNames
  BY NamesIn
<1>3. CountValue(b, v) = [cnt EXCEPT !.variants = increment(cnt.variants, name)]
  <2>1. CASE v.rule = NoName
    BY <2>1 DEF CountValue, CountFell
  <2>2. CASE v.rule # NoName
    BY <2>2 DEF CountValue, CountFell
  <2> QED BY <2>1, <2>2
<1>4. update_rule_variant_info(a, FlagInfo(v)) = WithVariant(agg, e)
  <2>1. FlagInfo(v).variants = <<e>>
    BY DEF FlagInfo
  <2> HIDE DEF e, agg
  <2>2. FoldLeft(WithVariant, agg, <<e>>) = WithVariant(agg, e)
    BY OneVariant
  <2>3. update_rule_variant_info(a, FlagInfo(v)) = FoldLeft(WithVariant, agg, FlagInfo(v).variants)
    BY DEF update_rule_variant_info, agg
  <2> QED BY <2>1, <2>2, <2>3
<1>5. e.variant = name /\ e.count = 1
  OBVIOUS
<1> HIDE DEF agg, cnt, name, e
<1>6. WithVariant(agg, e) = [agg EXCEPT !.variants = increment(agg.variants, name)]
  BY <1>5 DEF WithVariant, increment
<1>7. ASSUME NEW i \in Infos
      PROVE  LET j == [i EXCEPT !.variants = increment(i.variants, name)]
             IN  j \in Infos /\ j.variants = increment(i.variants, name) /\ j.rules = i.rules
  <2>1. i.rules \in Partial(RuleNames, RuleInfos) /\ i.variants \in Partial(VariantNames, Nat)
    BY DEF Infos
  <2>2. Lookup0(i.variants, name) + 1 \in Nat
    BY <2>1, LookupIn
  <2>3. increment(i.variants, name) \in Partial(VariantNames, Nat)
    BY <1>2, <2>1, <2>2, PutIn DEF increment
  <2> QED BY <2>1, <2>3 DEF Infos
<1> DEFINE x == [agg EXCEPT !.variants = increment(agg.variants, name)]
           y == [cnt EXCEPT !.variants = increment(cnt.variants, name)]
<1>8. /\ x \in Infos /\ x.variants = increment(agg.variants, name) /\ x.rules = agg.rules
      /\ y \in Infos /\ y.variants = increment(cnt.variants, name) /\ y.rules = cnt.rules
  BY <1>1, <1>7
<1> HIDE DEF x, y
<1>9. SameCounts(x, y)
  BY <1>1, <1>8 DEF SameCounts
<1>10. update_rule_variant_info(a, FlagInfo(v)) = x /\ CountValue(b, v) = y
  BY <1>3, <1>4, <1>6 DEF x, y
<1> QED BY <1>8, <1>9, <1>10

\* A flag of a message, counted or aggregated.
Logged(cs, v) == Put(cs, v.flag, CountValue(Get(cs, v.flag, NoInfo), v))

LEMMA FlagAlike ==
  ASSUME NEW fs \in Counters, NEW cs \in Counters, SameFlags(fs, cs), NEW v \in ResolvedValues
  PROVE  /\ WithFlag(fs, FlagInfo(v)) \in Counters /\ Logged(cs, v) \in Counters
         /\ SameFlags(WithFlag(fs, FlagInfo(v)), Logged(cs, v))
<1> DEFINE a == Get(fs, v.flag, NoInfo)
           b == Get(cs, v.flag, NoInfo)
           x == update_rule_variant_info(a, FlagInfo(v))
           y == CountValue(b, v)
<1>1. a \in Infos /\ b \in Infos
  BY GetIn, NamesIn DEF Counters
<1>2. SameCounts(a, b)
  BY DEF SameFlags, SameCounts, Get
<1> HIDE DEF a, b
<1>3. x \in Infos /\ y \in Infos /\ SameCounts(x, y)
  BY <1>1, <1>2, ValueAlike
<1>4. WithFlag(fs, FlagInfo(v)) = Put(fs, v.flag, x) /\ Logged(cs, v) = Put(cs, v.flag, y)
  <2>1. FlagInfo(v).flag = v.flag
    BY DEF FlagInfo
  <2> QED BY <2>1 DEF WithFlag, Logged, a, b
<1> HIDE DEF x, y
<1>5. v.flag \in FlagNames
  BY NamesIn
<1>6. Put(fs, v.flag, x) \in Counters /\ Put(cs, v.flag, y) \in Counters
  BY <1>3, <1>5, PutIn DEF Counters
<1>7. SameFlags(Put(fs, v.flag, x), Put(cs, v.flag, y))
  <2> DEFINE px == Put(fs, v.flag, x)
             py == Put(cs, v.flag, y)
             f == v.flag
  <2>1. /\ DOMAIN px = DOMAIN fs \cup {f} /\ px[f] = x
        /\ \A n \in DOMAIN fs : n # f => px[n] = fs[n]
    BY DEF Put
  <2>2. /\ DOMAIN py = DOMAIN cs \cup {f} /\ py[f] = y
        /\ \A n \in DOMAIN cs : n # f => py[n] = cs[n]
    BY DEF Put
  <2> HIDE DEF px, py, f
  <2>3. DOMAIN fs = DOMAIN cs /\ \A n \in DOMAIN fs : SameCounts(fs[n], cs[n])
    BY DEF SameFlags
  <2>4. ASSUME NEW n \in DOMAIN px PROVE SameCounts(px[n], py[n])
    <3>1. CASE n = f
      BY <1>3, <2>1, <2>2, <3>1
    <3>2. CASE n # f
      BY <2>1, <2>2, <2>3, <3>2
    <3> QED BY <3>1, <3>2
  <2> QED BY <2>1, <2>2, <2>3, <2>4 DEF SameFlags, px, py
<1> QED BY <1>4, <1>6, <1>7

LEMMA SameFlagsSelf == \A fs : SameFlags(fs, fs)
BY DEF SameFlags, SameCounts

\* Counting and aggregating the flags of a message, step by step.
FlagInfos == {FlagInfo(v) : v \in ResolvedValues}
LoggedStep == [p \in Counters \X ResolvedValues |-> Logged(p[1], p[2])]
FlagStep == [p \in Counters \X FlagInfos |-> WithFlag(p[1], p[2])]

LEMMA LoggedStepIn == LoggedStep \in [Counters \X ResolvedValues -> Counters]
<1> SUFFICES ASSUME NEW p \in Counters \X ResolvedValues PROVE Logged(p[1], p[2]) \in Counters
  BY DEF LoggedStep
<1> QED BY FlagAlike, SameFlagsSelf

LEMMA FlagStepIn == FlagStep \in [Counters \X FlagInfos -> Counters]
<1> SUFFICES ASSUME NEW p \in Counters \X FlagInfos PROVE WithFlag(p[1], p[2]) \in Counters
  BY DEF FlagStep
<1>1. PICK v \in ResolvedValues : p[2] = FlagInfo(v)
  BY DEF FlagInfos
<1> QED BY <1>1, FlagAlike, SameFlagsSelf

\* The flags of a resolve, counted.
LogAll(cs, values) == FoldLeft(LAMBDA f, v : Put(f, v.flag, CountValue(Get(f, v.flag, NoInfo), v)), cs, values)

\* What counting them computes, flag by flag.
LEMMA LoggedTrace ==
  ASSUME NEW b \in Counters, NEW s \in Seq(ResolvedValues)
  PROVE  \E g : Traces(g, Counters, LoggedStep, b, s) /\ LogAll(b, s) = g[Len(s)]
<1> DEFINE D == DOMAIN s
           Op(a, e) == Put(a, e.flag, CountValue(Get(a, e.flag, NoInfo), e))
           X == CHOOSE it : it = [S \in SUBSET D |->
                  IF S = {} THEN b ELSE Op(it[S \ {Max(S)}], s[Max(S)])]
<1>1. D = 1 .. Len(s) /\ Len(s) \in Nat /\ \A k \in D : s[k] \in ResolvedValues
  OBVIOUS
<1>a. PICK h, g : Traced(h, g, Counters, LoggedStep, b, s)
  <2> HIDE DEF D, X, Op
  <2> QED BY LoggedStepIn, TraceExists
<1>2. /\ FoldFcn(h, Counters, LoggedStep, b, s, Len(s))
      /\ Traces(g, Counters, LoggedStep, b, s) /\ g[Len(s)] = h[1 .. Len(s)]
  BY <1>a DEF Traced
<1>3. ASSUME NEW S \in SUBSET D, S # {} PROVE h[S] = Op(h[S \ {Max(S)}], s[Max(S)])
  <2>1. Max(S) \in D
    BY <1>1, <1>3, MaxUpTo
  <2>2. h[S \ {Max(S)}] \in Counters /\ s[Max(S)] \in ResolvedValues
    BY <1>1, <1>2, <2>1 DEF FoldFcn
  <2>3. h[S] = LoggedStep[<<h[S \ {Max(S)}], s[Max(S)]>>]
    BY <1>1, <1>2, <1>3 DEF FoldFcn
  <2> HIDE DEF D
  <2> QED BY <2>2, <2>3 DEF LoggedStep, Logged
<1>4. h \in [SUBSET D -> Counters] /\ h[{}] = b
  BY <1>1, <1>2 DEF FoldFcn
<1>5. h = [S \in SUBSET D |-> IF S = {} THEN b ELSE Op(h[S \ {Max(S)}], s[Max(S)])]
  <2> HIDE DEF D, Op
  <2> QED BY <1>3, <1>4
<1>6. X = [S \in SUBSET D |-> IF S = {} THEN b ELSE Op(X[S \ {Max(S)}], s[Max(S)])]
  <2> HIDE DEF D, Op
  <2> QED BY <1>5
<1>7. LogAll(b, s) = X[D]
  BY DEF LogAll, FoldLeft, MapThenFoldSet
<1>8. X[1 .. Len(s)] = h[1 .. Len(s)]
  <2> HIDE DEF X, Op
  <2>1. X[{}] = h[{}]
    BY <1>4, <1>6
  <2>2. ASSUME NEW S \in SUBSET (1 .. Len(s)), S # {}, X[S \ {Max(S)}] = h[S \ {Max(S)}] PROVE X[S] = h[S]
    <3>1. S \in SUBSET D
      BY <1>1
    <3>2. X[S] = Op(X[S \ {Max(S)}], s[Max(S)])
      <4> HIDE DEF D
      <4> QED BY <1>6, <2>2, <3>1
    <3>3. h[S] = Op(h[S \ {Max(S)}], s[Max(S)])
      BY <1>3, <2>2, <3>1
    <3> QED BY <2>2, <3>2, <3>3
  <2> QED BY <1>1, <2>1, <2>2, FoldsAlike
<1> HIDE DEF X
<1> QED BY <1>1, <1>2, <1>7, <1>8

\* What aggregating the flags of a message computes.
LEMMA FlagTrace ==
  ASSUME NEW b \in Counters, NEW s \in Seq(FlagInfos)
  PROVE  \E g : Traces(g, Counters, FlagStep, b, s) /\ FoldLeft(WithFlag, b, s) = g[Len(s)]
<1> DEFINE D == DOMAIN s
           Op(a, e) == WithFlag(a, e)
           X == CHOOSE it : it = [S \in SUBSET D |->
                  IF S = {} THEN b ELSE Op(it[S \ {Max(S)}], s[Max(S)])]
<1>1. D = 1 .. Len(s) /\ Len(s) \in Nat /\ \A k \in D : s[k] \in FlagInfos
  OBVIOUS
<1>a. PICK h, g : Traced(h, g, Counters, FlagStep, b, s)
  <2> HIDE DEF D, X, Op
  <2> QED BY FlagStepIn, TraceExists
<1>2. /\ FoldFcn(h, Counters, FlagStep, b, s, Len(s))
      /\ Traces(g, Counters, FlagStep, b, s) /\ g[Len(s)] = h[1 .. Len(s)]
  BY <1>a DEF Traced
<1>3. ASSUME NEW S \in SUBSET D, S # {} PROVE h[S] = Op(h[S \ {Max(S)}], s[Max(S)])
  <2>1. Max(S) \in D
    BY <1>1, <1>3, MaxUpTo
  <2>2. h[S \ {Max(S)}] \in Counters /\ s[Max(S)] \in FlagInfos
    BY <1>1, <1>2, <2>1 DEF FoldFcn
  <2>3. h[S] = FlagStep[<<h[S \ {Max(S)}], s[Max(S)]>>]
    BY <1>1, <1>2, <1>3 DEF FoldFcn
  <2> HIDE DEF D
  <2> QED BY <2>2, <2>3 DEF FlagStep
<1>4. h \in [SUBSET D -> Counters] /\ h[{}] = b
  BY <1>1, <1>2 DEF FoldFcn
<1>5. h = [S \in SUBSET D |-> IF S = {} THEN b ELSE Op(h[S \ {Max(S)}], s[Max(S)])]
  <2> HIDE DEF D, Op
  <2> QED BY <1>3, <1>4
<1>6. X = [S \in SUBSET D |-> IF S = {} THEN b ELSE Op(X[S \ {Max(S)}], s[Max(S)])]
  <2> HIDE DEF D, Op
  <2> QED BY <1>5
<1>7. FoldLeft(WithFlag, b, s) = X[D]
  BY DEF FoldLeft, MapThenFoldSet
<1>8. X[1 .. Len(s)] = h[1 .. Len(s)]
  <2> HIDE DEF X, Op
  <2>1. X[{}] = h[{}]
    BY <1>4, <1>6
  <2>2. ASSUME NEW S \in SUBSET (1 .. Len(s)), S # {}, X[S \ {Max(S)}] = h[S \ {Max(S)}] PROVE X[S] = h[S]
    <3>1. S \in SUBSET D
      BY <1>1
    <3>2. X[S] = Op(X[S \ {Max(S)}], s[Max(S)])
      <4> HIDE DEF D
      <4> QED BY <1>6, <2>2, <3>1
    <3>3. h[S] = Op(h[S \ {Max(S)}], s[Max(S)])
      BY <1>3, <2>2, <3>1
    <3> QED BY <2>2, <3>2, <3>3
  <2> QED BY <1>1, <2>1, <2>2, FoldsAlike
<1> HIDE DEF X
<1> QED BY <1>1, <1>2, <1>7, <1>8

\* The flags of a resolve, counted or logged as a message and aggregated.
LEMMA MessageAlike ==
  ASSUME NEW fs \in Counters, NEW cs \in Counters, SameFlags(fs, cs), NEW r \in Resolves
  PROVE  LET agg == FoldLeft(WithFlag, fs, build_resolve_log(r).flags)
             cnt == log_resolve(cs, r)
         IN  agg \in Counters /\ cnt \in Counters /\ SameFlags(agg, cnt)
<1> DEFINE s == r.values
           F == build_resolve_log(r).flags
           n == Len(s)
<1>1. s \in Seq(ResolvedValues) /\ n \in Nat /\ DOMAIN s = 1 .. n /\ \A k \in 1 .. n : s[k] \in ResolvedValues
  <2>1. s \in Seq(ResolvedValues)
    BY ListsIn
  <2> HIDE DEF s
  <2> QED BY <2>1
<1>2. F = [k \in 1 .. n |-> FlagInfo(s[k])]
  <2>1. F = [k \in DOMAIN s |-> FlagInfo(s[k])]
    BY DEF build_resolve_log
  <2> HIDE DEF F, s, n
  <2> QED BY <1>1, <2>1
<1>3. log_resolve(cs, r) = LogAll(cs, s)
  BY DEF log_resolve, LogAll
<1> HIDE DEF F, n, s
<1>4. F \in Seq(FlagInfos) /\ Len(F) = n /\ \A k \in 1 .. n : F[k] = FlagInfo(s[k])
  <2>1. \A k \in 1 .. n : FlagInfo(s[k]) \in FlagInfos
    BY <1>1 DEF FlagInfos
  <2> QED BY <1>1, <1>2, <2>1
<1>5. PICK g : Traces(g, Counters, FlagStep, fs, F) /\ FoldLeft(WithFlag, fs, F) = g[Len(F)]
  BY <1>4, FlagTrace
<1>6. PICK h : Traces(h, Counters, LoggedStep, cs, s) /\ LogAll(cs, s) = h[Len(s)]
  BY <1>1, LoggedTrace
<1>7. Len(s) = n
  BY DEF n
<1>8. /\ g[0] = fs /\ h[0] = cs
      /\ \A k \in 0 .. n : g[k] \in Counters /\ h[k] \in Counters
      /\ \A k \in 1 .. n : g[k] = FlagStep[<<g[k - 1], F[k]>>] /\ h[k] = LoggedStep[<<h[k - 1], s[k]>>]
  BY <1>4, <1>5, <1>6, <1>7 DEF Traces
<1>9. ASSUME NEW k \in 1 .. n, SameFlags(g[k - 1], h[k - 1]) PROVE SameFlags(g[k], h[k])
  <2>1. k - 1 \in 0 .. n
    BY <1>1
  <2>2. g[k - 1] \in Counters /\ h[k - 1] \in Counters /\ s[k] \in ResolvedValues /\ F[k] = FlagInfo(s[k])
    BY <1>1, <1>4, <1>8, <2>1
  <2>3. F[k] \in FlagInfos
    BY <2>2 DEF FlagInfos
  <2>4. g[k] = WithFlag(g[k - 1], F[k]) /\ h[k] = Logged(h[k - 1], s[k])
    BY <1>8, <2>2, <2>3 DEF FlagStep, LoggedStep
  <2>5. SameFlags(WithFlag(g[k - 1], FlagInfo(s[k])), Logged(h[k - 1], s[k]))
    BY <1>9, <2>2, FlagAlike
  <2> QED BY <2>2, <2>4, <2>5
<1>10. SameFlags(g[n], h[n]) /\ n \in 0 .. n
  <2> DEFINE T == {k \in 0 .. n : SameFlags(g[k], h[k])}
  <2>1. 0 \in T
    BY <1>1, <1>8
  <2>2. ASSUME NEW k \in 0 .. n - 1, k \in T PROVE k + 1 \in T
    <3>1. k + 1 \in 1 .. n /\ k + 1 - 1 = k /\ k + 1 \in 0 .. n
      BY <1>1
    <3>2. SameFlags(g[k + 1 - 1], h[k + 1 - 1])
      BY <2>2, <3>1
    <3>3. SameFlags(g[k + 1], h[k + 1])
      BY <1>9, <3>1, <3>2
    <3> QED BY <3>1, <3>3
  <2>3. 0 .. n \subseteq T
    <3> HIDE DEF T
    <3> QED BY <1>1, <2>1, <2>2, RangeInduct
  <2> QED BY <1>1, <2>3
<1> DEFINE agg == FoldLeft(WithFlag, fs, F)
           cnt == log_resolve(cs, r)
<1>11. agg = g[n] /\ cnt = h[n]
  BY <1>3, <1>4, <1>5, <1>6, <1>7
<1> HIDE DEF agg, cnt
<1>12. agg \in Counters /\ cnt \in Counters /\ SameFlags(agg, cnt)
  BY <1>8, <1>10, <1>11
<1> QED BY <1>12 DEF agg, cnt, F

\* The client of a message.
LEMMA OneClient ==
  ASSUME NEW known, NEW c
  PROVE  FoldLeft(WithClient, known, <<c>>) = WithClient(known, c)
<1> DEFINE s == <<c>>
           D == DOMAIN s
           h == [S \in SUBSET D |-> IF S = {} THEN known ELSE WithClient(known, s[1])]
           X == CHOOSE it : it = [S \in SUBSET D |->
                  IF S = {} THEN known ELSE WithClient(it[S \ {Max(S)}], s[Max(S)])]
<1>1. D = {1} /\ s[1] = c
  OBVIOUS
<1>2. h = [S \in SUBSET D |-> IF S = {} THEN known ELSE WithClient(h[S \ {Max(S)}], s[Max(S)])]
  <2>1. ASSUME NEW S \in SUBSET D, S # {} PROVE h[S] = WithClient(h[S \ {Max(S)}], s[Max(S)])
    <3>1. Max(S) = 1 /\ S \ {Max(S)} = {}
      BY <1>1, <2>1, OneIndex
    <3>2. h[{}] = known /\ h[S] = WithClient(known, s[1])
      BY <2>1
    <3> HIDE DEF h, s
    <3> QED BY <3>1, <3>2
  <2>2. h[{}] = known /\ h = [S \in SUBSET D |-> h[S]]
    OBVIOUS
  <2> HIDE DEF h, D, s
  <2> QED BY <2>1, <2>2
<1>3. X = [S \in SUBSET D |-> IF S = {} THEN known ELSE WithClient(X[S \ {Max(S)}], s[Max(S)])]
  <2> HIDE DEF h, D, s
  <2> QED BY <1>2
<1>4. FoldLeft(WithClient, known, s) = X[D]
  BY DEF FoldLeft, MapThenFoldSet
<1>5. X[{}] = known /\ X[D] = WithClient(X[{}], s[1])
  <2> HIDE DEF X, s
  <2>1. D \in SUBSET D /\ {} \in SUBSET D /\ D # {}
    BY <1>1
  <2>2. Max(D) = 1 /\ D \ {Max(D)} = {}
    BY <1>1, OneIndex
  <2> HIDE DEF D
  <2> QED BY <1>3, <2>1, <2>2
<1> HIDE DEF X
<1> QED BY <1>1, <1>4, <1>5

\* The assigned flags of a batch, one resolve after the other.
Joined(b, rs) == FoldLeft(LAMBDA s, r : s \o r.assigned, b, rs)
JoinStep == [p \in Seq(Applied) \X Resolves |-> p[1] \o p[2].assigned]

LEMMA JoinStepIn == JoinStep \in [Seq(Applied) \X Resolves -> Seq(Applied)]
<1> SUFFICES ASSUME NEW p \in Seq(Applied) \X Resolves PROVE p[1] \o p[2].assigned \in Seq(Applied)
  BY DEF JoinStep
<1>1. p[1] \in Seq(Applied) /\ p[2].assigned \in Seq(Applied)
  BY ListsIn
<1> QED BY <1>1, ConcatParts

\* What joining them computes, resolve by resolve.
LEMMA JoinTrace ==
  ASSUME NEW b \in Seq(Applied), NEW s \in Seq(Resolves)
  PROVE  \E g : Traces(g, Seq(Applied), JoinStep, b, s) /\ Joined(b, s) = g[Len(s)]
<1> DEFINE D == DOMAIN s
           Op(a, e) == a \o e.assigned
           X == CHOOSE it : it = [S \in SUBSET D |->
                  IF S = {} THEN b ELSE Op(it[S \ {Max(S)}], s[Max(S)])]
<1>1. D = 1 .. Len(s) /\ Len(s) \in Nat /\ \A k \in D : s[k] \in Resolves
  OBVIOUS
<1>a. PICK h, g : Traced(h, g, Seq(Applied), JoinStep, b, s)
  <2> HIDE DEF D, X, Op
  <2> QED BY JoinStepIn, TraceExists
<1>2. /\ FoldFcn(h, Seq(Applied), JoinStep, b, s, Len(s))
      /\ Traces(g, Seq(Applied), JoinStep, b, s) /\ g[Len(s)] = h[1 .. Len(s)]
  BY <1>a DEF Traced
<1>3. ASSUME NEW S \in SUBSET D, S # {} PROVE h[S] = Op(h[S \ {Max(S)}], s[Max(S)])
  <2>1. Max(S) \in D
    BY <1>1, <1>3, MaxUpTo
  <2>2. h[S \ {Max(S)}] \in Seq(Applied) /\ s[Max(S)] \in Resolves
    BY <1>1, <1>2, <2>1 DEF FoldFcn
  <2>3. h[S] = JoinStep[<<h[S \ {Max(S)}], s[Max(S)]>>]
    BY <1>1, <1>2, <1>3 DEF FoldFcn
  <2> HIDE DEF D
  <2> QED BY <2>2, <2>3 DEF JoinStep
<1>4. h \in [SUBSET D -> Seq(Applied)] /\ h[{}] = b
  BY <1>1, <1>2 DEF FoldFcn
<1>5. h = [S \in SUBSET D |-> IF S = {} THEN b ELSE Op(h[S \ {Max(S)}], s[Max(S)])]
  <2> HIDE DEF D, Op
  <2> QED BY <1>3, <1>4
<1>6. X = [S \in SUBSET D |-> IF S = {} THEN b ELSE Op(X[S \ {Max(S)}], s[Max(S)])]
  <2> HIDE DEF D, Op
  <2> QED BY <1>5
<1>7. Joined(b, s) = X[D]
  BY DEF Joined, FoldLeft, MapThenFoldSet
<1>8. X[1 .. Len(s)] = h[1 .. Len(s)]
  <2> HIDE DEF X, Op
  <2>1. X[{}] = h[{}]
    BY <1>4, <1>6
  <2>2. ASSUME NEW S \in SUBSET (1 .. Len(s)), S # {}, X[S \ {Max(S)}] = h[S \ {Max(S)}] PROVE X[S] = h[S]
    <3>1. S \in SUBSET D
      BY <1>1
    <3>2. X[S] = Op(X[S \ {Max(S)}], s[Max(S)])
      <4> HIDE DEF D
      <4> QED BY <1>6, <2>2, <3>1
    <3>3. h[S] = Op(h[S \ {Max(S)}], s[Max(S)])
      BY <1>3, <2>2, <3>1
    <3> QED BY <2>2, <3>2, <3>3
  <2> QED BY <1>1, <2>1, <2>2, FoldsAlike
<1> HIDE DEF X
<1> QED BY <1>1, <1>2, <1>7, <1>8

LEMMA JoinedAppend ==
  ASSUME NEW rs \in Seq(Resolves), NEW r \in Resolves
  PROVE  Joined(<< >>, Append(rs, r)) = Joined(<< >>, rs) \o r.assigned
<1> DEFINE m == Len(rs)
           ts == Append(rs, r)
<1>1. m \in Nat /\ ts \in Seq(Resolves) /\ Len(ts) = m + 1 /\ ts[m + 1] = r /\ \A k \in 1 .. m : ts[k] = rs[k]
  OBVIOUS
<1>2. << >> \in Seq(Applied)
  OBVIOUS
<1> HIDE DEF ts
<1>3. PICK g : Traces(g, Seq(Applied), JoinStep, << >>, rs) /\ Joined(<< >>, rs) = g[Len(rs)]
  BY <1>2, JoinTrace
<1>4. PICK h : Traces(h, Seq(Applied), JoinStep, << >>, ts) /\ Joined(<< >>, ts) = h[Len(ts)]
  BY <1>1, <1>2, JoinTrace
<1>5. /\ g[0] = << >> /\ h[0] = << >>
      /\ \A k \in 1 .. m : g[k] = JoinStep[<<g[k - 1], rs[k]>>]
      /\ \A k \in 1 .. m + 1 : h[k] = JoinStep[<<h[k - 1], ts[k]>>]
      /\ \A k \in 0 .. m : g[k] \in Seq(Applied)
  BY <1>1, <1>3, <1>4 DEF Traces
<1> HIDE DEF m
<1>6. g[m] = h[m]
  <2> DEFINE T == {k \in 0 .. m : g[k] = h[k]}
  <2>1. 0 \in T
    BY <1>1, <1>5
  <2>2. ASSUME NEW k \in 0 .. m - 1, k \in T PROVE k + 1 \in T
    <3>1. k + 1 \in 1 .. m /\ k + 1 - 1 = k /\ k + 1 \in 0 .. m /\ k + 1 \in 1 .. m + 1
      BY <1>1
    <3>2. g[k] = h[k]
      BY <2>2
    <3>3. g[k + 1] = JoinStep[<<g[k + 1 - 1], rs[k + 1]>>] /\ h[k + 1] = JoinStep[<<h[k + 1 - 1], ts[k + 1]>>]
      BY <1>5, <3>1
    <3>4. ts[k + 1] = rs[k + 1]
      BY <1>1, <3>1
    <3> QED BY <3>1, <3>2, <3>3, <3>4
  <2>3. 0 .. m \subseteq T
    <3> HIDE DEF T
    <3> QED BY <1>1, <2>1, <2>2, RangeInduct
  <2>4. m \in 0 .. m
    BY <1>1
  <2> QED BY <2>3, <2>4
<1>7. h[m + 1] = g[m] \o r.assigned
  <2>1. m + 1 \in 1 .. m + 1 /\ m + 1 - 1 = m /\ m \in 0 .. m
    BY <1>1
  <2>2. h[m + 1] = JoinStep[<<h[m + 1 - 1], ts[m + 1]>>]
    BY <1>5, <2>1
  <2>3. h[m + 1] = JoinStep[<<g[m], r>>]
    BY <1>1, <1>6, <2>1, <2>2
  <2>4. g[m] \in Seq(Applied)
    BY <1>5, <2>1
  <2> QED BY <2>3, <2>4 DEF JoinStep
<1>8. Joined(<< >>, rs) = g[m] /\ Joined(<< >>, ts) = h[m + 1]
  BY <1>1, <1>3, <1>4 DEF m
<1> QED BY <1>7, <1>8 DEF ts

\* The counters and the aggregate agree after every resolve, and of each the
\* schema is known of its client.
SchemasKept ==
  \A i \in DOMAIN batch :
    batch[i].credential \in DOMAIN schemas /\ batch[i].schema \in schemas[batch[i].credential]

AggInv ==
  /\ batch \in Seq(Resolves)
  /\ flags \in Counters /\ counters \in Counters /\ SameFlags(flags, counters)
  /\ assigned = Joined(<< >>, batch)
  /\ SchemasKept

LEMMA AggInvInit == AggInit => AggInv
<1> SUFFICES ASSUME AggInit PROVE AggInv
  OBVIOUS
<1>1. batch = << >> /\ counters = NoEntries /\ flags = NoEntries /\ assigned = << >>
  BY DEF AggInit
<1>2. Joined(<< >>, << >>) = << >>
  <2>1. << >> \in Seq(Applied) /\ << >> \in Seq(Resolves) /\ Len(<< >>) = 0
    OBVIOUS
  <2>2. PICK g : Traces(g, Seq(Applied), JoinStep, << >>, << >>) /\ Joined(<< >>, << >>) = g[Len(<< >>)]
    BY <2>1, JoinTrace
  <2> QED BY <2>1, <2>2 DEF Traces
<1>3. batch \in Seq(Resolves) /\ SchemasKept
  BY <1>1 DEF SchemasKept
<1>4. flags \in Counters /\ counters \in Counters /\ SameFlags(flags, counters)
  BY <1>1, NamesIn, SameFlagsSelf
<1> QED BY <1>1, <1>2, <1>3, <1>4 DEF AggInv

LEMMA AggInvStep == AggInv /\ [AggNext]_aggVars => AggInv'
<1> SUFFICES ASSUME AggInv, [AggNext]_aggVars PROVE AggInv'
  OBVIOUS
<1>1. CASE UNCHANGED aggVars
  BY <1>1 DEF AggInv, SchemasKept, aggVars
<1>2. CASE AggNext
  <2>1. PICK r \in Resolves :
          /\ batch' = Append(batch, r)
          /\ counters' = log_resolve(counters, r)
          /\ aggregate_batch(build_resolve_log(r))
    BY <1>2 DEF AggNext
  <2> DEFINE m == build_resolve_log(r)
             c == [credential |-> r.credential, schemas |-> {r.schema}]
  <2>2. m.clients = <<c>> /\ m.assigned = r.assigned
    BY DEF build_resolve_log
  <2>3. /\ flags' = FoldLeft(WithFlag, flags, m.flags)
        /\ assigned' = assigned \o m.assigned
        /\ schemas' = FoldLeft(WithClient, schemas, m.clients)
    BY <2>1 DEF aggregate_batch
  <2>4. batch \in Seq(Resolves) /\ flags \in Counters /\ counters \in Counters /\ SameFlags(flags, counters)
    BY DEF AggInv
  <2>5. batch' \in Seq(Resolves)
    BY <2>1, <2>4
  <2>6. flags' \in Counters /\ counters' \in Counters /\ SameFlags(flags', counters')
    BY <2>1, <2>3, <2>4, MessageAlike
  <2>7. assigned' = Joined(<< >>, batch')
    <3>1. assigned = Joined(<< >>, batch) /\ Joined(<< >>, Append(batch, r)) = Joined(<< >>, batch) \o r.assigned
      BY <2>4, JoinedAppend DEF AggInv
    <3> HIDE DEF m
    <3> QED BY <2>1, <2>2, <2>3, <3>1
  <2>8. SchemasKept'
    <3>1. schemas' = WithClient(schemas, c)
      <4>1. FoldLeft(WithClient, schemas, <<c>>) = WithClient(schemas, c)
        BY OneClient
      <4> HIDE DEF m, c
      <4> QED BY <2>2, <2>3, <4>1
    <3>2. c.credential = r.credential /\ c.schemas = {r.schema}
      OBVIOUS
    <3>3. /\ DOMAIN schemas' = DOMAIN schemas \cup {r.credential}
          /\ schemas'[r.credential] = {r.schema} \cup Get(schemas, r.credential, {})
          /\ \A k \in DOMAIN schemas : k # r.credential => schemas'[k] = schemas[k]
      <4> HIDE DEF c
      <4> QED BY <3>1, <3>2 DEF WithClient, Put
    <3>4. r.schema \in schemas'[r.credential]
          /\ (r.credential \in DOMAIN schemas => schemas[r.credential] \subseteq schemas'[r.credential])
      BY <3>3 DEF Get
    <3>5. ASSUME NEW i \in DOMAIN batch'
          PROVE  batch'[i].credential \in DOMAIN schemas' /\ batch'[i].schema \in schemas'[batch'[i].credential]
      <4>1. CASE i \in DOMAIN batch
        <5>1. batch'[i] = batch[i]
          BY <2>1, <2>4, <4>1
        <5>2. batch[i].credential \in DOMAIN schemas /\ batch[i].schema \in schemas[batch[i].credential]
          BY <4>1 DEF AggInv, SchemasKept
        <5> QED BY <3>3, <3>4, <5>1, <5>2
      <4>2. CASE i \notin DOMAIN batch
        <5>1. batch'[i] = r
          BY <2>1, <2>4, <4>2
        <5> QED BY <3>3, <3>4, <5>1
      <4> QED BY <4>1, <4>2
    <3> QED BY <3>5 DEF SchemasKept
  <2> QED BY <2>5, <2>6, <2>7, <2>8 DEF AggInv
<1> QED BY <1>1, <1>2

(* Whether resolves are counted in the resolve logger (log_resolve) or     *)
(* logged one by one and aggregated (build_resolve_log, aggregate_batch),  *)
(* the counts by flag, rule and variant are the same, for every batch and  *)
(* every list of flags and rules fallen through; the assignments and the   *)
(* schemas of every client are kept.                                       *)
THEOREM LoggersCorrect == AggSpec => []LoggersAgree
<1>1. AggInv => LoggersAgree
  <2> SUFFICES ASSUME AggInv PROVE LoggersAgree
    OBVIOUS
  <2>1. assigned = FoldLeft(LAMBDA s, r : s \o r.assigned, << >>, batch)
    BY DEF AggInv, Joined
  <2>2. \A i \in DOMAIN batch : batch[i].schema \in schemas[batch[i].credential]
    BY DEF AggInv, SchemasKept
  <2>3. SameFlags(flags, counters)
    BY DEF AggInv
  <2> QED BY <2>1, <2>2, <2>3 DEF LoggersAgree, SameFlags, SameCounts
<1> QED BY <1>1, AggInvInit, AggInvStep, PTL DEF AggSpec

=============================================================================
