--------------------------- MODULE ResolveLogger ----------------------------
(***************************************************************************)
(* The lock-free resolve log (confidence-resolver/src/resolve_logger.rs):  *)
(* an ArcSwap points at the current cell, an RwLock<Option<State>>.        *)
(* log_resolve loads the cell, try_reads it and updates its counters one   *)
(* by one; checkpoint swaps in a fresh cell, write-locks the old one,      *)
(* takes its state (leaving None) and builds the report under the lock.    *)
(*                                                                         *)
(* A call's updates (a schema sample, variant, rule and assignment counts  *)
(* per flag) are separate atomic steps: Parts.  What a cell holds is       *)
(* modelled as the set of <<call, part>> applied to it.                    *)
(***************************************************************************)
EXTENDS Integers, FiniteSets

CONSTANTS
  Loggers,      \* threads that call log_resolve
  Flushers,     \* threads that call checkpoint
  Calls,        \* the calls of log_resolve in one behaviour
  Parts,        \* the counter updates one call makes
  MaxCells,     \* bound: cells created in one behaviour
  NoCall        \* a logger between calls

ASSUME ResolveLoggerAssumption ==
  /\ MaxCells \in Nat \ {0}
  /\ NoCall \notin Calls
  /\ Parts # {}

VARIABLES
  cur,          \* ResolveLogger.state: the current cell
  content,      \* what was applied to each cell
  taken,        \* the cell's Option is None
  lpc, call, lref, todo,  \* loggers: step, call, cell loaded, parts left
  fpc, fref,    \* flushers: step, cell swapped out
  done,         \* history: calls of log_resolve that returned
  before        \* history: the calls that had returned when a checkpoint began

vars == <<cur, content, taken, lpc, call, lref, todo, fpc, fref, done, before>>

Cells == 1 .. MaxCells

(***************************************************************************)
(* Loggers: "load" about to load_full, "loaded" about to try_read,         *)
(* "reading" inside f with the read lock.                                  *)
(* Flushers: "swapped" waiting for the write lock, "writing" holding it.   *)
(***************************************************************************)
LoggerPCs  == {"idle", "load", "loaded", "reading"}
FlusherPCs == {"idle", "swapped", "writing"}

\* Mutant: there is no cell before the first checkpoint.
Init_NoCell ==
  /\ cur = 0
  /\ content = [c \in Cells |-> {}]
  /\ taken = [c \in Cells |-> FALSE]
  /\ lpc = [l \in Loggers |-> "idle"]
  /\ call = [l \in Loggers |-> NoCall]
  /\ lref = [l \in Loggers |-> 1]
  /\ todo = [l \in Loggers |-> {}]
  /\ fpc = [f \in Flushers |-> "idle"]
  /\ fref = [f \in Flushers |-> 1]
  /\ done = {}
  /\ before = [f \in Flushers |-> {}]

Init ==
  /\ cur = 1
  /\ content = [c \in Cells |-> {}]
  /\ taken = [c \in Cells |-> FALSE]
  /\ lpc = [l \in Loggers |-> "idle"]
  /\ call = [l \in Loggers |-> NoCall]
  /\ lref = [l \in Loggers |-> 1]
  /\ todo = [l \in Loggers |-> {}]
  /\ fpc = [f \in Flushers |-> "idle"]
  /\ fref = [f \in Flushers |-> 1]
  /\ done = {}
  /\ before = [f \in Flushers |-> {}]

loggerVars  == <<lpc, call, lref, todo, done>>
flusherVars == <<fpc, fref, before>>

Readers(c) == {l \in Loggers : lpc[l] = "reading" /\ lref[l] = c}
Writers(c) == {f \in Flushers : fpc[f] = "writing" /\ fref[f] = c}
Waiters(c) == {f \in Flushers : fpc[f] = "swapped" /\ fref[f] = c}

-----------------------------------------------------------------------------
(* log_resolve                                                             *)

Start(l, k) ==
  /\ lpc[l] = "idle"
  /\ k \notin done /\ \A m \in Loggers : call[m] # k
  /\ lpc' = [lpc EXCEPT ![l] = "load"]
  /\ call' = [call EXCEPT ![l] = k]
  /\ UNCHANGED <<cur, content, taken, lref, todo, done, flusherVars>>

Load(l) ==
  /\ lpc[l] = "load"
  /\ lref' = [lref EXCEPT ![l] = cur]
  /\ lpc' = [lpc EXCEPT ![l] = "loaded"]
  /\ UNCHANGED <<cur, content, taken, call, todo, done, flusherVars>>

\* try_read succeeds on a cell that still has its state.
Enter(l) ==
  /\ lpc[l] = "loaded" /\ Writers(lref[l]) = {} /\ ~taken[lref[l]]
  /\ lpc' = [lpc EXCEPT ![l] = "reading"]
  /\ todo' = [todo EXCEPT ![l] = Parts]
  /\ UNCHANGED <<cur, content, taken, call, lref, done, flusherVars>>

\* try_read fails, which it does while a writer holds the lock and may do
\* while one waits for it, or it succeeds and finds None: load again.
Retry(l) ==
  /\ lpc[l] = "loaded"
  /\ Writers(lref[l]) # {} \/ Waiters(lref[l]) # {} \/ taken[lref[l]]
  /\ lpc' = [lpc EXCEPT ![l] = "load"]
  /\ UNCHANGED <<cur, content, taken, call, lref, todo, done, flusherVars>>

Apply(l, p) ==
  /\ lpc[l] = "reading" /\ p \in todo[l]
  /\ content' = [content EXCEPT ![lref[l]] = @ \cup {<<call[l], p>>}]
  /\ todo' = [todo EXCEPT ![l] = @ \ {p}]
  /\ UNCHANGED <<cur, taken, lpc, call, lref, done, flusherVars>>

\* Mutant: a call may return without having recorded anything.
Finish_Skips(l) ==
  /\ lpc[l] = "reading" /\ todo[l] \in {{}, Parts}
  /\ done' = done \cup {call[l]}
  /\ lpc' = [lpc EXCEPT ![l] = "idle"]
  /\ call' = [call EXCEPT ![l] = NoCall]
  /\ UNCHANGED <<cur, content, taken, lref, todo, flusherVars>>

\* Mutant: the loop is not left once the call is recorded.
Finish_NoBreak(l) ==
  /\ lpc[l] = "reading" /\ todo[l] = {}
  /\ done' = done \cup {call[l]}
  /\ lpc' = [lpc EXCEPT ![l] = "load"]
  /\ UNCHANGED <<cur, content, taken, call, lref, todo, flusherVars>>

\* f returns: the read lock is released and the loop ends.
Finish(l) ==
  /\ lpc[l] = "reading" /\ todo[l] = {}
  /\ done' = done \cup {call[l]}
  /\ lpc' = [lpc EXCEPT ![l] = "idle"]
  /\ call' = [call EXCEPT ![l] = NoCall]
  /\ UNCHANGED <<cur, content, taken, lref, todo, flusherVars>>

-----------------------------------------------------------------------------
(* checkpoint                                                              *)

\* Mutant: the old cell stays current until its state has been taken.
Swap_Later(f) ==
  /\ fpc[f] = "idle" /\ cur < MaxCells
  /\ fpc' = [fpc EXCEPT ![f] = "swapped"]
  /\ fref' = [fref EXCEPT ![f] = cur]
  /\ before' = [before EXCEPT ![f] = done]
  /\ UNCHANGED <<cur, content, taken, loggerVars>>

Swap(f) ==
  /\ fpc[f] = "idle" /\ cur < MaxCells
  /\ cur' = cur + 1
  /\ fpc' = [fpc EXCEPT ![f] = "swapped"]
  /\ fref' = [fref EXCEPT ![f] = cur]
  /\ before' = [before EXCEPT ![f] = done]
  /\ UNCHANGED <<content, taken, loggerVars>>

\* Mutant: the state is taken without waiting for the readers.
Take_NoLock(f) ==
  /\ fpc[f] = "swapped"
  /\ taken' = [taken EXCEPT ![fref[f]] = TRUE]
  /\ fpc' = [fpc EXCEPT ![f] = "writing"]
  /\ UNCHANGED <<cur, content, loggerVars, fref, before>>

\* The write lock is granted; the state is taken and the report is built.
Take(f) ==
  /\ fpc[f] = "swapped" /\ Readers(fref[f]) = {} /\ Writers(fref[f]) = {}
  /\ taken' = [taken EXCEPT ![fref[f]] = TRUE]
  /\ fpc' = [fpc EXCEPT ![f] = "writing"]
  /\ UNCHANGED <<cur, content, loggerVars, fref, before>>

\* The report is returned and the write lock released.
Return(f) ==
  /\ fpc[f] = "writing"
  /\ fpc' = [fpc EXCEPT ![f] = "idle"]
  /\ UNCHANGED <<cur, content, taken, loggerVars, fref, before>>

-----------------------------------------------------------------------------
LogStep(l) == Load(l) \/ Enter(l) \/ Retry(l) \/ Finish(l) \/ \E p \in Parts : Apply(l, p)

Next ==
  \/ \E l \in Loggers : LogStep(l) \/ \E k \in Calls : Start(l, k)
  \/ \E f \in Flushers : Swap(f) \/ Take(f) \/ Return(f)

Spec == Init /\ [][Next]_vars

(***************************************************************************)
(* Fairness: the scheduler runs every thread that is inside a call, and    *)
(* the RwLock does not ignore a waiting writer for ever.  No call need     *)
(* begin.                                                                  *)
(***************************************************************************)
FairSpec ==
  /\ Spec
  /\ \A l \in Loggers : WF_vars(LogStep(l))
  /\ \A f \in Flushers : WF_vars(Take(f) \/ Return(f))

-----------------------------------------------------------------------------
CallsIn(c) == {k \in Calls : \A p \in Parts : <<k, p>> \in content[c]}

(* Every variable keeps its type.                                          *)
TypeOK ==
  /\ cur \in Cells
  /\ content \in [Cells -> SUBSET (Calls \X Parts)]
  /\ taken \in [Cells -> BOOLEAN]
  /\ lpc \in [Loggers -> LoggerPCs]
  /\ call \in [Loggers -> Calls \cup {NoCall}]
  /\ lref \in [Loggers -> Cells]
  /\ todo \in [Loggers -> SUBSET Parts]
  /\ fpc \in [Flushers -> FlusherPCs]
  /\ fref \in [Flushers -> Cells]
  /\ done \in SUBSET Calls
  /\ before \in [Flushers -> SUBSET Calls]

(* A report shows a resolve entirely or not at all: its schema, variant,   *)
(* rule and assignment counts are never split over two checkpoints and     *)
(* never written into a cell that was already reported.                    *)
WholeCalls ==
  \A c \in Cells : taken[c] =>
    \A k \in Calls, p \in Parts : <<k, p>> \in content[c] => k \in CallsIn(c)

(* No resolve is split over two reports, and none is logged after its      *)
(* state was released.                                                     *)
CallsWhole == TypeOK /\ WholeCalls

(* A checkpoint misses nothing: every log_resolve that had returned before *)
(* it began has been reported by now, or is in a cell that a concurrent    *)
(* checkpoint has swapped out and is still to take.                        *)
CheckpointCovers ==
  \A f \in Flushers : fpc[f] = "writing" =>
    \A k \in before[f] : \E c \in Cells :
      /\ k \in CallsIn(c)
      /\ taken[c] \/ Waiters(c) # {}

(* with_state's loop never spins on one state: whenever it retries, the    *)
(* cell it looked at is no longer the current one.                         *)
RetrySeesNewState ==
  [][ \A l \in Loggers : Retry(l) => cur # lref[l] ]_vars

(* The calls recorded and reported, seen as a ledger: one recording and    *)
(* one report per call, however loggers and checkpoints interleave.        *)
ledgerPending  == UNION {CallsIn(c) : c \in {d \in Cells : ~taken[d]}}
ledgerReported == UNION {CallsIn(c) : c \in {d \in Cells : taken[d]}}

Ledger == INSTANCE LogLedger WITH pending <- ledgerPending, reported <- ledgerReported

(* The resolve logger implements the ledger.                               *)
ImplementsLedger == Ledger!Spec

(* What ties cells to flushers: exactly the cells behind the current one   *)
(* are taken or waited for, each by its own checkpoint, and nobody logs    *)
(* into a cell that is taken.                                              *)
Locks ==
  /\ \A f \in Flushers : fpc[f] # "idle" => fref[f] < cur
  /\ \A f \in Flushers : fpc[f] = "swapped" => ~taken[fref[f]]
  /\ \A f, g \in Flushers :
       fpc[f] = "swapped" /\ fpc[g] = "swapped" /\ fref[f] = fref[g] => f = g
  /\ \A c \in Cells : c < cur <=> taken[c] \/ Waiters(c) # {}
  /\ \A l \in Loggers : lref[l] <= cur
  /\ \A l \in Loggers : lpc[l] = "reading" => ~taken[lref[l]]

(* What ties cells to calls: an entry belongs to a call that returned and  *)
(* is there in full, or to the logger that is applying it.                 *)
Entries ==
  /\ \A l \in Loggers : lpc[l] = "idle" <=> call[l] = NoCall
  /\ \A l, m \in Loggers : call[l] = call[m] /\ call[l] # NoCall => l = m
  /\ \A l \in Loggers : call[l] \notin done
  /\ \A c \in Cells, k \in Calls, p \in Parts : <<k, p>> \in content[c] =>
       \/ k \in done /\ k \in CallsIn(c)
       \/ \E l \in Loggers : /\ lpc[l] = "reading" /\ call[l] = k
                             /\ lref[l] = c /\ p \notin todo[l]
  /\ \A l \in Loggers : lpc[l] = "reading" =>
       \A p \in Parts : p \notin todo[l] <=> <<call[l], p>> \in content[lref[l]]
  /\ \A k \in done : \E c \in Cells : c <= cur /\ k \in CallsIn(c)

(* No call has entries in two cells.                                       *)
UniqueCell ==
  \A c, d \in Cells, k \in Calls, p, q \in Parts :
    <<k, p>> \in content[c] /\ <<k, q>> \in content[d] => c = d

(* The calls a checkpoint has to cover are in its own cell or older ones.  *)
Covering ==
  \A f \in Flushers : fpc[f] # "idle" =>
    \A k \in before[f] : \E c \in Cells : c <= fref[f] /\ k \in CallsIn(c)

(* Every log_resolve returns although checkpoints take cells from under    *)
(* it, and every checkpoint gets its write lock.                           *)
CallsReturn ==
  /\ \A l \in Loggers : lpc[l] # "idle" ~> lpc[l] = "idle"
  /\ \A f \in Flushers : fpc[f] # "idle" ~> fpc[f] = "idle"

=============================================================================
