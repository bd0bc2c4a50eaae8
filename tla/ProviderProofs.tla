-------------------------- MODULE ProviderProofs ---------------------------
(***************************************************************************)
(* Proofs about Provider, for any number of states, resolves, attempts and *)
(* any log destinations.  The invariants of the run become inductive with  *)
(* what they rest on: where init, the background task, the refresh and     *)
(* shutdown can be at the same time (Control); the order in which update   *)
(* stores (Stored); that a flush which saw new destinations finds their    *)
(* account (Requests); which logs there can be and where (Logs, Places);   *)
(* and who holds the init count (Claimed).                                 *)
(***************************************************************************)
EXTENDS Provider, TLAPS, SequenceTheorems

Control ==
  /\ phase = "new" => refresh = "idle" /\ ~terminal
  /\ phase \in {"new", "init", "failed"} => bg = "none"
  /\ bg = "none" /\ phase # "init" => refresh = "idle"
  /\ bg = "ended" => refresh = "idle"
  /\ phase = "running" => bg # "none"
  /\ phase = "running" /\ bg = "ended" => terminal
  /\ stop => phase \in {"stopping", "final", "done"}
  /\ bg = "flush" <=> flush["bg"].pc # "idle"
  /\ flush["shutdown"].pc # "idle" => phase = "final"

Stored ==
  /\ refresh \in {"account", "dests"} => state # 0
  /\ refresh = "dests" => account # 0
  /\ dests # 0 => account # 0

\* Destinations that name the ingest worker come from a state whose account
\* is stored.
Requests ==
  \A a \in Actors :
    /\ flush[a].pc = "account" /\ flush[a].dests # <<"Edge">> => account # 0
    /\ Posting(a) /\ flush[a].dests # <<"Edge">> => flush[a].account # 0
    /\ flush[a].pc = "fallback" => Len(flush[a].dests) >= 2

Logs ==
  /\ state = 0 => resolves = {} /\ assigns = << >>
  /\ phase \in {"final", "done"} => resolves = {}

Claimed ==
  /\ initState = "pending" => initClaims = 0
  /\ initState # "pending" => initClaims = 1
  /\ \A a \in Actors : flush[a].init => initState # "pending"

\* No assignment is in two places, and none has a number not given yet.
Distinct(s) == \A i, j \in DOMAIN s : i # j => s[i] # s[j]
Apart(s, t) == \A i \in DOMAIN s, j \in DOMAIN t : s[i] # t[j]
Given(s)    == \A i \in DOMAIN s : s[i] <= logged

Places ==
  /\ Distinct(assigns) /\ Given(assigns)
  /\ \A a \in Actors : Distinct(flush[a].assigns) /\ Given(flush[a].assigns) /\ Apart(assigns, flush[a].assigns)
  /\ Apart(flush["bg"].assigns, flush["shutdown"].assigns)

ProviderInv ==
  /\ TypeOK /\ Control /\ Stored /\ Requests /\ Logs /\ Claimed /\ Places
  /\ EtagIsOfState /\ TerminalIsFinal /\ ShutdownLeavesOnlyOverflow

-----------------------------------------------------------------------------
\* What one request takes of the assignments, and what stays.
LEMMA TakenOf ==
  ASSUME assigns \in Seq(1 .. MaxLogs)
  PROVE  /\ Taken \in Seq(1 .. MaxLogs) /\ Rest \in Seq(1 .. MaxLogs)
         /\ Len(Taken) + Len(Rest) = Len(assigns)
         /\ \A i \in 1 .. Len(Taken) : Taken[i] = assigns[i]
         /\ \A i \in 1 .. Len(Rest) : Rest[i] = assigns[Len(Taken) + i]
         /\ Rest # << >> => Len(Taken) = LOG_TARGET
<1> DEFINE n == IF Len(assigns) < LOG_TARGET THEN Len(assigns) ELSE LOG_TARGET
<1>1. n \in Nat /\ n <= Len(assigns) /\ Len(assigns) \in Nat /\ (n < Len(assigns) => n = LOG_TARGET)
  BY ProviderAssumption
<1>2. \A i \in 1 .. Len(assigns) : assigns[i] \in 1 .. MaxLogs
  BY ElementOfSeq
<1> HIDE DEF n
<1>3. /\ SubSeq(assigns, 1, n) \in Seq(1 .. MaxLogs) /\ Len(SubSeq(assigns, 1, n)) = n
      /\ \A i \in 1 .. n : SubSeq(assigns, 1, n)[i] = assigns[i]
  <2>1. \A i \in 1 .. n : assigns[i] \in 1 .. MaxLogs
    BY <1>1, <1>2
  <2>2. /\ SubSeq(assigns, 1, n) \in Seq(1 .. MaxLogs)
        /\ Len(SubSeq(assigns, 1, n)) = IF 1 <= n THEN n - 1 + 1 ELSE 0
        /\ \A i \in 1 .. n - 1 + 1 : SubSeq(assigns, 1, n)[i] = assigns[1 + i - 1]
    BY <2>1, <1>1, SubSeqProperties
  <2> QED BY <2>2, <1>1
<1>4. Taken = SubSeq(assigns, 1, n)
  BY DEF Taken, n
<1>5. Len(Taken) = n
  BY <1>3, <1>4
<1>6. /\ Rest \in Seq(1 .. MaxLogs) /\ Len(Rest) = Len(assigns) - n
      /\ \A i \in 1 .. Len(assigns) - n : Rest[i] = assigns[n + i]
  <2>1. \A i \in n + 1 .. Len(assigns) : assigns[i] \in 1 .. MaxLogs
    BY <1>1, <1>2
  <2>2. /\ SubSeq(assigns, n + 1, Len(assigns)) \in Seq(1 .. MaxLogs)
        /\ Len(SubSeq(assigns, n + 1, Len(assigns))) =
             IF n + 1 <= Len(assigns) THEN Len(assigns) - (n + 1) + 1 ELSE 0
        /\ \A i \in 1 .. Len(assigns) - (n + 1) + 1 :
             SubSeq(assigns, n + 1, Len(assigns))[i] = assigns[n + 1 + i - 1]
    BY <2>1, <1>1, SubSeqProperties
  <2>3. Rest = SubSeq(assigns, n + 1, Len(assigns))
    BY <1>5 DEF Rest
  <2> QED BY <2>2, <2>3, <1>1
<1>7. Rest # << >> => n < Len(assigns)
  BY <1>1, <1>6
<1> QED BY <1>1, <1>3, <1>4, <1>5, <1>6, <1>7

LEMMA ElementType == ASSUME NEW S, NEW s \in Seq(S), NEW i \in DOMAIN s PROVE s[i] \in S
<1>1. i \in 1 .. Len(s)
  OBVIOUS
<1> QED BY <1>1, ElementOfSeq

LEMMA IdleType == Idle \in FlushType
BY ProviderAssumption DEF Idle, FlushType

\* The run's two properties about places that are not inductive as stated.
LEMMA PlacesOnce == ASSUME TypeOK, Places PROVE AssignedOnce
<1> DEFINE s == assigns  b == flush["bg"].assigns  d == flush["shutdown"].assigns
<1>1. Pieces = <<s, b, d>>
  BY DEF Pieces
<1>2. Pieces[1] = s /\ Pieces[2] = b /\ Pieces[3] = d
  BY <1>1
<1>3. Distinct(s) /\ Distinct(b) /\ Distinct(d) /\ Apart(s, b) /\ Apart(s, d) /\ Apart(b, d)
  BY DEF Places, Actors
<1> HIDE DEF s, b, d
<1>4. \A p \in 1 .. 3 : p = 1 \/ p = 2 \/ p = 3
  OBVIOUS
<1>5. Apart(b, s) /\ Apart(d, s) /\ Apart(d, b)
  BY <1>3 DEF Apart
<1>6. \A p \in 1 .. 3 : Distinct(Pieces[p])
  BY <1>2, <1>3, <1>4
<1>7. \A p, q \in 1 .. 3 : p # q => Apart(Pieces[p], Pieces[q])
  BY <1>2, <1>3, <1>4, <1>5
<1> QED BY <1>6, <1>7 DEF AssignedOnce, Distinct, Apart

LEMMA PostsToAccount == ASSUME Requests PROVE IngestHasAccount
<1> SUFFICES ASSUME NEW a \in Actors, Posting(a), flush[a].dests = <<"Edge">>, Destination(a) = "Cloudflare"
             PROVE  FALSE
  BY DEF Requests, IngestHasAccount
<1>1. Len(<<"Edge">>) = 1 /\ <<"Edge">>[1] = "Edge"
  OBVIOUS
<1>2. flush[a].pc # "fallback"
  <2> DEFINE n == Len(flush[a].dests)
  <2>1. n = 1
    BY <1>1
  <2>2. flush[a].pc = "fallback" => n >= 2
    BY DEF Requests
  <2> HIDE DEF n
  <2> QED BY <2>1, <2>2
<1> QED BY <1>1, <1>2 DEF Posting, Destination

\* A provider without background task has no state, hence no logs.
LEMMA FlushedBySomebody == ASSUME Control, TerminalIsFinal, Logs PROVE SomebodyFlushes
BY DEF Control, TerminalIsFinal, Logs, SomebodyFlushes

-----------------------------------------------------------------------------
LEMMA ProviderInvInit == Init => ProviderInv
<1> SUFFICES ASSUME Init PROVE ProviderInv
  OBVIOUS
<1>1. TypeOK
  <2>1. flush \in [Actors -> FlushType]
    BY IdleType DEF Init
  <2>2. 0 \in 0 .. MaxVersion /\ 0 \in 0 .. MaxLogs /\ << >> \in Seq(1 .. MaxLogs)
    BY ProviderAssumption
  <2> QED BY <2>1, <2>2 DEF Init, TypeOK
<1>2. \A a \in Actors : flush[a] = Idle
  BY DEF Init
<1>3. Control /\ Stored /\ Requests /\ Logs /\ Claimed
  BY <1>2 DEF Init, Control, Stored, Requests, Logs, Claimed, Idle, Posting, Actors
<1>4. Places
  BY <1>2 DEF Init, Places, Distinct, Apart, Given, Idle, Actors
<1> QED BY <1>1, <1>2, <1>3, <1>4
        DEF ProviderInv, Init, EtagIsOfState, TerminalIsFinal, ShutdownLeavesOnlyOverflow

-----------------------------------------------------------------------------
(***************************************************************************)
(* The steps that leave the flushes and the logs alone.                    *)
(***************************************************************************)
LEMMA LogsKept ==
  ASSUME ProviderInv, UNCHANGED <<flush, logVars, initState, initClaims>>
  PROVE  Claimed' /\ Places'
BY DEF ProviderInv, Claimed, Places, Distinct, Apart, Given, logVars

LEMMA PublishKeeps == ASSUME ProviderInv, Publish PROVE ProviderInv'
<1>1. TypeOK'
  BY ProviderAssumption DEF ProviderInv, TypeOK, Publish, stateVars, logVars
<1>2. Control' /\ TerminalIsFinal' /\ EtagIsOfState'
  BY DEF ProviderInv, TypeOK, Control, TerminalIsFinal, EtagIsOfState, Publish, Polled, Pending, stateVars
<1>3. Stored' /\ Requests'
  BY DEF ProviderInv, TypeOK, Stored, Requests, Posting, Publish, stateVars
<1>4. Logs' /\ ShutdownLeavesOnlyOverflow'
  BY DEF ProviderInv, TypeOK, Control, Logs, ShutdownLeavesOnlyOverflow, Publish, stateVars, logVars
<1> QED BY <1>1, <1>2, <1>3, <1>4, LogsKept DEF ProviderInv, Publish, logVars

LEMMA StartInitKeeps == ASSUME ProviderInv, StartInit PROVE ProviderInv'
<1>1. TypeOK'
  BY ProviderAssumption DEF ProviderInv, TypeOK, StartInit, stateVars, logVars
<1>2. Control' /\ TerminalIsFinal' /\ EtagIsOfState'
  BY DEF ProviderInv, TypeOK, Control, TerminalIsFinal, EtagIsOfState, StartInit, Polled, Pending, stateVars
<1>3. Stored' /\ Requests'
  BY DEF ProviderInv, TypeOK, Stored, Requests, Posting, StartInit, stateVars
<1>4. Logs' /\ ShutdownLeavesOnlyOverflow'
  BY DEF ProviderInv, TypeOK, Control, Logs, ShutdownLeavesOnlyOverflow, StartInit, stateVars, logVars
<1> QED BY <1>1, <1>2, <1>3, <1>4, LogsKept DEF ProviderInv, StartInit, logVars

LEMMA WakeKeeps == ASSUME ProviderInv, Wake PROVE ProviderInv'
<1>1. TypeOK'
  BY ProviderAssumption DEF ProviderInv, TypeOK, Wake, stateVars, logVars
<1>2. Control' /\ TerminalIsFinal' /\ EtagIsOfState'
  BY DEF ProviderInv, TypeOK, Control, TerminalIsFinal, EtagIsOfState, Wake, Polled, Pending, stateVars
<1>3. Stored' /\ Requests'
  BY DEF ProviderInv, TypeOK, Stored, Requests, Posting, Wake, stateVars
<1>4. Logs' /\ ShutdownLeavesOnlyOverflow'
  BY DEF ProviderInv, TypeOK, Control, Logs, ShutdownLeavesOnlyOverflow, Wake, stateVars, logVars
<1> QED BY <1>1, <1>2, <1>3, <1>4, LogsKept DEF ProviderInv, Wake, logVars

LEMMA FetchFailsKeeps == ASSUME ProviderInv, NEW permanent \in BOOLEAN, FetchFails(permanent) PROVE ProviderInv'
<1>1. TypeOK'
  BY ProviderAssumption DEF ProviderInv, TypeOK, FetchFails, Refreshed, stateVars, logVars
<1>2. Control' /\ TerminalIsFinal' /\ EtagIsOfState'
  BY DEF ProviderInv, TypeOK, Control, TerminalIsFinal, EtagIsOfState, FetchFails, Refreshed, Polled, Pending, stateVars
<1>3. Stored' /\ Requests'
  BY DEF ProviderInv, TypeOK, Stored, Requests, Posting, FetchFails, Refreshed, stateVars
<1>4. Logs' /\ ShutdownLeavesOnlyOverflow'
  BY DEF ProviderInv, TypeOK, Control, Logs, ShutdownLeavesOnlyOverflow, FetchFails, Refreshed, stateVars, logVars
<1> QED BY <1>1, <1>2, <1>3, <1>4, LogsKept DEF ProviderInv, FetchFails, logVars

LEMMA FetchNotModifiedKeeps == ASSUME ProviderInv, FetchNotModified PROVE ProviderInv'
<1>1. TypeOK'
  BY ProviderAssumption DEF ProviderInv, TypeOK, FetchNotModified, Refreshed, stateVars, logVars
<1>2. Control' /\ TerminalIsFinal' /\ EtagIsOfState'
  BY DEF ProviderInv, TypeOK, Control, TerminalIsFinal, EtagIsOfState, FetchNotModified, Refreshed, Polled, Pending, stateVars
<1>3. Stored' /\ Requests'
  BY DEF ProviderInv, TypeOK, Stored, Requests, Posting, FetchNotModified, Refreshed, stateVars
<1>4. Logs' /\ ShutdownLeavesOnlyOverflow'
  BY DEF ProviderInv, TypeOK, Control, Logs, ShutdownLeavesOnlyOverflow, FetchNotModified, Refreshed, stateVars, logVars
<1> QED BY <1>1, <1>2, <1>3, <1>4, LogsKept DEF ProviderInv, FetchNotModified, logVars

LEMMA FetchOkKeeps == ASSUME ProviderInv, FetchOk PROVE ProviderInv'
<1>1. TypeOK'
  BY ProviderAssumption DEF ProviderInv, TypeOK, FetchOk, stateVars, logVars
<1>2. Control' /\ TerminalIsFinal' /\ EtagIsOfState'
  BY DEF ProviderInv, TypeOK, Control, TerminalIsFinal, EtagIsOfState, FetchOk, Polled, Pending, stateVars
<1>3. Stored' /\ Requests'
  BY DEF ProviderInv, TypeOK, Stored, Requests, Posting, FetchOk, stateVars
<1>4. Logs' /\ ShutdownLeavesOnlyOverflow'
  BY DEF ProviderInv, TypeOK, Control, Logs, ShutdownLeavesOnlyOverflow, FetchOk, stateVars, logVars
<1> QED BY <1>1, <1>2, <1>3, <1>4, LogsKept DEF ProviderInv, FetchOk, logVars

LEMMA StoreAccountKeeps == ASSUME ProviderInv, StoreAccount PROVE ProviderInv'
<1>1. TypeOK'
  BY ProviderAssumption DEF ProviderInv, TypeOK, StoreAccount, stateVars, logVars
<1>2. Control' /\ TerminalIsFinal' /\ EtagIsOfState'
  BY DEF ProviderInv, TypeOK, Control, TerminalIsFinal, EtagIsOfState, StoreAccount, Polled, Pending, stateVars
<1>3. Stored' /\ Requests'
  BY DEF ProviderInv, TypeOK, Stored, Requests, Posting, StoreAccount, stateVars
<1>4. Logs' /\ ShutdownLeavesOnlyOverflow'
  BY DEF ProviderInv, TypeOK, Control, Logs, ShutdownLeavesOnlyOverflow, StoreAccount, stateVars, logVars
<1> QED BY <1>1, <1>2, <1>3, <1>4, LogsKept DEF ProviderInv, StoreAccount, logVars

LEMMA StoreDestsKeeps == ASSUME ProviderInv, StoreDests PROVE ProviderInv'
<1>1. TypeOK'
  BY ProviderAssumption DEF ProviderInv, TypeOK, StoreDests, Refreshed, stateVars, logVars
<1>2. Control' /\ TerminalIsFinal' /\ EtagIsOfState'
  BY DEF ProviderInv, TypeOK, Control, TerminalIsFinal, EtagIsOfState, StoreDests, Refreshed, Polled, Pending, stateVars
<1>3. Stored' /\ Requests'
  BY DEF ProviderInv, TypeOK, Stored, Requests, Posting, StoreDests, Refreshed, stateVars
<1>4. Logs' /\ ShutdownLeavesOnlyOverflow'
  BY DEF ProviderInv, TypeOK, Control, Logs, ShutdownLeavesOnlyOverflow, StoreDests, Refreshed, stateVars, logVars
<1> QED BY <1>1, <1>2, <1>3, <1>4, LogsKept DEF ProviderInv, StoreDests, logVars

LEMMA ShutdownKeeps == ASSUME ProviderInv, Shutdown PROVE ProviderInv'
<1>1. TypeOK'
  BY ProviderAssumption DEF ProviderInv, TypeOK, Shutdown, stateVars, logVars
<1>2. Control' /\ TerminalIsFinal' /\ EtagIsOfState'
  BY DEF ProviderInv, TypeOK, Control, TerminalIsFinal, EtagIsOfState, Shutdown, Polled, Pending, stateVars
<1>3. Stored' /\ Requests'
  BY DEF ProviderInv, TypeOK, Stored, Requests, Posting, Shutdown, stateVars
<1>4. Logs' /\ ShutdownLeavesOnlyOverflow'
  BY DEF ProviderInv, TypeOK, Control, Logs, ShutdownLeavesOnlyOverflow, Shutdown, stateVars, logVars
<1> QED BY <1>1, <1>2, <1>3, <1>4, LogsKept DEF ProviderInv, Shutdown, logVars

LEMMA StoppedKeeps == ASSUME ProviderInv, Stopped PROVE ProviderInv'
<1>1. TypeOK'
  BY ProviderAssumption DEF ProviderInv, TypeOK, Stopped, stateVars, logVars
<1>2. Control' /\ TerminalIsFinal' /\ EtagIsOfState'
  BY DEF ProviderInv, TypeOK, Control, TerminalIsFinal, EtagIsOfState, Stopped, Polled, Pending, stateVars
<1>3. Stored' /\ Requests'
  BY DEF ProviderInv, TypeOK, Stored, Requests, Posting, Stopped, stateVars
<1>4. Logs' /\ ShutdownLeavesOnlyOverflow'
  BY DEF ProviderInv, TypeOK, Control, Logs, ShutdownLeavesOnlyOverflow, Stopped, stateVars, logVars
<1> QED BY <1>1, <1>2, <1>3, <1>4, LogsKept DEF ProviderInv, Stopped, logVars

-----------------------------------------------------------------------------
(***************************************************************************)
(* The steps of a flush that is being sent.                                *)
(***************************************************************************)
LEMMA RequestKept ==
  ASSUME ProviderInv, UNCHANGED <<logVars, initState, initClaims>>,
         \A b \in Actors : flush'[b].assigns = flush[b].assigns /\ flush'[b].init = flush[b].init
  PROVE  Claimed' /\ Places'
BY DEF ProviderInv, Claimed, Places, Distinct, Apart, Given, logVars, Actors

LEMMA ReadDestsKeeps == ASSUME ProviderInv, NEW a \in Actors, ReadDests(a) PROVE ProviderInv'
<1>1. flush' = [flush EXCEPT ![a] = [flush[a] EXCEPT !.dests = Destinations(dests), !.pc = "account"]]
  BY DEF ReadDests
<1>2. dests \in 0 .. MaxVersion /\ Destinations(dests) \in Seq({"Edge", "Cloudflare"})
  BY ProviderAssumption DEF ProviderInv, TypeOK
<1>3. Destinations(dests) # <<"Edge">> => account # 0
  BY ProviderAssumption DEF ProviderInv, Stored
<1>4. flush \in [Actors -> FlushType]
  BY DEF ProviderInv, TypeOK
<1>5. flush' \in [Actors -> FlushType]
  BY <1>1, <1>2, <1>4, ZenonT(30) DEF FlushType
<1>6. \A b \in Actors : /\ flush'[b].assigns = flush[b].assigns /\ flush'[b].init = flush[b].init
                        /\ b # a => flush'[b] = flush[b]
                        /\ flush'[b].pc # "idle" <=> flush[b].pc # "idle"
  BY <1>1, <1>3, <1>4 DEF FlushType, ReadDests
<1>7. TypeOK'
  BY <1>5 DEF ProviderInv, TypeOK, ReadDests, stateVars, logVars
<1>8. Control' /\ TerminalIsFinal' /\ EtagIsOfState' /\ Stored' /\ Logs' /\ ShutdownLeavesOnlyOverflow'
  BY <1>6 DEF ProviderInv, Control, TerminalIsFinal, EtagIsOfState, Stored, Logs, ShutdownLeavesOnlyOverflow,
                    Actors, ReadDests, stateVars, logVars
<1>9. Requests'
  <2> SUFFICES ASSUME NEW b \in Actors
               PROVE  /\ flush'[b].pc = "account" /\ flush'[b].dests # <<"Edge">> => account' # 0
                      /\ flush'[b].pc \in {"primary", "fallback"} /\ flush'[b].dests # <<"Edge">> => flush'[b].account # 0
                      /\ flush'[b].pc = "fallback" => Len(flush'[b].dests) >= 2
    BY DEF Requests, Posting
  <2>1. CASE b # a
    BY <2>1, <1>6 DEF ProviderInv, Requests, Posting, ReadDests, stateVars
  <2>2. CASE b = a
    BY <2>2, <1>1, <1>3, <1>4 DEF ProviderInv, Requests, Posting, FlushType, ReadDests, stateVars
  <2> QED BY <2>1, <2>2
<1> QED BY <1>6, <1>7, <1>8, <1>9, RequestKept DEF ProviderInv, ReadDests, logVars

LEMMA ReadAccountKeeps == ASSUME ProviderInv, NEW a \in Actors, ReadAccount(a) PROVE ProviderInv'
<1>1. flush' = [flush EXCEPT ![a] = [flush[a] EXCEPT !.account = account, !.attempt = 1, !.pc = "primary"]]
  BY DEF ReadAccount
<1>2. account \in 0 .. MaxVersion /\ 1 \in 0 .. MAX_ATTEMPTS
  BY ProviderAssumption DEF ProviderInv, TypeOK
<1>3. flush[a].dests # <<"Edge">> => account # 0
  BY DEF ProviderInv, Requests, ReadAccount
<1>4. flush \in [Actors -> FlushType]
  BY DEF ProviderInv, TypeOK
<1>5. flush' \in [Actors -> FlushType]
  BY <1>1, <1>2, <1>4, ZenonT(30) DEF FlushType
<1>6. \A b \in Actors : /\ flush'[b].assigns = flush[b].assigns /\ flush'[b].init = flush[b].init
                        /\ b # a => flush'[b] = flush[b]
                        /\ flush'[b].pc # "idle" <=> flush[b].pc # "idle"
  BY <1>1, <1>3, <1>4 DEF FlushType, ReadAccount
<1>7. TypeOK'
  BY <1>5 DEF ProviderInv, TypeOK, ReadAccount, stateVars, logVars
<1>8. Control' /\ TerminalIsFinal' /\ EtagIsOfState' /\ Stored' /\ Logs' /\ ShutdownLeavesOnlyOverflow'
  BY <1>6 DEF ProviderInv, Control, TerminalIsFinal, EtagIsOfState, Stored, Logs, ShutdownLeavesOnlyOverflow,
                    Actors, ReadAccount, stateVars, logVars
<1>9. Requests'
  <2> SUFFICES ASSUME NEW b \in Actors
               PROVE  /\ flush'[b].pc = "account" /\ flush'[b].dests # <<"Edge">> => account' # 0
                      /\ flush'[b].pc \in {"primary", "fallback"} /\ flush'[b].dests # <<"Edge">> => flush'[b].account # 0
                      /\ flush'[b].pc = "fallback" => Len(flush'[b].dests) >= 2
    BY DEF Requests, Posting
  <2>1. CASE b # a
    BY <2>1, <1>6 DEF ProviderInv, Requests, Posting, ReadAccount, stateVars
  <2>2. CASE b = a
    BY <2>2, <1>1, <1>3, <1>4 DEF ProviderInv, Requests, Posting, FlushType, ReadAccount, stateVars
  <2> QED BY <2>1, <2>2
<1> QED BY <1>6, <1>7, <1>8, <1>9, RequestKept DEF ProviderInv, ReadAccount, logVars

LEMMA RetryKeeps == ASSUME ProviderInv, NEW a \in Actors, Retry(a) PROVE ProviderInv'
<1>1. flush' = [flush EXCEPT ![a] = [flush[a] EXCEPT !.attempt = flush[a].attempt + 1]]
  BY DEF Retry
<1>2. flush[a].attempt + 1 \in 0 .. MAX_ATTEMPTS
  <2>1. flush[a] \in FlushType
    BY DEF ProviderInv, TypeOK
  <2>2. flush[a].attempt \in 0 .. MAX_ATTEMPTS
    BY <2>1 DEF FlushType
  <2>3. flush[a].attempt < MAX_ATTEMPTS
    BY DEF Retry
  <2> QED BY <2>2, <2>3, ProviderAssumption
<1>3. flush[a].pc \in {"primary", "fallback"}
  BY DEF Retry, Posting
<1>4. flush \in [Actors -> FlushType]
  BY DEF ProviderInv, TypeOK
<1>5. flush' \in [Actors -> FlushType]
  BY <1>1, <1>2, <1>4, ZenonT(30) DEF FlushType
<1>6. \A b \in Actors : /\ flush'[b].assigns = flush[b].assigns /\ flush'[b].init = flush[b].init
                        /\ b # a => flush'[b] = flush[b]
                        /\ flush'[b].pc # "idle" <=> flush[b].pc # "idle"
  BY <1>1, <1>3, <1>4 DEF FlushType, Retry
<1>7. TypeOK'
  BY <1>5 DEF ProviderInv, TypeOK, Retry, stateVars, logVars
<1>8. Control' /\ TerminalIsFinal' /\ EtagIsOfState' /\ Stored' /\ Logs' /\ ShutdownLeavesOnlyOverflow'
  BY <1>6 DEF ProviderInv, Control, TerminalIsFinal, EtagIsOfState, Stored, Logs, ShutdownLeavesOnlyOverflow,
                    Actors, Retry, stateVars, logVars
<1>9. Requests'
  <2> SUFFICES ASSUME NEW b \in Actors
               PROVE  /\ flush'[b].pc = "account" /\ flush'[b].dests # <<"Edge">> => account' # 0
                      /\ flush'[b].pc \in {"primary", "fallback"} /\ flush'[b].dests # <<"Edge">> => flush'[b].account # 0
                      /\ flush'[b].pc = "fallback" => Len(flush'[b].dests) >= 2
    BY DEF Requests, Posting
  <2>1. CASE b # a
    BY <2>1, <1>6 DEF ProviderInv, Requests, Posting, Retry, stateVars
  <2>2. CASE b = a
    BY <2>2, <1>1, <1>3, <1>4 DEF ProviderInv, Requests, Posting, FlushType, Retry, stateVars
  <2> QED BY <2>1, <2>2
<1> QED BY <1>6, <1>7, <1>8, <1>9, RequestKept DEF ProviderInv, Retry, logVars

LEMMA FallbackKeeps == ASSUME ProviderInv, NEW a \in Actors, Fallback(a) PROVE ProviderInv'
<1>1. flush' = [flush EXCEPT ![a] = [flush[a] EXCEPT !.attempt = 1, !.pc = "fallback"]]
  BY DEF Fallback
<1>2. 1 \in 0 .. MAX_ATTEMPTS
  BY ProviderAssumption
<1>3. flush[a].pc = "primary" /\ Len(flush[a].dests) >= 2
  BY DEF Fallback
<1>4. flush \in [Actors -> FlushType]
  BY DEF ProviderInv, TypeOK
<1>5. flush' \in [Actors -> FlushType]
  BY <1>1, <1>2, <1>4, ZenonT(30) DEF FlushType
<1>6. \A b \in Actors : /\ flush'[b].assigns = flush[b].assigns /\ flush'[b].init = flush[b].init
                        /\ b # a => flush'[b] = flush[b]
                        /\ flush'[b].pc # "idle" <=> flush[b].pc # "idle"
  BY <1>1, <1>3, <1>4 DEF FlushType, Fallback
<1>7. TypeOK'
  BY <1>5 DEF ProviderInv, TypeOK, Fallback, stateVars, logVars
<1>8. Control' /\ TerminalIsFinal' /\ EtagIsOfState' /\ Stored' /\ Logs' /\ ShutdownLeavesOnlyOverflow'
  BY <1>6 DEF ProviderInv, Control, TerminalIsFinal, EtagIsOfState, Stored, Logs, ShutdownLeavesOnlyOverflow,
                    Actors, Fallback, stateVars, logVars
<1>9. Requests'
  <2> SUFFICES ASSUME NEW b \in Actors
               PROVE  /\ flush'[b].pc = "account" /\ flush'[b].dests # <<"Edge">> => account' # 0
                      /\ flush'[b].pc \in {"primary", "fallback"} /\ flush'[b].dests # <<"Edge">> => flush'[b].account # 0
                      /\ flush'[b].pc = "fallback" => Len(flush'[b].dests) >= 2
    BY DEF Requests, Posting
  <2>1. CASE b # a
    BY <2>1, <1>6 DEF ProviderInv, Requests, Posting, Fallback, stateVars
  <2>2. CASE b = a
    BY <2>2, <1>1, <1>3, <1>4 DEF ProviderInv, Requests, Posting, FlushType, Fallback, stateVars
  <2> QED BY <2>1, <2>2
<1> QED BY <1>6, <1>7, <1>8, <1>9, RequestKept DEF ProviderInv, Fallback, logVars

-----------------------------------------------------------------------------
(***************************************************************************)
(* Resolves, and the start and the end of a flush.                         *)
(***************************************************************************)
LEMMA ResolveKeeps == ASSUME ProviderInv, Resolve PROVE ProviderInv'
<1>1. assigns \in Seq(1 .. MaxLogs) /\ logged \in 0 .. MaxLogs /\ logged < MaxLogs
  BY DEF ProviderInv, TypeOK, Resolve
<1>2. logged + 1 \in 1 .. MaxLogs /\ logged + 1 \in 0 .. MaxLogs
  BY <1>1, ProviderAssumption
<1>3. /\ assigns' \in Seq(1 .. MaxLogs)
      /\ \A i \in DOMAIN assigns' : assigns'[i] = logged + 1 \/ (i \in DOMAIN assigns /\ assigns'[i] = assigns[i])
      /\ \A i, j \in DOMAIN assigns' : assigns'[i] = logged + 1 /\ assigns'[j] = logged + 1 => i = j
  <2>1. CASE DisableExposure
    BY <2>1, <1>1 DEF Resolve, ProviderInv, Places, Given
  <2>2. CASE ~DisableExposure
    <3> DEFINE t == Append(assigns, logged + 1)
    <3>1. /\ t \in Seq(1 .. MaxLogs) /\ DOMAIN t = 1 .. Len(assigns) + 1 /\ DOMAIN assigns = 1 .. Len(assigns)
          /\ \A i \in 1 .. Len(assigns) : t[i] = assigns[i]
          /\ t[Len(assigns) + 1] = logged + 1
          /\ Len(assigns) \in Nat
      BY <1>1, <1>2, AppendProperties
    <3>2. \A i \in 1 .. Len(assigns) : assigns[i] \in 1 .. MaxLogs /\ assigns[i] <= logged
      BY <3>1, <1>1, ElementOfSeq DEF ProviderInv, Places, Given
    <3>3. assigns' = t
      BY <2>2 DEF Resolve
    <3> HIDE DEF t
    <3>4. \A i \in DOMAIN t : i \in 1 .. Len(assigns) \/ i = Len(assigns) + 1
      BY <3>1
    <3>5. \A i \in 1 .. Len(assigns) : t[i] # logged + 1
      BY <3>1, <3>2, <1>1
    <3> QED BY <3>1, <3>3, <3>4, <3>5
  <2> QED BY <2>1, <2>2, ProviderAssumption
<1>4. TypeOK'
  BY <1>2, <1>3 DEF ProviderInv, TypeOK, Resolve, stateVars
<1>5. Control' /\ TerminalIsFinal' /\ EtagIsOfState' /\ Stored' /\ Requests' /\ Claimed'
  BY DEF ProviderInv, Control, TerminalIsFinal, EtagIsOfState, Stored, Requests, Claimed, Posting, Resolve, stateVars
<1>6. Logs' /\ ShutdownLeavesOnlyOverflow'
  BY DEF Logs, ShutdownLeavesOnlyOverflow, Resolve, Status, stateVars
<1>7. Places'
  <2>1. logged' = logged + 1 /\ UNCHANGED flush
    BY DEF Resolve
  <2>2. \A a \in Actors : \A i \in DOMAIN flush[a].assigns : flush[a].assigns[i] \in Nat /\ flush[a].assigns[i] <= logged
    <3> SUFFICES ASSUME NEW a \in Actors, NEW i \in DOMAIN flush[a].assigns
                 PROVE  flush[a].assigns[i] \in Nat /\ flush[a].assigns[i] <= logged
      OBVIOUS
    <3>1. flush[a] \in FlushType
      BY DEF ProviderInv, TypeOK
    <3>2. flush[a].assigns \in Seq(1 .. MaxLogs)
      BY <3>1 DEF FlushType
    <3>3. flush[a].assigns[i] \in 1 .. MaxLogs
      BY <3>2, ElementType
    <3>4. flush[a].assigns[i] \in Nat
      BY <3>3
    <3>5. flush[a].assigns[i] <= logged
      BY DEF ProviderInv, Places, Given
    <3> QED BY <3>4, <3>5
  <2>3. \A i \in DOMAIN assigns : assigns[i] \in Nat /\ assigns[i] <= logged
    <3>1. \A i \in DOMAIN assigns : assigns[i] \in 1 .. MaxLogs
      BY <1>1, ElementType
    <3>2. \A i \in DOMAIN assigns : assigns[i] \in Nat
      BY <3>1
    <3>3. \A i \in DOMAIN assigns : assigns[i] <= logged
      BY DEF ProviderInv, Places, Given
    <3> QED BY <3>2, <3>3
  <2>4. Distinct(assigns')
    BY <1>3 DEF ProviderInv, Places, Distinct
  <2>5. \A i \in DOMAIN assigns' : assigns'[i] <= logged + 1
    BY <1>1, <1>3, <2>3
  <2>6. \A a \in Actors : Apart(assigns', flush[a].assigns)
    BY <1>1, <1>3, <2>2 DEF ProviderInv, Places, Apart
  <2>7. \A a \in Actors : \A i \in DOMAIN flush[a].assigns : flush[a].assigns[i] <= logged + 1
    BY <1>1, <2>2
  <2> QED BY <2>1, <2>4, <2>5, <2>6, <2>7 DEF ProviderInv, Places, Distinct, Apart, Given
<1> QED BY <1>4, <1>5, <1>6, <1>7 DEF ProviderInv

\* A flush takes assignments: they are in its request and nowhere else.
LEMMA TakenOnce ==
  ASSUME ProviderInv, NEW a \in Actors, flush'[a].assigns = Taken, assigns' = Rest, UNCHANGED logged,
         \A b \in Actors \ {a} : flush'[b].assigns = flush[b].assigns
  PROVE  Places'
<1>1. assigns \in Seq(1 .. MaxLogs)
  BY DEF ProviderInv, TypeOK
<1>2. /\ Taken \in Seq(1 .. MaxLogs) /\ Rest \in Seq(1 .. MaxLogs)
      /\ Len(Taken) + Len(Rest) = Len(assigns)
      /\ \A i \in 1 .. Len(Taken) : Taken[i] = assigns[i]
      /\ \A i \in 1 .. Len(Rest) : Rest[i] = assigns[Len(Taken) + i]
  BY <1>1, TakenOf
<1> DEFINE t == Taken  r == Rest
<1>3. /\ DOMAIN assigns = 1 .. Len(assigns) /\ DOMAIN t = 1 .. Len(t) /\ DOMAIN r = 1 .. Len(r)
      /\ Len(t) \in Nat /\ Len(r) \in Nat
  BY <1>1, <1>2
<1>4. \A i \in DOMAIN t : i \in DOMAIN assigns /\ t[i] = assigns[i]
  BY <1>2, <1>3
<1>5. \A i \in DOMAIN r : Len(t) + i \in DOMAIN assigns /\ r[i] = assigns[Len(t) + i]
  BY <1>2, <1>3
<1>6. Distinct(assigns) /\ Given(assigns)
  BY DEF ProviderInv, Places
<1> HIDE DEF t, r
<1>7. Distinct(t) /\ Given(t)
  BY <1>4, <1>6 DEF Distinct, Given
<1>8. Distinct(r) /\ Given(r)
  BY <1>3, <1>5, <1>6 DEF Distinct, Given
<1>9. Apart(r, t)
  <2> SUFFICES ASSUME NEW i \in DOMAIN r, NEW j \in DOMAIN t PROVE r[i] # t[j]
    BY DEF Apart
  <2>1. Len(t) + i # j
    BY <1>3
  <2> QED BY <2>1, <1>4, <1>5, <1>6 DEF Distinct
<1>10. \A b \in Actors : Apart(r, flush[b].assigns) /\ Apart(t, flush[b].assigns)
  BY <1>4, <1>5 DEF ProviderInv, Places, Apart
<1>11. \A b \in Actors : Distinct(flush[b].assigns) /\ Given(flush[b].assigns)
  BY DEF ProviderInv, Places
<1>12. flush'[a].assigns = t /\ assigns' = r
  BY DEF t, r
<1>13. \A b \in Actors : Distinct(flush'[b].assigns) /\ Apart(r, flush'[b].assigns)
  BY <1>7, <1>9, <1>10, <1>11, <1>12
<1>14. \A b \in Actors : Given(flush'[b].assigns)
  BY <1>7, <1>11, <1>12
<1>15. Apart(flush'["bg"].assigns, flush'["shutdown"].assigns)
  <2>1. CASE a = "bg"
    BY <2>1, <1>10, <1>12 DEF Actors
  <2>2. CASE a = "shutdown"
    BY <2>2, <1>10, <1>12 DEF Actors, Apart
  <2> QED BY <2>1, <2>2 DEF Actors
<1> QED BY <1>8, <1>12, <1>13, <1>14, <1>15 DEF Places, Distinct, Apart, Given

LEMMA RestOfNone == ASSUME assigns \in Seq(1 .. MaxLogs), assigns = << >> PROVE Rest = << >>
<1>1. Len(Taken) \in Nat /\ Len(Rest) \in Nat /\ Len(Taken) + Len(Rest) = 0 /\ Rest \in Seq(1 .. MaxLogs)
  BY TakenOf
<1>2. Len(Rest) = 0
  BY <1>1
<1> QED BY <1>1, <1>2

\* What the three ways to start a flush have in common.
LEMMA StartKeeps ==
  ASSUME ProviderInv, NEW a \in Actors, NEW request \in FlushType,
         flush[a].pc = "idle", flush' = [flush EXCEPT ![a] = request],
         request.pc = "dests", request.assigns = Taken,
         assigns' = Rest, UNCHANGED <<logged, stateVars, refresh>>, resolves' \in {resolves, {}}
  PROVE  /\ flush' \in [Actors -> FlushType] /\ assigns' \in Seq(1 .. MaxLogs)
         /\ Requests' /\ Places' /\ Stored' /\ EtagIsOfState'
         /\ state' = 0 => resolves' = {} /\ assigns' = << >>
         /\ \A b \in Actors \ {a} : flush'[b] = flush[b]
         /\ flush'[a] = request
<1>1. flush \in [Actors -> FlushType] /\ assigns \in Seq(1 .. MaxLogs)
  BY DEF ProviderInv, TypeOK
<1>2. flush' \in [Actors -> FlushType] /\ flush'[a] = request /\ \A b \in Actors \ {a} : flush'[b] = flush[b]
  BY <1>1
<1>3. assigns' \in Seq(1 .. MaxLogs)
  BY <1>1, TakenOf
<1>4. Requests'
  BY <1>2 DEF ProviderInv, Requests, Posting, stateVars
<1>5. Places'
  BY <1>2, TakenOnce
<1>6. Stored' /\ EtagIsOfState'
  BY DEF ProviderInv, Stored, EtagIsOfState, stateVars
<1>7. assigns = << >> => Rest = << >>
  BY <1>1, RestOfNone
<1> QED BY <1>2, <1>3, <1>4, <1>5, <1>6, <1>7 DEF ProviderInv, Logs, stateVars

LEMMA RequestType ==
  ASSUME ProviderInv, NEW init \in BOOLEAN, NEW rs \in SUBSET (1 .. MaxLogs)
  PROVE  [Idle EXCEPT !.pc = "dests", !.resolves = rs, !.assigns = Taken, !.init = init] \in FlushType
<1>1. Taken \in Seq(1 .. MaxLogs)
  BY TakenOf DEF ProviderInv, TypeOK
<1> QED BY <1>1, IdleType DEF FlushType

\* flush_all claims the init count if nobody did.
LEMMA BuildClaims ==
  ASSUME ProviderInv, NEW a \in Actors, BuildAll(a)
  PROVE  /\ Claimed'
         /\ initState' \in {"pending", "sending", "sent"} /\ initClaims' \in Nat
<1>1. flush \in [Actors -> FlushType] /\ initClaims \in Nat /\ initState \in {"pending", "sending", "sent"}
  BY DEF ProviderInv, TypeOK
<1>2. \A b \in Actors : flush'[b].init => flush[b].init \/ initState = "pending"
  BY <1>1 DEF BuildAll, Idle
<1>3. initState' # "pending"
  BY DEF BuildAll
<1>4. initClaims' = 1
  BY <1>1 DEF BuildAll, ProviderInv, Claimed
<1> QED BY <1>1, <1>3, <1>4 DEF Claimed, BuildAll

LEMMA FlushAllKeeps == ASSUME ProviderInv, FlushAll PROVE ProviderInv'
<1> DEFINE request == [Idle EXCEPT !.pc = "dests", !.resolves = resolves, !.assigns = Taken,
                                   !.init = (initState = "pending")]
<1>1. request \in FlushType
  BY RequestType DEF ProviderInv, TypeOK
<1>2. request.pc = "dests" /\ request.assigns = Taken
  BY DEF Idle
<1>3. /\ flush' = [flush EXCEPT !["bg"] = request] /\ assigns' = Rest /\ resolves' = {}
      /\ UNCHANGED <<logged, stateVars, refresh, phase, stop>>
      /\ bg = "select" /\ bg' = "flush"
  BY DEF FlushAll, BuildAll
<1>4. flush["bg"].pc = "idle" /\ "bg" \in Actors
  BY <1>3 DEF ProviderInv, Control, Actors
<1> HIDE DEF request
<1>5. /\ flush' \in [Actors -> FlushType] /\ assigns' \in Seq(1 .. MaxLogs)
      /\ Requests' /\ Places' /\ Stored' /\ EtagIsOfState'
      /\ state' = 0 => resolves' = {} /\ assigns' = << >>
      /\ \A b \in Actors \ {"bg"} : flush'[b] = flush[b]
      /\ flush'["bg"] = request
  BY <1>1, <1>2, <1>3, <1>4, StartKeeps
<1>6. Claimed' /\ initState' \in {"pending", "sending", "sent"} /\ initClaims' \in Nat
  BY <1>4, BuildClaims DEF FlushAll
<1>7. TypeOK'
  BY <1>3, <1>5, <1>6 DEF ProviderInv, TypeOK, stateVars
<1>8. flush'["shutdown"] = flush["shutdown"]
  BY <1>5 DEF Actors
<1>9. Control' /\ TerminalIsFinal'
  BY <1>2, <1>3, <1>5, <1>8 DEF ProviderInv, Control, TerminalIsFinal, stateVars
<1>10. ShutdownLeavesOnlyOverflow'
  <2>1. assigns = << >> => assigns' = << >>
    BY <1>3, RestOfNone DEF ProviderInv, TypeOK
  <2> QED BY <2>1, <1>3, <1>8 DEF ProviderInv, ShutdownLeavesOnlyOverflow
<1> QED BY <1>3, <1>5, <1>6, <1>7, <1>9, <1>10 DEF ProviderInv, Logs

LEMMA FlushAssignKeeps == ASSUME ProviderInv, FlushAssign PROVE ProviderInv'
<1> DEFINE request == [Idle EXCEPT !.pc = "dests", !.assigns = Taken]
<1>1. request \in FlushType
  <2>1. Taken \in Seq(1 .. MaxLogs)
    BY TakenOf DEF ProviderInv, TypeOK
  <2> QED BY <2>1, IdleType DEF FlushType
<1>2. request.pc = "dests" /\ request.assigns = Taken /\ request.init = FALSE
  BY DEF Idle
<1>3. /\ flush' = [flush EXCEPT !["bg"] = request] /\ assigns' = Rest /\ resolves' = resolves
      /\ UNCHANGED <<logged, stateVars, refresh, phase, stop, initState, initClaims>>
      /\ bg = "select" /\ bg' = "flush"
  BY DEF FlushAssign
<1>4. flush["bg"].pc = "idle" /\ "bg" \in Actors
  BY <1>3 DEF ProviderInv, Control, Actors
<1> HIDE DEF request
<1>5. /\ flush' \in [Actors -> FlushType] /\ assigns' \in Seq(1 .. MaxLogs)
      /\ Requests' /\ Places' /\ Stored' /\ EtagIsOfState'
      /\ state' = 0 => resolves' = {} /\ assigns' = << >>
      /\ \A b \in Actors \ {"bg"} : flush'[b] = flush[b]
      /\ flush'["bg"] = request
  BY <1>1, <1>2, <1>3, <1>4, StartKeeps
<1>6. Claimed'
  BY <1>2, <1>3, <1>5 DEF ProviderInv, Claimed
<1>7. TypeOK'
  BY <1>3, <1>5 DEF ProviderInv, TypeOK, stateVars
<1>8. flush'["shutdown"] = flush["shutdown"]
  BY <1>5 DEF Actors
<1>9. Control' /\ TerminalIsFinal'
  BY <1>2, <1>3, <1>5, <1>8 DEF ProviderInv, Control, TerminalIsFinal, stateVars
<1>10. ShutdownLeavesOnlyOverflow'
  <2>1. assigns = << >> => assigns' = << >>
    BY <1>3, RestOfNone DEF ProviderInv, TypeOK
  <2> QED BY <2>1, <1>3, <1>8 DEF ProviderInv, ShutdownLeavesOnlyOverflow
<1>11. Logs'
  BY <1>3, <1>5 DEF ProviderInv, Logs
<1> QED BY <1>5, <1>6, <1>7, <1>9, <1>10, <1>11 DEF ProviderInv

LEMMA FinalFlushKeeps == ASSUME ProviderInv, FinalFlush PROVE ProviderInv'
<1> DEFINE request == [Idle EXCEPT !.pc = "dests", !.resolves = resolves, !.assigns = Taken,
                                   !.init = (initState = "pending")]
<1>1. request \in FlushType
  BY RequestType DEF ProviderInv, TypeOK
<1>2. request.pc = "dests" /\ request.assigns = Taken
  BY DEF Idle
<1>3. /\ flush' = [flush EXCEPT !["shutdown"] = request] /\ assigns' = Rest /\ resolves' = {}
      /\ UNCHANGED <<logged, stateVars, refresh, bg, stop>>
      /\ phase = "stopping" /\ phase' = "final"
  BY DEF FinalFlush, BuildAll
<1>4. flush["shutdown"].pc = "idle" /\ "shutdown" \in Actors
  BY <1>3 DEF ProviderInv, Control, Actors
<1> HIDE DEF request
<1>5. /\ flush' \in [Actors -> FlushType] /\ assigns' \in Seq(1 .. MaxLogs)
      /\ Requests' /\ Places' /\ Stored' /\ EtagIsOfState'
      /\ state' = 0 => resolves' = {} /\ assigns' = << >>
      /\ \A b \in Actors \ {"shutdown"} : flush'[b] = flush[b]
      /\ flush'["shutdown"] = request
  BY <1>1, <1>2, <1>3, <1>4, StartKeeps
<1>6. Claimed' /\ initState' \in {"pending", "sending", "sent"} /\ initClaims' \in Nat
  BY <1>4, BuildClaims DEF FinalFlush
<1>7. TypeOK'
  BY <1>3, <1>5, <1>6 DEF ProviderInv, TypeOK, stateVars
<1>8. flush'["bg"] = flush["bg"]
  BY <1>5 DEF Actors
<1>9. Control' /\ TerminalIsFinal'
  BY <1>2, <1>3, <1>5, <1>8 DEF ProviderInv, Control, TerminalIsFinal, stateVars
<1>10. ShutdownLeavesOnlyOverflow'
  <2>1. Rest # << >> => Len(Taken) = LOG_TARGET
    BY TakenOf DEF ProviderInv, TypeOK
  <2> QED BY <2>1, <1>2, <1>3, <1>5 DEF ShutdownLeavesOnlyOverflow
<1> QED BY <1>3, <1>5, <1>6, <1>7, <1>9, <1>10 DEF ProviderInv, Logs

LEMMA FinishKeeps == ASSUME ProviderInv, NEW a \in Actors, Finish(a) PROVE ProviderInv'
<1>1. flush \in [Actors -> FlushType]
  BY DEF ProviderInv, TypeOK
<1>2. /\ flush' \in [Actors -> FlushType]
      /\ flush'[a] = Idle /\ \A b \in Actors \ {a} : flush'[b] = flush[b]
  BY <1>1, IdleType DEF Finish
<1>3. Idle.pc = "idle" /\ Idle.assigns = << >> /\ Idle.init = FALSE
  BY DEF Idle
<1>4. flush[a].pc # "idle"
  BY DEF Finish, Posting
<1>5. TypeOK'
  BY <1>2 DEF ProviderInv, TypeOK, Finish, stateVars, logVars
<1>6. Control' /\ TerminalIsFinal'
  <2>1. CASE a = "bg"
    <3>1. /\ flush'["bg"].pc = "idle" /\ flush'["shutdown"] = flush["shutdown"]
          /\ bg = "flush" /\ bg' = "select" /\ UNCHANGED <<phase, refresh, stop, terminal, state>>
      BY <2>1, <1>2, <1>3, <1>4 DEF ProviderInv, Control, Finish, Actors, stateVars
    <3> QED BY <3>1 DEF ProviderInv, Control, TerminalIsFinal
  <2>2. CASE a = "shutdown"
    <3>1. /\ flush'["shutdown"].pc = "idle" /\ flush'["bg"] = flush["bg"]
          /\ phase = "final" /\ phase' = "done" /\ UNCHANGED <<bg, refresh, stop, terminal, state>>
      BY <2>2, <1>2, <1>3, <1>4 DEF ProviderInv, Control, Finish, Actors, stateVars
    <3> QED BY <3>1 DEF ProviderInv, Control, TerminalIsFinal
  <2> QED BY <2>1, <2>2 DEF Actors
<1>7. Stored' /\ EtagIsOfState'
  BY DEF ProviderInv, Stored, EtagIsOfState, Finish, stateVars
<1>8. Requests'
  BY <1>2, <1>3 DEF ProviderInv, Requests, Posting, Finish, stateVars
<1>9. Logs'
  BY <1>4 DEF ProviderInv, Control, Logs, Finish, Actors, stateVars, logVars
<1>10. Claimed'
  BY <1>2, <1>3 DEF ProviderInv, TypeOK, Claimed, Finish
<1>11. Places'
  <2>1. \A b \in Actors : flush'[b].assigns \in {flush[b].assigns, << >>}
    BY <1>2, <1>3
  <2>2. DOMAIN << >> = {}
    OBVIOUS
  <2> QED BY <2>1, <2>2 DEF ProviderInv, Places, Distinct, Apart, Given, Finish, logVars, Actors
<1>12. ShutdownLeavesOnlyOverflow'
  BY <1>2, <1>3 DEF ProviderInv, ShutdownLeavesOnlyOverflow, Finish, logVars, Actors
<1> QED BY <1>5, <1>6, <1>7, <1>8, <1>9, <1>10, <1>11, <1>12 DEF ProviderInv

-----------------------------------------------------------------------------
LEMMA ProviderInvStep == ProviderInv /\ [Next]_vars => ProviderInv'
<1> SUFFICES ASSUME ProviderInv, [Next]_vars PROVE ProviderInv'
  OBVIOUS
<1>1. CASE UNCHANGED vars
  BY <1>1 DEF vars, stateVars, logVars, ProviderInv, TypeOK, Control, Stored, Requests, Posting, Logs, Claimed,
              Places, Distinct, Apart, Given, EtagIsOfState, TerminalIsFinal, ShutdownLeavesOnlyOverflow
<1>2. ASSUME NEW permanent \in BOOLEAN, FetchFails(permanent) PROVE ProviderInv'
  BY <1>2, FetchFailsKeeps
<1>3. ASSUME NEW a \in Actors, ReadDests(a) \/ ReadAccount(a) \/ Retry(a) \/ Fallback(a) \/ Finish(a)
      PROVE  ProviderInv'
  BY <1>3, ReadDestsKeeps, ReadAccountKeeps, RetryKeeps, FallbackKeeps, FinishKeeps
<1>4. CASE Publish \/ StartInit \/ Wake \/ FetchNotModified \/ FetchOk \/ StoreAccount \/ StoreDests
  BY <1>4, PublishKeeps, StartInitKeeps, WakeKeeps, FetchNotModifiedKeeps, FetchOkKeeps, StoreAccountKeeps,
     StoreDestsKeeps
<1>5. CASE Resolve \/ FlushAll \/ FlushAssign \/ Shutdown \/ Stopped \/ FinalFlush
  BY <1>5, ResolveKeeps, FlushAllKeeps, FlushAssignKeeps, ShutdownKeeps, StoppedKeeps, FinalFlushKeeps
<1> QED BY <1>1, <1>2, <1>3, <1>4, <1>5 DEF Next

LEMMA ProviderInvariant == Spec => []ProviderInv
BY ProviderInvInit, ProviderInvStep, PTL DEF Spec

\* Every variable keeps its type: no request is posted more than MAX_ATTEMPTS
\* times to a destination (logger.rs, send_with_retry).
THEOREM ProviderTypeCorrect == Spec => []TypeOK
<1>1. ProviderInv => TypeOK
  BY DEF ProviderInv
<1> QED BY <1>1, ProviderInvariant, PTL

\* Nothing is posted to the ingest worker without an account, wherever a
\* flush reads what an update stores (state.rs, update; logger.rs, send).
THEOREM IngestNamesAccount == Spec => []IngestHasAccount
<1>1. ProviderInv => IngestHasAccount
  BY PostsToAccount DEF ProviderInv
<1> QED BY <1>1, ProviderInvariant, PTL

\* The ETag sent to the CDN is that of the state in use (state.rs, fetch).
THEOREM EtagMatchesState == Spec => []EtagIsOfState
<1>1. ProviderInv => EtagIsOfState
  BY DEF ProviderInv
<1> QED BY <1>1, ProviderInvariant, PTL

\* A terminal error is reported only without a state, and for good
\* (provider.rs, init and the refresh loop).
THEOREM TerminalStays == Spec => []TerminalIsFinal
<1>1. ProviderInv => TerminalIsFinal
  BY DEF ProviderInv
<1> QED BY <1>1, ProviderInvariant, PTL

(* What the refresh stores piece by piece is consistent at every moment,   *)
(* for every flush that reads it in between.                               *)
THEOREM StoredCorrect == Spec => []StoredConsistent
BY IngestNamesAccount, EtagMatchesState, TerminalStays, PTL DEF StoredConsistent

\* A provider that resolves has a background task that flushes, or no logs
\* (provider.rs, start_background_tasks).
THEOREM LogsHaveFlusher == Spec => []SomebodyFlushes
<1>1. ProviderInv => SomebodyFlushes
  BY FlushedBySomebody DEF ProviderInv
<1> QED BY <1>1, ProviderInvariant, PTL

\* An assignment is in one place, also while the flushes of shutdown and of
\* the background task overlap (logger.rs, flush_all and flush_assign).
THEOREM AssignmentsOnce == Spec => []AssignedOnce
<1>1. ProviderInv => AssignedOnce
  BY PlacesOnce DEF ProviderInv
<1> QED BY <1>1, ProviderInvariant, PTL

\* The init count goes into at most one request (logger.rs,
\* InitTelemetryState).
THEOREM InitCountedOnce == Spec => []InitReportedOnce
<1>1. ProviderInv => InitReportedOnce
  BY DEF ProviderInv, Claimed, InitReportedOnce
<1> QED BY <1>1, ProviderInvariant, PTL

\* Shutdown leaves no resolve behind (provider.rs, shutdown).
THEOREM ResolvesTaken == Spec => []ShutdownTakesResolves
<1>1. ProviderInv => ShutdownTakesResolves
  BY DEF ProviderInv, Logs, ShutdownTakesResolves
<1> QED BY <1>1, ProviderInvariant, PTL

\* It leaves assignments behind only for want of room in its one request.
THEOREM OnlyOverflowLeft == Spec => []ShutdownLeavesOnlyOverflow
<1>1. ProviderInv => ShutdownLeavesOnlyOverflow
  BY DEF ProviderInv
<1> QED BY <1>1, ProviderInvariant, PTL

(* Every log has somebody to take it and is taken once, through start,     *)
(* failure and shutdown, for any number of logs and destinations.          *)
THEOREM LogsCorrect == Spec => []LogsTaken
BY LogsHaveFlusher, AssignmentsOnce, InitCountedOnce, ResolvesTaken, OnlyOverflowLeft, PTL
DEF LogsTaken

=============================================================================
