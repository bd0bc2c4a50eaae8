----------------------------- MODULE LogLedger ------------------------------
(***************************************************************************)
(* What the in-memory loggers promise their callers: a call of log_resolve,*)
(* log_assigns or track is recorded once, and a checkpoint hands out       *)
(* recorded calls, each of them to one checkpoint only and never in part.  *)
(***************************************************************************)
CONSTANT Calls

VARIABLES
  pending,      \* calls recorded and not handed out yet
  reported      \* calls handed out

ledgerVars == <<pending, reported>>

Init == pending = {} /\ reported = {}

Record(c) ==
  /\ c \notin pending \cup reported
  /\ pending' = pending \cup {c}
  /\ UNCHANGED reported

Report(S) ==
  /\ S \subseteq pending
  /\ pending' = pending \ S
  /\ reported' = reported \cup S

Next == \/ \E c \in Calls : Record(c)
        \/ \E S \in SUBSET pending : Report(S)

Spec == Init /\ [][Next]_ledgerVars
=============================================================================
