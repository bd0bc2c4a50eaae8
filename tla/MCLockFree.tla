----------------------------- MODULE MCLockFree -----------------------------
(***************************************************************************)
(* The two lock-free structures that threads share while they resolve, for *)
(* TLC: the schema sample and the telemetry collector.  They do not touch  *)
(* each other, so a behaviour is one of either.                            *)
(***************************************************************************)
EXTENDS BoundedSet, Telemetry, TLC

CONSTANTS t1, t2, t3, x1, x2, x3, x4

VARIABLE part

LockFreeInit == Init /\ TelInit /\ part \in {"sample", "telemetry"}

LockFreeNext ==
  /\ UNCHANGED part
  /\ \/ part = "sample" /\ Next /\ UNCHANGED telVars
     \/ part = "telemetry" /\ TelNext /\ UNCHANGED vars

LockFreeSpec == LockFreeInit /\ [][LockFreeNext]_<<vars, telVars, part>>

=============================================================================
