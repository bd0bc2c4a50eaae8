--------------------------- MODULE ChunkDelivery ----------------------------
(***************************************************************************)
(* What delivering the chunks of a batch promises to its callers: chunks   *)
(* are settled one after the other, a chunk reported as delivered has      *)
(* reached the backend, and a chunk reported as lost may have reached it   *)
(* all the same (an answer that never came back).                          *)
(***************************************************************************)
CONSTANT Chunks

VARIABLES
  outcome,  \* of each chunk: "none" while it is not settled, "ok" or "lost"
  arrived   \* the chunks the backend has

Init == outcome = [c \in Chunks |-> "none"] /\ arrived = {}

Arrive(c) == outcome[c] = "none" /\ arrived' = arrived \cup {c} /\ UNCHANGED outcome

Deliver(c) ==
  /\ outcome[c] = "none"
  /\ outcome' = [outcome EXCEPT ![c] = "ok"]
  /\ arrived' = arrived \cup {c}

Lose(c) ==
  /\ outcome[c] = "none"
  /\ outcome' = [outcome EXCEPT ![c] = "lost"]
  /\ arrived' \in {arrived, arrived \cup {c}}

Next == \E c \in Chunks : Arrive(c) \/ Deliver(c) \/ Lose(c)

Spec == Init /\ [][Next]_<<outcome, arrived>>

=============================================================================
