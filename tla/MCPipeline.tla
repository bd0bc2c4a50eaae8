----------------------------- MODULE MCPipeline -----------------------------
(***************************************************************************)
(* The queue sink for TLC, and next to it one invocation's delivery        *)
(* against its deadline: a behaviour is one of either.                     *)
(***************************************************************************)
EXTENDS Pipeline, Delivery, TLC

CONSTANTS j1, j2

VARIABLE part

JobSymmetry == Permutations(Jobs)

\* The second of three logs is a large one.
MCSize(r) == IF r = 2 THEN 2 ELSE 1

PipelineInit == Init /\ DeliveryInit /\ part \in {"pipeline", "delivery"}

PipelineNext ==
  /\ UNCHANGED part
  /\ \/ part = "pipeline" /\ Next /\ UNCHANGED deliveryVars
     \/ part = "delivery" /\ DeliveryNext /\ UNCHANGED vars

PipelineSpec == PipelineInit /\ [][PipelineNext]_<<vars, deliveryVars, part>>

=============================================================================
