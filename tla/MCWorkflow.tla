----------------------------- MODULE MCWorkflow -----------------------------
(***************************************************************************)
(* Finite instances of Workflow for TLC.                                   *)
(***************************************************************************)
EXTENDS Workflow

CONSTANTS root, child, next, op, helper, g1, g2

\* A root task and the child it delegates, and the root of a second goal.
PairGoalOf == [t \in Tasks |-> IF t = next THEN g2 ELSE g1]
PairAgentOf == [t \in Tasks |-> IF t = child THEN helper ELSE op]
PairParentOf == [t \in Tasks |-> IF t = child THEN root ELSE NoTask]

\* A root that delegates twice to the same helper, in one goal.
TwinGoalOf == [t \in Tasks |-> g1]
TwinAgentOf == [t \in Tasks |-> IF t = root THEN op ELSE helper]
TwinParentOf == [t \in Tasks |-> IF t = root THEN NoTask ELSE root]
=============================================================================
