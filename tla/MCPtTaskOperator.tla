--------------------------- MODULE MCPtTaskOperator ---------------------------
(* Instances of PtTaskOperator for TLC. *)
EXTENDS PtTaskOperator, TLC

CONSTANTS t1, t2, s1, s2, g1, g2

OneScenario    == (t1 :> {s1})
TwoScenarios   == (t1 :> {s1, s2})
TwoTasks       == (t1 :> {s1}) @@ (t2 :> {s2})
SharedScenario == (t1 :> {s1}) @@ (t2 :> {s1})
NoWorkers      == [s \in Scenarios |-> 0]
OneWorkerEach  == [s \in Scenarios |-> 1]
FourWorkers    == [s \in Scenarios |-> 4]
NoTraffics     == [s \in Scenarios |-> <<>>]
ThreeRegions   == [s \in Scenarios |-> <<38, 38, 24>>]  \* one worker, one, and none
NoExecutionId  == [t \in Tasks |-> NoId]
OwnExecutionId == [t \in Tasks |-> 1]

Symmetry == Permutations(Slots)
ScenarioSymmetry == Symmetry \cup Permutations(Scenarios)
=============================================================================
