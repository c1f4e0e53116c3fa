---------------------------- MODULE MCProvisioning ----------------------------
(* Instances of Provisioning for TLC. *)
EXTENDS Provisioning, TLC

CONSTANTS t1, t2, e1, e2, home1, region1

\* The first task runs in the master cluster, the second one in a region as well.
OneRegion == (t1 :> <<>>) @@ (t2 :> <<region1>>)
NoRegion  == [t \in Tasks |-> <<>>]
=============================================================================
