---------------------------- MODULE MCImageBuild ----------------------------
(* Instances of ImageBuild for TLC: two tasks that share a file name. *)
EXTENDS ImageBuild, TLC

CONSTANTS r1, r2

TwoScripts == (r1 :> {"locustfile", "common"}) @@ (r2 :> {"common"})

WalkOrder == <<"Dockerfile", "common", "locustfile", "scripts">>
=============================================================================
