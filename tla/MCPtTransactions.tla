--------------------------- MODULE MCPtTransactions ---------------------------
(* Instances of PtTransactions for TLC. *)
EXTENDS PtTransactions, TLC

Symmetry == Permutations(Tasks) \cup Permutations(Executions) \cup Permutations(Requests)
=============================================================================
