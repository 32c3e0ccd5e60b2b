---------------------------- MODULE MCPipeline ----------------------------
(* An instance of Pipeline for TLC. *)
EXTENDS Pipeline, TLC

RequestSymmetry == Permutations(Requests)

===========================================================================
