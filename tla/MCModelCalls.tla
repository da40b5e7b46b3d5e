---------------------------- MODULE MCModelCalls ------------------------------
(* Instances of ModelCalls for TLC. *)
EXTENDS ModelCalls, TLC

CallerSymmetry == Permutations(Callers)
===============================================================================
