------------------------------- MODULE MCLog -------------------------------
(* Model-checking instances of the log. *)
EXTENDS Log, TLC

Symmetry == Permutations(Proc) \union Permutations(Block)
=============================================================================
