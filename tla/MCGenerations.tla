--------------------------- MODULE MCGenerations ---------------------------
(* Model values and symmetry for checking Generations with TLC. *)
EXTENDS Generations, TLC

DocSymmetry == Permutations(Doc)

=============================================================================
