--------------------------- MODULE MCTermManager ---------------------------
(* TermManager for TLC: interchangeable channels. *)
EXTENDS TermManager, TLC
Symmetry == Permutations(Client)
=============================================================================
