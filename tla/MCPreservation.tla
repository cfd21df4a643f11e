--------------------------- MODULE MCPreservation ---------------------------
(* Model-checking instance of Preservation. *)
EXTENDS Preservation, TLC

CONSTANTS p1, p2

TwoOpeners == {p1, p2}

Symmetry == Permutations(TwoOpeners)
=============================================================================
