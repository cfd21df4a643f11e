-------------------------- MODULE MCSessionMemory --------------------------
(* Small instances of SessionMemory for TLC. *)
EXTENDS SessionMemory, TLC

CONSTANTS alpha, beta,   \* session names
          whole, part    \* session contents

\* Sessions are interchangeable, and so are contents.
Symmetry == Permutations({alpha, beta}) \union Permutations({whole, part})
=============================================================================
