----------------------------- MODULE MCCaptures -----------------------------
(* Model-checking instance of Captures. *)
EXTENDS Captures

CONSTANTS h1, h2, timer

TwoHooks == {h1, h2}
OneTimer == {timer}
=============================================================================
