------------------------------ MODULE MCLinks ------------------------------
(* Model-checking instance of Links. *)
EXTENDS Links

TwoIndexes == {1, 2}

\* alpha and beta share window 0; beta has one of its own.
TwoSharers == "alpha" :> (1 :> 0) @@ "beta" :> (1 :> 0 @@ 2 :> 1)
TwoNames == {"alpha", "beta"}
Sessions == {"alpha", "beta", "gamma"}

\* Windows that look alike, each with its own directory.
Alike == 0 :> [look |-> "sh", rest |-> "src"] @@ 1 :> [look |-> "sh", rest |-> "log"]
OneLook == {"sh"}
Directories == {"src", "log", "home"}
=============================================================================
