----------------------------- MODULE MCEngine -----------------------------
(* Model-checking instance of Engine. *)
EXTENDS Engine

OneEvent == {"window-linked"}
TwoEvents == {"window-linked", "pane-exited"}

\* Captures fail where there is no command and one server: neither touches what
\* failing captures do, but for stopping the daemon.
Apart == health'.spells > 0 => typed' = 0 /\ started' <= 1
=============================================================================
