------------------------------ MODULE MCResume ------------------------------
(* Model-checking instance of Resume. *)
EXTENDS Resume

CONSTANTS c1, c2, chat, other

TwoCallers == {c1, c2}
Both == {chat, other}
One == {chat}
Codex == {"codex"}
AllCodex == [v \in Both |-> "codex"]
NoKind == {}
TwoPanes == {"%0", "%1"}
=============================================================================
