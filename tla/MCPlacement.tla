---------------------------- MODULE MCPlacement ----------------------------
(* Model-checking instance of Placement. *)
EXTENDS Placement, TLC

CONSTANTS work, mail

OneSession == {work}
TwoSessions == {work, mail}

\* Workspace 9 on the panel, 1 on the laptop's own screen.
OnPanel == work :> [ws |-> "9", mon |-> "DP-1"]
Apart == OnPanel @@ mail :> [ws |-> "1", mon |-> "eDP-1"]

TwoWorkspaces == {"1", "9"}
TwoMonitors == {"eDP-1", "DP-1"}
TwoAddresses == {"0xa", "0xb"}
=============================================================================
