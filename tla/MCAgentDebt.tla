---------------------------- MODULE MCAgentDebt ----------------------------
(* Model-checking instance of AgentDebt. *)
EXTENDS AgentDebt, TLC

CONSTANTS main, side, chat, other

TwoPlaces == {main, side}
TwoConversations == {chat, other}
OneBound == main :> chat @@ side :> Nothing

\* A statement that failed and was only reported excuses the rest.
NothingMissed == ~mishap

\* The old server numbered its panes the other way round.
Swapped == main :> 2 @@ side :> 1
=============================================================================
