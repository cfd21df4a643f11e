------------------------------ MODULE Recorder ------------------------------
(***************************************************************************)
(* What capturing promises, whoever captures: the newest snapshot never    *)
(* goes back to an earlier state of tmux, never holds a state tmux was not *)
(* in, and once tmux stops changing it holds its last state.               *)
(***************************************************************************)
EXTENDS Integers

CONSTANT MaxChanges   \* bound: states of tmux in a behaviour

VARIABLES
    version,   \* how often tmux has changed
    newest     \* the version the newest snapshot holds

recorderVars == <<version, newest>>

Init == version = 0 /\ newest = 0

TmuxChanges ==
    /\ version < MaxChanges
    /\ version' = version + 1
    /\ UNCHANGED newest

Record ==
    /\ newest < version
    /\ newest' \in (newest + 1)..version
    /\ UNCHANGED version

Next == TmuxChanges \/ Record

InOrder == Init /\ [][Next]_recorderVars

Spec == InOrder /\ WF_recorderVars(Record)
=============================================================================
