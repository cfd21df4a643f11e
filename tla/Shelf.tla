------------------------------- MODULE Shelf -------------------------------
(***************************************************************************)
(* What moving an incompatible database aside promises: it leaves its name *)
(* in one step, goes to the shelf and stays there, and a fresh database    *)
(* is started only under a name that is free.                              *)
(***************************************************************************)
EXTENDS Naturals

CONSTANT Databases   \* every database that is ever created; 0 is none

VARIABLES
    current,   \* the database under the engine's own name
    shelf      \* those moved aside

Init == current = 0 /\ shelf = {}

Start(d) ==
    /\ current = 0
    /\ d \notin shelf
    /\ current' = d
    /\ UNCHANGED shelf

Shelve ==
    /\ current # 0
    /\ shelf' = shelf \union {current}
    /\ current' = 0

Next == (\E d \in Databases : Start(d)) \/ Shelve

Spec == Init /\ [][Next]_<<current, shelf>>
=============================================================================
