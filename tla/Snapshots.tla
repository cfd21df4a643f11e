----------------------------- MODULE Snapshots -----------------------------
(***************************************************************************)
(* The `snapshots` and `session_rows` tables and the statements the engine *)
(* runs on them, as operators from one table value to the next.  A table   *)
(* is a function from snapshot ids to rows; a row whose state is "absent"  *)
(* was never inserted or has been deleted (ids are AUTOINCREMENT, so a     *)
(* deleted id stays absent for ever).                                      *)
(*                                                                         *)
(* A session's content (windows, panes, layouts, directories) is a member  *)
(* of Shapes; equiv::difference is inequality of shapes.  Windows linked   *)
(* into two sessions are not represented.                                  *)
(***************************************************************************)
EXTENDS Integers, FiniteSets

CONSTANTS
    Sessions,   \* session names
    Shapes,     \* session contents that equiv::difference tells apart
    None,       \* no session of that name
    MaxSnaps,   \* bound: snapshot ids handed out in a behaviour
    MaxBoots,   \* bound: boots in a behaviour
    MaxClock    \* bound: the wall clock, in units that matter to taken_at

ASSUME SnapshotsAssumption ==
    /\ None \notin Shapes
    /\ MaxSnaps \in Nat
    /\ MaxBoots \in Nat
    /\ MaxClock \in Nat

Ids == 1..MaxSnaps

States == {"absent", "building", "complete", "restore_in_progress",
           "restored", "failed"}

Placements == {"known", "unknown", "disabled"}

\* What a topology read returns, and what a snapshot's rows hold, per name.
Topology == [Sessions -> Shapes \union {None}]

Snapshot ==
    [ takenAt    : 0..MaxClock,
      boot       : 0..MaxBoots,
      state      : States,
      unresolved : BOOLEAN,           \* snapshots.unresolved
      placement  : Placements,        \* snapshots.placement_state
      holds      : Topology,          \* session_rows
      owed       : SUBSET Sessions,   \* session_rows.unresolved = 1
      carried    : SUBSET Sessions ]  \* rows whose tmux id is `carried:...`

Blank ==
    [ takenAt |-> 0, boot |-> 0, state |-> "absent", unresolved |-> FALSE,
      placement |-> "disabled", holds |-> [s \in Sessions |-> None],
      owed |-> {}, carried |-> {} ]

Held(topology) == {s \in Sessions : topology[s] # None}

Present(snaps) == {i \in Ids : snaps[i].state # "absent"}

\* ORDER BY taken_at DESC, id DESC: j comes before i.
Newer(snaps, j, i) ==
    \/ snaps[j].takenAt > snaps[i].takenAt
    \/ snaps[j].takenAt = snaps[i].takenAt /\ j > i

\* ... LIMIT 1, as a set: empty where the SQL yields NULL.
Newest(snaps, S) == {i \in S : \A j \in S \ {i} : Newer(snaps, i, j)}

PreviousBoot(snaps, boot) == {i \in Present(snaps) : snaps[i].boot # boot}

SelectRestoreSource(snaps, boot) ==
    Newest(snaps, {i \in PreviousBoot(snaps, boot) : snaps[i].state = "complete"})

-----------------------------------------------------------------------------
(* Debt: session_rows.unresolved and its cache on the snapshot. *)

SetState(snaps, i, state) == [snaps EXCEPT ![i].state = state]

ResolveSession(snaps, i, s) == [snaps EXCEPT ![i].owed = @ \ {s}]

RefreshUnresolved(snaps, i) ==
    [snaps EXCEPT ![i].unresolved = (snaps[i].owed # {})]

\* Everything in it is verifiably back.
Retire(snaps, i) ==
    [snaps EXCEPT ![i] = [@ EXCEPT !.state = "restored", !.unresolved = FALSE,
                                   !.owed = {}]]

\* One transaction: interrupted restores go back to `complete`, and every
\* session row of every unresolved snapshot is marked owed.
Reclaim(snaps) ==
    [i \in Ids |->
        LET orphan == snaps[i].state = "restore_in_progress"
            owes   == orphan \/ snaps[i].unresolved
        IN  [snaps[i] EXCEPT
                !.state      = IF orphan THEN "complete" ELSE @,
                !.unresolved = owes,
                !.owed       = IF owes THEN Held(snaps[i].holds) ELSE @]]

-----------------------------------------------------------------------------
(* Capture: the live topology plus whatever is owed and not live. *)

\* The snapshots carry_forward visits.
DebtSources(snaps) == {i \in Present(snaps) : snaps[i].unresolved}

\* The newest of them that still owes s.
Carrier(snaps, s) ==
    Newest(snaps, {i \in DebtSources(snaps) : s \in snaps[i].owed})

CarriedSessions(snaps, topology) ==
    {s \in Sessions \ Held(topology) : Carrier(snaps, s) # {}}

\* Mutant of Settled: a live session of the same name is enough.
SettledByName(snaps, topology, i) ==
    {s \in snaps[i].owed : s \in Held(topology) \/ i \in Carrier(snaps, s)}

\* Rows whose debt the capture discharges: verifiably back, or moved.
Settled(snaps, topology, i) ==
    {s \in snaps[i].owed :
        \/ s \in Held(topology) /\ topology[s] = snaps[i].holds[s]
        \/ s \notin Held(topology) /\ i \in Carrier(snaps, s)}

\* Mutant of CarryForward: no refresh_unresolved when a source still owes.
CarryForwardUncached(snaps, topology) ==
    [i \in Ids |->
        IF i \notin DebtSources(snaps) THEN snaps[i]
        ELSE [snaps[i] EXCEPT !.owed = @ \ Settled(snaps, topology, i),
                              !.unresolved = FALSE]]

CarryForward(snaps, topology) ==
    [i \in Ids |->
        IF i \notin DebtSources(snaps) THEN snaps[i]
        ELSE LET left == snaps[i].owed \ Settled(snaps, topology, i)
             IN  [snaps[i] EXCEPT !.owed = left, !.unresolved = (left # {})]]

CarriedContent(snaps, s) == snaps[CHOOSE i \in Carrier(snaps, s) : TRUE].holds[s]

\* Mutant of CapturedRow: an off-by-one in the time.
CapturedRowLate(snaps, topology, boot, now, placement) ==
    [ takenAt |-> now + 1, boot |-> boot, state |-> "complete",
      unresolved |-> FALSE, placement |-> placement, holds |-> topology,
      owed |-> {}, carried |-> {} ]

CapturedRow(snaps, topology, boot, now, placement) ==
    LET carried == CarriedSessions(snaps, topology)
    IN  [ takenAt |-> now, boot |-> boot, state |-> "complete",
          unresolved |-> (carried # {}), placement |-> placement,
          holds |-> [s \in Sessions |->
                        IF s \in carried THEN CarriedContent(snaps, s)
                                         ELSE topology[s]],
          owed |-> carried, carried |-> carried ]

\* One transaction: insert snapshot `id`, carry forward into it.
WriteTopology(snaps, id, topology, boot, now, placement) ==
    [CarryForward(snaps, topology) EXCEPT
        ![id] = CapturedRow(snaps, topology, boot, now, placement)]

-----------------------------------------------------------------------------
(* Retention. *)

NewestKeep(snaps, keep) ==
    {i \in Present(snaps) :
        Cardinality({j \in Present(snaps) : Newer(snaps, j, i)}) < keep}

KnowsPlacement(snaps) ==
    {i \in Present(snaps) : /\ snaps[i].state # "building"
                            /\ snaps[i].placement = "known"}

\* Mutants of Exempt: the restore source, or the previous boot's layout, is
\* an ordinary old row.
ExemptNotSource(snaps, running, boot) ==
    running
    \union {i \in Present(snaps) : snaps[i].state = "restore_in_progress"}
    \union {i \in Present(snaps) : snaps[i].unresolved}
    \union Newest(snaps, KnowsPlacement(snaps))

ExemptNotPreviousLayout(snaps, running, boot) ==
    running
    \union {i \in Present(snaps) : snaps[i].state = "restore_in_progress"}
    \union {i \in Present(snaps) : snaps[i].unresolved}
    \union SelectRestoreSource(snaps, boot)
    \union Newest(snaps, KnowsPlacement(snaps))

Exempt(snaps, running, boot) ==
    running
    \union {i \in Present(snaps) : snaps[i].state = "restore_in_progress"}
    \union {i \in Present(snaps) : snaps[i].unresolved}
    \union SelectRestoreSource(snaps, boot)
    \union Newest(snaps, KnowsPlacement(snaps))
    \union Newest(snaps, KnowsPlacement(snaps) \intersect PreviousBoot(snaps, boot))

\* `running`: snapshots with an attempt in state `running`.
Prune(snaps, running, boot, keep) ==
    [i \in Ids |-> IF i \in NewestKeep(snaps, keep) \union Exempt(snaps, running, boot)
                   THEN snaps[i] ELSE Blank]
=============================================================================
