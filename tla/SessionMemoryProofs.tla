------------------------ MODULE SessionMemoryProofs ------------------------
(***************************************************************************)
(* What holds of SessionMemory for every number of sessions, contents,     *)
(* snapshots and boots, every retention setting and every clock.           *)
(***************************************************************************)
EXTENDS SessionMemory, FiniteSetTheorems, WellFoundedInduction, TLAPS

(* The table operators keep the table well typed. *)

LEMMA BlankType == Blank \in Snapshot
BY SnapshotsAssumption DEF Blank, Snapshot, States, Placements, Topology

LEMMA SetStateType ==
    ASSUME NEW table \in [Ids -> Snapshot], NEW i, NEW state \in States
    PROVE  SetState(table, i, state) \in [Ids -> Snapshot]
BY DEF SetState, Snapshot

LEMMA ResolveSessionType ==
    ASSUME NEW table \in [Ids -> Snapshot], NEW i, NEW s
    PROVE  ResolveSession(table, i, s) \in [Ids -> Snapshot]
BY DEF ResolveSession, Snapshot

LEMMA RefreshUnresolvedType ==
    ASSUME NEW table \in [Ids -> Snapshot], NEW i
    PROVE  RefreshUnresolved(table, i) \in [Ids -> Snapshot]
BY DEF RefreshUnresolved, Snapshot

LEMMA RetireType ==
    ASSUME NEW table \in [Ids -> Snapshot], NEW i
    PROVE  Retire(table, i) \in [Ids -> Snapshot]
BY DEF Retire, Snapshot, States

LEMMA ReclaimType ==
    ASSUME NEW table \in [Ids -> Snapshot]
    PROVE  Reclaim(table) \in [Ids -> Snapshot]
BY DEF Reclaim, Snapshot, States, Held

LEMMA CarryForwardType ==
    ASSUME NEW table \in [Ids -> Snapshot], NEW topology
    PROVE  CarryForward(table, topology) \in [Ids -> Snapshot]
BY DEF CarryForward, Snapshot

LEMMA PruneType ==
    ASSUME NEW table \in [Ids -> Snapshot], NEW busy, NEW b, NEW keep
    PROVE  Prune(table, busy, b, keep) \in [Ids -> Snapshot]
BY BlankType DEF Prune

\* The content a capture carries is the content of a row some snapshot holds.
LEMMA CarriedContentType ==
    ASSUME NEW table \in [Ids -> Snapshot], NEW topology,
           NEW s \in CarriedSessions(table, topology)
    PROVE  CarriedContent(table, s) \in Shapes \union {None}
<1> DEFINE i == CHOOSE i \in Carrier(table, s) : TRUE
<1>1. Carrier(table, s) # {}
  BY DEF CarriedSessions
<1>2. i \in Carrier(table, s)
  BY <1>1
<1>3. i \in Ids
  BY <1>2 DEF Carrier, Newest, DebtSources, Present
<1>4. s \in Sessions
  BY DEF CarriedSessions
<1> QED
  BY <1>3, <1>4 DEF CarriedContent, Snapshot, Topology

LEMMA CapturedRowType ==
    ASSUME NEW table \in [Ids -> Snapshot], NEW topology \in Topology,
           NEW b \in 0..MaxBoots, NEW now \in 0..MaxClock,
           NEW placement \in Placements
    PROVE  CapturedRow(table, topology, b, now, placement) \in Snapshot
<1> DEFINE carried == CarriedSessions(table, topology)
           holds   == [s \in Sessions |-> IF s \in carried
                                          THEN CarriedContent(table, s)
                                          ELSE topology[s]]
<1>1. carried \in SUBSET Sessions
  BY DEF CarriedSessions
<1>2. holds \in Topology
  <2>1. ASSUME NEW s \in Sessions PROVE holds[s] \in Shapes \union {None}
    BY CarriedContentType DEF Topology
  <2> QED BY <2>1 DEF Topology
<1>3. (carried # {}) \in BOOLEAN /\ "complete" \in States
  BY DEF States
<1> HIDE DEF carried, holds
<1>4. [ takenAt |-> now, boot |-> b, state |-> "complete",
        unresolved |-> (carried # {}), placement |-> placement,
        holds |-> holds, owed |-> carried, carried |-> carried ] \in Snapshot
  BY <1>1, <1>2, <1>3 DEF Snapshot
<1> QED
  BY <1>4 DEF CapturedRow, carried, holds

LEMMA WriteTopologyType ==
    ASSUME NEW table \in [Ids -> Snapshot], NEW id, NEW topology \in Topology,
           NEW b \in 0..MaxBoots, NEW now \in 0..MaxClock,
           NEW placement \in Placements
    PROVE  WriteTopology(table, id, topology, b, now, placement)
              \in [Ids -> Snapshot]
BY CarryForwardType, CapturedRowType DEF WriteTopology

-----------------------------------------------------------------------------
(* The pieces of a step. *)

LEMMA PartedType ==
    ASSUME parted' \subseteq OwedContents'
    PROVE  parted' \subseteq Sessions \X Shapes
BY DEF OwedContents, Contents

LEMMA FreshType == Fresh \in Incarnations
<1>1. 1 # rst.anchor \/ 2 # rst.anchor
  OBVIOUS
<1>2. \E x \in Incarnations : x # rst.anchor
  BY <1>1 DEF Incarnations
<1> QED
  BY <1>2 DEF Fresh

LEMMA IdleTypes == IdleRestore \in Restore /\ IdleCapture \in Capture
BY SnapshotsAssumption
   DEF IdleRestore, IdleCapture, Restore, Capture, RestoreSteps, Nothing, Topology

LEMMA GotoType ==
    ASSUME rst \in Restore, NEW pc \in RestoreSteps
    PROVE  Goto(pc) \in Restore
BY DEF Goto, Restore

LEMMA DischargingType ==
    ASSUME rst \in Restore, NEW delivered \in SUBSET Sessions
    PROVE  Discharging(delivered) \in Restore
BY IdleTypes DEF Discharging, Restore, RestoreSteps

LEMMA HeldType == ASSUME NEW topology PROVE Held(topology) \in SUBSET Sessions
BY DEF Held

-----------------------------------------------------------------------------
(* Type correctness.  StartAttempt marks rst.src as running, so the type of *)
(* `running` rests on the restore having a source from SelectSource on.     *)

HasSource(r) == r.pc \notin {"idle", "locked", "reclaimed"} => r.src \in Ids

TypeInv == TypeOK /\ HasSource(rst)

LEMMA IdleSource == IdleRestore \in Restore /\ HasSource(IdleRestore)
BY IdleTypes DEF HasSource, IdleRestore

LEMMA InitType == Init => TypeInv
BY SnapshotsAssumption, SessionMemoryAssumption, BlankType, IdleTypes
   DEF Init, TypeInv, TypeOK, HasSource, IdleRestore, Nothing, Topology

LEMMA EnvironmentType == TypeInv /\ Environment => TypeInv'
<1> SUFFICES ASSUME TypeInv, Environment PROVE TypeInv'
  OBVIOUS
<1> USE DEF TypeOK, TypeInv, HasSource
<1>1. ASSUME NEW s \in Sessions, NEW shape \in Shapes \union {None},
             UserChanges(s, shape)
      PROVE  TypeInv'
  <2>1. live' \in Topology
    BY <1>1 DEF UserChanges, Topology
  <2>2. server' \in Incarnations \union {0}
    BY <1>1, FreshType DEF UserChanges
  <2>3. edits' \in 0..MaxEdits
    BY <1>1, SessionMemoryAssumption DEF UserChanges
  <2>4. parted' \subseteq Sessions \X Shapes
    BY <1>1, PartedType DEF Observe, UserChanges
  <2> QED
    BY <1>1, <2>1, <2>2, <2>3, <2>4 DEF UserChanges
<1>2. CASE \E s \in Sessions, shape \in Shapes :
              UserCreates(s, shape) \/ UserReshapes(s, shape)
  BY <1>1, <1>2 DEF UserCreates, UserReshapes
<1>3. CASE \E s \in Sessions : UserCloses(s)
  BY <1>1, <1>3 DEF UserCloses
<1>4. CASE \E t \in 0..MaxClock : ClockMoves(t)
  BY <1>4, PartedType DEF Observe, ClockMoves
<1>5. CASE ServerDies
  BY <1>5, PartedType DEF Observe, ServerDies, Nothing, Topology
<1>6. CASE Reboot
  BY <1>6, SnapshotsAssumption, IdleSource, IdleTypes DEF Reboot, Nothing, Topology
<1> QED
  BY <1>2, <1>3, <1>4, <1>5, <1>6 DEF Environment

LEMMA CaptureType == TypeInv /\ CaptureStep => TypeInv'
<1> SUFFICES ASSUME TypeInv, CaptureStep PROVE TypeInv'
  OBVIOUS
<1> USE DEF TypeOK, TypeInv, HasSource
<1>1. CASE CaptureCollect
  BY <1>1, PartedType DEF Observe, CaptureCollect, Capture
<1>2. ASSUME NEW placement \in PlacementAnswers, CaptureCommit(placement)
      PROVE  TypeInv'
  <2>1. placement \in Placements /\ cap.topo \in Topology
    BY SessionMemoryAssumption DEF Capture
  <2>2. snaps' \in [Ids -> Snapshot]
    BY <1>2, <2>1, WriteTopologyType DEF CaptureCommit
  <2>3. nextId' \in 1..(MaxSnaps + 1)
    BY <1>2, SnapshotsAssumption DEF CaptureCommit
  <2>4. cap' \in Capture
    BY <1>2 DEF CaptureCommit, Capture, Nothing, Topology
  <2>5. parted' \subseteq Sessions \X Shapes
    BY <1>2, PartedType DEF Observe, CaptureCommit
  <2> QED
    BY <1>2, <2>2, <2>3, <2>4, <2>5 DEF CaptureCommit
<1>3. CASE CapturePrune
  BY <1>3, PartedType, PruneType, IdleTypes DEF Observe, CapturePrune
<1>4. CASE CaptureStops
  BY <1>4, PartedType, IdleTypes DEF Observe, CaptureStops
<1> QED
  BY <1>1, <1>2, <1>3, <1>4 DEF CaptureStep

\* The record of a restore after each kind of step.
LEMMA GotoSource ==
    ASSUME TypeInv, NEW pc \in RestoreSteps, rst.src \in Ids
    PROVE  Goto(pc) \in Restore /\ HasSource(Goto(pc))
BY GotoType DEF TypeInv, TypeOK, HasSource, Goto, Restore

LEMMA DischargingSource ==
    ASSUME TypeInv, NEW delivered \in SUBSET Sessions, rst.src \in Ids
    PROVE  Discharging(delivered) \in Restore /\ HasSource(Discharging(delivered))
BY DischargingType
   DEF TypeInv, TypeOK, HasSource, Discharging, IdleRestore, Restore

\* A step of the restore that leaves the server alone keeps the types when it
\* keeps those of the table, the attempts and its own record.
LEMMA ProceedsType ==
    ASSUME TypeInv, NEW next \in Restore, HasSource(next), Proceeds(next),
           snaps' \in [Ids -> Snapshot], running' \subseteq Ids, Observe
    PROVE  TypeInv'
BY PartedType DEF Observe, TypeInv, TypeOK, Proceeds, HasSource

LEMMA RestoreType == TypeInv /\ RestoreStep => TypeInv'
<1> SUFFICES ASSUME TypeInv, RestoreStep PROVE TypeInv'
  OBVIOUS
<1>0. /\ rst \in Restore /\ snaps \in [Ids -> Snapshot] /\ running \subseteq Ids
      /\ IdleRestore \in Restore /\ HasSource(IdleRestore)
      /\ \A topology : Held(topology) \in SUBSET Sessions
      /\ Delivered \in SUBSET Sessions
      /\ rst.pc \notin {"idle", "locked", "reclaimed"} => rst.src \in Ids
  BY IdleSource, HeldType DEF TypeInv, TypeOK, HasSource, Delivered, Restore
<1>1. CASE BeginRestore
  <2>1. Goto("locked") \in Restore /\ HasSource(Goto("locked"))
    BY <1>0 DEF Goto, Restore, RestoreSteps, HasSource
  <2> QED
    BY <1>0, <1>1, <2>1, ProceedsType DEF BeginRestore
<1>2. CASE ReclaimOrphans
  <2>1. Goto("reclaimed") \in Restore /\ HasSource(Goto("reclaimed"))
    BY <1>0 DEF Goto, Restore, RestoreSteps, HasSource
  <2> QED
    BY <1>0, <1>2, <2>1, ReclaimType, ProceedsType DEF ReclaimOrphans
<1>3. CASE SelectSource
  <2>1. PICK i \in SelectRestoreSource(snaps, boot) :
           Proceeds([rst EXCEPT !.pc = "selected", !.src = i])
    BY <1>3 DEF SelectSource
  <2>2. i \in Ids /\ i \in 0..MaxSnaps
    BY SnapshotsAssumption
       DEF SelectRestoreSource, Newest, PreviousBoot, Present, Ids
  <2> DEFINE next == [rst EXCEPT !.pc = "selected", !.src = i]
  <2>3. next \in Restore /\ HasSource(next)
    BY <1>0, <2>2 DEF Restore, RestoreSteps, HasSource
  <2> QED
    BY <1>0, <1>3, <2>1, <2>3, ProceedsType DEF SelectSource
<1>4. CASE EndEarly
  BY <1>0, <1>4, ProceedsType DEF EndEarly
<1>5. CASE MarkInProgress
  <2>1. "restore_in_progress" \in States /\ "marked" \in RestoreSteps /\ rst.src \in Ids
    BY <1>0, <1>5 DEF States, RestoreSteps, MarkInProgress
  <2> QED
    BY <1>0, <1>5, <2>1, SetStateType, GotoSource, ProceedsType DEF MarkInProgress
<1>6. CASE OweSnapshot
  <2>1. "flagged" \in RestoreSteps /\ rst.src \in Ids
    BY <1>0, <1>6 DEF RestoreSteps, OweSnapshot
  <2>2. snaps' \in [Ids -> Snapshot]
    BY <1>0, <1>6 DEF OweSnapshot, Snapshot
  <2> QED
    BY <1>0, <1>6, <2>1, <2>2, GotoSource, ProceedsType DEF OweSnapshot
<1>7. CASE OweSessions
  <2>1. "owing" \in RestoreSteps /\ rst.src \in Ids
    BY <1>0, <1>7 DEF RestoreSteps, OweSessions
  <2>2. snaps' \in [Ids -> Snapshot]
    BY <1>0, <1>7 DEF OweSessions, Snapshot
  <2> QED
    BY <1>0, <1>7, <2>1, <2>2, GotoSource, ProceedsType DEF OweSessions
<1>8. CASE StartAttempt
  <2> DEFINE next == [rst EXCEPT !.pc = "started", !.anchor = server]
  <2>1. rst.src \in Ids
    BY <1>0, <1>8 DEF StartAttempt
  <2>2. next \in Restore /\ HasSource(next)
    BY <1>0, <2>1 DEF Restore, RestoreSteps, TypeInv, TypeOK, HasSource
  <2> QED
    BY <1>0, <1>8, <2>1, <2>2, ProceedsType DEF StartAttempt
<1>9. CASE ReadLiveNames
  <2> DEFINE next == [rst EXCEPT !.pc = "building", !.seen = Held(live),
                                 !.todo = Held(Plan)]
  <2>1. next \in Restore /\ HasSource(next)
    BY <1>0, <1>9 DEF Restore, RestoreSteps, HasSource, ReadLiveNames
  <2> QED
    BY <1>0, <1>9, <2>1, ProceedsType DEF ReadLiveNames
<1>10. ASSUME NEW s \in Sessions, AdoptSession(s) PROVE TypeInv'
  <2> DEFINE next == [rst EXCEPT
                !.pc = "checking", !.built = FALSE, !.todo = @ \ {s},
                !.done = IF live[s] = Plan[s] THEN @ \union {s} ELSE @]
  <2>1. next \in Restore /\ HasSource(next)
    BY <1>0, <1>10 DEF Restore, RestoreSteps, HasSource, AdoptSession
  <2> QED
    BY <1>0, <1>10, <2>1, ProceedsType DEF AdoptSession
<1>11. ASSUME NEW s \in Sessions, CreateCollides(s) PROVE TypeInv'
  <2> DEFINE next == [rst EXCEPT
                !.pc = "checking", !.built = TRUE, !.todo = @ \ {s}]
  <2>1. next \in Restore /\ HasSource(next)
    BY <1>0, <1>11 DEF Restore, RestoreSteps, HasSource, CreateCollides
  <2> QED
    BY <1>0, <1>11, <2>1, ProceedsType DEF CreateCollides
<1>12. ASSUME NEW s \in Sessions, NEW shape \in Shapes \union {None},
              NEW outcome \in {"done", "degraded", "failed"},
              CreateSession(s, shape, outcome)
       PROVE  TypeInv'
  <2>1. rst' \in Restore /\ HasSource(rst')
    BY <1>0, <1>12 DEF Restore, RestoreSteps, HasSource, CreateSession
  <2>2. live' \in Topology
    BY <1>12 DEF CreateSession, TypeInv, TypeOK, Topology
  <2>3. server' \in Incarnations \union {0}
    BY <1>12, FreshType DEF CreateSession, TypeInv, TypeOK
  <2>4. parted' \subseteq Sessions \X Shapes
    BY <1>12, PartedType DEF Observe, CreateSession
  <2> QED
    BY <1>12, <2>1, <2>2, <2>3, <2>4 DEF CreateSession, TypeInv, TypeOK
<1>13. CASE CheckServer
  <2> DEFINE next == [rst EXCEPT !.pc = "building", !.anchor = server, !.built = FALSE]
  <2>1. rst.src \in Ids
    BY <1>0, <1>13 DEF CheckServer
  <2>2. next \in Restore /\ HasSource(next)
    BY <1>0, <2>1 DEF Restore, RestoreSteps, HasSource, TypeInv, TypeOK
  <2> QED
    BY <1>0, <1>13, <2>1, <2>2, DischargingSource, ProceedsType DEF CheckServer
<1>14. CASE EndTree
  <2>1. rst.src \in Ids /\ "resuming" \in RestoreSteps
    BY <1>0, <1>14 DEF EndTree, RestoreSteps
  <2> QED
    BY <1>0, <1>14, <2>1, GotoSource, DischargingSource, ProceedsType DEF EndTree
<1>15. ASSUME NEW downgraded \in BOOLEAN, ResumeAndPlace(downgraded) PROVE TypeInv'
  <2>1. rst.src \in Ids /\ "publishing" \in RestoreSteps
    BY <1>0, <1>15 DEF ResumeAndPlace, RestoreSteps
  <2> QED
    BY <1>0, <1>15, <2>1, GotoSource, DischargingSource, ProceedsType DEF ResumeAndPlace
<1>16. CASE PublishCollect
  <2> DEFINE next == [rst EXCEPT !.pc = "publishable", !.topo = live]
  <2>1. next \in Restore /\ HasSource(next)
    BY <1>0, <1>16 DEF Restore, RestoreSteps, HasSource, PublishCollect, TypeInv, TypeOK
  <2> QED
    BY <1>0, <1>16, <2>1, ProceedsType DEF PublishCollect
<1>17. CASE PublishDisowned
  BY <1>0, <1>17, DischargingSource, ProceedsType DEF PublishDisowned
<1>18. CASE PublishUnsecured
  <2>1. rst.src \in Ids
    BY <1>0, <1>18 DEF PublishUnsecured
  <2> QED
    BY <1>0, <1>18, <2>1, DischargingSource, ProceedsType DEF PublishUnsecured
<1>19. ASSUME NEW placement \in PlacementAnswers, NEW observed \in BOOLEAN,
              PublishCommit(placement, observed)
       PROVE  TypeInv'
  <2> DEFINE discharged == [snaps EXCEPT ![rst.src].owed = @ \ Delivered]
             refreshed  == RefreshUnresolved(discharged, rst.src)
             written    == WriteTopology(refreshed, nextId, rst.topo, boot, clock, placement)
  <2>1. rst.src \in Ids
    BY <1>0, <1>19 DEF PublishCommit
  <2>2. discharged \in [Ids -> Snapshot]
    BY <1>0 DEF Snapshot
  <2>3. refreshed \in [Ids -> Snapshot]
    BY <2>2, RefreshUnresolvedType
  <2>4. /\ placement \in Placements /\ rst.topo \in Topology
        /\ boot \in 0..MaxBoots /\ clock \in 0..MaxClock
    BY <1>0, SessionMemoryAssumption DEF Restore, TypeInv, TypeOK
  <2> HIDE DEF discharged, refreshed
  <2>5. written \in [Ids -> Snapshot]
    BY <2>3, <2>4, WriteTopologyType
  <2> HIDE DEF written
  <2>6. Retire(written, rst.src) \in [Ids -> Snapshot]
    BY <2>5, RetireType
  <2>7. snaps' = IF observed THEN Retire(written, rst.src) ELSE written
    BY <1>19 DEF PublishCommit, written, refreshed, discharged
  <2>8. snaps' \in [Ids -> Snapshot]
    BY <2>5, <2>6, <2>7
  <2>9. rst' \in Restore /\ HasSource(rst')
    BY <1>0, <1>19, <2>1, DischargingSource DEF PublishCommit
  <2>10. nextId' \in 1..(MaxSnaps + 1)
    BY <1>19, SnapshotsAssumption DEF PublishCommit, TypeInv, TypeOK
  <2>11. running' \subseteq Ids
    BY <1>0, <1>19 DEF PublishCommit
  <2>12. parted' \subseteq Sessions \X Shapes
    BY <1>19, PartedType DEF Observe, PublishCommit
  <2> QED
    BY <1>19, <2>8, <2>9, <2>10, <2>11, <2>12 DEF PublishCommit, TypeInv, TypeOK
<1>20. CASE AttemptErrors
  <2> DEFINE next == [IdleRestore EXCEPT !.pc = "failing", !.src = rst.src]
  <2>1. next \in Restore /\ HasSource(next)
    BY <1>0, <1>20 DEF Restore, RestoreSteps, HasSource, AttemptErrors
  <2> QED
    BY <1>0, <1>20, <2>1, ProceedsType DEF AttemptErrors
<1>21. ASSUME NEW written \in BOOLEAN, FinalizeFailedAttempt(written) PROVE TypeInv'
  <2>1. rst.src \in Ids /\ "recorded" \in RestoreSteps
    BY <1>0, <1>21 DEF FinalizeFailedAttempt, RestoreSteps
  <2> QED
    BY <1>0, <1>21, <2>1, GotoSource, ProceedsType DEF FinalizeFailedAttempt
<1>22. ASSUME NEW s \in Sessions, ResolveDelivered(s) PROVE TypeInv'
  <2> DEFINE next == [rst EXCEPT !.todo = @ \ {s}]
  <2>1. next \in Restore /\ HasSource(next)
    BY <1>0 DEF Restore, HasSource
  <2> QED
    BY <1>0, <1>22, <2>1, ResolveSessionType, ProceedsType DEF ResolveDelivered
<1>23. CASE RefreshSource
  <2>1. rst.src \in Ids /\ "refreshed" \in RestoreSteps
    BY <1>0, <1>23 DEF RefreshSource, RestoreSteps
  <2> QED
    BY <1>0, <1>23, <2>1, RefreshUnresolvedType, GotoSource, ProceedsType DEF RefreshSource
<1>24. CASE RecordOutcome
  <2>1. rst.src \in Ids /\ "recorded" \in RestoreSteps
    BY <1>0, <1>24 DEF RecordOutcome, RestoreSteps
  <2> QED
    BY <1>0, <1>24, <2>1, GotoSource, ProceedsType DEF RecordOutcome
<1>25. CASE ReturnSource
  <2>1. rst.src \in Ids /\ "returned" \in RestoreSteps /\ "complete" \in States
    BY <1>0, <1>25 DEF ReturnSource, RestoreSteps, States
  <2> QED
    BY <1>0, <1>25, <2>1, SetStateType, GotoSource, ProceedsType DEF ReturnSource
<1>26. CASE RefreshReturned
  BY <1>0, <1>26, RefreshUnresolvedType, ProceedsType DEF RefreshReturned
<1>27. CASE RestoreStops
  BY <1>0, <1>27, ProceedsType DEF RestoreStops
<1> QED
  BY <1>1, <1>2, <1>3, <1>4, <1>5, <1>6, <1>7, <1>8, <1>9, <1>10, <1>11, <1>12,
     <1>13, <1>14, <1>15, <1>16, <1>17, <1>18, <1>19, <1>20, <1>21, <1>22, <1>23,
     <1>24, <1>25, <1>26, <1>27
  DEF RestoreStep

LEMMA StepType == TypeInv /\ [Next]_vars => TypeInv'
<1> SUFFICES ASSUME TypeInv, [Next]_vars PROVE TypeInv'
  OBVIOUS
<1>1. CASE UNCHANGED vars
  BY <1>1 DEF vars, TypeInv, TypeOK, HasSource
<1> QED
  BY <1>1, EnvironmentType, CaptureType, RestoreType DEF Next

\* The state of the database, the tmux server, the restore and the capture
\* keeps its types through every statement and every interruption.
THEOREM TypeCorrect == Spec => []TypeOK
<1>1. TypeInv => TypeOK
  BY DEF TypeInv
<1> QED
  BY <1>1, InitType, StepType, PTL DEF Spec

-----------------------------------------------------------------------------
(* The debt and its cache.  DebtIsCached alone is not inductive: OweSessions *)
(* marks the rows of rst.src without looking at its column, which only the   *)
(* step before it has set; and no capture may come between the two.          *)

Cached(table) == \A i \in Ids : table[i].owed # {} => table[i].unresolved

Exclusion == rst.pc = "idle" \/ cap.pc = "idle"

Flagged == rst.pc = "flagged" => snaps[rst.src].unresolved

DebtInv == TypeInv /\ Exclusion /\ Flagged /\ Cached(snaps)

LEMMA SetStateCached ==
    ASSUME NEW table \in [Ids -> Snapshot], Cached(table), NEW i \in Ids, NEW state
    PROVE  Cached(SetState(table, i, state))
BY DEF Cached, SetState, Snapshot

LEMMA ResolveSessionCached ==
    ASSUME NEW table \in [Ids -> Snapshot], Cached(table), NEW i \in Ids, NEW s
    PROVE  Cached(ResolveSession(table, i, s))
BY DEF Cached, ResolveSession, Snapshot

\* refresh_unresolved repairs the row it is given, whatever was there.
LEMMA RefreshUnresolvedCached ==
    ASSUME NEW table \in [Ids -> Snapshot], NEW i \in Ids,
           \A j \in Ids \ {i} : table[j].owed # {} => table[j].unresolved
    PROVE  Cached(RefreshUnresolved(table, i))
BY DEF Cached, RefreshUnresolved, Snapshot

LEMMA ReclaimCached ==
    ASSUME NEW table \in [Ids -> Snapshot], Cached(table)
    PROVE  Cached(Reclaim(table))
BY DEF Cached, Reclaim, Snapshot

LEMMA PruneCached ==
    ASSUME NEW table \in [Ids -> Snapshot], Cached(table),
           NEW busy, NEW b, NEW keep
    PROVE  Cached(Prune(table, busy, b, keep))
BY DEF Cached, Prune, Blank

LEMMA RetireCached ==
    ASSUME NEW table \in [Ids -> Snapshot], Cached(table), NEW i \in Ids
    PROVE  Cached(Retire(table, i))
BY DEF Cached, Retire, Snapshot

LEMMA CarryForwardCached ==
    ASSUME NEW table \in [Ids -> Snapshot], Cached(table), NEW topology
    PROVE  Cached(CarryForward(table, topology))
<1> SUFFICES ASSUME NEW i \in Ids, CarryForward(table, topology)[i].owed # {}
             PROVE  CarryForward(table, topology)[i].unresolved
  BY DEF Cached
<1> DEFINE left == table[i].owed \ Settled(table, topology, i)
<1>1. CASE i \notin DebtSources(table)
  BY <1>1 DEF CarryForward, Cached
<1>2. CASE i \in DebtSources(table)
  <2>1. CarryForward(table, topology)[i]
           = [table[i] EXCEPT !.owed = left, !.unresolved = (left # {})]
    BY <1>2 DEF CarryForward
  <2> HIDE DEF left
  <2> QED
    BY <2>1 DEF Snapshot
<1> QED
  BY <1>1, <1>2

LEMMA WriteTopologyCached ==
    ASSUME NEW table \in [Ids -> Snapshot], Cached(table), NEW id \in Ids,
           NEW topology, NEW b, NEW now, NEW placement
    PROVE  Cached(WriteTopology(table, id, topology, b, now, placement))
<1> DEFINE row == CapturedRow(table, topology, b, now, placement)
<1>1. row.owed # {} => row.unresolved
  BY DEF CapturedRow
<1>2. Cached(CarryForward(table, topology))
  BY CarryForwardCached
<1>3. CarryForward(table, topology) \in [Ids -> Snapshot]
  BY CarryForwardType
<1> HIDE DEF row
<1> QED
  BY <1>1, <1>2, <1>3 DEF WriteTopology, Cached, row

LEMMA InitDebt == Init => DebtInv
BY InitType DEF Init, DebtInv, Exclusion, Flagged, Cached, Blank, IdleRestore

LEMMA EnvironmentDebt == DebtInv /\ Environment => DebtInv'
<1> SUFFICES ASSUME DebtInv, Environment PROVE DebtInv'
  OBVIOUS
<1>1. TypeInv'
  BY EnvironmentType DEF DebtInv
<1>2. /\ snaps' = snaps
      /\ \/ rst' = rst /\ cap' = cap
         \/ rst'.pc = "idle"
  BY DEF Environment, UserCreates, UserReshapes, UserCloses, UserChanges,
         ClockMoves, ServerDies, Reboot, IdleRestore
<1> QED
  BY <1>1, <1>2 DEF DebtInv, Exclusion, Flagged, Cached

LEMMA CaptureDebt == DebtInv /\ CaptureStep => DebtInv'
<1> SUFFICES ASSUME DebtInv, CaptureStep PROVE DebtInv'
  OBVIOUS
<1>0. TypeInv' /\ snaps \in [Ids -> Snapshot] /\ Cached(snaps)
  BY CaptureType DEF DebtInv, TypeInv, TypeOK
<1>1. rst' = rst /\ rst.pc = "idle"
  BY DEF CaptureStep, CaptureCollect, CaptureCommit, CapturePrune, CaptureStops,
         DebtInv, Exclusion
<1>2. Cached(snaps')
  <2>1. ASSUME NEW placement, CaptureCommit(placement) PROVE Cached(snaps')
    <3>1. nextId \in Ids
      BY <2>1 DEF CaptureCommit, DebtInv, TypeInv, TypeOK, Ids
    <3> QED
      BY <1>0, <2>1, <3>1, WriteTopologyCached DEF CaptureCommit
  <2>2. CASE CapturePrune
    BY <1>0, <2>2, PruneCached DEF CapturePrune
  <2>3. CASE CaptureCollect \/ CaptureStops
    BY <1>0, <2>3 DEF CaptureCollect, CaptureStops
  <2> QED
    BY <2>1, <2>2, <2>3 DEF CaptureStep
<1> QED
  BY <1>0, <1>1, <1>2 DEF DebtInv, Exclusion, Flagged, Cached

\* The steps of a restore that write no session row and no column.
RestoreReads ==
    \/ BeginRestore \/ SelectSource \/ EndEarly \/ StartAttempt \/ ReadLiveNames
    \/ \E s \in Sessions : AdoptSession(s) \/ CreateCollides(s)
    \/ \E s \in Sessions, shape \in Shapes \union {None},
          outcome \in {"done", "degraded", "failed"} : CreateSession(s, shape, outcome)
    \/ CheckServer \/ EndTree
    \/ \E downgraded \in BOOLEAN : ResumeAndPlace(downgraded)
    \/ PublishCollect \/ PublishDisowned \/ PublishUnsecured
    \/ AttemptErrors
    \/ \E written \in BOOLEAN : FinalizeFailedAttempt(written)
    \/ RecordOutcome \/ RestoreStops

LEMMA RestoreReadsDebt ==
    ASSUME DebtInv, RestoreReads
    PROVE  snaps' = snaps /\ cap' = cap /\ cap.pc = "idle" /\ rst'.pc # "flagged"
<1> USE DEF DebtInv, Exclusion, TypeInv, TypeOK, Proceeds, Goto, Discharging,
            IdleRestore, Restore
<1>1. CASE BeginRestore \/ SelectSource \/ StartAttempt \/ ReadLiveNames
  BY <1>1 DEF BeginRestore, SelectSource, StartAttempt, ReadLiveNames
<1>2. ASSUME NEW s \in Sessions, AdoptSession(s) \/ CreateCollides(s)
      PROVE  snaps' = snaps /\ cap' = cap /\ cap.pc = "idle" /\ rst'.pc # "flagged"
  BY <1>2 DEF AdoptSession, CreateCollides
<1>3. ASSUME NEW s, NEW shape, NEW outcome, CreateSession(s, shape, outcome)
      PROVE  snaps' = snaps /\ cap' = cap /\ cap.pc = "idle" /\ rst'.pc # "flagged"
  BY <1>3 DEF CreateSession
<1>4. CASE CheckServer
  BY <1>4 DEF CheckServer
<1>5. CASE EndTree \/ PublishCollect \/ PublishDisowned \/ PublishUnsecured
  BY <1>5 DEF EndTree, PublishCollect, PublishDisowned, PublishUnsecured
<1>6. ASSUME NEW b, ResumeAndPlace(b) \/ FinalizeFailedAttempt(b)
      PROVE  snaps' = snaps /\ cap' = cap /\ cap.pc = "idle" /\ rst'.pc # "flagged"
  BY <1>6 DEF ResumeAndPlace, FinalizeFailedAttempt
<1>7. CASE AttemptErrors \/ RecordOutcome
  BY <1>7 DEF AttemptErrors, RecordOutcome
<1>8. CASE EndEarly \/ RestoreStops
  <2>1. rst' = IdleRestore /\ cap' = cap /\ snaps' = snaps /\ rst.pc # "idle"
    BY <1>8 DEF EndEarly, RestoreStops
  <2>2. IdleRestore.pc = "idle"
    OBVIOUS
  <2> HIDE DEF IdleRestore
  <2> QED
    BY <2>1, <2>2
<1> QED
  BY <1>1, <1>2, <1>3, <1>4, <1>5, <1>6, <1>7, <1>8 DEF RestoreReads

LEMMA RestoreDebt == DebtInv /\ RestoreStep => DebtInv'
<1> SUFFICES ASSUME DebtInv, RestoreStep PROVE DebtInv'
  OBVIOUS
<1>0. /\ TypeInv' /\ snaps \in [Ids -> Snapshot] /\ Cached(snaps)
      /\ rst \in Restore /\ IdleRestore.pc = "idle"
      /\ rst.pc \notin {"idle", "locked", "reclaimed"} => rst.src \in Ids
  BY RestoreType DEF DebtInv, TypeInv, TypeOK, HasSource, IdleRestore
<1> SUFFICES Exclusion' /\ Flagged' /\ Cached(snaps')
  BY <1>0 DEF DebtInv, Cached
<1> USE DEF Proceeds, Goto, Exclusion, Flagged, Restore
<1>1. CASE RestoreReads
  BY <1>0, <1>1, RestoreReadsDebt
<1>2. CASE ReclaimOrphans
  <2>1. Cached(snaps')
    BY <1>0, <1>2, ReclaimCached DEF ReclaimOrphans
  <2> QED
    BY <1>0, <1>2, <2>1 DEF ReclaimOrphans, DebtInv
<1>3. CASE MarkInProgress
  <2>1. Cached(snaps')
    BY <1>0, <1>3, SetStateCached DEF MarkInProgress
  <2> QED
    BY <1>0, <1>3, <2>1 DEF MarkInProgress, DebtInv
<1>4. CASE OweSnapshot
  <2>1. Cached(snaps')
    BY <1>0, <1>4 DEF OweSnapshot, Cached, Snapshot
  <2>2. snaps'[rst.src].unresolved
    BY <1>0, <1>4 DEF OweSnapshot, Snapshot
  <2> QED
    BY <1>0, <1>4, <2>1, <2>2 DEF OweSnapshot, DebtInv
<1>5. CASE OweSessions
  <2>1. snaps[rst.src].unresolved
    BY <1>5 DEF OweSessions, DebtInv
  <2>2. snaps' = [snaps EXCEPT ![rst.src].owed = Held(Plan)]
    BY <1>5 DEF OweSessions
  <2>3. Cached(snaps')
    BY <1>0, <2>1, <2>2 DEF Cached, Snapshot
  <2> QED
    BY <1>0, <1>5, <2>3 DEF OweSessions, DebtInv
<1>6. ASSUME NEW placement \in PlacementAnswers, NEW observed \in BOOLEAN,
             PublishCommit(placement, observed)
      PROVE  Exclusion' /\ Flagged' /\ Cached(snaps')
  <2> DEFINE discharged == [snaps EXCEPT ![rst.src].owed = @ \ Delivered]
             refreshed  == RefreshUnresolved(discharged, rst.src)
             written    == WriteTopology(refreshed, nextId, rst.topo, boot, clock, placement)
  <2>1. rst.src \in Ids /\ nextId \in Ids
    BY <1>0, <1>6 DEF PublishCommit, DebtInv, TypeInv, TypeOK, Ids
  <2>2. discharged \in [Ids -> Snapshot]
    BY <1>0 DEF Snapshot
  <2>3. \A j \in Ids \ {rst.src} : discharged[j].owed # {} => discharged[j].unresolved
    BY <1>0 DEF Cached
  <2> HIDE DEF discharged
  <2>4. refreshed \in [Ids -> Snapshot] /\ Cached(refreshed)
    BY <2>1, <2>2, <2>3, RefreshUnresolvedType, RefreshUnresolvedCached
  <2> HIDE DEF refreshed
  <2>5. Cached(written)
    BY <2>1, <2>4, WriteTopologyCached
  <2>6. written \in [Ids -> Snapshot]
    <3>1. /\ placement \in Placements /\ rst.topo \in Topology
          /\ boot \in 0..MaxBoots /\ clock \in 0..MaxClock
      BY <1>0, SessionMemoryAssumption DEF DebtInv, TypeInv, TypeOK
    <3> QED
      BY <2>4, <3>1, WriteTopologyType
  <2> HIDE DEF written
  <2>7. Cached(Retire(written, rst.src))
    BY <2>1, <2>5, <2>6, RetireCached
  <2>8. snaps' = IF observed THEN Retire(written, rst.src) ELSE written
    BY <1>6 DEF PublishCommit, written, refreshed, discharged
  <2>9. Cached(snaps')
    BY <2>5, <2>7, <2>8
  <2> QED
    BY <1>0, <1>6, <2>9 DEF PublishCommit, Discharging, IdleRestore, DebtInv
<1>7. ASSUME NEW s, ResolveDelivered(s) PROVE Exclusion' /\ Flagged' /\ Cached(snaps')
  <2>1. Cached(snaps')
    BY <1>0, <1>7, ResolveSessionCached DEF ResolveDelivered
  <2> QED
    BY <1>0, <1>7, <2>1 DEF ResolveDelivered, DebtInv
<1>8. CASE RefreshSource \/ RefreshReturned
  <2>1. Cached(snaps')
    BY <1>0, <1>8, RefreshUnresolvedCached DEF RefreshSource, RefreshReturned, Cached
  <2> QED
    BY <1>0, <1>8, <2>1 DEF RefreshSource, RefreshReturned, DebtInv, IdleRestore
<1>9. CASE ReturnSource
  <2>1. Cached(snaps')
    BY <1>0, <1>9, SetStateCached DEF ReturnSource
  <2> QED
    BY <1>0, <1>9, <2>1 DEF ReturnSource, DebtInv
<1> QED
  BY <1>1, <1>2, <1>3, <1>4, <1>5, <1>6, <1>7, <1>8, <1>9
  DEF RestoreStep, RestoreReads

LEMMA StepDebt == DebtInv /\ [Next]_vars => DebtInv'
<1> SUFFICES ASSUME DebtInv, [Next]_vars PROVE DebtInv'
  OBVIOUS
<1>1. CASE UNCHANGED vars
  <2>1. TypeInv'
    BY <1>1, StepType DEF DebtInv
  <2> QED
    BY <1>1, <2>1 DEF vars, DebtInv, Exclusion, Flagged, Cached
<1> QED
  BY <1>1, EnvironmentDebt, CaptureDebt, RestoreDebt DEF Next

\* Whatever is interrupted and whenever, no session row is owed while the
\* column that retention reads says its snapshot owes nothing.
THEOREM DebtAlwaysCached == Spec => []DebtIsCached
<1>1. DebtInv => DebtIsCached
  BY DEF DebtInv, Cached, DebtIsCached
<1> QED
  BY <1>1, InitDebt, StepDebt, PTL DEF Spec

-----------------------------------------------------------------------------
(* Retention.  What prune keeps is a matter of the order of the rows: ids are *)
(* handed out in order, boots follow each other, and nothing but a source of  *)
(* an earlier boot is ever anything but complete.                             *)

\* Rows are written once, in order.
WrittenInOrder == \A i \in Ids : i >= nextId => snaps[i].state = "absent"

BootsInOrder ==
    \A i \in Present(snaps) :
        /\ snaps[i].boot <= boot
        /\ \A j \in Present(snaps) : i < j => snaps[i].boot <= snaps[j].boot

OwnBoot == \A i \in Present(snaps) : snaps[i].boot = boot => snaps[i].state = "complete"

Busy(r) == r.pc \notin {"idle", "locked", "reclaimed"}

\* The source is there, and of an earlier boot.
Elsewhere == Busy(rst) => rst.src \in PreviousBoot(snaps, boot)

RetentionInv == DebtInv /\ WrittenInOrder /\ BootsInOrder /\ OwnBoot /\ Elsewhere

\* What a statement other than prune leaves of a row.
Stays(i) ==
    /\ snaps'[i].takenAt = snaps[i].takenAt
    /\ snaps'[i].boot = snaps[i].boot
    /\ snaps'[i].placement = snaps[i].placement
    /\ \/ snaps'[i].state = snaps[i].state
       \/ snaps[i].state = "restore_in_progress" /\ snaps'[i].state = "complete"
       \/ Busy(rst) /\ i = rst.src /\ snaps'[i].state \in {"complete", "restore_in_progress"}

RowsStay == nextId' = nextId /\ \A i \in Ids : Stays(i)

\* A statement that writes the next row; it may retire the source.
RowWritten ==
    /\ nextId \in Ids /\ nextId' = nextId + 1
    /\ snaps'[nextId].takenAt = clock /\ snaps'[nextId].boot = boot
    /\ snaps'[nextId].state = "complete"
    /\ \A i \in Ids \ {nextId} :
          \/ Stays(i)
          \/ /\ Busy(rst) /\ i = rst.src /\ snaps'[i].state = "restored"
             /\ snaps'[i].takenAt = snaps[i].takenAt
             /\ snaps'[i].boot = snaps[i].boot
             /\ snaps'[i].placement = snaps[i].placement

RowsPruned == nextId' = nextId /\ snaps' = Prune(snaps, running, boot, Keep) /\ rst.pc = "idle"

LEMMA ReclaimStays ==
    ASSUME snaps \in [Ids -> Snapshot], snaps' = Reclaim(snaps), NEW i \in Ids
    PROVE  Stays(i)
BY DEF Reclaim, Stays, Snapshot

LEMMA SetStateStays ==
    ASSUME snaps \in [Ids -> Snapshot], Busy(rst), NEW state \in {"complete", "restore_in_progress"},
           snaps' = SetState(snaps, rst.src, state), NEW i \in Ids
    PROVE  Stays(i)
BY DEF SetState, Stays, Snapshot

LEMMA DebtStays ==
    ASSUME snaps \in [Ids -> Snapshot], NEW j, NEW owed, NEW flag,
           snaps' \in {[snaps EXCEPT ![j].owed = owed], [snaps EXCEPT ![j].unresolved = flag]},
           NEW i \in Ids
    PROVE  Stays(i)
BY DEF Stays, Snapshot

\* What a capture leaves of the rows it does not write.
LEMMA CarryForwardFrame ==
    ASSUME NEW table \in [Ids -> Snapshot], NEW topology, NEW i \in Ids
    PROVE  /\ CarryForward(table, topology)[i].takenAt = table[i].takenAt
           /\ CarryForward(table, topology)[i].boot = table[i].boot
           /\ CarryForward(table, topology)[i].placement = table[i].placement
           /\ CarryForward(table, topology)[i].state = table[i].state
<1> DEFINE left == table[i].owed \ Settled(table, topology, i)
<1>1. CarryForward(table, topology)[i]
         = IF i \notin DebtSources(table) THEN table[i]
           ELSE [table[i] EXCEPT !.owed = left, !.unresolved = (left # {})]
  BY DEF CarryForward
<1> HIDE DEF left
<1>2. QED  BY <1>1 DEF Snapshot

LEMMA WriteTopologyFrame ==
    ASSUME NEW table \in [Ids -> Snapshot], NEW id \in Ids, NEW topology,
           NEW b, NEW now, NEW placement, NEW written,
           written = WriteTopology(table, id, topology, b, now, placement)
    PROVE  /\ written[id].takenAt = now /\ written[id].boot = b /\ written[id].state = "complete"
           /\ \A i \in Ids \ {id} : /\ written[i].takenAt = table[i].takenAt
                                    /\ written[i].boot = table[i].boot
                                    /\ written[i].placement = table[i].placement
                                    /\ written[i].state = table[i].state
<1> DEFINE row == CapturedRow(table, topology, b, now, placement)
           carried == CarryForward(table, topology)
<1>1. row.takenAt = now /\ row.boot = b /\ row.state = "complete"
  BY DEF CapturedRow
<1>2. carried \in [Ids -> Snapshot]
  BY CarryForwardType
<1>3. written = [carried EXCEPT ![id] = row]
  BY DEF WriteTopology
<1>4. \A i \in Ids : /\ carried[i].takenAt = table[i].takenAt /\ carried[i].boot = table[i].boot
                     /\ carried[i].placement = table[i].placement
                     /\ carried[i].state = table[i].state
  BY CarryForwardFrame
<1> HIDE DEF row, carried
<1>5. written[id] = row /\ \A i \in Ids \ {id} : written[i] = carried[i]
  BY <1>2, <1>3
<1>6. QED  BY <1>1, <1>4, <1>5

\* The publication discharges, refreshes, writes and may retire.
LEMMA PublishFrame ==
    ASSUME RetentionInv, NEW placement \in PlacementAnswers, NEW observed \in BOOLEAN,
           PublishCommit(placement, observed)
    PROVE  RowWritten
<1> DEFINE discharged == [snaps EXCEPT ![rst.src].owed = @ \ Delivered]
           refreshed  == RefreshUnresolved(discharged, rst.src)
           written    == WriteTopology(refreshed, nextId, rst.topo, boot, clock, placement)
<1>1. /\ snaps \in [Ids -> Snapshot] /\ Busy(rst) /\ rst.src \in Ids
      /\ nextId \in Ids /\ nextId' = nextId + 1
  BY DEF RetentionInv, DebtInv, TypeInv, TypeOK, HasSource, Busy, PublishCommit, Ids
<1>2. discharged \in [Ids -> Snapshot]
  BY <1>1 DEF Snapshot
<1>3. \A i \in Ids : /\ discharged[i].takenAt = snaps[i].takenAt /\ discharged[i].boot = snaps[i].boot
                     /\ discharged[i].placement = snaps[i].placement
                     /\ discharged[i].state = snaps[i].state
  BY <1>1 DEF Snapshot
<1> HIDE DEF discharged
<1>4. refreshed \in [Ids -> Snapshot]
  BY <1>2, RefreshUnresolvedType
<1>5. \A i \in Ids : /\ refreshed[i].takenAt = snaps[i].takenAt /\ refreshed[i].boot = snaps[i].boot
                     /\ refreshed[i].placement = snaps[i].placement
                     /\ refreshed[i].state = snaps[i].state
  BY <1>2, <1>3 DEF RefreshUnresolved, Snapshot
<1> HIDE DEF refreshed
<1>6. /\ written[nextId].takenAt = clock /\ written[nextId].boot = boot
      /\ written[nextId].state = "complete"
      /\ \A i \in Ids \ {nextId} : /\ written[i].takenAt = snaps[i].takenAt
                                   /\ written[i].boot = snaps[i].boot
                                   /\ written[i].placement = snaps[i].placement
                                   /\ written[i].state = snaps[i].state
  BY <1>1, <1>4, <1>5, WriteTopologyFrame
<1>7. written \in [Ids -> Snapshot]
  <2>1. /\ placement \in Placements /\ rst.topo \in Topology
        /\ boot \in 0..MaxBoots /\ clock \in 0..MaxClock
    BY SessionMemoryAssumption DEF RetentionInv, DebtInv, TypeInv, TypeOK, Restore
  <2>2. QED  BY <1>4, <2>1, WriteTopologyType
<1> HIDE DEF written
<1>8. snaps' = IF observed THEN Retire(written, rst.src) ELSE written
  BY DEF PublishCommit, written, refreshed, discharged
<1>9. CASE ~observed
  BY <1>1, <1>6, <1>8, <1>9 DEF RowWritten, Stays
<1>10. CASE observed
  <2>1. /\ snaps'[rst.src].state = "restored"
        /\ snaps'[rst.src].takenAt = written[rst.src].takenAt
        /\ snaps'[rst.src].boot = written[rst.src].boot
        /\ snaps'[rst.src].placement = written[rst.src].placement
        /\ \A i \in Ids \ {rst.src} : snaps'[i] = written[i]
    BY <1>1, <1>7, <1>8, <1>10 DEF Retire, Snapshot
  <2>2. rst.src # nextId
    BY <1>1 DEF RetentionInv, WrittenInOrder, Elsewhere, PreviousBoot, Present, Ids
  <2>3. QED  BY <1>1, <1>6, <2>1, <2>2 DEF RowWritten, Stays
<1>11. QED  BY <1>9, <1>10

LEMMA SameStays == snaps' = snaps /\ nextId' = nextId => RowsStay
BY DEF RowsStay, Stays

\* Every step leaves the rows, writes the next one, or prunes.
LEMMA EnvironmentRows ==
    ASSUME RetentionInv, Environment
    PROVE  /\ RowsStay
           /\ \/ rst' = rst /\ boot' = boot
              \/ ~Busy(rst') /\ boot' = boot + 1
<1>1. /\ snaps' = snaps /\ nextId' = nextId
      /\ \/ rst' = rst /\ boot' = boot
         \/ rst' = IdleRestore /\ boot' = boot + 1
  BY DEF Environment, UserCreates, UserReshapes, UserCloses, UserChanges, ClockMoves,
     ServerDies, Reboot
<1>2. IdleRestore.pc = "idle"
  BY DEF IdleRestore
<1>3. rst' = IdleRestore => ~Busy(rst')
  BY <1>2 DEF Busy
<1>4. QED  BY <1>1, <1>3, SameStays

LEMMA CaptureRows ==
    ASSUME RetentionInv, CaptureStep
    PROVE  /\ boot' = boot /\ clock' = clock /\ rst' = rst
           /\ RowsStay \/ RowWritten \/ RowsPruned
<1>0. /\ boot' = boot /\ clock' = clock /\ rst' = rst /\ snaps \in [Ids -> Snapshot]
  BY DEF CaptureStep, CaptureCollect, CaptureCommit, CapturePrune, CaptureStops, RetentionInv,
     DebtInv, TypeInv, TypeOK
<1>1. ASSUME NEW placement, CaptureCommit(placement) PROVE RowWritten
  <2>1. nextId \in Ids
    BY <1>1 DEF CaptureCommit, RetentionInv, DebtInv, TypeInv, TypeOK, Ids
  <2>2. /\ snaps'[nextId].takenAt = clock /\ snaps'[nextId].boot = boot
        /\ snaps'[nextId].state = "complete"
        /\ \A i \in Ids \ {nextId} : /\ snaps'[i].takenAt = snaps[i].takenAt
                                     /\ snaps'[i].boot = snaps[i].boot
                                     /\ snaps'[i].placement = snaps[i].placement
                                     /\ snaps'[i].state = snaps[i].state
    BY <1>0, <1>1, <2>1, WriteTopologyFrame DEF CaptureCommit
  <2>3. nextId' = nextId + 1
    BY <1>1 DEF CaptureCommit
  <2>4. QED  BY <2>1, <2>2, <2>3 DEF RowWritten, Stays
<1>2. CASE CapturePrune
  BY <1>2 DEF CapturePrune, RowsPruned, RetentionInv, DebtInv, Exclusion
<1>3. CASE CaptureCollect \/ CaptureStops
  BY <1>3, SameStays DEF CaptureCollect, CaptureStops
<1>4. QED  BY <1>0, <1>1, <1>2, <1>3 DEF CaptureStep

LEMMA RestoreRows ==
    ASSUME RetentionInv, RestoreStep
    PROVE  boot' = boot /\ clock' = clock /\ (RowsStay \/ RowWritten)
<1>0. /\ snaps \in [Ids -> Snapshot] /\ boot' = boot /\ clock' = clock
  BY DEF RestoreStep, Proceeds, BeginRestore, ReclaimOrphans, SelectSource, EndEarly,
     MarkInProgress, OweSnapshot, OweSessions, StartAttempt, ReadLiveNames, AdoptSession,
     CreateCollides, CreateSession, CheckServer, EndTree, ResumeAndPlace, PublishCollect,
     PublishDisowned, PublishUnsecured, PublishCommit, AttemptErrors, FinalizeFailedAttempt,
     ResolveDelivered, RefreshSource, RecordOutcome, ReturnSource, RefreshReturned, RestoreStops,
     RetentionInv, DebtInv, TypeInv, TypeOK
<1>1. CASE RestoreReads
  <2>1. snaps' = snaps
    BY <1>1, RestoreReadsDebt DEF RetentionInv
  <2>2. nextId' = nextId
    BY <1>1 DEF RestoreReads, Proceeds, BeginRestore, SelectSource, EndEarly, StartAttempt,
       ReadLiveNames, AdoptSession, CreateCollides, CreateSession, CheckServer, EndTree,
       ResumeAndPlace, PublishCollect, PublishDisowned, PublishUnsecured, AttemptErrors,
       FinalizeFailedAttempt, RecordOutcome, RestoreStops
  <2>3. QED  BY <1>0, <2>1, <2>2, SameStays
<1>2. CASE ReclaimOrphans
  BY <1>0, <1>2, ReclaimStays DEF ReclaimOrphans, Proceeds, RowsStay
<1>3. CASE MarkInProgress \/ ReturnSource
  BY <1>0, <1>3, SetStateStays DEF MarkInProgress, ReturnSource, Proceeds, RowsStay, Busy
<1>4. CASE OweSnapshot \/ OweSessions
  BY <1>0, <1>4, DebtStays DEF OweSnapshot, OweSessions, Proceeds, RowsStay
<1>5. ASSUME NEW s, ResolveDelivered(s) PROVE RowsStay
  BY <1>0, <1>5, DebtStays DEF ResolveDelivered, ResolveSession, Proceeds, RowsStay
<1>6. CASE RefreshSource \/ RefreshReturned
  BY <1>0, <1>6, DebtStays DEF RefreshSource, RefreshReturned, RefreshUnresolved, Proceeds, RowsStay
<1>7. ASSUME NEW placement \in PlacementAnswers, NEW observed \in BOOLEAN,
             PublishCommit(placement, observed)
      PROVE  RowWritten
  BY <1>7, PublishFrame
<1>8. QED  BY <1>0, <1>1, <1>2, <1>3, <1>4, <1>5, <1>6, <1>7 DEF RestoreStep, RestoreReads

\* A restore chooses its source once.
LEMMA RestoreSource ==
    ASSUME RetentionInv, RestoreStep, Busy(rst')
    PROVE  \/ Busy(rst) /\ rst'.src = rst.src
           \/ snaps' = snaps /\ rst'.src \in SelectRestoreSource(snaps, boot)
<1>0. rst \in Restore
  BY DEF RetentionInv, DebtInv, TypeInv, TypeOK
<1> USE DEF Proceeds, Goto, Discharging, IdleRestore, Restore, Busy
<1>1. CASE BeginRestore \/ ReclaimOrphans \/ EndEarly \/ RefreshReturned \/ RestoreStops
  BY <1>0, <1>1 DEF BeginRestore, ReclaimOrphans, EndEarly, RefreshReturned, RestoreStops
<1>2. CASE SelectSource
  BY <1>0, <1>2 DEF SelectSource
<1>3. CASE MarkInProgress \/ OweSnapshot \/ OweSessions \/ StartAttempt \/ ReadLiveNames
  BY <1>0, <1>3 DEF MarkInProgress, OweSnapshot, OweSessions, StartAttempt, ReadLiveNames
<1>4. ASSUME NEW s, NEW shape, NEW outcome,
             AdoptSession(s) \/ CreateCollides(s) \/ CreateSession(s, shape, outcome)
      PROVE  Busy(rst) /\ rst'.src = rst.src
  BY <1>0, <1>4 DEF AdoptSession, CreateCollides, CreateSession
<1>5. ASSUME NEW b, CheckServer \/ EndTree \/ ResumeAndPlace(b)
      PROVE  Busy(rst) /\ rst'.src = rst.src
  BY <1>0, <1>5 DEF CheckServer, EndTree, ResumeAndPlace
<1>6. CASE PublishCollect \/ PublishDisowned \/ PublishUnsecured \/ AttemptErrors
  BY <1>0, <1>6 DEF PublishCollect, PublishDisowned, PublishUnsecured, AttemptErrors
<1>7. ASSUME NEW a, NEW b, PublishCommit(a, b) PROVE Busy(rst) /\ rst'.src = rst.src
  BY <1>0, <1>7 DEF PublishCommit
<1>8. ASSUME NEW x, FinalizeFailedAttempt(x) \/ ResolveDelivered(x)
      PROVE  Busy(rst) /\ rst'.src = rst.src
  BY <1>0, <1>8 DEF FinalizeFailedAttempt, ResolveDelivered
<1>9. CASE RefreshSource \/ RecordOutcome \/ ReturnSource
  BY <1>0, <1>9 DEF RefreshSource, RecordOutcome, ReturnSource
<1>10. QED
  BY <1>1, <1>2, <1>3, <1>4, <1>5, <1>6, <1>7, <1>8, <1>9 DEF RestoreStep

LEMMA IntegerRows ==
    ASSUME RetentionInv
    PROVE  /\ nextId \in Nat /\ boot \in Nat /\ clock \in Nat /\ Ids \subseteq Nat
           /\ \A i \in Ids : snaps[i].boot \in Nat /\ snaps[i].takenAt \in Nat
BY SnapshotsAssumption DEF RetentionInv, DebtInv, TypeInv, TypeOK, Ids, Snapshot

\* A row that stays is absent if and only if it was, and keeps its place.
LEMMA StaysPresent ==
    ASSUME RetentionInv, NEW i \in Ids, Stays(i)
    PROVE  /\ snaps'[i].state = "absent" <=> snaps[i].state = "absent"
           /\ snaps[i].boot = boot /\ snaps[i].state = "complete" => snaps'[i].state = "complete"
BY DEF Stays, RetentionInv, Elsewhere, PreviousBoot, Present

LEMMA StayNext ==
    ASSUME RetentionInv, RowsStay, boot' = boot
    PROVE  WrittenInOrder' /\ BootsInOrder' /\ OwnBoot'
<1>1. \A i \in Ids : /\ snaps'[i].state = "absent" <=> snaps[i].state = "absent"
                     /\ snaps'[i].boot = snaps[i].boot
                     /\ snaps[i].boot = boot /\ snaps[i].state = "complete" => snaps'[i].state = "complete"
  BY StaysPresent DEF RowsStay, Stays
<1>2. Present(snaps') = Present(snaps)
  BY <1>1 DEF Present
<1>3. QED
  BY <1>1, <1>2 DEF RetentionInv, WrittenInOrder, BootsInOrder, OwnBoot, RowsStay, Present

LEMMA WrittenNext ==
    ASSUME RetentionInv, RowWritten, boot' = boot
    PROVE  WrittenInOrder' /\ BootsInOrder' /\ OwnBoot' /\ Present(snaps') = Present(snaps) \union {nextId}
<1>1. /\ nextId \in Ids /\ nextId' = nextId + 1 /\ snaps'[nextId].boot = boot
      /\ snaps'[nextId].state = "complete"
  BY DEF RowWritten
<1>2. ASSUME NEW i \in Ids \ {nextId}
      PROVE  /\ snaps'[i].state = "absent" <=> snaps[i].state = "absent"
             /\ snaps'[i].boot = snaps[i].boot
             /\ snaps[i].boot = boot /\ snaps[i].state = "complete" => snaps'[i].state = "complete"
  <2>1. CASE Stays(i)
    BY <2>1, StaysPresent DEF Stays
  <2>2. CASE Busy(rst) /\ i = rst.src /\ snaps'[i].state = "restored" /\ snaps'[i].boot = snaps[i].boot
    BY <2>2 DEF RetentionInv, Elsewhere, PreviousBoot, Present
  <2>3. QED  BY <2>1, <2>2 DEF RowWritten
<1>3. Present(snaps') = Present(snaps) \union {nextId}
  BY <1>1, <1>2 DEF Present
<1>4. \A i \in Present(snaps) : i \in Ids /\ i < nextId /\ snaps[i].boot <= boot
  BY IntegerRows DEF RetentionInv, WrittenInOrder, BootsInOrder, Present
<1>5. WrittenInOrder'
  BY <1>1, <1>2, IntegerRows DEF RetentionInv, WrittenInOrder
<1>6. BootsInOrder'
  <2>1. ASSUME NEW i \in Present(snaps)
        PROVE  i # nextId /\ snaps'[i].boot = snaps[i].boot /\ snaps'[i].boot <= boot
    BY <1>1, <1>2, <1>4, IntegerRows
  <2>2. ASSUME NEW i \in Present(snaps'), NEW j \in Present(snaps'), i < j
        PROVE  snaps'[i].boot <= snaps'[j].boot
    <3>1. CASE j = nextId
      BY <1>1, <1>3, <2>1, <3>1, IntegerRows
    <3>2. CASE j # nextId
      <4>1. j \in Present(snaps) /\ i \in Present(snaps)
        BY <1>1, <1>3, <1>4, <2>2, <3>2, IntegerRows
      <4>2. QED  BY <2>1, <2>2, <4>1 DEF RetentionInv, BootsInOrder
    <3>3. QED  BY <3>1, <3>2
  <2>3. ASSUME NEW i \in Present(snaps') PROVE snaps'[i].boot <= boot
    BY <1>1, <1>3, <2>1, IntegerRows
  <2>4. QED  BY <2>2, <2>3 DEF BootsInOrder
<1>7. OwnBoot'
  <2>1. ASSUME NEW i \in Present(snaps'), snaps'[i].boot = boot PROVE snaps'[i].state = "complete"
    BY <1>1, <1>2, <1>3, <2>1 DEF RetentionInv, OwnBoot, Present
  <2>2. QED  BY <2>1 DEF OwnBoot
<1>8. QED  BY <1>3, <1>5, <1>6, <1>7

LEMMA PruneRows ==
    ASSUME NEW i \in Ids, snaps' = Prune(snaps, running, boot, Keep)
    PROVE  \/ snaps'[i] = snaps[i]
           \/ snaps'[i].state = "absent" /\ i \notin NewestKeep(snaps, Keep)
                /\ i \notin Exempt(snaps, running, boot)
BY DEF Prune, Blank

LEMMA PrunedNext ==
    ASSUME RetentionInv, RowsPruned, boot' = boot
    PROVE  WrittenInOrder' /\ BootsInOrder' /\ OwnBoot'
<1>1. \A i \in Ids : snaps'[i] = snaps[i] \/ snaps'[i].state = "absent"
  BY PruneRows DEF RowsPruned
<1>2. \A i \in Present(snaps') : i \in Present(snaps) /\ snaps'[i] = snaps[i]
  BY <1>1 DEF Present
<1>3. QED
  BY <1>1, <1>2 DEF RetentionInv, WrittenInOrder, BootsInOrder, OwnBoot, RowsPruned

LEMMA RetentionNext == RetentionInv /\ [Next]_vars => RetentionInv'
<1> SUFFICES ASSUME RetentionInv, [Next]_vars PROVE RetentionInv'
  OBVIOUS
<1>1. DebtInv'
  BY StepDebt DEF RetentionInv
<1>2. CASE Environment
  <2>1. RowsStay
    BY <1>2, EnvironmentRows
  <2>2. CASE rst' = rst /\ boot' = boot
    <3>1. Elsewhere'
      BY <1>1, <2>1, <2>2, StaysPresent
      DEF RetentionInv, Elsewhere, PreviousBoot, Present, RowsStay, Stays
    <3>2. QED  BY <1>1, <2>1, <2>2, <3>1, StayNext DEF RetentionInv
  <2>3. CASE ~Busy(rst') /\ boot' = boot + 1
    <3>1. \A i \in Ids : /\ snaps'[i].state = "absent" <=> snaps[i].state = "absent"
                         /\ snaps'[i].boot = snaps[i].boot
      BY <2>1, StaysPresent DEF RowsStay, Stays
    <3>2. Present(snaps') = Present(snaps)
      BY <3>1 DEF Present
    <3>3. \A i \in Present(snaps) : snaps[i].boot <= boot /\ snaps[i].boot \in Nat
      BY IntegerRows DEF RetentionInv, BootsInOrder, Present
    <3>4. WrittenInOrder' /\ BootsInOrder'
      BY <2>1, <2>3, <3>1, <3>2, <3>3, IntegerRows
      DEF RetentionInv, WrittenInOrder, BootsInOrder, RowsStay, Present
    <3>5. OwnBoot'
      BY <2>3, <3>1, <3>2, <3>3, IntegerRows DEF OwnBoot, Present
    <3>6. QED  BY <1>1, <2>3, <3>4, <3>5 DEF RetentionInv, Elsewhere
  <2>4. QED  BY <1>2, <2>2, <2>3, EnvironmentRows
<1>3. ASSUME boot' = boot, RowsStay \/ RowWritten \/ RowsPruned
      PROVE  WrittenInOrder' /\ BootsInOrder' /\ OwnBoot'
  BY <1>3, StayNext, WrittenNext, PrunedNext
<1>4. CASE CaptureStep
  <2>1. ~Busy(rst')
    BY <1>4, CaptureRows
    DEF CaptureStep, CaptureCollect, CaptureCommit, CapturePrune, CaptureStops, RetentionInv,
        DebtInv, Exclusion, Busy
  <2>2. QED  BY <1>1, <1>3, <1>4, <2>1, CaptureRows DEF RetentionInv, Elsewhere
<1>5. CASE RestoreStep
  <2>1. boot' = boot /\ (RowsStay \/ RowWritten)
    BY <1>5, RestoreRows
  <2>2. ASSUME NEW i \in PreviousBoot(snaps, boot) PROVE i \in PreviousBoot(snaps', boot)
    <3>1. i \in Ids /\ snaps[i].boot # boot /\ snaps[i].state # "absent"
      BY DEF PreviousBoot, Present
    <3>2. i # nextId
      BY <3>1, IntegerRows DEF RetentionInv, WrittenInOrder
    <3>3. snaps'[i].boot = snaps[i].boot /\ snaps'[i].state # "absent"
      BY <2>1, <3>1, <3>2, StaysPresent DEF RowsStay, RowWritten, Stays
    <3>4. QED  BY <3>1, <3>3 DEF PreviousBoot, Present
  <2>3. ASSUME Busy(rst') PROVE rst'.src \in PreviousBoot(snaps, boot)
    BY <1>5, <2>3, RestoreSource DEF RetentionInv, Elsewhere, SelectRestoreSource, Newest
  <2>4. Elsewhere'
    BY <2>1, <2>2, <2>3 DEF Elsewhere
  <2>5. QED  BY <1>1, <1>3, <2>1, <2>4 DEF RetentionInv
<1>6. CASE UNCHANGED vars
  BY <1>1, <1>6 DEF vars, RetentionInv, WrittenInOrder, BootsInOrder, OwnBoot, Elsewhere
<1>7. QED  BY <1>2, <1>4, <1>5, <1>6 DEF Next

LEMMA InitRetention == Init => RetentionInv
BY InitDebt
DEF Init, RetentionInv, WrittenInOrder, BootsInOrder, OwnBoot, Elsewhere, Present, Blank, Busy,
    IdleRestore

\* While the rows are in the order of their times, the one written last sorts first.
LEMMA LastIsNewest ==
    ASSUME RetentionInv, SteadyClock, NEW S \in SUBSET Present(snaps), NEW i \in WrittenLast(S)
    PROVE  i \in Newest(snaps, S)
<1>1. /\ i \in S /\ i \in Nat /\ snaps[i].takenAt \in Nat
      /\ \A j \in S : j <= i /\ j \in Nat /\ snaps[j].takenAt \in Nat
  BY IntegerRows DEF WrittenLast, Present
<1>2. ASSUME NEW j \in S \ {i} PROVE Newer(snaps, i, j)
  <2>1. j < i
    BY <1>1
  <2>2. snaps[j].takenAt <= snaps[i].takenAt
    BY <1>1, <2>1 DEF SteadyClock
  <2>3. QED  BY <1>1, <2>1, <2>2 DEF Newer
<1>3. QED  BY <1>1, <1>2 DEF Newest

\* A snapshot to restore from that was written last survives a prune: marked,
\* as the next source, or as the newest row of all.
LEMMA PruneKeepsLast ==
    ASSUME RetentionInv, SteadyClock, RowsPruned,
           NEW i \in WrittenLast(Restorable) \union WrittenLast(Restorable \intersect PreviousBoot(snaps, boot))
    PROVE  snaps'[i] = snaps[i]
<1>1. /\ i \in Restorable /\ i \in Ids /\ i \in Present(snaps)
      /\ snaps[i].state \in {"complete", "restore_in_progress"}
      /\ Restorable \in SUBSET Present(snaps)
  BY DEF WrittenLast, Restorable, Present
<1>2. CASE snaps[i].state = "restore_in_progress"
  <2>1. i \in Exempt(snaps, running, boot)
    BY <1>1, <1>2 DEF Exempt
  <2>2. QED  BY <1>1, <2>1, PruneRows DEF RowsPruned
<1>3. CASE snaps[i].state = "complete" /\ snaps[i].boot # boot
  <2> DEFINE S == {j \in PreviousBoot(snaps, boot) : snaps[j].state = "complete"}
  <2>1. S \in SUBSET Present(snaps) /\ S \subseteq Restorable /\ S \subseteq PreviousBoot(snaps, boot)
    BY DEF PreviousBoot, Present, Restorable
  <2>2. i \in S
    BY <1>1, <1>3 DEF PreviousBoot
  <2> HIDE DEF S
  <2>3. i \in WrittenLast(S)
    BY <2>1, <2>2 DEF WrittenLast
  <2>4. i \in SelectRestoreSource(snaps, boot)
    BY <2>1, <2>3, LastIsNewest DEF SelectRestoreSource, S
  <2>5. i \in Exempt(snaps, running, boot)
    BY <2>4 DEF Exempt
  <2>6. QED  BY <1>1, <2>5, PruneRows DEF RowsPruned
<1>4. CASE snaps[i].boot = boot
  <2>1. \A j \in Restorable : j <= i
    BY <1>4 DEF WrittenLast, PreviousBoot
  <2>2. ASSUME NEW j \in Present(snaps) PROVE j <= i
    <3>1. CASE i < j
      <4>1. snaps[j].boot = boot
        BY <1>1, <1>4, <3>1, IntegerRows DEF RetentionInv, BootsInOrder, Present
      <4>2. j \in Restorable
        BY <4>1 DEF RetentionInv, OwnBoot, Restorable, Present
      <4>3. QED  BY <2>1, <4>2
    <3>2. CASE ~(i < j)
      BY <1>1, <3>2, IntegerRows DEF Present
    <3>3. QED  BY <3>1, <3>2
  <2>3. i \in WrittenLast(Present(snaps))
    BY <1>1, <2>2 DEF WrittenLast
  <2>4. i \in Newest(snaps, Present(snaps))
    BY <2>3, LastIsNewest
  <2>5. {j \in Present(snaps) : Newer(snaps, j, i)} = {}
    <3>1. ASSUME NEW j \in Present(snaps), Newer(snaps, j, i) PROVE FALSE
      <4>1. snaps[j].takenAt \in Nat /\ snaps[i].takenAt \in Nat /\ j \in Nat /\ i \in Nat
        BY <1>1, IntegerRows DEF Present
      <4>2. j # i => Newer(snaps, i, j)
        BY <2>4 DEF Newest
      <4>3. QED  BY <3>1, <4>1, <4>2 DEF Newer
    <3>2. QED  BY <3>1
  <2>6. i \in NewestKeep(snaps, Keep)
    BY <1>1, <2>5, FS_EmptySet, SessionMemoryAssumption DEF NewestKeep
  <2>7. QED  BY <1>1, <2>6, PruneRows DEF RowsPruned
<1>5. QED  BY <1>1, <1>2, <1>3, <1>4

\* Nothing but a prune takes a row away.
LEMMA OnlyPruneDeletes ==
    ASSUME RetentionInv, [Next]_vars, NEW i \in Present(snaps), snaps'[i].state = "absent"
    PROVE  RowsPruned /\ ~(snaps'[i] = snaps[i])
<1>1. snaps' # snaps
  BY DEF Present
<1>2. RowsStay \/ RowWritten \/ RowsPruned
  BY <1>1, EnvironmentRows, CaptureRows, RestoreRows DEF Next, vars
<1>3. i \in Ids /\ snaps[i].state # "absent" /\ i # nextId
  BY IntegerRows DEF Present, RetentionInv, WrittenInOrder
<1>4. ~Stays(i)
  BY <1>3, StaysPresent
<1>5. QED  BY <1>2, <1>3, <1>4 DEF RowsStay, RowWritten

\* However a machine captures, restores, fails and reboots: while the clock
\* agrees with the order of writing, the snapshot to restore from that was
\* written last, of all boots and of the earlier ones, is not deleted.
THEOREM LatestSurvivesHolds == Spec => LatestSurvives
<1>1. ASSUME RetentionInv, [Next]_vars, SteadyClock,
             NEW i \in WrittenLast(Restorable)
                          \union WrittenLast(Restorable \intersect PreviousBoot(snaps, boot))
      PROVE  snaps'[i].state # "absent"
  <2>1. i \in Present(snaps)
    BY DEF WrittenLast, Restorable, Present
  <2>2. QED  BY <1>1, <2>1, OnlyPruneDeletes, PruneKeepsLast
<1>2. RetentionInv /\ [Next]_vars =>
        [ SteadyClock =>
            \A i \in WrittenLast(Restorable)
                       \union WrittenLast(Restorable \intersect PreviousBoot(snaps, boot)) :
                snaps'[i].state # "absent" ]_vars
  BY <1>1
<1>3. QED  BY <1>2, InitRetention, RetentionNext, PTL DEF Spec, LatestSurvives

\* The same of the snapshot that knows where the windows were.
THEOREM LayoutSurvivesHolds == Spec => LayoutSurvives
<1>1. ASSUME RetentionInv, [Next]_vars, SteadyClock,
             NEW i \in WrittenLast(KnowsPlacement(snaps))
                          \union WrittenLast(KnowsPlacement(snaps) \intersect PreviousBoot(snaps, boot))
      PROVE  snaps'[i].state # "absent"
  <2>1. /\ KnowsPlacement(snaps) \in SUBSET Present(snaps)
        /\ KnowsPlacement(snaps) \intersect PreviousBoot(snaps, boot) \in SUBSET Present(snaps)
        /\ i \in Present(snaps) /\ i \in Ids
    BY DEF WrittenLast, KnowsPlacement, Present
  <2>2. \/ i \in Newest(snaps, KnowsPlacement(snaps))
        \/ i \in Newest(snaps, KnowsPlacement(snaps) \intersect PreviousBoot(snaps, boot))
    BY <1>1, <2>1, LastIsNewest
  <2>3. i \in Exempt(snaps, running, boot)
    BY <2>2 DEF Exempt
  <2>4. RowsPruned => snaps'[i] = snaps[i]
    BY <2>1, <2>3, PruneRows DEF RowsPruned
  <2>5. QED  BY <1>1, <2>1, <2>4, OnlyPruneDeletes
<1>2. RetentionInv /\ [Next]_vars =>
        [ SteadyClock =>
            \A i \in WrittenLast(KnowsPlacement(snaps))
                       \union WrittenLast(KnowsPlacement(snaps) \intersect PreviousBoot(snaps, boot)) :
                snaps'[i].state # "absent" ]_vars
  BY <1>1
<1>3. QED  BY <1>2, InitRetention, RetentionNext, PTL DEF Spec, LayoutSurvives

-----------------------------------------------------------------------------
(* There is always something to restore from, unless the clock is set back:   *)
(* a row written at an earlier time sorts behind a retired one, and may be the *)
(* first to go.                                                               *)

NeverSetBack == [][clock' >= clock]_vars

AlwaysInv ==
    /\ RetentionInv /\ SteadyClock /\ AlwaysRestorable
    /\ \A i \in Present(snaps) : snaps[i].takenAt <= clock

LEMMA LastOfSome ==
    ASSUME NEW S \in SUBSET Ids, S # {}
    PROVE  WrittenLast(S) # {}
<1> DEFINE T == {MaxSnaps - i : i \in S}
           R == OpToRel(<, Nat)
<1>1. \A i \in S : i \in Nat /\ MaxSnaps - i \in Nat
  BY SnapshotsAssumption DEF Ids
<1>2. IsWellFoundedOn(R, Nat)
  BY NatLessThanWellFounded
<1>3. T \in SUBSET Nat /\ T # {}
  BY <1>1
<1>4. \A a, b \in T : a < b => <<a, b>> \in R
  BY <1>3 DEF OpToRel
<1> HIDE DEF R, T
<1>5. PICK b \in T : \A a \in T : ~(<<a, b>> \in R)
  BY <1>2, <1>3, WFMin, Zenon
<1>6. \A a \in T : ~(a < b)
  BY <1>4, <1>5
<1>7. PICK i \in S : b = MaxSnaps - i
  BY <1>5 DEF T
<1>8. ASSUME NEW j \in S PROVE j <= i
  <2>1. ~(MaxSnaps - j < MaxSnaps - i)
    BY <1>6, <1>7 DEF T
  <2>2. QED  BY <1>1, <2>1, SnapshotsAssumption
<1>9. QED  BY <1>8 DEF WrittenLast

LEMMA AlwaysNext ==
    ASSUME AlwaysInv, [Next]_vars, clock' >= clock \/ UNCHANGED vars
    PROVE  AlwaysInv'
<1>1. RetentionInv /\ RetentionInv'
  BY RetentionNext DEF AlwaysInv
<1>2. clock' >= clock /\ clock \in Nat /\ clock' \in Nat
  BY <1>1, IntegerRows DEF vars, RetentionInv, DebtInv, TypeInv, TypeOK
<1>3. CASE RowsStay
  <2>1. \A i \in Ids : /\ snaps'[i].state = "absent" <=> snaps[i].state = "absent"
                       /\ snaps'[i].takenAt = snaps[i].takenAt
    BY <1>1, <1>3, StaysPresent DEF RowsStay, Stays
  <2>2. Present(snaps') = Present(snaps)
    BY <2>1 DEF Present
  <2>3. \A i \in Present(snaps) : i \in Ids /\ snaps[i].takenAt \in Nat
    BY <1>1, IntegerRows DEF Present
  <2>4. SteadyClock' /\ \A i \in Present(snaps') : snaps'[i].takenAt <= clock'
    BY <1>2, <2>1, <2>2, <2>3 DEF AlwaysInv, SteadyClock
  <2>5. \A i \in Restorable : i \in Restorable'
    BY <1>3 DEF Restorable, RowsStay, Stays
  <2>6. AlwaysRestorable'
    BY <1>3, <2>5 DEF AlwaysInv, AlwaysRestorable, RowsStay
  <2>7. QED  BY <1>1, <2>4, <2>6 DEF AlwaysInv
<1>4. CASE RowWritten /\ boot' = boot /\ clock' = clock
  <2>1. Present(snaps') = Present(snaps) \union {nextId}
    BY <1>1, <1>4, WrittenNext
  <2>2. ASSUME NEW i \in Present(snaps)
        PROVE  /\ i \in Ids /\ i < nextId /\ i # nextId
               /\ snaps[i].takenAt \in Nat /\ snaps[i].takenAt <= clock
    BY <1>1, IntegerRows DEF Present, RetentionInv, WrittenInOrder, AlwaysInv
  <2>3. \A i \in Present(snaps) : snaps'[i].takenAt = snaps[i].takenAt
    BY <1>4, <2>2 DEF RowWritten, Stays
  <2>4. snaps'[nextId].takenAt = clock /\ nextId \in Nat
    BY <1>1, <1>4, IntegerRows DEF RowWritten
  <2>5. ASSUME NEW i \in Present(snaps'), NEW j \in Present(snaps'), i < j
        PROVE  snaps'[i].takenAt <= snaps'[j].takenAt
    <3>1. i \in Present(snaps)
      <4>1. j <= nextId /\ j \in Nat
        BY <2>1, <2>2, <2>4 DEF Present, Ids
      <4>2. i # nextId
        BY <2>4, <2>5, <4>1
      <4>3. QED  BY <2>1, <4>2
    <3>2. CASE j = nextId
      BY <2>2, <2>3, <2>4, <3>1, <3>2
    <3>3. CASE j \in Present(snaps)
      BY <2>3, <2>5, <3>1, <3>3 DEF AlwaysInv, SteadyClock
    <3>4. QED  BY <2>1, <3>2, <3>3
  <2>6. \A i \in Present(snaps') : snaps'[i].takenAt <= clock'
    BY <1>2, <1>4, <2>1, <2>2, <2>3, <2>4
  <2>7. nextId \in Restorable'
    BY <1>4 DEF RowWritten, Restorable
  <2>8. QED  BY <1>1, <2>5, <2>6, <2>7 DEF AlwaysInv, SteadyClock, AlwaysRestorable
<1>5. CASE RowsPruned /\ clock' = clock
  <2>1. \A i \in Present(snaps') : i \in Present(snaps) /\ snaps'[i] = snaps[i]
    BY <1>5, PruneRows DEF RowsPruned, Present
  <2>2. SteadyClock' /\ \A i \in Present(snaps') : snaps'[i].takenAt <= clock'
    BY <1>5, <2>1 DEF AlwaysInv, SteadyClock
  <2>3. AlwaysRestorable'
    <3>1. CASE nextId > 1
      <4>1. Restorable \in SUBSET Ids /\ Restorable # {}
        BY <3>1 DEF AlwaysInv, AlwaysRestorable, Restorable
      <4>2. PICK i \in WrittenLast(Restorable) : TRUE
        BY <4>1, LastOfSome
      <4>3. i \in Restorable /\ snaps'[i] = snaps[i]
        BY <1>1, <1>5, <4>2, PruneKeepsLast DEF AlwaysInv, WrittenLast
      <4>4. i \in Restorable'
        BY <4>3 DEF Restorable
      <4>5. QED  BY <4>4 DEF AlwaysRestorable
    <3>2. CASE ~(nextId > 1)
      BY <1>5, <3>2 DEF AlwaysRestorable, RowsPruned
    <3>3. QED  BY <3>1, <3>2
  <2>4. QED  BY <1>1, <2>2, <2>3 DEF AlwaysInv
<1>6. CASE UNCHANGED vars
  BY <1>1, <1>6 DEF vars, AlwaysInv, SteadyClock, AlwaysRestorable, Restorable
<1>7. QED
  BY <1>1, <1>3, <1>4, <1>5, <1>6, EnvironmentRows, CaptureRows, RestoreRows DEF Next

\* If nobody sets the clock back, there is something to restore from between
\* any two statements once a capture has committed: no retirement, deletion or
\* failure leaves a gap.
THEOREM AlwaysRestorableHolds == NeverSetBack /\ Spec => []AlwaysRestorable
<1>1. Init => AlwaysInv
  BY InitRetention
  DEF Init, AlwaysInv, SteadyClock, AlwaysRestorable, Present, Blank
<1>2. AlwaysInv /\ [Next]_vars /\ [clock' >= clock]_vars => AlwaysInv'
  BY AlwaysNext
<1>3. AlwaysInv => AlwaysRestorable
  BY DEF AlwaysInv
<1>4. QED  BY <1>1, <1>2, <1>3, PTL DEF Spec, NeverSetBack
=============================================================================
