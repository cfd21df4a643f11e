--------------------------- MODULE SessionMemory ---------------------------
(***************************************************************************)
(* The life of the snapshot database across boots: captures, restores, the *)
(* tmux server and its user, kills and power losses, interleaved at every  *)
(* point where one of the programs commits a statement or reads tmux.      *)
(*                                                                         *)
(* One restore (`osm restore`) and one capture (`osm snapshot`, the hooks, *)
(* the daemon) run at a time: a restore holds the restore lock exclusively *)
(* for its whole run, captures hold it shared and serialise on a second    *)
(* lock.  Several captures in one process are several captures here.       *)
(***************************************************************************)
EXTENDS Snapshots

CONSTANTS
    Keep,              \* capture.keep_snapshots
    PlacementAnswers,  \* what the compositor may answer a capture
    DeathWindows,      \* when the tmux server may die (see DeathWindow)
    MaxEdits           \* bound: changes the user makes to live sessions

ASSUME SessionMemoryAssumption ==
    /\ Keep \in Nat \ {0}
    /\ PlacementAnswers \subseteq Placements
    /\ DeathWindows \subseteq {"idle", "unanchored", "building", "after"}
    /\ MaxEdits \in Nat

VARIABLES
    boot,     \* the running boot
    clock,    \* boot::now_epoch
    server,   \* incarnation of the running tmux server, 0 if there is none
    live,     \* the sessions on it
    snaps,    \* snapshots and session_rows
    nextId,   \* AUTOINCREMENT of snapshots
    running,  \* snapshots with a restore_attempts row in state `running`
    cap,      \* the capture in progress
    rst,      \* the restore in progress
    edits,    \* changes made by the user so far
    parted    \* history: owed contents that were live and the user closed or changed

vars == <<boot, clock, server, live, snaps, nextId, running, cap, rst, edits,
          parted>>

\* @osm-server-id.  Only a running restore remembers one, so two are enough.
Incarnations == 1..2

\* The identity of a server that starts where none is running.
Fresh == CHOOSE x \in Incarnations : x # rst.anchor

Nothing == [s \in Sessions |-> None]

RestoreSteps ==
    {"idle", "locked", "reclaimed", "selected", "marked", "flagged", "owing",
     "started", "building", "checking", "resuming", "publishing", "publishable",
     "failing", "discharging", "refreshed", "recorded", "returned"}

Restore ==
    [ pc     : RestoreSteps,
      src    : 0..MaxSnaps,            \* the snapshot being restored
      todo   : SUBSET Sessions,        \* sessions of the loop under way
      seen   : SUBSET Sessions,        \* live_session_names, read once
      anchor : Incarnations \union {0},
      built  : BOOLEAN,                \* the session just handled was created
      done   : SUBSET Sessions,        \* RestoreOutcome created and adopted
      short  : SUBSET Sessions,        \* ... degraded or with a skipped layout
      topo   : Topology ]              \* what publish_current_boot collected

IdleRestore ==
    [ pc |-> "idle", src |-> 0, todo |-> {}, seen |-> {}, anchor |-> 0,
      built |-> FALSE, done |-> {}, short |-> {}, topo |-> Nothing ]

Capture == [pc : {"idle", "collected", "committed"}, topo : Topology]

IdleCapture == [pc |-> "idle", topo |-> Nothing]

TypeOK ==
    /\ boot \in 0..MaxBoots
    /\ clock \in 0..MaxClock
    /\ server \in Incarnations \union {0}
    /\ live \in Topology
    /\ snaps \in [Ids -> Snapshot]
    /\ nextId \in 1..(MaxSnaps + 1)
    /\ running \subseteq Ids
    /\ cap \in Capture
    /\ rst \in Restore
    /\ edits \in 0..MaxEdits
    /\ parted \subseteq Sessions \X Shapes

Init ==
    /\ boot = 0
    /\ clock = 0
    /\ server = 0
    /\ live = Nothing
    /\ snaps = [i \in Ids |-> Blank]
    /\ nextId = 1
    /\ running = {}
    /\ cap = IdleCapture
    /\ rst = IdleRestore
    /\ edits = 0
    /\ parted = {}

-----------------------------------------------------------------------------
(* What a restore has taken on and not yet given back.                     *)

Contents(topology) ==
    {p \in Sessions \X Shapes : topology[p[1]] = p[2]}

\* A snapshot in restore_in_progress is owed whole: reclaim will mark it so.
OwedContents ==
    UNION {{p \in Contents(snaps[i].holds) :
                snaps[i].state = "restore_in_progress" \/ p[1] \in snaps[i].owed} :
           i \in {j \in Ids : snaps[j].state \in {"complete", "restore_in_progress"}}}

\* A debt is forgotten by the history when it is no longer owed.
Observe == parted' = parted \intersect OwedContents'

-----------------------------------------------------------------------------
(* The tmux server and its user. *)

UserChanges(s, shape) ==
    /\ edits < MaxEdits
    /\ edits' = edits + 1
    /\ live' = [live EXCEPT ![s] = shape]
    /\ server' = IF Held(live') = {} THEN 0
                 ELSE IF server = 0 THEN Fresh ELSE server
    /\ UNCHANGED <<boot, clock, snaps, nextId, running, cap, rst>>
    /\ parted' = (parted \union (Contents(live) \ Contents(live')))
                    \intersect OwedContents'

UserCreates(s, shape) == live[s] = None /\ UserChanges(s, shape)

UserCloses(s) == live[s] # None /\ UserChanges(s, None)

UserReshapes(s, shape) == live[s] \notin {None, shape} /\ UserChanges(s, shape)

\* Where in a restore the server is when it dies: before the restore knows
\* its identity, between two ServerWatch checks, or after the last of them.
DeathWindow ==
    IF rst.pc = "idle" THEN "idle"
    ELSE IF rst.pc = "checking" /\ rst.anchor = 0 THEN "unanchored"
    ELSE IF \/ rst.pc \in {"resuming", "publishing", "publishable",
                           "discharging", "refreshed", "recorded"}
            \/ rst.pc = "building" /\ rst.todo = {} THEN "after"
    ELSE "building"

ServerDies ==
    /\ server # 0
    /\ DeathWindow \in DeathWindows
    /\ server' = 0
    /\ live' = Nothing
    /\ UNCHANGED <<boot, clock, snaps, nextId, running, cap, rst, edits>>
    /\ Observe

\* The wall clock is set, in either direction.
ClockMoves(t) ==
    /\ t # clock
    /\ clock' = t
    /\ UNCHANGED <<boot, server, live, snaps, nextId, running, cap, rst, edits>>
    /\ Observe

\* Power loss or shutdown.  A shutdown's own capture is an ordinary capture
\* before it.
Reboot ==
    /\ boot < MaxBoots
    /\ boot' = boot + 1
    /\ server' = 0
    /\ live' = Nothing
    /\ cap' = IdleCapture
    /\ rst' = IdleRestore
    /\ parted' = {}
    /\ UNCHANGED <<clock, snaps, nextId, running, edits>>

-----------------------------------------------------------------------------
(* A capture. *)

CaptureCollect ==
    /\ cap.pc = "idle"
    /\ rst.pc = "idle"
    /\ cap' = [pc |-> "collected", topo |-> live]
    /\ UNCHANGED <<boot, clock, server, live, snaps, nextId, running, rst, edits>>
    /\ Observe

CaptureCommit(placement) ==
    /\ cap.pc = "collected"
    /\ nextId <= MaxSnaps
    /\ snaps' = WriteTopology(snaps, nextId, cap.topo, boot, clock, placement)
    /\ nextId' = nextId + 1
    /\ cap' = [pc |-> "committed", topo |-> Nothing]
    /\ UNCHANGED <<boot, clock, server, live, running, rst, edits>>
    /\ Observe

CapturePrune ==
    /\ cap.pc = "committed"
    /\ snaps' = Prune(snaps, running, boot, Keep)
    /\ cap' = IdleCapture
    /\ UNCHANGED <<boot, clock, server, live, nextId, running, rst, edits>>
    /\ Observe

\* Killed, a read or a write that failed, or an invalid config (no prune).
CaptureStops ==
    /\ cap.pc # "idle"
    /\ cap' = IdleCapture
    /\ UNCHANGED <<boot, clock, server, live, snaps, nextId, running, rst, edits>>
    /\ Observe

-----------------------------------------------------------------------------
(* A restore.  Every step is one committed statement or one read of tmux,  *)
(* in the order of run_restore_with.                                       *)

\* A step of the running restore that only it can see.
Proceeds(next) ==
    /\ rst' = next
    /\ UNCHANGED <<boot, clock, server, live, nextId, cap, edits>>

Goto(pc) == [rst EXCEPT !.pc = pc]

\* run_restore_with turns to the terminal writes of an attempt that is not a
\* success, with `delivered` the sessions it may discharge.
Discharging(delivered) ==
    [IdleRestore EXCEPT !.pc = "discharging", !.src = rst.src, !.todo = delivered]

Delivered == rst.done \ rst.short

Plan == snaps[rst.src].holds

BeginRestore ==
    /\ rst.pc = "idle"
    /\ cap.pc = "idle"
    /\ Proceeds(Goto("locked"))
    /\ UNCHANGED <<snaps, running>>
    /\ Observe

ReclaimOrphans ==
    /\ rst.pc = "locked"
    /\ snaps' = Reclaim(snaps)
    /\ running' = {}
    /\ Proceeds(Goto("reclaimed"))
    /\ Observe

SelectSource ==
    /\ rst.pc = "reclaimed"
    /\ \E i \in SelectRestoreSource(snaps, boot) :
          Proceeds([rst EXCEPT !.pc = "selected", !.src = i])
    /\ UNCHANGED <<snaps, running>>
    /\ Observe

\* Nothing to restore, or --dry-run.
EndEarly ==
    /\ rst.pc = "reclaimed"
    /\ Proceeds(IdleRestore)
    /\ UNCHANGED <<snaps, running>>
    /\ Observe

MarkInProgress ==
    /\ rst.pc = "selected"
    /\ snaps' = SetState(snaps, rst.src, "restore_in_progress")
    /\ Proceeds(Goto("marked"))
    /\ UNCHANGED running
    /\ Observe

OweSnapshot ==
    /\ rst.pc = "marked"
    /\ snaps' = [snaps EXCEPT ![rst.src].unresolved = TRUE]
    /\ Proceeds(Goto("flagged"))
    /\ UNCHANGED running
    /\ Observe

OweSessions ==
    /\ rst.pc = "flagged"
    /\ snaps' = [snaps EXCEPT ![rst.src].owed = Held(Plan)]
    /\ Proceeds(Goto("owing"))
    /\ UNCHANGED running
    /\ Observe

\* The attempt row; ServerWatch::new reads the first identity.
StartAttempt ==
    /\ rst.pc = "owing"
    /\ running' = running \union {rst.src}
    /\ Proceeds([rst EXCEPT !.pc = "started", !.anchor = server])
    /\ UNCHANGED snaps
    /\ Observe

ReadLiveNames ==
    /\ rst.pc = "started"
    /\ Proceeds([rst EXCEPT !.pc = "building", !.seen = Held(live),
                            !.todo = Held(Plan)])
    /\ UNCHANGED <<snaps, running>>
    /\ Observe

\* A session of that name was live when the restore started.
AdoptSession(s) ==
    /\ rst.pc = "building"
    /\ s \in rst.todo \intersect rst.seen
    /\ Proceeds([rst EXCEPT !.pc = "checking", !.built = FALSE, !.todo = @ \ {s},
                            !.done = IF live[s] = Plan[s] THEN @ \union {s} ELSE @])
    /\ UNCHANGED <<snaps, running>>
    /\ Observe

\* None was: create it.  It may come out right, degraded, or fail and leave
\* nothing or a part of itself behind.
CreateSession(s, shape, outcome) ==
    /\ rst.pc = "building"
    /\ s \in rst.todo \ rst.seen
    /\ live[s] = None
    /\ outcome \in {"done", "degraded", "failed"}
    /\ outcome = "done" => shape = Plan[s]
    /\ outcome = "degraded" => shape # None
    /\ live' = [live EXCEPT ![s] = shape]
    /\ server' = IF server = 0 /\ shape # None THEN Fresh ELSE server
    /\ rst' = [rst EXCEPT
                !.pc    = "checking", !.built = TRUE, !.todo = @ \ {s},
                !.done  = IF outcome = "failed" THEN @ ELSE @ \union {s},
                !.short = IF outcome = "degraded" THEN @ \union {s} ELSE @]
    /\ UNCHANGED <<boot, clock, snaps, nextId, running, cap, edits>>
    /\ Observe

\* The user opened one of that name since: new-session refuses.
CreateCollides(s) ==
    /\ rst.pc = "building"
    /\ s \in rst.todo \ rst.seen
    /\ live[s] # None
    /\ Proceeds([rst EXCEPT !.pc = "checking", !.built = TRUE, !.todo = @ \ {s}])
    /\ UNCHANGED <<snaps, running>>
    /\ Observe

ServerIsTheSame ==
    IF rst.anchor = 0 THEN server # 0 \/ ~rst.built ELSE server = rst.anchor

CheckServer ==
    /\ rst.pc = "checking"
    /\ Proceeds(IF ServerIsTheSame
                THEN [rst EXCEPT !.pc = "building", !.anchor = server, !.built = FALSE]
                ELSE Discharging({}))
    /\ UNCHANGED <<snaps, running>>
    /\ Observe

\* The end of restore_tree and the attempt's state.  A `failed` attempt skips
\* the passes.
EndTree ==
    /\ rst.pc = "building"
    /\ rst.todo = {}
    /\ Proceeds(IF \/ rst.done # {} /\ rst.anchor = 0
                   \/ rst.done = {} /\ Held(Plan) # {}
                THEN Discharging({})
                ELSE Goto("resuming"))
    /\ UNCHANGED <<snaps, running>>
    /\ Observe

\* A session was not put back as it was captured.
Degraded == rst.done # Held(Plan) \/ rst.short # {}

\* resume_agents and place_windows; either may find a pane or a window that
\* did not come back and downgrade the success.
ResumeAndPlace(downgraded) ==
    /\ rst.pc = "resuming"
    /\ Proceeds(IF Degraded \/ downgraded THEN Discharging(Delivered)
                                          ELSE Goto("publishing"))
    /\ UNCHANGED <<snaps, running>>
    /\ Observe

\* Mutant of PublishCollect: the identity is not compared.
PublishCollectAnyServer ==
    /\ rst.pc = "publishing"
    /\ Proceeds([rst EXCEPT !.pc = "publishable", !.topo = live])
    /\ UNCHANGED <<snaps, running>>
    /\ Observe

PublishCollect ==
    /\ rst.pc = "publishing"
    /\ server = rst.anchor
    /\ Proceeds([rst EXCEPT !.pc = "publishable", !.topo = live])
    /\ UNCHANGED <<snaps, running>>
    /\ Observe

\* PublishFailure::ServerMoved, then disown_attempt; also an identity that
\* can no longer be read.
PublishDisowned ==
    /\ rst.pc = "publishing"
    /\ Proceeds(Discharging({}))
    /\ UNCHANGED <<snaps, running>>
    /\ Observe

\* PublishFailure::Other: the collection or the transaction failed.
PublishUnsecured ==
    /\ \/ rst.pc = "publishing" /\ server = rst.anchor
       \/ rst.pc = "publishable"
    /\ Proceeds(Discharging(Delivered))
    /\ UNCHANGED <<snaps, running>>
    /\ Observe

\* The transaction of publish_current_boot.  `observed`: every resumed
\* conversation and placed window is in the topology it writes.
PublishCommit(placement, observed) ==
    /\ rst.pc = "publishable"
    /\ nextId <= MaxSnaps
    /\ LET discharged == [snaps EXCEPT ![rst.src].owed = @ \ Delivered]
           written    == WriteTopology(RefreshUnresolved(discharged, rst.src),
                                       nextId, rst.topo, boot, clock, placement)
       IN  snaps' = IF observed THEN Retire(written, rst.src) ELSE written
    /\ nextId' = nextId + 1
    /\ running' = IF observed THEN running \ {rst.src} ELSE running
    /\ rst' = IF observed THEN IdleRestore ELSE Discharging(Delivered)
    /\ UNCHANGED <<boot, clock, server, live, cap, edits>>
    /\ Observe

\* run_restore_attempt returned an error: nothing it did is trusted.
AttemptErrors ==
    /\ \/ rst.pc = "started"
       \/ rst.pc = "building" /\ rst.todo = {}
    /\ Proceeds([IdleRestore EXCEPT !.pc = "failing", !.src = rst.src])
    /\ UNCHANGED <<snaps, running>>
    /\ Observe

\* finalize_failed_attempt logs a write that fails and goes on.
FinalizeFailedAttempt(written) ==
    /\ rst.pc = "failing"
    /\ running' = IF written THEN running \ {rst.src} ELSE running
    /\ Proceeds(Goto("recorded"))
    /\ UNCHANGED snaps
    /\ Observe

ResolveDelivered(s) ==
    /\ rst.pc = "discharging"
    /\ s \in rst.todo
    /\ snaps' = ResolveSession(snaps, rst.src, s)
    /\ Proceeds([rst EXCEPT !.todo = @ \ {s}])
    /\ UNCHANGED running
    /\ Observe

RefreshSource ==
    /\ rst.pc = "discharging"
    /\ rst.todo = {}
    /\ snaps' = RefreshUnresolved(snaps, rst.src)
    /\ Proceeds(Goto("refreshed"))
    /\ UNCHANGED running
    /\ Observe

RecordOutcome ==
    /\ rst.pc = "refreshed"
    /\ running' = running \ {rst.src}
    /\ Proceeds(Goto("recorded"))
    /\ UNCHANGED snaps
    /\ Observe

\* Mutant of ReturnSource: an attempt that did not succeed retires its source.
ReturnSourceFailed ==
    /\ rst.pc = "recorded"
    /\ snaps' = SetState(snaps, rst.src, "failed")
    /\ Proceeds(Goto("returned"))
    /\ UNCHANGED running
    /\ Observe

\* retire_or_return for anything but a success, and the unsecured case.
ReturnSource ==
    /\ rst.pc = "recorded"
    /\ snaps' = SetState(snaps, rst.src, "complete")
    /\ Proceeds(Goto("returned"))
    /\ UNCHANGED running
    /\ Observe

RefreshReturned ==
    /\ rst.pc = "returned"
    /\ snaps' = RefreshUnresolved(snaps, rst.src)
    /\ Proceeds(IdleRestore)
    /\ UNCHANGED running
    /\ Observe

\* Killed, or a statement whose error ends the run: the lock is released.
RestoreStops ==
    /\ rst.pc # "idle"
    /\ Proceeds(IdleRestore)
    /\ UNCHANGED <<snaps, running>>
    /\ Observe

-----------------------------------------------------------------------------
Environment ==
    \/ \E s \in Sessions, shape \in Shapes :
          UserCreates(s, shape) \/ UserReshapes(s, shape)
    \/ \E s \in Sessions : UserCloses(s)
    \/ \E t \in 0..MaxClock : ClockMoves(t)
    \/ ServerDies
    \/ Reboot

CaptureStep ==
    \/ CaptureCollect
    \/ \E placement \in PlacementAnswers : CaptureCommit(placement)
    \/ CapturePrune
    \/ CaptureStops

RestoreStep ==
    \/ BeginRestore \/ ReclaimOrphans \/ SelectSource \/ EndEarly
    \/ MarkInProgress \/ OweSnapshot \/ OweSessions \/ StartAttempt
    \/ ReadLiveNames
    \/ \E s \in Sessions : AdoptSession(s) \/ CreateCollides(s)
    \/ \E s \in Sessions, shape \in Shapes \union {None},
          outcome \in {"done", "degraded", "failed"} : CreateSession(s, shape, outcome)
    \/ CheckServer \/ EndTree
    \/ \E downgraded \in BOOLEAN : ResumeAndPlace(downgraded)
    \/ PublishCollect \/ PublishDisowned \/ PublishUnsecured
    \/ \E placement \in PlacementAnswers, observed \in BOOLEAN :
          PublishCommit(placement, observed)
    \/ AttemptErrors
    \/ \E written \in BOOLEAN : FinalizeFailedAttempt(written)
    \/ \E s \in Sessions : ResolveDelivered(s)
    \/ RefreshSource \/ RecordOutcome \/ ReturnSource \/ RefreshReturned
    \/ RestoreStops

Next == Environment \/ CaptureStep \/ RestoreStep

Spec == Init /\ [][Next]_vars

-----------------------------------------------------------------------------
(* Properties. *)

\* A session row that is owed is never hidden from retention: prune reads only
\* the cached column snapshots.unresolved (refresh_unresolved's contract).
DebtIsCached ==
    \A i \in Ids : snaps[i].owed # {} => snaps[i].unresolved

Restorable == {i \in Ids : snaps[i].state \in {"complete", "restore_in_progress"}}

\* Once anything has been captured there is always something to restore from,
\* between any two statements of any program (no gap when a source retires), as
\* long as the clock is not set back.
AlwaysRestorable == nextId > 1 => Restorable # {}

\* The wall clock agrees with the order in which the snapshots were written.
SteadyClock ==
    \A i, j \in Present(snaps) : i < j => snaps[i].takenAt <= snaps[j].takenAt

WrittenLast(S) == {i \in S : \A j \in S : j <= i}

\* The snapshot written last before this boot, and the one written last of
\* all, are never deleted while they are restorable (prune's one invariant),
\* unless the clock was set back before them.
LatestSurvives ==
    [][SteadyClock =>
       \A i \in WrittenLast(Restorable)
                \union WrittenLast(Restorable \intersect PreviousBoot(snaps, boot)) :
          snaps'[i].state # "absent"]_vars

\* What a restore took on leaves the set of owed contents only when it is
\* really live, or was and the user closed it, or a snapshot written in that
\* very step records it.
DischargeOnlyRecovered ==
    [][\A p \in OwedContents \ OwedContents' :
          \/ p \in Contents(live) \union parted
          \/ nextId' # nextId /\ p \in Contents(snaps'[nextId].holds)]_vars

\* A source retires only in a step that publishes this boot's snapshot, and
\* every session it holds is in that snapshot as it was captured, or was put
\* back and then closed or changed by the user.
RetireOnlyWhenHeld ==
    [][\A i \in Ids :
          snaps[i].state # "restored" /\ snaps'[i].state = "restored" =>
              /\ nextId' # nextId
              /\ \A p \in Contents(snaps[i].holds) :
                    p \in Contents(snaps'[nextId].holds) \union parted]_vars

\* Not kept by the code.  No snapshot of the running boot gains debt after it is written: it is never
\* the source of a restore in this boot.
OwedOnlyByRestore ==
    [][\A i \in Ids :
          snaps[i].state # "absent" /\ snaps[i].boot = boot =>
              snaps'[i].owed \subseteq snaps[i].owed]_vars

\* The snapshot written last that knows where the windows were, of all boots
\* and of the earlier ones, is never deleted, under the same condition.
LayoutSurvives ==
    [][SteadyClock =>
       \A i \in WrittenLast(KnowsPlacement(snaps))
                \union WrittenLast(KnowsPlacement(snaps) \intersect PreviousBoot(snaps, boot)) :
          snaps'[i].state # "absent"]_vars
=============================================================================
