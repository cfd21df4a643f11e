------------------------------ MODULE Captures ------------------------------
(***************************************************************************)
(* snapshot_maybe_debounced, run by any number of processes at once: tmux  *)
(* hooks (debounced), the daemon's timer and explicit captures (not), with *)
(* a restore excluding them all.  They meet in four files: the restore     *)
(* lock (shared by captures, exclusive for a restore), the capture lock,   *)
(* the capture-dirty flag and the last-capture time.                       *)
(*                                                                         *)
(* What a snapshot holds is abstracted to a version of the tmux state; how *)
(* one is written and restored is SessionMemory's business.                *)
(***************************************************************************)
EXTENDS Integers

CONSTANTS
    Hooks,         \* processes of `osm snapshot --debounced`
    Timers,        \* captures that are not debounced: daemon, CLI, ExecStop
    Nobody,        \* holder of a free lock
    MaxChanges,    \* bound: changes to tmux
    MaxFailures,   \* bound: captures that end in an error
    MaxKills,      \* bound: processes killed
    MaxRestores    \* bound: restores

Callers == Hooks \union Timers

ASSUME CapturesAssumption ==
    /\ Nobody \notin Callers
    /\ MaxChanges \in Nat
    /\ MaxFailures \in Nat
    /\ MaxKills \in Nat
    /\ MaxRestores \in Nat

\* MAX_CAPTURE_PASSES
MaxPasses == 2

VARIABLES
    version,     \* the state tmux is in
    newest,      \* the state the newest snapshot holds
    sharers,     \* captures that hold the restore lock
    restoring,   \* a restore holds it, and how far it is
    capturing,   \* the holder of the capture lock
    dirty,       \* the capture-dirty flag
    fresh,       \* last-capture lies within the debounce window
    call,        \* every caller's progress
    deferred,    \* history: changes whose call was answered Deferred
    debounced,   \* history: ... Debounced
    failures, kills, restores

vars == <<version, newest, sharers, restoring, capturing, dirty, fresh, call,
          deferred, debounced, failures, kills, restores>>

Versions == 0..MaxChanges

CallSteps == {"idle", "started", "entered", "asking", "flagging", "waiting",
              "clearing", "reading", "writing", "stamping", "checking"}

Call == [ pc     : CallSteps,
          change : Versions,        \* the change that made the call
          saw    : Versions,        \* the topology this pass has read
          passes : 0..(MaxPasses - 1) ]

Idle == [pc |-> "idle", change |-> 0, saw |-> 0, passes |-> 0]

\* The restorer: not running, rebuilding, or about to publish what it read.
Restorer == [pc : {"idle", "rebuilding", "publishing"}, saw : Versions]

NotRestoring == [pc |-> "idle", saw |-> 0]

TypeOK ==
    /\ version \in Versions
    /\ newest \in Versions
    /\ sharers \subseteq Callers
    /\ restoring \in Restorer
    /\ capturing \in Callers \union {Nobody}
    /\ dirty \in BOOLEAN
    /\ fresh \in BOOLEAN
    /\ call \in [Callers -> Call]
    /\ deferred \subseteq Versions
    /\ debounced \subseteq Versions
    /\ failures \in 0..MaxFailures
    /\ kills \in 0..MaxKills
    /\ restores \in 0..MaxRestores

Init ==
    /\ version = 0
    /\ newest = 0
    /\ sharers = {}
    /\ restoring = NotRestoring
    /\ capturing = Nobody
    /\ dirty = FALSE
    /\ fresh = FALSE
    /\ call = [c \in Callers |-> Idle]
    /\ deferred = {}
    /\ debounced = {}
    /\ failures = 0
    /\ kills = 0
    /\ restores = 0

budgets == <<failures, kills, restores>>
history == <<deferred, debounced>>
files == <<dirty, fresh>>
locks == <<sharers, restoring, capturing>>

-----------------------------------------------------------------------------
(* What makes a call. *)

Start(c, change) ==
    /\ call[c].pc = "idle"
    /\ call' = [call EXCEPT ![c] = [Idle EXCEPT !.pc = "started", !.change = change]]

\* A hooked event: tmux changes and runs a capture in the background.
HookFires(h) ==
    /\ version < MaxChanges
    /\ version' = version + 1
    /\ Start(h, version + 1)
    /\ UNCHANGED <<newest, locks, files, history, budgets>>

\* A change no hook reports, or before the hooks are registered.
ChangesUnhooked ==
    /\ version < MaxChanges
    /\ version' = version + 1
    /\ UNCHANGED <<newest, locks, files, call, history, budgets>>

\* The daemon's loop, or the CLI.
TimerFires(t) ==
    /\ Start(t, version)
    /\ UNCHANGED <<version, newest, locks, files, history, budgets>>

\* The last capture falls out of the debounce window, or the clock moves.
WindowPasses ==
    /\ fresh
    /\ fresh' = FALSE
    /\ UNCHANGED <<version, newest, locks, dirty, call, history, budgets>>

-----------------------------------------------------------------------------
(* snapshot_maybe_debounced. *)

Step(c, from, to) ==
    /\ call[c].pc = from
    /\ call' = [call EXCEPT ![c].pc = to]

\* Both guards are dropped, the capture lock's first.
Leave(c) ==
    /\ call' = [call EXCEPT ![c] = Idle]
    /\ sharers' = sharers \ {c}
    /\ capturing' = IF capturing = c THEN Nobody ELSE capturing
    /\ UNCHANGED restoring

\* Mutant of EnterShared: the restore lock is not asked for.
EnterAnyway(c) ==
    /\ Step(c, "started", "entered")
    /\ sharers' = sharers \union {c}
    /\ UNCHANGED <<version, newest, restoring, capturing, files, history, budgets>>

EnterShared(c) ==
    /\ restoring.pc = "idle"
    /\ Step(c, "started", "entered")
    /\ sharers' = sharers \union {c}
    /\ UNCHANGED <<version, newest, restoring, capturing, files, history, budgets>>

\* CaptureOutcome::RestoreInProgress
RefusedByRestore(c) ==
    /\ restoring.pc # "idle"
    /\ call[c].pc = "started"
    /\ call' = [call EXCEPT ![c] = Idle]
    /\ UNCHANGED <<version, newest, locks, files, history, budgets>>

\* debounced && !is_dirty(&dirty) && ...
ReadFlag(c) ==
    /\ Step(c, "entered", IF c \in Hooks /\ ~dirty THEN "asking" ELSE "flagging")
    /\ UNCHANGED <<version, newest, locks, files, history, budgets>>

\* ... captured_recently(...)
ReadStamp(c) ==
    /\ ~fresh
    /\ Step(c, "asking", "flagging")
    /\ UNCHANGED <<version, newest, locks, files, history, budgets>>

\* CaptureOutcome::Debounced
Debounce(c) ==
    /\ call[c].pc = "asking"
    /\ fresh
    /\ Leave(c)
    /\ debounced' = debounced \union {call[c].change}
    /\ UNCHANGED <<version, newest, files, deferred, budgets>>

\* Mutant of MarkDirty: the work is not flagged before queueing.
QueueUnflagged(c) ==
    /\ Step(c, "flagging", "waiting")
    /\ UNCHANGED <<version, newest, locks, files, history, budgets>>

MarkDirty(c) ==
    /\ Step(c, "flagging", "waiting")
    /\ dirty' = TRUE
    /\ UNCHANGED <<version, newest, locks, fresh, history, budgets>>

TakeCaptureLock(c) ==
    /\ capturing = Nobody
    /\ Step(c, "waiting", "clearing")
    /\ capturing' = c
    /\ UNCHANGED <<version, newest, sharers, restoring, files, history, budgets>>

\* CaptureOutcome::Deferred, after CAPTURE_LOCK_WAIT.
GiveUpWaiting(c) ==
    /\ call[c].pc = "waiting"
    /\ capturing # Nobody
    /\ Leave(c)
    /\ deferred' = deferred \union {call[c].change}
    /\ UNCHANGED <<version, newest, files, debounced, budgets>>

ClearDirty(c) ==
    /\ Step(c, "clearing", "reading")
    /\ dirty' = FALSE
    /\ UNCHANGED <<version, newest, locks, fresh, history, budgets>>

Collect(c) ==
    /\ call[c].pc = "reading"
    /\ call' = [call EXCEPT ![c].pc = "writing", ![c].saw = version]
    /\ UNCHANGED <<version, newest, locks, files, history, budgets>>

Commit(c) ==
    /\ Step(c, "writing", "stamping")
    /\ newest' = call[c].saw
    /\ UNCHANGED <<version, locks, files, history, budgets>>

RecordCaptureTime(c) ==
    /\ Step(c, "stamping", "checking")
    /\ fresh' = TRUE
    /\ UNCHANGED <<version, newest, locks, dirty, history, budgets>>

\* Mutant of AnotherPass: an off-by-one in the number of passes.
AnotherPassTooMany(c) ==
    /\ dirty
    /\ call[c].pc = "checking"
    /\ call[c].passes < MaxPasses
    /\ call' = [call EXCEPT ![c].pc = "clearing", ![c].passes = @ + 1]
    /\ UNCHANGED <<version, newest, locks, files, history, budgets>>

AnotherPass(c) ==
    /\ dirty
    /\ call[c].pc = "checking"
    /\ call[c].passes + 1 < MaxPasses
    /\ call' = [call EXCEPT ![c].pc = "clearing", ![c].passes = @ + 1]
    /\ UNCHANGED <<version, newest, locks, files, history, budgets>>

Captured(c) ==
    /\ call[c].pc = "checking"
    /\ ~dirty \/ call[c].passes + 1 >= MaxPasses
    /\ Leave(c)
    /\ UNCHANGED <<version, newest, files, history, budgets>>

\* Mutant of CaptureFails: the error path keeps both locks.
FailsHoldingLocks(c) ==
    /\ failures < MaxFailures
    /\ failures' = failures + 1
    /\ call[c].pc \in {"reading", "writing"}
    /\ call' = [call EXCEPT ![c] = Idle]
    /\ UNCHANGED <<version, newest, locks, files, history, kills, restores>>

\* tmux could not be read, or the database not written: the error is
\* returned, with the flag already cleared.
CaptureFails(c) ==
    /\ failures < MaxFailures
    /\ failures' = failures + 1
    /\ call[c].pc \in {"reading", "writing"}
    /\ Leave(c)
    /\ UNCHANGED <<version, newest, files, history, kills, restores>>

\* The kernel drops the locks of a process that is gone.
CallerKilled(c) ==
    /\ kills < MaxKills
    /\ kills' = kills + 1
    /\ call[c].pc # "idle"
    /\ Leave(c)
    /\ UNCHANGED <<version, newest, files, history, failures, restores>>

-----------------------------------------------------------------------------
(* A restore. *)

RestoreBegins ==
    /\ restores < MaxRestores
    /\ restores' = restores + 1
    /\ restoring.pc = "idle"
    /\ sharers = {}
    /\ restoring' = [pc |-> "rebuilding", saw |-> 0]
    /\ UNCHANGED <<version, newest, sharers, capturing, files, call, history,
                   failures, kills>>

\* publish_current_boot reads tmux, then commits what it read.
PublishReads ==
    /\ restoring.pc = "rebuilding"
    /\ restoring' = [pc |-> "publishing", saw |-> version]
    /\ UNCHANGED <<version, newest, sharers, capturing, files, call, history, budgets>>

PublishCommits ==
    /\ restoring.pc = "publishing"
    /\ newest' = restoring.saw
    /\ restoring' = NotRestoring
    /\ UNCHANGED <<version, sharers, capturing, files, call, history, budgets>>

\* Anything but a success, or killed.
RestoreEnds ==
    /\ restoring.pc # "idle"
    /\ restoring' = NotRestoring
    /\ UNCHANGED <<version, newest, sharers, capturing, files, call, history, budgets>>

-----------------------------------------------------------------------------
\* What a caller does of its own accord.
CallerStep(c) ==
    \/ EnterShared(c) \/ RefusedByRestore(c) \/ ReadFlag(c) \/ ReadStamp(c)
    \/ Debounce(c) \/ MarkDirty(c) \/ TakeCaptureLock(c) \/ GiveUpWaiting(c)
    \/ ClearDirty(c) \/ Collect(c) \/ Commit(c) \/ RecordCaptureTime(c)
    \/ AnotherPass(c) \/ Captured(c)

RestoreStep == PublishReads \/ PublishCommits \/ RestoreEnds

Next ==
    \/ \E h \in Hooks : HookFires(h)
    \/ ChangesUnhooked
    \/ \E t \in Timers : TimerFires(t)
    \/ WindowPasses
    \/ \E c \in Callers : CallerStep(c) \/ CaptureFails(c) \/ CallerKilled(c)
    \/ RestoreBegins
    \/ RestoreStep

\* The daemon's loop never stops asking, and no process hangs for ever.
Fairness ==
    /\ \A t \in Timers : WF_vars(TimerFires(t))
    /\ \A c \in Callers : WF_vars(CallerStep(c))
    /\ WF_vars(RestoreStep)

Spec == Init /\ [][Next]_vars

FairSpec == Spec /\ Fairness

-----------------------------------------------------------------------------
(* Properties. *)

\* Some process or flag still answers for the change v.
Pending(v) ==
    \/ newest >= v
    \/ dirty
    \/ \E c \in Callers :
          /\ capturing = c
          /\ \/ call[c].pc \in {"clearing", "reading"}
             \/ call[c].pc = "writing" /\ call[c].saw >= v

\* "The work is never dropped" (snapshot_maybe_debounced, of a Deferred call).
NeverDropped == \A v \in deferred : Pending(v)

\* As long as no capture has failed or been killed after it took work over, the
\* work of every deferred call is flagged, being captured or captured.
DeferredIsPending == failures = 0 /\ kills = 0 => NeverDropped

\* Not kept by the code.  A burst is coalesced, "but never delays capture indefinitely": what a
\* debounced call left out is waiting to be captured (design.md, Triggers).
DebouncedIsPending == \A v \in debounced : Pending(v)

Promise == INSTANCE Recorder

\* The newest snapshot never goes back to an earlier state of tmux, though a
\* capture and a restore each read tmux well before they commit what they read.
CommittedInOrder == Promise!InOrder

\* All callers together keep what capturing promises: snapshots are committed
\* in the order tmux went through their states, and its last state is recorded
\* in the end, whichever calls are refused, debounced, deferred, failed or killed.
RecordsEveryChange == Promise!Spec
=============================================================================
