--------------------------- MODULE CapturesProofs ---------------------------
(***************************************************************************)
(* For any number of callers, failures, kills and restores, snapshots are  *)
(* committed in the order tmux went through their states.  (That the last  *)
(* state is recorded in the end rests on fairness and is left to TLC.)     *)
(***************************************************************************)
EXTENDS Captures, TLAPS

-----------------------------------------------------------------------------
(* Types. *)

LEMMA IdleType == Idle \in Call
BY CapturesAssumption DEF Idle, Call, CallSteps, Versions, MaxPasses

LEMMA NotRestoringType == NotRestoring \in Restorer
BY CapturesAssumption DEF NotRestoring, Restorer, Versions

LEMMA InitType == Init => TypeOK
<1>1. 0 \in Versions /\ 0 \in 0..MaxFailures /\ 0 \in 0..MaxKills /\ 0 \in 0..MaxRestores
  BY CapturesAssumption DEF Versions
<1> QED
  BY <1>1, IdleType, NotRestoringType DEF Init, TypeOK

LEMMA StartType ==
    ASSUME TypeOK, NEW c \in Callers, NEW change \in Versions, Start(c, change)
    PROVE  call' \in [Callers -> Call]
<1>1. [Idle EXCEPT !.pc = "started", !.change = change] \in Call
  BY IdleType DEF Call, CallSteps
<1> QED
  BY <1>1 DEF TypeOK, Start

LEMMA StepType ==
    ASSUME TypeOK, NEW c \in Callers, NEW from, NEW to \in CallSteps, Step(c, from, to)
    PROVE  call' \in [Callers -> Call]
BY DEF TypeOK, Step, Call

LEMMA LeaveType ==
    ASSUME TypeOK, NEW c \in Callers, Leave(c)
    PROVE  /\ call' \in [Callers -> Call] /\ sharers' \subseteq Callers
           /\ capturing' \in Callers \union {Nobody}
BY IdleType DEF TypeOK, Leave

LEMMA CallerType ==
    ASSUME TypeOK, NEW c \in Callers, CallerStep(c) \/ CaptureFails(c) \/ CallerKilled(c)
    PROVE  TypeOK'
<1> USE DEF TypeOK, locks, files, history, budgets
<1>1. CASE EnterShared(c) \/ ReadFlag(c) \/ ReadStamp(c) \/ MarkDirty(c)
           \/ TakeCaptureLock(c) \/ ClearDirty(c) \/ RecordCaptureTime(c)
  <2>1. call' \in [Callers -> Call]
    BY <1>1, StepType
    DEF EnterShared, ReadFlag, ReadStamp, MarkDirty, TakeCaptureLock, ClearDirty,
        RecordCaptureTime, CallSteps
  <2> QED
    BY <1>1, <2>1
    DEF EnterShared, ReadFlag, ReadStamp, MarkDirty, TakeCaptureLock, ClearDirty,
        RecordCaptureTime
<1>2. CASE Debounce(c) \/ GiveUpWaiting(c) \/ Captured(c)
  <2>1. call[c].change \in Versions
    BY DEF Call
  <2> QED
    BY <1>2, <2>1, LeaveType DEF Debounce, GiveUpWaiting, Captured, Leave
<1>3. CASE RefusedByRestore(c)
  BY <1>3, IdleType DEF RefusedByRestore
<1>4. CASE Collect(c)
  BY <1>4 DEF Collect, Call, CallSteps
<1>5. CASE Commit(c)
  BY <1>5, StepType DEF Commit, Call, CallSteps
<1>6. CASE AnotherPass(c)
  BY <1>6 DEF AnotherPass, Call, CallSteps, MaxPasses
<1>7. CASE CaptureFails(c) \/ CallerKilled(c)
  BY <1>7, LeaveType, CapturesAssumption DEF CaptureFails, CallerKilled, Leave
<1> QED
  BY <1>1, <1>2, <1>3, <1>4, <1>5, <1>6, <1>7 DEF CallerStep

LEMMA NextType == TypeOK /\ [Next]_vars => TypeOK'
<1> SUFFICES ASSUME TypeOK, [Next]_vars PROVE TypeOK'
  OBVIOUS
<1> USE DEF TypeOK, locks, files, history, budgets
<1>1. ASSUME NEW h \in Hooks, HookFires(h) PROVE TypeOK'
  <2>1. version + 1 \in Versions /\ h \in Callers
    BY <1>1, CapturesAssumption DEF HookFires, Versions, Callers
  <2>2. call' \in [Callers -> Call]
    BY <1>1, <2>1, StartType DEF HookFires
  <2> QED
    BY <1>1, <2>1, <2>2 DEF HookFires
<1>2. CASE ChangesUnhooked
  BY <1>2, CapturesAssumption DEF ChangesUnhooked, Versions
<1>3. ASSUME NEW t \in Timers, TimerFires(t) PROVE TypeOK'
  BY <1>3, StartType DEF TimerFires, Callers
<1>4. CASE WindowPasses
  BY <1>4 DEF WindowPasses
<1>5. CASE RestoreBegins
  <2>1. 0 \in Versions /\ restores' \in 0..MaxRestores
    BY <1>5, CapturesAssumption DEF RestoreBegins, Versions
  <2> QED
    BY <1>5, <2>1 DEF RestoreBegins, Restorer
<1>6. CASE RestoreStep
  BY <1>6, NotRestoringType
  DEF RestoreStep, PublishReads, PublishCommits, RestoreEnds, Restorer
<1>7. CASE UNCHANGED vars
  BY <1>7 DEF vars
<1> QED
  BY <1>1, <1>2, <1>3, <1>4, <1>5, <1>6, <1>7, CallerType DEF Next

\* Every variable keeps its type, whatever the bounds.
THEOREM CapturesTyped == Spec => []TypeOK
BY InitType, NextType, PTL DEF Spec

-----------------------------------------------------------------------------
(* The order of commits. *)

Inside == {"clearing", "reading", "writing", "stamping", "checking"}

\* From the clearing of the flag to the end of a pass: one capture at a time.
Holding == \A c \in Callers : call[c].pc \in Inside => capturing = c

Sharing == \A c \in Callers : call[c].pc \notin {"idle", "started"} => c \in sharers

Excluding == restoring.pc # "idle" => sharers = {}

\* What has been read and is about to be committed is not older than what has
\* been committed.
Ahead ==
    /\ newest <= version
    /\ \A c \in Callers : call[c].pc = "writing" =>
          newest <= call[c].saw /\ call[c].saw <= version
    /\ restoring.pc = "publishing" => newest <= restoring.saw /\ restoring.saw <= version

OrderInv == TypeOK /\ Holding /\ Sharing /\ Excluding /\ Ahead

LEMMA InitOrder == Init => OrderInv
<1> SUFFICES ASSUME Init PROVE OrderInv
  OBVIOUS
<1>1. \A c \in Callers : call[c].pc = "idle"
  BY DEF Init, Idle
<1>2. restoring.pc = "idle" /\ newest <= version
  BY DEF Init, NotRestoring
<1> QED
  BY <1>1, <1>2, InitType DEF OrderInv, Holding, Sharing, Excluding, Ahead, Inside

\* A step that moves c alone and reads and commits nothing.
LEMMA MoveOrder ==
    ASSUME OrderInv, TypeOK', NEW c \in Callers,
           \A d \in Callers \ {c} : call'[d] = call[d],
           UNCHANGED <<version, newest, restoring>>,
           call'[c].pc \in Inside => capturing' = c,
           call'[c].pc \notin {"idle", "started"} => c \in sharers',
           call'[c].pc # "writing",
           capturing' = capturing \/ capturing \in {c, Nobody},
           sharers \ {c} \subseteq sharers',
           sharers' \subseteq sharers \/ restoring.pc = "idle"
    PROVE  OrderInv'
<1>1. Holding'
  BY CapturesAssumption DEF OrderInv, Holding, Inside
<1>2. Sharing' /\ Excluding'
  BY DEF OrderInv, Sharing, Excluding
<1>3. Ahead'
  BY DEF OrderInv, Ahead
<1> QED
  BY <1>1, <1>2, <1>3 DEF OrderInv

LEMMA LeaveOrder ==
    ASSUME OrderInv, TypeOK', NEW c \in Callers, Leave(c), UNCHANGED <<version, newest>>
    PROVE  OrderInv'
<1>1. /\ call'[c].pc = "idle" /\ \A d \in Callers \ {c} : call'[d] = call[d]
      /\ sharers' = sharers \ {c} /\ restoring' = restoring
      /\ capturing' = capturing \/ capturing = c
  BY DEF OrderInv, TypeOK, Leave, Idle
<1> QED
  BY <1>1, MoveOrder DEF Inside

LEMMA CallerOrder ==
    ASSUME OrderInv, TypeOK', NEW c \in Callers,
           CallerStep(c) \/ CaptureFails(c) \/ CallerKilled(c)
    PROVE  OrderInv' /\ version' = version /\ newest <= newest' /\ newest' <= version
<1>0. /\ call \in [Callers -> Call] /\ newest \in Int /\ version \in Int
      /\ newest <= version
      /\ call[c].pc \in Inside => capturing = c
      /\ call[c].pc \notin {"idle", "started"} => c \in sharers
  BY DEF OrderInv, TypeOK, Versions, Holding, Sharing, Ahead
<1> USE DEF locks
<1>1. CASE \/ EnterShared(c) \/ ReadFlag(c) \/ ReadStamp(c) \/ MarkDirty(c)
           \/ TakeCaptureLock(c) \/ ClearDirty(c) \/ RecordCaptureTime(c)
  <2>1. PICK to : /\ call' = [call EXCEPT ![c].pc = to]
                  /\ \/ to \in {"entered", "asking", "flagging", "waiting"}
                     \/ to = "clearing" /\ capturing' = c /\ capturing = Nobody
                     \/ /\ to \in {"reading", "checking"}
                        /\ call[c].pc \in {"clearing", "stamping"}
                        /\ capturing' = capturing
    BY <1>1
    DEF EnterShared, ReadFlag, ReadStamp, MarkDirty, TakeCaptureLock, ClearDirty,
        RecordCaptureTime, Step
  <2>2. /\ UNCHANGED <<version, newest, restoring>>
        /\ \/ sharers' = sharers /\ call[c].pc \notin {"idle", "started"}
           \/ sharers' = sharers \union {c} /\ restoring.pc = "idle"
        /\ capturing' = capturing \/ capturing = Nobody
    BY <1>1
    DEF EnterShared, ReadFlag, ReadStamp, MarkDirty, TakeCaptureLock, ClearDirty,
        RecordCaptureTime, Step
  <2>3. call'[c].pc = to /\ \A d \in Callers \ {c} : call'[d] = call[d]
    BY <1>0, <2>1 DEF Call
  <2>4. OrderInv'
    BY <1>0, <2>1, <2>2, <2>3, MoveOrder DEF Inside
  <2> QED
    BY <1>0, <2>2, <2>4
<1>2. CASE \/ Debounce(c) \/ GiveUpWaiting(c) \/ Captured(c)
           \/ CaptureFails(c) \/ CallerKilled(c)
  <2>1. Leave(c) /\ UNCHANGED <<version, newest>>
    BY <1>2 DEF Debounce, GiveUpWaiting, Captured, CaptureFails, CallerKilled
  <2> QED
    BY <1>0, <2>1, LeaveOrder
<1>3. CASE RefusedByRestore(c)
  <2>1. /\ call'[c].pc = "idle" /\ \A d \in Callers \ {c} : call'[d] = call[d]
        /\ UNCHANGED <<version, newest, sharers, restoring, capturing>>
    BY <1>0, <1>3 DEF RefusedByRestore, Idle
  <2> QED
    BY <1>0, <2>1, MoveOrder DEF Inside
<1>4. CASE AnotherPass(c)
  <2>1. /\ call[c].pc = "checking" /\ call'[c].pc = "clearing"
        /\ \A d \in Callers \ {c} : call'[d] = call[d]
        /\ UNCHANGED <<version, newest, sharers, restoring, capturing>>
    BY <1>0, <1>4 DEF AnotherPass, Call
  <2> QED
    BY <1>0, <2>1, MoveOrder DEF Inside
<1>5. CASE Collect(c)
  <2>1. /\ call[c].pc = "reading" /\ call'[c].pc = "writing" /\ call'[c].saw = version
        /\ \A d \in Callers \ {c} : call'[d] = call[d]
        /\ UNCHANGED <<version, newest, sharers, restoring, capturing>>
    BY <1>0, <1>5 DEF Collect, Call
  <2>2. Holding' /\ Sharing' /\ Excluding' /\ Ahead'
    BY <1>0, <2>1 DEF OrderInv, Holding, Sharing, Excluding, Ahead, Inside
  <2> QED
    BY <1>0, <2>1, <2>2 DEF OrderInv
<1>6. CASE Commit(c)
  <2>1. /\ call[c].pc = "writing" /\ call'[c].pc = "stamping"
        /\ \A d \in Callers \ {c} : call'[d] = call[d]
        /\ UNCHANGED <<version, sharers, restoring, capturing>>
        /\ newest' = call[c].saw
    BY <1>0, <1>6 DEF Commit, Step, Call
  <2>2. newest <= newest' /\ newest' <= version
    BY <2>1 DEF OrderInv, Ahead
  <2>3. restoring.pc = "idle"
    BY <1>0, <2>1 DEF OrderInv, Excluding
  <2>4. \A d \in Callers \ {c} : call[d].pc # "writing"
    BY <1>0, <2>1 DEF OrderInv, Holding, Inside
  <2>5. Holding' /\ Sharing' /\ Excluding' /\ Ahead'
    BY <1>0, <2>1, <2>2, <2>3, <2>4
    DEF OrderInv, Holding, Sharing, Excluding, Ahead, Inside
  <2> QED
    BY <2>1, <2>2, <2>5 DEF OrderInv
<1> QED
  BY <1>1, <1>2, <1>3, <1>4, <1>5, <1>6 DEF CallerStep

LEMMA NextOrder ==
    OrderInv /\ [Next]_vars =>
        OrderInv' /\ [Promise!Next]_<<version, newest>>
<1> SUFFICES ASSUME OrderInv, [Next]_vars
             PROVE  OrderInv' /\ [Promise!Next]_<<version, newest>>
  OBVIOUS
<1>0. /\ TypeOK' /\ call \in [Callers -> Call] /\ newest \in Int /\ version \in Int
      /\ newest <= version /\ newest' \in Int
  BY NextType DEF OrderInv, TypeOK, Versions, Ahead
<1>1. ASSUME version' = version, newest <= newest', newest' <= version
      PROVE  [Promise!Next]_<<version, newest>>
  BY <1>0, <1>1 DEF Promise!Next, Promise!Record
<1>2. ASSUME call' = call \/ \E c \in Callers : Start(c, version'),
             version' \in {version, version + 1}, version' = version \/ version < MaxChanges,
             UNCHANGED <<newest, locks>>
      PROVE  OrderInv' /\ [Promise!Next]_<<version, newest>>
  <2>1. /\ \A d \in Callers : \/ call'[d] = call[d]
                              \/ call'[d].pc = "started"
        /\ UNCHANGED <<newest, sharers, restoring, capturing>>
    BY <1>0, <1>2, IdleType DEF Start, locks, Call
  <2>2. Holding' /\ Sharing' /\ Excluding'
    BY <2>1 DEF OrderInv, Holding, Sharing, Excluding, Inside
  <2>3. Ahead'
    <3>1. \A d \in Callers : call[d].saw \in Int
      BY <1>0 DEF Call, Versions
    <3>2. restoring.saw \in Int
      BY DEF OrderInv, TypeOK, Restorer, Versions
    <3> QED
      BY <1>0, <1>2, <2>1, <3>1, <3>2 DEF OrderInv, Ahead
  <2>4. [Promise!Next]_<<version, newest>>
    BY <1>2 DEF Promise!Next, Promise!TmuxChanges, locks
  <2> QED
    BY <1>0, <2>2, <2>3, <2>4 DEF OrderInv
<1>3. ASSUME NEW h \in Hooks, HookFires(h)
      PROVE  OrderInv' /\ [Promise!Next]_<<version, newest>>
  BY <1>0, <1>2, <1>3 DEF HookFires, Callers
<1>4. CASE ChangesUnhooked
  BY <1>0, <1>2, <1>4 DEF ChangesUnhooked
<1>5. ASSUME NEW t \in Timers, TimerFires(t)
      PROVE  OrderInv' /\ [Promise!Next]_<<version, newest>>
  BY <1>0, <1>2, <1>5 DEF TimerFires, Callers
<1>6. CASE WindowPasses \/ UNCHANGED vars
  BY <1>0, <1>2, <1>6 DEF WindowPasses, vars, locks
<1>7. ASSUME NEW c \in Callers, CallerStep(c) \/ CaptureFails(c) \/ CallerKilled(c)
      PROVE  OrderInv' /\ [Promise!Next]_<<version, newest>>
  BY <1>0, <1>1, <1>7, CallerOrder
<1>8. CASE RestoreBegins
  <2>1. /\ UNCHANGED <<version, newest, sharers, capturing, call>>
        /\ sharers = {} /\ restoring'.pc = "rebuilding"
    BY <1>8 DEF RestoreBegins
  <2>2. Holding' /\ Sharing' /\ Excluding' /\ Ahead'
    BY <2>1 DEF OrderInv, Holding, Sharing, Excluding, Ahead
  <2> QED
    BY <1>0, <1>1, <2>1, <2>2 DEF OrderInv
<1>9. CASE PublishReads
  <2>1. /\ UNCHANGED <<version, newest, sharers, capturing, call>>
        /\ restoring.pc = "rebuilding" /\ restoring' = [pc |-> "publishing", saw |-> version]
    BY <1>9 DEF PublishReads
  <2>2. Holding' /\ Sharing' /\ Excluding' /\ Ahead'
    BY <1>0, <2>1 DEF OrderInv, Holding, Sharing, Excluding, Ahead
  <2> QED
    BY <1>0, <1>1, <2>1, <2>2 DEF OrderInv
<1>10. CASE PublishCommits
  <2>1. /\ UNCHANGED <<version, sharers, capturing, call>>
        /\ restoring.pc = "publishing" /\ restoring'.pc = "idle"
        /\ newest' = restoring.saw
    BY <1>10 DEF PublishCommits, NotRestoring
  <2>2. newest <= newest' /\ newest' <= version
    BY <2>1 DEF OrderInv, Ahead
  <2>3. \A c \in Callers : call[c].pc # "writing"
    BY <2>1 DEF OrderInv, Excluding, Sharing
  <2>4. Holding' /\ Sharing' /\ Excluding' /\ Ahead'
    BY <2>1, <2>2, <2>3 DEF OrderInv, Holding, Sharing, Excluding, Ahead
  <2> QED
    BY <1>0, <1>1, <2>1, <2>2, <2>4 DEF OrderInv
<1>11. CASE RestoreEnds
  <2>1. UNCHANGED <<version, newest, sharers, capturing, call>> /\ restoring'.pc = "idle"
    BY <1>11 DEF RestoreEnds, NotRestoring
  <2>2. Holding' /\ Sharing' /\ Excluding' /\ Ahead'
    BY <2>1 DEF OrderInv, Holding, Sharing, Excluding, Ahead
  <2> QED
    BY <1>0, <1>1, <2>1, <2>2 DEF OrderInv
<1> QED
  BY <1>3, <1>4, <1>5, <1>6, <1>7, <1>8, <1>9, <1>10, <1>11 DEF Next, RestoreStep

\* Whatever processes capture and restore, and whichever of them fail or are
\* killed, the newest snapshot never goes back to an earlier state of tmux and
\* never holds one tmux was not in (the locks of snapshot_maybe_debounced and
\* of the restore).
THEOREM CommitsInOrder == Spec => CommittedInOrder
<1>1. Init => Promise!Init
  BY DEF Init, Promise!Init
<1> QED
  BY <1>1, InitOrder, NextOrder, PTL
  DEF Spec, CommittedInOrder, Promise!InOrder, Promise!recorderVars

-----------------------------------------------------------------------------
(* What is deferred. *)

\* No call is about a change that has not happened.
Known ==
    /\ \A c \in Callers : call[c].change <= version
    /\ \A v \in deferred : v <= version

\* While no capture has failed or been killed, a queued call's work is pending
\* already, so nothing is lost by giving up.
Queued ==
    failures = 0 /\ kills = 0 =>
        \A c \in Callers : call[c].pc = "waiting" => Pending(call[c].change)

DeferInv == OrderInv /\ Known /\ Queued /\ DeferredIsPending

\* The holder of the capture lock still answers for the change v.
Answers(c, v) ==
    /\ capturing = c
    /\ \/ call[c].pc \in {"clearing", "reading"}
       \/ call[c].pc = "writing" /\ call[c].saw >= v

\* A caller that moves on, if it answered for the change, has committed it or
\* still answers for it; so the change stays pending.
LEMMA MovePending ==
    ASSUME OrderInv, NEW v \in Versions, Pending(v), NEW c \in Callers,
           \A d \in Callers \ {c} : call'[d] = call[d],
           newest' \in Versions, newest <= newest',
           dirty => dirty' \/ Answers(c, v)',
           Answers(c, v) => Answers(c, v)' \/ newest' >= v,
           \A d \in Callers \ {c} : capturing = d => capturing' = d
    PROVE  Pending(v)'
<1>1. newest \in Int /\ newest' \in Int /\ v \in Int
  BY DEF OrderInv, TypeOK, Versions
<1>2. CASE newest >= v
  BY <1>1, <1>2 DEF Pending
<1>3. CASE dirty
  BY <1>3 DEF Pending, Answers
<1>4. ASSUME NEW d \in Callers, Answers(d, v) PROVE Pending(v)'
  <2>1. CASE d = c
    BY <1>4, <2>1 DEF Pending, Answers
  <2>2. CASE d # c
    BY <1>4, <2>2 DEF Pending, Answers
  <2> QED
    BY <2>1, <2>2
<1> QED
  BY <1>2, <1>3, <1>4 DEF Pending, Answers

LEMMA CallerPending ==
    ASSUME OrderInv, OrderInv', NEW v \in Versions, v <= version, Pending(v),
           NEW c \in Callers, CallerStep(c)
    PROVE  Pending(v)'
<1>0. /\ call \in [Callers -> Call] /\ newest' \in Versions /\ newest <= newest'
      /\ version \in Int /\ newest \in Int
  BY CallerOrder DEF OrderInv, TypeOK, Versions
<1> USE DEF locks, files
<1>1. CASE \/ EnterShared(c) \/ ReadFlag(c) \/ ReadStamp(c) \/ MarkDirty(c)
           \/ TakeCaptureLock(c) \/ RecordCaptureTime(c)
  <2>1. /\ \A d \in Callers \ {c} : call'[d] = call[d]
        /\ call[c].pc \notin {"clearing", "reading", "writing"}
        /\ dirty => dirty'
        /\ capturing' = capturing \/ capturing = Nobody
    BY <1>0, <1>1
    DEF EnterShared, ReadFlag, ReadStamp, MarkDirty, TakeCaptureLock, RecordCaptureTime, Step
  <2> QED
    BY <1>0, <2>1, MovePending, CapturesAssumption DEF Answers
<1>2. CASE Debounce(c) \/ GiveUpWaiting(c) \/ Captured(c)
  <2>1. /\ \A d \in Callers \ {c} : call'[d] = call[d]
        /\ call[c].pc \notin {"clearing", "reading", "writing"}
        /\ dirty' = dirty
        /\ capturing' = capturing \/ capturing = c
    BY <1>0, <1>2 DEF Debounce, GiveUpWaiting, Captured, Leave
  <2> QED
    BY <1>0, <2>1, MovePending DEF Answers
<1>3. CASE RefusedByRestore(c) \/ AnotherPass(c)
  <2>1. /\ \A d \in Callers \ {c} : call'[d] = call[d]
        /\ call[c].pc \notin {"clearing", "reading", "writing"}
        /\ dirty' = dirty /\ capturing' = capturing
    BY <1>0, <1>3 DEF RefusedByRestore, AnotherPass
  <2> QED
    BY <1>0, <2>1, MovePending DEF Answers
<1>4. CASE ClearDirty(c)
  <2>1. /\ \A d \in Callers \ {c} : call'[d] = call[d]
        /\ call[c].pc = "clearing" /\ call'[c].pc = "reading" /\ capturing' = capturing
    BY <1>0, <1>4 DEF ClearDirty, Step, Call
  <2>2. capturing = c
    BY <2>1 DEF OrderInv, Holding, Inside
  <2> QED
    BY <1>0, <2>1, <2>2, MovePending DEF Answers
<1>5. CASE Collect(c)
  <2>1. /\ \A d \in Callers \ {c} : call'[d] = call[d]
        /\ call'[c].pc = "writing" /\ call'[c].saw = version
        /\ capturing' = capturing /\ dirty' = dirty
    BY <1>0, <1>5 DEF Collect, Call
  <2>2. version >= v
    BY <1>0 DEF Versions
  <2> QED
    BY <1>0, <2>1, <2>2, MovePending DEF Answers
<1>6. CASE Commit(c)
  <2>1. /\ \A d \in Callers \ {c} : call'[d] = call[d]
        /\ call[c].pc = "writing" /\ newest' = call[c].saw
        /\ capturing' = capturing /\ dirty' = dirty
    BY <1>0, <1>6 DEF Commit, Step
  <2> QED
    BY <1>0, <2>1, MovePending DEF Answers
<1> QED
  BY <1>1, <1>2, <1>3, <1>4, <1>5, <1>6 DEF CallerStep

\* Calls that start, restores and time leave what is pending pending.
LEMMA OthersPending ==
    ASSUME OrderInv, OrderInv', NEW v \in Versions, Pending(v),
           newest <= newest', dirty' = dirty, capturing' = capturing,
           \A d \in Callers : call'[d] = call[d] \/ call[d].pc = "idle"
    PROVE  Pending(v)'
<1>1. newest \in Int /\ newest' \in Int /\ v \in Int
  BY DEF OrderInv, TypeOK, Versions
<1> QED
  BY <1>1 DEF Pending

LEMMA NextPending ==
    ASSUME OrderInv, [Next]_vars, failures' = 0, kills' = 0,
           NEW v \in Versions, v <= version, Pending(v)
    PROVE  Pending(v)'
<1>0. /\ OrderInv' /\ call \in [Callers -> Call] /\ newest \in Int
      /\ failures \in Nat /\ kills \in Nat
  BY NextOrder, CapturesAssumption DEF OrderInv, TypeOK, Versions
<1> USE DEF locks, files
<1>1. ASSUME NEW c \in Callers, CallerStep(c) PROVE Pending(v)'
  BY <1>0, <1>1, CallerPending
<1>2. ASSUME NEW c \in Callers, CaptureFails(c) \/ CallerKilled(c) PROVE FALSE
  BY <1>0, <1>2 DEF CaptureFails, CallerKilled
<1>3. ASSUME NEW c \in Callers, NEW change, Start(c, change), UNCHANGED <<newest, locks, files>>
      PROVE  Pending(v)'
  BY <1>0, <1>3, OthersPending DEF Start
<1>4. ASSUME NEW h \in Hooks, HookFires(h) PROVE Pending(v)'
  BY <1>3, <1>4 DEF HookFires, Callers
<1>5. ASSUME NEW t \in Timers, TimerFires(t) PROVE Pending(v)'
  BY <1>3, <1>5 DEF TimerFires, Callers
<1>6. CASE ChangesUnhooked \/ WindowPasses \/ UNCHANGED vars
  BY <1>0, <1>6, OthersPending DEF ChangesUnhooked, WindowPasses, vars
<1>7. CASE RestoreBegins \/ PublishReads \/ RestoreEnds
  BY <1>0, <1>7, OthersPending DEF RestoreBegins, PublishReads, RestoreEnds
<1>8. CASE PublishCommits
  <2>1. newest <= newest'
    BY <1>8 DEF PublishCommits, OrderInv, Ahead
  <2> QED
    BY <1>0, <1>8, <2>1, OthersPending DEF PublishCommits
<1> QED
  BY <1>1, <1>2, <1>4, <1>5, <1>6, <1>7, <1>8 DEF Next, RestoreStep

\* What a step makes of a caller and of the deferred changes.
LEMMA NextCalls ==
    ASSUME OrderInv, [Next]_vars
    PROVE  /\ version <= version'
           /\ \A c \in Callers : \/ call'[c].change = call[c].change
                                 \/ call'[c].change = 0
                                 \/ call'[c].change = version'
           /\ \A c \in Callers : call'[c].pc = "waiting" =>
                 /\ call'[c].change = call[c].change
                 /\ call[c].pc = "waiting" \/ dirty'
           /\ \A v \in deferred' : \/ v \in deferred
                                   \/ \E c \in Callers : call[c].pc = "waiting" /\ v = call[c].change
<1>0. call \in [Callers -> Call] /\ version \in Int
  BY DEF OrderInv, TypeOK, Versions
<1> USE DEF locks, files, history, budgets
<1>1. ASSUME NEW c \in Callers, NEW change \in {version, version'}, Start(c, change),
             version' \in {version, version + 1}, deferred' = deferred,
             change = version'
      PROVE  /\ version <= version'
             /\ \A d \in Callers : call'[d] = call[d] \/ (call'[d].pc = "started"
                                                          /\ call'[d].change = version')
  <2>1. call' = [call EXCEPT ![c] = [Idle EXCEPT !.pc = "started", !.change = change]]
    BY <1>1 DEF Start
  <2>2. /\ [Idle EXCEPT !.pc = "started", !.change = change].pc = "started"
        /\ [Idle EXCEPT !.pc = "started", !.change = change].change = change
    BY DEF Idle
  <2> QED
    BY <1>0, <1>1, <2>1, <2>2
<1>2. ASSUME NEW h \in Hooks, HookFires(h)
      PROVE  /\ version <= version' /\ deferred' = deferred
             /\ \A d \in Callers : call'[d] = call[d] \/ (call'[d].pc = "started"
                                                          /\ call'[d].change = version')
  BY <1>0, <1>1, <1>2 DEF HookFires, Callers
<1>3. ASSUME NEW t \in Timers, TimerFires(t)
      PROVE  /\ version <= version' /\ deferred' = deferred
             /\ \A d \in Callers : call'[d] = call[d] \/ (call'[d].pc = "started"
                                                          /\ call'[d].change = version')
  BY <1>0, <1>1, <1>3 DEF TimerFires, Callers
<1>4. CASE \/ ChangesUnhooked \/ WindowPasses \/ RestoreBegins \/ RestoreStep
           \/ UNCHANGED vars
  <2>1. version <= version' /\ call' = call /\ deferred' = deferred
    BY <1>0, <1>4
    DEF ChangesUnhooked, WindowPasses, RestoreBegins, RestoreStep, PublishReads,
        PublishCommits, RestoreEnds, vars
  <2> QED
    BY <2>1
<1>5. ASSUME NEW c \in Callers, CallerStep(c) \/ CaptureFails(c) \/ CallerKilled(c)
      PROVE  /\ version' = version
             /\ \A d \in Callers \ {c} : call'[d] = call[d]
             /\ call'[c].change = call[c].change \/ call'[c].change = 0
             /\ call'[c].pc = "waiting" => dirty' /\ call'[c].change = call[c].change
             /\ \A v \in deferred' : v \in deferred \/ (call[c].pc = "waiting" /\ v = call[c].change)
  <2>1. CASE \/ Debounce(c) \/ GiveUpWaiting(c) \/ Captured(c) \/ RefusedByRestore(c)
             \/ CaptureFails(c) \/ CallerKilled(c)
    <3>1. /\ call' = [call EXCEPT ![c] = Idle] /\ version' = version
          /\ \/ deferred' = deferred
             \/ call[c].pc = "waiting" /\ deferred' = deferred \union {call[c].change}
      BY <2>1 DEF Debounce, GiveUpWaiting, Captured, RefusedByRestore, CaptureFails,
         CallerKilled, Leave
    <3> QED
      BY <1>0, <3>1 DEF Idle
  <2>2. CASE MarkDirty(c)
    BY <1>0, <2>2 DEF MarkDirty, Step, Call
  <2>3. CASE \/ EnterShared(c) \/ ReadFlag(c) \/ ReadStamp(c) \/ TakeCaptureLock(c)
             \/ ClearDirty(c) \/ RecordCaptureTime(c) \/ Commit(c)
    <3>1. PICK to : /\ call' = [call EXCEPT ![c].pc = to] /\ to # "waiting"
                    /\ version' = version /\ deferred' = deferred
      BY <2>3 DEF EnterShared, ReadFlag, ReadStamp, TakeCaptureLock, ClearDirty,
         RecordCaptureTime, Commit, Step
    <3> QED
      BY <1>0, <3>1 DEF Call
  <2>4. CASE Collect(c) \/ AnotherPass(c)
    BY <1>0, <2>4 DEF Collect, AnotherPass, Call
  <2> QED
    BY <1>5, <2>1, <2>2, <2>3, <2>4 DEF CallerStep
<1> QED
  BY <1>0, <1>2, <1>3, <1>4, <1>5 DEF Next

LEMMA InitDefer == Init => DeferInv
<1> SUFFICES ASSUME Init PROVE DeferInv
  OBVIOUS
<1>1. /\ \A c \in Callers : call[c].pc = "idle" /\ call[c].change = 0
      /\ deferred = {} /\ version = 0
  BY DEF Init, Idle
<1> QED
  BY <1>1, InitOrder DEF DeferInv, Known, Queued, DeferredIsPending, NeverDropped

LEMMA NextDefer == DeferInv /\ [Next]_vars => DeferInv'
<1> SUFFICES ASSUME DeferInv, [Next]_vars PROVE DeferInv'
  OBVIOUS
<1>0. /\ OrderInv /\ OrderInv' /\ TypeOK /\ TypeOK'
      /\ call \in [Callers -> Call] /\ version \in Nat /\ version' \in Nat
      /\ \A c \in Callers : call[c].change \in Versions
      /\ deferred \subseteq Versions
  BY NextOrder, CapturesAssumption DEF DeferInv, OrderInv, TypeOK, Versions, Call
<1>1. Known'
  <2>1. \A c \in Callers : call[c].change \in Nat /\ call[c].change <= version
    BY <1>0 DEF DeferInv, Known, Versions
  <2>2. \A v \in deferred : v \in Nat /\ v <= version
    BY <1>0 DEF DeferInv, Known, Versions
  <2>3. \A c \in Callers : call'[c].change <= version'
    BY <1>0, <2>1, NextCalls
  <2>4. \A v \in deferred' : v <= version'
    BY <1>0, <2>1, <2>2, NextCalls
  <2> QED
    BY <2>3, <2>4 DEF Known
<1>2. ASSUME failures' = 0, kills' = 0 PROVE failures = 0 /\ kills = 0
  <2>1. failures \in Nat /\ kills \in Nat
    BY <1>0, CapturesAssumption DEF TypeOK
  <2>2. ASSUME NEW c \in Callers, CallerStep(c) PROVE UNCHANGED <<failures, kills>>
    BY <2>2
    DEF CallerStep, EnterShared, RefusedByRestore, ReadFlag, ReadStamp, Debounce, MarkDirty,
        TakeCaptureLock, GiveUpWaiting, ClearDirty, Collect, Commit, RecordCaptureTime,
        AnotherPass, Captured, budgets
  <2>3. ASSUME NEW c \in Callers, CaptureFails(c) \/ CallerKilled(c)
        PROVE  failures' = failures + 1 \/ kills' = kills + 1
    BY <2>3 DEF CaptureFails, CallerKilled
  <2>4. \/ UNCHANGED <<failures, kills>>
        \/ \E c \in Callers : CallerStep(c) \/ CaptureFails(c) \/ CallerKilled(c)
    BY DEF Next, vars, HookFires, ChangesUnhooked, TimerFires, WindowPasses, RestoreBegins,
       RestoreStep, PublishReads, PublishCommits, RestoreEnds, budgets
  <2> QED
    BY <1>2, <2>1, <2>2, <2>3, <2>4
<1>3. ASSUME failures' = 0, kills' = 0, NEW c \in Callers, call[c].pc = "waiting",
             NEW v, v = call[c].change
      PROVE  Pending(v)'
  <2>1. v \in Versions /\ v <= version /\ Pending(v)
    BY <1>0, <1>2, <1>3 DEF DeferInv, Known, Queued
  <2> QED
    BY <1>0, <1>3, <2>1, NextPending
<1>4. Queued'
  <2> SUFFICES ASSUME failures' = 0, kills' = 0, NEW c \in Callers, call'[c].pc = "waiting"
               PROVE  Pending(call[c].change)'
    BY DEF Queued
  <2> QED
    <3>1. PICK v : v = call[c].change
      OBVIOUS
    <3>2. v = call'[c].change /\ (call[c].pc = "waiting" \/ dirty')
      BY <3>1, NextCalls, <1>0
    <3>3. CASE dirty'
      BY <3>3 DEF Pending
    <3>4. CASE call[c].pc = "waiting"
      BY <1>3, <3>1, <3>2, <3>4 DEF Pending
    <3> QED
      BY <3>2, <3>3, <3>4
<1>5. DeferredIsPending'
  <2> SUFFICES ASSUME failures' = 0, kills' = 0, NEW v \in deferred' PROVE Pending(v)'
    BY DEF DeferredIsPending, NeverDropped
  <2>1. CASE v \in deferred
    <3>1. v \in Versions /\ v <= version /\ Pending(v)
      BY <1>0, <1>2, <2>1 DEF DeferInv, Known, DeferredIsPending, NeverDropped
    <3> QED
      BY <1>0, <3>1, NextPending
  <2>2. ASSUME NEW c \in Callers, call[c].pc = "waiting", v = call[c].change PROVE Pending(v)'
    BY <1>3, <2>2
  <2> QED
    BY <1>0, <2>1, <2>2, NextCalls
<1> QED
  BY <1>0, <1>1, <1>4, <1>5 DEF DeferInv

\* As long as no capture has failed or been killed, the work of every call that
\* gave up waiting for the capture lock is flagged, being captured or captured:
\* it was flagged before the call queued, and only a pass that reads tmux after
\* clearing the flag takes it away (snapshot_maybe_debounced).
THEOREM DeferredWorkIsPending == Spec => []DeferredIsPending
<1>1. DeferInv => DeferredIsPending
  BY DEF DeferInv
<1> QED
  BY <1>1, InitDefer, NextDefer, PTL DEF Spec
=============================================================================
