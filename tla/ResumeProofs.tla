---------------------------- MODULE ResumeProofs ----------------------------
(***************************************************************************)
(* For any callers, panes, conversations, kinds of agent and servers: a    *)
(* resume types only where it verified, reports only what runs, and leaves *)
(* one client of osm's on a conversation.  (That locks come free rests on  *)
(* fairness and is left to TLC.)                                           *)
(***************************************************************************)
EXTENDS Resume, FiniteSetTheorems, TLAPS

-----------------------------------------------------------------------------
(* The inductive invariant, in named parts.                                *)

PanesKept ==
    /\ server = 0 => witness = {} /\ \A p \in Panes : pane[p].runs = "gone"
    /\ \A p \in Panes : pane[p].runs \in {"launching", "agent"} => pane[p].conv \in Conversations
    /\ \A p \in Panes : pane[p].runs = "launching" => ~pane[p].open

\* A caller that has come past TakeLock has the lock of its conversation.
Locked == Steps \ {"idle", "listing", "locking"}

CallsKept ==
    \A c \in Callers :
       /\ call[c].pc = "idle" => call[c].conv = Nothing
       /\ call[c].pc # "idle" => call[c].conv \in Conversations /\ call[c].pane \in Panes
       /\ call[c].pc \in Locked => lock[call[c].conv] = c

\* A witness that a caller finds when it pastes is on the server it verified.
Witnessed ==
    \A c \in Callers : call[c].pc = "pasting" /\ c \in witness => call[c].on = server

\* The steps between CheckOwner, which saw nobody, and the paste.
Checked == {"verifying", "buffering", "witnessing", "rereading", "pasting"}

\* A caller still waits for what it typed into the pane.
Attended(p) ==
    \E c \in Callers : /\ call[c].pc \in Waiting
                       /\ call[c].conv = pane[p].conv
                       /\ call[c].pane = p
                       /\ call[c].on = server

\* A client of osm's shows itself by its open transcript, or else somebody waits
\* for it under the conversation's lock.
AloneWith(v) ==
    /\ \A p \in Clients(v) : pane[p].open \/ Attended(p)
    /\ \A c \in Callers : call[c].conv = v /\ call[c].pc \in Checked => Clients(v) = {}
    /\ \A c \in Callers :
          call[c].conv = v /\ call[c].pc \in Waiting => Clients(v) \subseteq {call[c].pane}
    /\ \A p, q \in Clients(v) : p = q

Alone == ~lapsed => \A v \in Conversations : KindOf[v] \in KeepsOpen => AloneWith(v)

IInv == PanesKept /\ Witnessed /\ Alone /\ TypedWhereVerified /\ ReportedIsRunning

-----------------------------------------------------------------------------
(* What the process table shows. *)

\* The one program of a pane that runs an agent.
LEMMA AgentProcess ==
    ASSUME NEW p \in Panes, pane[p].runs = "agent", NEW q \in ProcessesOf(p)
    PROVE  /\ q.opens = IF pane[p].open THEN {pane[p].conv} ELSE {}
           /\ q.argv = IF KindOf[pane[p].conv] \in NamesItself THEN {pane[p].conv} ELSE {}
           /\ q.hidden = FALSE
BY DEF ProcessesOf, Program

\* A process has ancestors in its own pane only.
LEMMA OwnPane ==
    ASSUME NEW p \in Panes, NEW r \in Panes, NEW q \in ProcessesOf(r), NEW n, <<p, n>> \in q.above
    PROVE  r = p
<1>1. \E name : q.above = {<<r, "shell">>, <<r, name>>}
  BY DEF ProcessesOf, Program
<1> QED
  BY <1>1

LEMMA Below ==
    ASSUME NEW p \in Panes, NEW n
    PROVE  Descendants(Table, <<p, n>>) \subseteq ProcessesOf(p)
BY OwnPane DEF Descendants, Table

\* What a pane is bound to is what its agent runs; it was read off the open
\* transcript, or off a command line that names it.
LEMMA BoundRuns ==
    ASSUME NEW p \in Panes, NEW k \in Kinds, NEW v, BoundNow(p, k) = {v}
    PROVE  /\ pane[p].runs = "agent" /\ pane[p].conv = v
           /\ pane[p].open \/ KindOf[v] \in NamesItself
<1> DEFINE pid == <<p, "shell">>
           known == [j \in {k} |-> OfKind(j)]
<1>1. Command(p) = k /\ v \in Owned(Table, pid, k, known[k])
  <2>1. PICK j \in Candidates(Table, pid, Command(p), {k}, known) :
                v \in Owned(Table, pid, j, known[j])
    BY DEF BoundNow, Bind
  <2> QED
    BY <2>1 DEF Candidates
<1>2. pane[p].runs = "agent"
  BY <1>1, ResumeAssumption DEF Command
<1>3. /\ Agents(Table, pid, k) \subseteq ProcessesOf(p)
      /\ Lineage(Table, pid, k) \subseteq ProcessesOf(p)
  <2>1. Agents(Table, pid, k) \subseteq ProcessesOf(p)
    BY Below DEF Agents
  <2>2. ASSUME NEW a \in ProcessesOf(p) PROVE \E n : a.pid = <<p, n>>
    BY DEF ProcessesOf, Program
  <2>3. ASSUME NEW a \in Agents(Table, pid, k)
        PROVE  Descendants(Table, a.pid) \subseteq ProcessesOf(p)
    BY <2>1, <2>2, Below
  <2> QED
    BY <2>1, <2>3 DEF Lineage
<1>4. \E q \in ProcessesOf(p) : v \in q.opens \/ v \in q.argv
  BY <1>1, <1>3 DEF Owned, Held, Named
<1> QED
  BY <1>2, <1>4, AgentProcess

\* A conversation that nobody holds is open in no pane.
LEMMA InactiveIsClosed ==
    ASSUME NEW k, NEW v, Liveness(Table, k, v) = "inactive", NEW p \in Panes,
           pane[p].runs = "agent", pane[p].conv = v
    PROVE  ~pane[p].open
<1>1. v \notin Held(Table)
  BY DEF Liveness
<1>2. PICK q : q \in ProcessesOf(p)
  BY DEF ProcessesOf
<1>3. q \in Table
  BY <1>2 DEF Table
<1> QED
  BY <1>1, <1>2, <1>3, AgentProcess DEF Held

-----------------------------------------------------------------------------
(* Calls and locks.                                                        *)

\* What a step must keep of calls and locks, types included.
CallsOK ==
    /\ lock \in [Conversations -> Callers \union {Nothing}]
    /\ call \in [Callers -> Call]
    /\ \A v \in Conversations, c \in Callers :
          lock[v] = c => call[c].conv = v /\ call[c].pc \notin {"listing", "locking"}
    /\ CallsKept

USE DEF CallsOK, CallsKept, Call, Steps, Locked

LEMMA ReturnKeeps ==
    ASSUME CallsOK, NEW c \in Callers, Return(c)
    PROVE  CallsOK'
<1> USE DEF Return, NoCall
<1>1. Nothing \notin Callers
  BY ResumeAssumption
<1>2. call' \in [Callers -> Call]
  BY ResumeAssumption
<1>3. lock' \in [Conversations -> Callers \union {Nothing}]
  OBVIOUS
<1>4. \A v \in Conversations, d \in Callers : lock'[v] = d => d # c /\ lock[v] = d
  BY <1>1
<1>5. \A d \in Callers : d # c => call'[d] = call[d]
  OBVIOUS
<1>6. ASSUME NEW d \in Callers, d # c, call[d].pc \in Locked
      PROVE  lock'[call[d].conv] = d
  BY <1>6
<1>7. call'[c].pc = "idle"
  OBVIOUS
<1> QED
  BY <1>2, <1>3, <1>4, <1>5, <1>6, <1>7

LEMMA GotoKeeps ==
    ASSUME CallsOK, NEW c \in Callers, call[c].pc \in Locked, NEW pc \in Locked, Goto(c, pc),
           UNCHANGED lock
    PROVE  CallsOK'
<1> USE DEF Goto
<1>1. call' \in [Callers -> Call]
  OBVIOUS
<1>2. call'[c].pc = pc /\ call'[c].conv = call[c].conv /\ call'[c].pane = call[c].pane
  OBVIOUS
<1>3. \A d \in Callers : d # c => call'[d] = call[d]
  OBVIOUS
<1> QED
  BY <1>1, <1>2, <1>3

LEMMA BeginKeeps ==
    ASSUME TypeOK, CallsOK, NEW c \in Callers, NEW v \in Asked, NEW p \in Panes, Begin(c, v, p)
    PROVE  CallsOK'
<1>1. v \in Conversations /\ Nothing \notin Conversations
  BY ResumeAssumption
<1>2. call' = [call EXCEPT ![c] = [pc |-> "listing", conv |-> v, pane |-> p, on |-> server]]
  BY DEF Begin
<1>3. call' \in [Callers -> Call]
  BY <1>1, <1>2 DEF TypeOK
<1>4. \A d \in Callers : d # c => call'[d] = call[d]
  BY <1>2
<1>5. \A w \in Conversations : lock[w] # c
  BY <1>1 DEF Begin
<1>6. call'[c].pc = "listing" /\ call'[c].conv = v /\ call'[c].pane = p
  BY <1>2
<1> QED
  BY <1>1, <1>3, <1>4, <1>5, <1>6 DEF Begin

LEMMA ListPanesKeeps ==
    ASSUME CallsOK, NEW c \in Callers, ListPanes(c)
    PROVE  CallsOK'
<1>1. CASE Refuse(c)
  BY <1>1, ReturnKeeps DEF Refuse
<1>2. CASE Proceed(c, "locking")
  <2>1. call' = [call EXCEPT ![c].pc = "locking"] /\ UNCHANGED lock
    BY <1>2 DEF Proceed, Goto
  <2>2. call' \in [Callers -> Call]
    BY <2>1
  <2>3. \A v \in Conversations : lock[v] # c
    BY DEF ListPanes
  <2>4. call'[c].pc = "locking" /\ call'[c].conv = call[c].conv /\ call'[c].pane = call[c].pane
    BY <2>1
  <2>5. \A d \in Callers : d # c => call'[d] = call[d]
    BY <2>1
  <2> QED
    BY <2>1, <2>2, <2>3, <2>4, <2>5 DEF ListPanes
<1> QED
  BY <1>1, <1>2 DEF ListPanes

LEMMA TakeLockKeeps ==
    ASSUME CallsOK, NEW c \in Callers, TakeLock(c)
    PROVE  CallsOK'
<1>1. CASE Refuse(c)
  BY <1>1, ReturnKeeps DEF Refuse
<1>2. CASE ~Refuse(c)
  <2>1. /\ lock[call[c].conv] = Nothing
        /\ lock' = [lock EXCEPT ![call[c].conv] = c]
        /\ call' = [call EXCEPT ![c].pc = "checking"]
    BY <1>2 DEF TakeLock, Goto
  <2>2. call[c].conv \in Conversations /\ call[c].pc = "locking"
    BY DEF TakeLock
  <2>3. call' \in [Callers -> Call]
    BY <2>1
  <2>4. lock' \in [Conversations -> Callers \union {Nothing}]
    BY <2>1
  <2>5. call'[c].pc = "checking" /\ call'[c].conv = call[c].conv /\ call'[c].pane = call[c].pane
    BY <2>1
  <2>6. \A d \in Callers : d # c => call'[d] = call[d]
    BY <2>1
  <2>7. \A v \in Conversations : lock'[v] = IF v = call[c].conv THEN c ELSE lock[v]
    BY <2>1
  <2>8. \A d \in Callers : d # c /\ call[d].pc \in Locked => call[d].conv # call[c].conv
    BY <2>1, ResumeAssumption
  <2> QED
    BY <2>2, <2>3, <2>4, <2>5, <2>6, <2>7, <2>8
<1> QED
  BY <1>1, <1>2

LEMMA CallerKeeps ==
    ASSUME CallsOK, NEW c \in Callers, CallerStep(c) \/ Killed(c)
    PROVE  CallsOK'
<1> HIDE DEF CallsOK, CallsKept
<1>1. ASSUME call[c].pc \in Locked, NEW to \in Locked, Goto(c, to), UNCHANGED lock
      PROVE  CallsOK'
  BY <1>1, GotoKeeps
<1>2. CASE Return(c)
  BY <1>2, ReturnKeeps
<1> USE DEF Proceed, Refuse, Succeed, NothingPasted, Ends, Waiting
<1>3. CASE ListPanes(c) \/ TakeLock(c)
  BY <1>3, ListPanesKeeps, TakeLockKeeps
<1>4. CASE CheckIdle(c)
  BY <1>1, <1>2, <1>4 DEF CheckIdle
<1>5. CASE CheckMode(c)
  BY <1>1, <1>2, <1>5 DEF CheckMode
<1>6. CASE CheckOwner(c)
  BY <1>1, <1>2, <1>6 DEF CheckOwner
<1>7. CASE VerifyServer(c)
  BY <1>1, <1>2, <1>7 DEF VerifyServer
<1>8. CASE SetBuffer(c)
  BY <1>1, <1>2, <1>8 DEF SetBuffer
<1>9. CASE PlaceWitness(c)
  BY <1>1, <1>2, <1>9 DEF PlaceWitness
<1>10. CASE RereadIdentity(c)
  BY <1>1, <1>2, <1>10 DEF RereadIdentity
<1>11. CASE GuardedPaste(c)
  BY <1>1, <1>2, <1>11 DEF GuardedPaste, Paste
<1>12. CASE AgentSeen(c)
  BY <1>1, <1>12 DEF AgentSeen
<1>13. CASE HoldFirst(c)
  BY <1>1, <1>13 DEF HoldFirst
<1>14. CASE HoldAgain(c)
  BY <1>1, <1>2, <1>14 DEF HoldAgain
<1>15. CASE ReadingFails(c) \/ TimesOut(c) \/ Killed(c)
  BY <1>2, <1>15 DEF ReadingFails, TimesOut, Killed
<1> QED
  BY <1>3, <1>4, <1>5, <1>6, <1>7, <1>8, <1>9, <1>10, <1>11, <1>12, <1>13, <1>14, <1>15
  DEF CallerStep

LEMMA NextCalls == ASSUME TypeOK, CallsOK, [Next]_vars PROVE CallsOK'
<1>1. CASE UNCHANGED osm
  BY <1>1 DEF osm
<1>2. ASSUME NEW p \in Panes, PaneStep(p) PROVE UNCHANGED osm
  BY <1>2 DEF PaneStep, UserRuns, UserResumes, Returns, Closes, AgentStarts, AgentOpens, Becomes
<1> QED
  BY <1>1, <1>2, BeginKeeps, CallerKeeps DEF Next, vars, osm, ServerDies, ServerStarts

-----------------------------------------------------------------------------
(* Types of the rest.                                                      *)

LEMMA AtType == \A doing \in Doings : At(doing) \in Pane
BY DEF At, Pane

LEMMA PaneType ==
    ASSUME TypeOK, NEW p \in Panes, PaneStep(p)
    PROVE  pane' \in [Panes -> Pane] /\ UNCHANGED <<server, born, witness, buffer, osm, history>>
<1>1. ASSUME NEW what \in Pane, Becomes(p, what)
      PROVE  pane' \in [Panes -> Pane] /\ UNCHANGED <<server, born, witness, buffer, osm, history>>
  BY <1>1 DEF Becomes, TypeOK
<1>2. ASSUME NEW v \in Conversations, UserRuns(p, v)
      PROVE  \E what \in Pane : Becomes(p, what)
  <2>1. [At("busy") EXCEPT !.conv = v] \in Pane
    BY DEF At, Pane, Doings
  <2> QED
    BY <1>2, <2>1 DEF UserRuns
<1>3. ASSUME NEW v \in Conversations, UserResumes(p, v)
      PROVE  \E what \in Pane : Becomes(p, what)
  <2>1. [runs |-> "agent", conv |-> v, open |-> KindOf[v] \in KeepsOpen, own |-> TRUE] \in Pane
    BY SMT DEF Pane, Doings
  <2> QED
    BY <1>3, <2>1 DEF UserResumes
<1>4. CASE Returns(p) \/ Closes(p)
  BY <1>1, <1>4, AtType DEF Returns, Closes, Doings
<1>5. ASSUME AgentStarts(p) \/ AgentOpens(p)
      PROVE  \E what \in Pane : Becomes(p, what)
  <2>1. pane[p] \in Pane
    BY DEF TypeOK
  <2>2. [pane[p] EXCEPT !.runs = "agent"] \in Pane /\ [pane[p] EXCEPT !.open = TRUE] \in Pane
    BY <2>1 DEF Pane, Doings
  <2> QED
    BY <1>5, <2>2 DEF AgentStarts, AgentOpens
<1> QED
  BY <1>1, <1>2, <1>3, <1>4, <1>5 DEF PaneStep

\* What a caller does to the panes is to type.
LEMMA TypedType ==
    ASSUME TypeOK, NEW p \in Panes, NEW v \in Conversations
    PROVE  [pane EXCEPT ![p] = Typed(v, p)] \in [Panes -> Pane]
BY DEF TypeOK, Pane, Doings, Typed

LEMMA CallerType ==
    ASSUME TypeOK, CallsOK, NEW c \in Callers, CallerStep(c) \/ Killed(c)
    PROVE  /\ UNCHANGED <<server, born>> /\ pane' \in [Panes -> Pane]
           /\ witness' \subseteq Callers /\ buffer' \subseteq Callers
           /\ lapsed' \in BOOLEAN /\ astray' \in BOOLEAN /\ misled' \in BOOLEAN
<1> HIDE DEF CallsOK, CallsKept
<1> USE DEF TypeOK, tmux, history
<1>1. CASE UNCHANGED <<tmux, history>>
  BY <1>1
<1>2. CASE Ends(c) \/ Succeed(c)
  BY <1>2 DEF Ends, Succeed
<1>3. CASE NothingPasted(c)
  BY <1>3 DEF NothingPasted, Tidy
<1>4. CASE SetBuffer(c) \/ PlaceWitness(c)
  BY <1>1, <1>4 DEF SetBuffer, PlaceWitness, Refuse
<1>5. CASE GuardedPaste(c)
  <2>1. ASSUME Paste(c)
        PROVE  /\ pane' \in [Panes -> Pane]
               /\ witness' \subseteq Callers /\ buffer' \subseteq Callers
               /\ UNCHANGED <<server, born, lapsed, misled>> /\ astray' \in BOOLEAN
    <3>1. call[c].conv \in Conversations /\ call[c].pane \in Panes
      BY <1>5 DEF GuardedPaste, CallsOK, CallsKept
    <3> QED
      BY <2>1, <3>1, TypedType DEF Paste, Tidy
  <2> QED
    BY <1>1, <1>3, <1>5, <2>1 DEF GuardedPaste, Refuse, Tidy
<1> QED
  BY <1>1, <1>2, <1>3, <1>4, <1>5
  DEF CallerStep, ListPanes, TakeLock, CheckIdle, CheckMode, CheckOwner, VerifyServer,
      RereadIdentity, AgentSeen, HoldFirst, HoldAgain, ReadingFails, TimesOut, Killed,
      Proceed, Refuse

LEMMA NextType == ASSUME TypeOK, CallsOK, [Next]_vars PROVE TypeOK'
<1>1. CallsOK'
  BY NextCalls
<1> HIDE DEF CallsOK, CallsKept
<1>2. CASE UNCHANGED vars
  BY <1>2 DEF vars, TypeOK
<1>3. CASE ServerDies \/ ServerStarts
  <2>1. MaxServers \in Nat /\ 0 \in 0..MaxServers
    BY ResumeAssumption
  <2>2. pane' \in [Panes -> Pane] /\ server' \in 0..MaxServers /\ born' \in 0..MaxServers
    BY <1>3, <2>1, AtType DEF ServerDies, ServerStarts, TypeOK, Doings
  <2> QED
    BY <1>1, <1>3, <2>2 DEF ServerDies, ServerStarts, TypeOK, CallsOK, history
<1>4. ASSUME NEW p \in Panes, PaneStep(p) PROVE TypeOK'
  BY <1>1, <1>4, PaneType DEF TypeOK, CallsOK, history
<1>5. ASSUME NEW c \in Callers, NEW v \in Asked, NEW p \in Panes, Begin(c, v, p) PROVE TypeOK'
  BY <1>1, <1>5 DEF Begin, TypeOK, CallsOK, tmux, history
<1>6. ASSUME NEW c \in Callers, CallerStep(c) \/ Killed(c) PROVE TypeOK'
  BY <1>1, <1>6, CallerType DEF TypeOK, CallsOK
<1> QED
  BY <1>2, <1>3, <1>4, <1>5, <1>6 DEF Next

LEMMA InitCalls == Init => TypeOK /\ CallsOK
<1> SUFFICES ASSUME Init PROVE TypeOK /\ CallsOK
  OBVIOUS
<1>1. Nothing \notin Callers /\ {0, 1} \subseteq 0..MaxServers
  BY ResumeAssumption
<1>2. CallsOK
  <2>1. NoCall \in Call
    BY <1>1 DEF NoCall
  <2> QED
    BY <1>1, <2>1 DEF Init, NoCall
<1>3. pane \in [Panes -> Pane]
  BY AtType DEF Init, Doings
<1> QED
  BY <1>1, <1>2, <1>3 DEF Init, TypeOK

\* Every variable keeps its type, and whoever the lock file of a conversation
\* names has come past taking it (resume.rs).
THEOREM ResumeTypes == Spec => []TypeOK
<1>1. Init => TypeOK /\ CallsOK
  BY InitCalls
<1>2. TypeOK /\ CallsOK /\ [Next]_vars => (TypeOK /\ CallsOK)'
  BY NextType, NextCalls
<1> QED
  BY <1>1, <1>2, PTL DEF Spec

-----------------------------------------------------------------------------
(* Panes and witnesses.                                                    *)

LEMMA NextPanes == ASSUME TypeOK, CallsOK, PanesKept, [Next]_vars PROVE PanesKept'
<1> HIDE DEF CallsOK, CallsKept
<1> USE DEF PanesKept
<1>1. CASE UNCHANGED tmux
  BY <1>1 DEF tmux
<1>2. CASE ServerDies \/ ServerStarts
  BY <1>2, ResumeAssumption DEF ServerDies, ServerStarts, At, TypeOK
<1>3. ASSUME NEW p \in Panes, PaneStep(p) PROVE PanesKept'
  <2> USE DEF Becomes, At, TypeOK
  <2>1. ASSUME NEW v \in Conversations, UserRuns(p, v) \/ UserResumes(p, v) PROVE PanesKept'
    BY <2>1 DEF UserRuns, UserResumes
  <2>2. CASE Returns(p) \/ Closes(p)
    BY <2>2 DEF Returns, Closes
  <2>3. CASE AgentStarts(p) \/ AgentOpens(p)
    BY <2>3 DEF AgentStarts, AgentOpens, Pane
  <2> QED
    BY <1>3, <2>1, <2>2, <2>3 DEF PaneStep
<1>4. ASSUME NEW c \in Callers, CallerStep(c) \/ Killed(c) PROVE PanesKept'
  <2>1. UNCHANGED server
    BY <1>4, CallerType
  <2>2. CASE GuardedPaste(c)
    <3>1. CASE Paste(c)
      BY <2>1, <2>2, <3>1 DEF GuardedPaste, Paste, Typed, Tidy, TypeOK, CallsOK, CallsKept
    <3> QED
      BY <2>1, <2>2, <3>1 DEF GuardedPaste, Refuse, tmux, NothingPasted, Tidy
  <2>3. CASE RereadIdentity(c) \/ SetBuffer(c) \/ PlaceWitness(c)
    BY <2>1, <2>3
    DEF RereadIdentity, SetBuffer, PlaceWitness, Refuse, Proceed, tmux, NothingPasted, Tidy
  <2>4. CASE UNCHANGED tmux
    BY <2>4, <1>1
  <2> QED
    BY <1>4, <2>2, <2>3, <2>4
    DEF CallerStep, ListPanes, TakeLock, CheckIdle, CheckMode, CheckOwner, VerifyServer,
        AgentSeen, HoldFirst, HoldAgain, ReadingFails, TimesOut, Killed, Proceed, Refuse, Ends,
        Succeed
<1> QED
  BY <1>1, <1>2, <1>3, <1>4 DEF Next, vars, tmux, Begin

\* Where a step takes its caller, as far as the invariant tells steps apart.
LEMMA Moves ==
    ASSUME NEW c \in Callers, CallerStep(c) \/ Killed(c)
    PROVE  \/ Return(c)
           \/ /\ call[c].pc \in {"listing", "locking", "checking", "mode"}
              /\ \E to \in {"locking", "checking", "mode", "owner"} : Goto(c, to)
           \/ CheckOwner(c) /\ Goto(c, "verifying")
           \/ /\ call[c].pc \in Checked
              /\ \E to \in {"buffering", "witnessing", "rereading", "polling"} : Goto(c, to)
           \/ call[c].pc \in Checked /\ server = call[c].on /\ Goto(c, "pasting")
           \/ call[c].pc \in Waiting /\ \E to \in Waiting : Goto(c, to)
<1> USE DEF Checked, Waiting, Proceed, Refuse, Succeed, NothingPasted, Ends
<1>1. CASE ListPanes(c) \/ TakeLock(c) \/ CheckIdle(c) \/ CheckMode(c)
  BY <1>1 DEF ListPanes, TakeLock, CheckIdle, CheckMode
<1>2. CASE CheckOwner(c)
  BY <1>2 DEF CheckOwner
<1>3. CASE VerifyServer(c) \/ SetBuffer(c) \/ PlaceWitness(c) \/ RereadIdentity(c)
  BY <1>3 DEF VerifyServer, SetBuffer, PlaceWitness, RereadIdentity
<1>4. CASE GuardedPaste(c)
  BY <1>4 DEF GuardedPaste, Paste
<1>5. CASE AgentSeen(c) \/ HoldFirst(c) \/ HoldAgain(c)
  BY <1>5 DEF AgentSeen, HoldFirst, HoldAgain
<1>6. CASE ReadingFails(c) \/ TimesOut(c) \/ Killed(c)
  BY <1>6 DEF ReadingFails, TimesOut, Killed
<1> QED
  BY <1>1, <1>2, <1>3, <1>4, <1>5, <1>6 DEF CallerStep

LEMMA GotoShape ==
    ASSUME CallsOK, NEW c \in Callers, NEW to, Goto(c, to)
    PROVE  /\ \A d \in Callers \ {c} : call'[d] = call[d]
           /\ call'[c].pc = to /\ call'[c].conv = call[c].conv
           /\ call'[c].pane = call[c].pane /\ call'[c].on = call[c].on
BY DEF Goto

LEMMA ReturnShape ==
    ASSUME CallsOK, NEW c \in Callers, Return(c)
    PROVE  call'[c] = NoCall /\ \A d \in Callers \ {c} : call'[d] = call[d]
BY DEF Return

LEMMA OnlyOwnWitness ==
    ASSUME NEW c \in Callers, CallerStep(c) \/ Killed(c)
    PROVE  witness' \subseteq witness \union {c}
BY DEF CallerStep, ListPanes, TakeLock, CheckIdle, CheckMode, CheckOwner, VerifyServer, SetBuffer,
       PlaceWitness, RereadIdentity, GuardedPaste, Paste, NothingPasted, Tidy, AgentSeen,
       HoldFirst, HoldAgain, ReadingFails, TimesOut, Killed, Proceed, Refuse, Ends, Succeed, tmux

LEMMA NextWitnessed ==
    ASSUME TypeOK, CallsOK, PanesKept, Witnessed, [Next]_vars
    PROVE  Witnessed'
<1> USE DEF Witnessed
<1>1. CASE UNCHANGED vars
  BY <1>1 DEF vars
<1>2. CASE ServerDies \/ ServerStarts
  BY <1>2, ResumeAssumption DEF ServerDies, ServerStarts, PanesKept, TypeOK, osm
<1>3. ASSUME NEW p \in Panes, PaneStep(p) PROVE Witnessed'
  BY <1>3, PaneType DEF osm
<1>4. ASSUME NEW c \in Callers, UNCHANGED server, witness' \subseteq witness \union {c},
             \A d \in Callers \ {c} : call'[d] = call[d],
             call'[c].pc = "pasting" => call'[c].on = server'
      PROVE  Witnessed'
  BY <1>4
<1>5. ASSUME NEW c \in Callers, NEW v \in Asked, NEW p \in Panes, Begin(c, v, p) PROVE Witnessed'
  BY <1>4, <1>5 DEF Begin, tmux
<1>6. ASSUME NEW c \in Callers, CallerStep(c) \/ Killed(c) PROVE Witnessed'
  <2>1. UNCHANGED server
    BY <1>6, CallerType
  <2>2. /\ \A d \in Callers \ {c} : call'[d] = call[d]
        /\ call'[c].pc = "pasting" => call'[c].on = server'
    BY <1>6, <2>1, Moves, GotoShape, ReturnShape DEF Waiting, NoCall
  <2> QED
    BY <1>4, <1>6, <2>1, <2>2, OnlyOwnWitness
<1> QED
  BY <1>1, <1>2, <1>3, <1>5, <1>6 DEF Next

-----------------------------------------------------------------------------
(* One client. *)

USE DEF AloneWith

\* Panes and servers: a step that adds no client, and closes none that nobody
\* waits for.
LEMMA FewerAlone ==
    ASSUME Alone, UNCHANGED <<call, server, lapsed>>,
           \A p \in Panes : pane'[p].runs \in {"launching", "agent"} /\ ~pane'[p].own =>
              /\ pane[p].runs \in {"launching", "agent"} /\ ~pane[p].own
              /\ pane'[p].conv = pane[p].conv
              /\ pane[p].open => pane'[p].open
    PROVE  Alone'
<1>1. \A v \in Conversations : Clients(v)' \subseteq Clients(v)
  BY DEF Clients
<1>2. ASSUME NEW v \in Conversations, NEW p \in Clients(v)', pane[p].open \/ Attended(p)
      PROVE  pane'[p].open \/ Attended(p)'
  BY <1>2 DEF Clients, Attended
<1> QED
  BY <1>1, <1>2 DEF Alone

LEMMA NoneAlone ==
    ASSUME \A p \in Panes : pane'[p].runs \notin {"launching", "agent"}
    PROVE  Alone'
BY DEF Alone, Clients

\* A caller goes on: it has not come past CheckOwner, or it had before.
LEMMA GotoAlone ==
    ASSUME CallsOK, Alone, NEW c \in Callers, NEW to, Goto(c, to),
           UNCHANGED <<pane, server, lapsed>>,
           to \in Checked => call[c].pc \in Checked,
           to \in Waiting => call[c].pc \in Checked \union Waiting,
           call[c].pc \in Waiting => to \in Waiting
    PROVE  Alone'
<1>1. SUFFICES ASSUME ~lapsed, NEW v \in Conversations, KindOf[v] \in KeepsOpen
               PROVE  AloneWith(v)'
  BY DEF Alone
<1>2. AloneWith(v) /\ Clients(v)' = Clients(v)
  BY <1>1 DEF Alone, Clients
<1>3. \A p \in Panes : Attended(p) => Attended(p)'
  BY GotoShape DEF Attended
<1> QED
  BY <1>2, <1>3, GotoShape DEF Clients

\* A caller returns: what it waited for has shown itself, or it counts as lapsed.
LEMMA ReturnAlone ==
    ASSUME CallsOK, Alone, NEW c \in Callers, Return(c), UNCHANGED <<pane, server>>,
           lapsed => lapsed',
           \A v \in Conversations :
              /\ ~lapsed' /\ KindOf[v] \in KeepsOpen
              /\ call[c].pc \in Waiting /\ call[c].conv = v /\ call[c].on = server
              => \A p \in Clients(v) : p = call[c].pane => pane[p].open
    PROVE  Alone'
<1>1. SUFFICES ASSUME ~lapsed', NEW v \in Conversations, KindOf[v] \in KeepsOpen
               PROVE  AloneWith(v)'
  BY DEF Alone
<1>2. AloneWith(v) /\ Clients(v)' = Clients(v)
  BY <1>1 DEF Alone, Clients
<1>3. ASSUME NEW p \in Clients(v) PROVE pane[p].open \/ Attended(p)'
  <2>1. CASE pane[p].open
    BY <2>1
  <2>2. CASE ~pane[p].open
    <3>1. PICK d \in Callers : /\ call[d].pc \in Waiting /\ call[d].conv = pane[p].conv
                               /\ call[d].pane = p /\ call[d].on = server
      BY <1>2, <2>2 DEF Attended
    <3>2. d # c
      BY <1>1, <2>2, <3>1 DEF Clients
    <3> QED
      BY <3>1, <3>2, ReturnShape DEF Attended
  <2> QED
    BY <2>1, <2>2
<1> QED
  BY <1>2, <1>3, ReturnShape DEF NoCall, Checked, Waiting

LEMMA BeginAlone ==
    ASSUME CallsOK, Alone, NEW c \in Callers, NEW v \in Asked, NEW p \in Panes, Begin(c, v, p)
    PROVE  Alone'
<1>1. SUFFICES ASSUME ~lapsed, NEW w \in Conversations, KindOf[w] \in KeepsOpen
               PROVE  AloneWith(w)'
  BY DEF Alone, Begin, history
<1>2. AloneWith(w) /\ Clients(w)' = Clients(w) /\ UNCHANGED <<pane, server>>
  BY <1>1 DEF Alone, Clients, Begin, tmux
<1>3. /\ call[c].pc = "idle" /\ call'[c].pc = "listing"
      /\ \A d \in Callers \ {c} : call'[d] = call[d]
  BY DEF Begin
<1>4. \A q \in Panes : Attended(q) => Attended(q)'
  BY <1>2, <1>3 DEF Attended, Waiting
<1> QED
  BY <1>2, <1>3, <1>4 DEF Clients, Checked, Waiting

\* CheckOwner: a client would be open, which is seen, or waited for, which takes
\* the lock that this caller has.
LEMMA CheckOwnerAlone ==
    ASSUME CallsOK, PanesKept, Alone, NEW c \in Callers, CheckOwner(c), Goto(c, "verifying"),
           UNCHANGED <<pane, server, lapsed>>,
           Liveness(Table, KindOf[call[c].conv], call[c].conv) = "inactive"
    PROVE  Alone'
<1>1. SUFFICES ASSUME ~lapsed, NEW v \in Conversations, KindOf[v] \in KeepsOpen
               PROVE  AloneWith(v)'
  BY DEF Alone
<1>2. AloneWith(v) /\ Clients(v)' = Clients(v)
  BY <1>1 DEF Alone, Clients
<1>3. call[c].pc = "owner" /\ call'[c].pc = "verifying"
  BY GotoShape DEF CheckOwner
<1>4. \A p \in Panes : Attended(p) => Attended(p)'
  BY <1>3, GotoShape DEF Attended, Waiting
<1>5. ASSUME call[c].conv = v, NEW p \in Clients(v) PROVE FALSE
  <2>1. p \in Panes /\ pane[p].conv = v
    BY DEF Clients
  <2>2. ~pane[p].open
    BY <1>5, <2>1, InactiveIsClosed DEF Clients, PanesKept
  <2>3. PICK d \in Callers : call[d].pc \in Waiting /\ call[d].conv = v
    BY <1>2, <2>1, <2>2 DEF Attended
  <2>4. lock[v] = d /\ lock[v] = c
    BY <1>3, <1>5, <2>3 DEF Waiting
  <2> QED
    BY <1>3, <2>3, <2>4 DEF Waiting
<1>6. \A d \in Callers \ {c} : call'[d] = call[d]
  BY GotoShape
<1>7. call'[c].conv = v => Clients(v) = {}
  BY <1>5, GotoShape
<1>8. ASSUME NEW d \in Callers, call'[d].conv = v, call'[d].pc \in Checked PROVE Clients(v) = {}
  BY <1>2, <1>6, <1>7, <1>8
<1>9. ASSUME NEW d \in Callers, call'[d].conv = v, call'[d].pc \in Waiting
      PROVE  Clients(v) \subseteq {call'[d].pane}
  BY <1>2, <1>3, <1>6, <1>9 DEF Waiting
<1>10. \A p \in Clients(v) : pane'[p].open \/ Attended(p)'
  BY <1>2, <1>4 DEF Clients
<1> QED
  BY <1>2, <1>8, <1>9, <1>10

\* The paste: there was no client, and there is one that its caller waits for.
LEMMA PasteAlone ==
    ASSUME TypeOK, CallsOK, Witnessed, Alone, NEW c \in Callers, GuardedPaste(c),
           c \in witness, Paste(c)
    PROVE  Alone'
<1>1. SUFFICES ASSUME ~lapsed, NEW v \in Conversations, KindOf[v] \in KeepsOpen
               PROVE  AloneWith(v)'
  BY DEF Alone, Paste
<1>2. AloneWith(v)
  BY <1>1 DEF Alone
<1>3. /\ call[c].pc = "pasting" /\ call'[c].pc = "polling" /\ call[c].on = server
      /\ call[c].conv \in Conversations /\ call[c].pane \in Panes
  BY GotoShape DEF GuardedPaste, Paste, Witnessed
<1>4. /\ UNCHANGED server
      /\ \A p \in Panes : p # call[c].pane => pane'[p] = pane[p]
      /\ pane'[call[c].pane] = Typed(call[c].conv, call[c].pane)
  BY <1>3 DEF Paste, TypeOK
<1>5. \A p \in Panes : pane'[p] = pane[p] /\ Attended(p) => Attended(p)'
  BY <1>3, <1>4, GotoShape DEF Attended, Waiting, Paste
<1>6. CASE call[c].conv # v
  <2>1. \A p \in Clients(v)' : p \in Clients(v) /\ pane'[p] = pane[p]
    BY <1>4, <1>6 DEF Clients, Typed
  <2> QED
    BY <1>2, <1>3, <1>5, <1>6, <2>1, GotoShape DEF Paste, Clients, Checked, Waiting
<1>7. CASE call[c].conv = v
  <2>1. Clients(v) = {}
    BY <1>2, <1>3, <1>7 DEF Checked
  <2>2. Clients(v)' \subseteq {call[c].pane}
    BY <1>4, <2>1 DEF Clients
  <2>3. \A p \in Clients(v)' : Attended(p)'
    BY <1>3, <1>4, <1>7, <2>2, GotoShape DEF Attended, Waiting, Paste, Clients
  <2>4. \A d \in Callers : call[d].conv = v /\ call[d].pc \in Checked \union Waiting => d = c
    BY <1>3, <1>7 DEF Checked, Waiting
  <2> QED
    BY <1>3, <1>7, <2>2, <2>3, <2>4, GotoShape DEF Paste, Checked, Waiting
<1> QED
  BY <1>6, <1>7

\* A caller that saw its conversation held sees the transcript open.
LEMMA HeldIsOpen ==
    ASSUME CallsOK, NEW c \in Callers, call[c].pc # "idle", Holds(c)
    PROVE  /\ Runs(c)
           /\ KindOf[call[c].conv] \in KeepsOpen => pane[call[c].pane].open
<1>1. KindOf[call[c].conv] \in Kinds
  BY ResumeAssumption
<1>2. call[c].pane \in Panes
  OBVIOUS
<1>3. /\ pane[call[c].pane].runs = "agent" /\ pane[call[c].pane].conv = call[c].conv
      /\ pane[call[c].pane].open \/ KindOf[call[c].conv] \in NamesItself
  BY <1>1, <1>2, BoundRuns DEF Holds
<1> QED
  BY <1>3, ResumeAssumption DEF Runs

LEMMA CallerAlone ==
    ASSUME TypeOK, CallsOK, PanesKept, Witnessed, Alone, NEW c \in Callers,
           CallerStep(c) \/ Killed(c)
    PROVE  Alone'
<1> HIDE DEF CallsOK, CallsKept, AloneWith
<1>1. UNCHANGED server
  BY CallerType
<1>2. CASE GuardedPaste(c) /\ c \in witness /\ Paste(c)
  BY <1>2, PasteAlone
\* Steps that write neither to the panes nor to the history.
<1>3. ASSUME UNCHANGED <<pane, lapsed>>, Return(c), call[c].pc \notin Waiting PROVE Alone'
  BY <1>1, <1>3, ReturnAlone
<1>4. CASE ListPanes(c) \/ TakeLock(c) \/ CheckIdle(c) \/ CheckMode(c)
  <2>1. UNCHANGED <<pane, lapsed>> /\ call[c].pc \notin Waiting
    BY <1>4 DEF ListPanes, TakeLock, CheckIdle, CheckMode, Proceed, Refuse, tmux, history, Waiting
  <2>2. CASE Return(c)
    BY <1>3, <2>1, <2>2
  <2>3. ASSUME NEW to \in {"locking", "checking", "mode", "owner"}, Goto(c, to) PROVE Alone'
    BY <1>1, <2>1, <2>3, GotoAlone DEF Checked, Waiting
  <2> QED
    BY <1>4, <2>2, <2>3 DEF ListPanes, TakeLock, CheckIdle, CheckMode, Proceed, Refuse
<1>5. CASE CheckOwner(c)
  <2>1. UNCHANGED <<pane, lapsed>> /\ call[c].pc \notin Waiting
    BY <1>5 DEF CheckOwner, Proceed, Refuse, tmux, history, Waiting
  <2> QED
    BY <1>1, <1>3, <1>5, <2>1, CheckOwnerAlone DEF CheckOwner, Proceed, Refuse
<1>6. CASE \/ VerifyServer(c) \/ SetBuffer(c) \/ PlaceWitness(c) \/ RereadIdentity(c)
           \/ GuardedPaste(c) /\ ~(c \in witness /\ Paste(c))
  <2>1. /\ UNCHANGED <<pane, lapsed>> /\ call[c].pc \in Checked
        /\ \/ Return(c)
           \/ \E to \in {"buffering", "witnessing", "rereading", "pasting", "polling"} : Goto(c, to)
    BY <1>6
    DEF VerifyServer, SetBuffer, PlaceWitness, RereadIdentity, GuardedPaste, NothingPasted,
        Tidy, Proceed, Refuse, tmux, history, Checked
  <2>2. call[c].pc \notin Waiting
    BY <2>1 DEF Checked, Waiting
  <2>3. ASSUME NEW to \in {"buffering", "witnessing", "rereading", "pasting", "polling"}, Goto(c, to)
        PROVE  Alone'
    BY <1>1, <2>1, <2>2, <2>3, GotoAlone
  <2> QED
    BY <1>3, <2>1, <2>2, <2>3
<1>7. CASE AgentSeen(c) \/ HoldFirst(c) \/ (HoldAgain(c) /\ ~Holds(c))
  <2>1. /\ UNCHANGED <<pane, lapsed>> /\ call[c].pc \in Waiting
        /\ \E to \in {"confirming", "settling"} : Goto(c, to)
    BY <1>7 DEF AgentSeen, HoldFirst, HoldAgain, Proceed, tmux, history, Waiting
  <2> QED
    BY <1>1, <2>1, GotoAlone DEF Checked, Waiting
\* It reports success: the transcript is open.
<1>8. CASE HoldAgain(c) /\ Holds(c)
  <2>1. UNCHANGED <<pane, lapsed>> /\ Return(c) /\ call[c].pc = "settling"
    BY <1>8 DEF HoldAgain, Succeed, tmux
  <2> QED
    BY <1>1, <1>8, <2>1, HeldIsOpen, ReturnAlone
\* The pane or the server is gone, and with it the client.
<1>9. CASE ReadingFails(c)
  <2>1. UNCHANGED <<pane, lapsed>> /\ Return(c)
    BY <1>9 DEF ReadingFails, Refuse, tmux, history
  <2>2. call[c].pane \in Panes => pane[call[c].pane].runs = "gone"
    BY <1>9 DEF ReadingFails, Exists, PanesKept
  <2>3. \A v \in Conversations : \A p \in Clients(v) : p # call[c].pane
    BY <2>2 DEF Clients
  <2> QED
    BY <1>1, <2>1, <2>3, ReturnAlone
\* It gives up or dies: what it leaves unopened counts as lapsed.
<1>10. CASE TimesOut(c) \/ Killed(c)
  <2>1. lapsed' = (lapsed \/ Unfinished(c)) /\ Return(c) /\ UNCHANGED pane
    BY <1>10 DEF TimesOut, Killed, Ends, tmux
  <2>2. ASSUME ~lapsed', NEW v \in Conversations, NEW p \in Clients(v), p = call[c].pane,
               call[c].pc \in Waiting, call[c].conv = v, call[c].on = server
        PROVE  pane[p].open
    BY <2>1, <2>2 DEF Clients, Unfinished
  <2> QED
    BY <1>1, <2>1, <2>2, ReturnAlone
<1> QED
  BY <1>2, <1>4, <1>5, <1>6, <1>7, <1>8, <1>9, <1>10 DEF CallerStep

LEMMA NextAlone ==
    ASSUME TypeOK, CallsOK, PanesKept, Witnessed, Alone, [Next]_vars
    PROVE  Alone'
<1> HIDE DEF CallsOK, CallsKept, AloneWith
<1>1. CASE UNCHANGED vars
  BY <1>1, FewerAlone DEF vars
<1>2. CASE ServerDies \/ ServerStarts
  BY <1>2, NoneAlone DEF ServerDies, ServerStarts, At
<1>3. ASSUME NEW p \in Panes, PaneStep(p) PROVE Alone'
  <2>1. UNCHANGED <<call, server, lapsed>>
    BY <1>3, PaneType DEF osm, history
  <2>2. ASSUME NEW q \in Panes, pane'[q].runs \in {"launching", "agent"}, ~pane'[q].own
        PROVE  /\ pane[q].runs \in {"launching", "agent"} /\ ~pane[q].own
               /\ pane'[q].conv = pane[q].conv
               /\ pane[q].open => pane'[q].open
    <3> USE <2>2 DEF Becomes, At, TypeOK, Pane
    <3>1. ASSUME NEW v \in Conversations, UserRuns(p, v) PROVE q # p /\ pane'[q] = pane[q]
      BY <3>1 DEF UserRuns
    <3>2. ASSUME NEW v \in Conversations, UserResumes(p, v) PROVE q # p /\ pane'[q] = pane[q]
      BY <3>2 DEF UserResumes
    <3>3. CASE Returns(p) \/ Closes(p)
      BY <3>3 DEF Returns, Closes
    <3>4. CASE AgentStarts(p)
      BY <3>4 DEF AgentStarts
    <3>5. CASE AgentOpens(p)
      BY <3>5 DEF AgentOpens
    <3> QED
      BY <1>3, <3>1, <3>2, <3>3, <3>4, <3>5 DEF PaneStep
  <2> QED
    BY <2>1, <2>2, FewerAlone
<1> QED
  BY <1>1, <1>2, <1>3, BeginAlone, CallerAlone DEF Next

-----------------------------------------------------------------------------
(* What is typed and what is reported. *)

LEMMA NextTyped ==
    ASSUME CallsOK, Witnessed, TypedWhereVerified, [Next]_vars
    PROVE  TypedWhereVerified'
<1> HIDE DEF CallsOK, CallsKept
<1> USE DEF TypedWhereVerified, history
<1>1. ASSUME NEW c \in Callers, CallerStep(c) \/ Killed(c) PROVE ~astray'
  <2>1. CASE GuardedPaste(c)
    BY <2>1 DEF GuardedPaste, Paste, Witnessed, Refuse, NothingPasted
  <2> QED
    BY <1>1, <2>1
    DEF CallerStep, ListPanes, TakeLock, CheckIdle, CheckMode, CheckOwner, VerifyServer, SetBuffer,
        PlaceWitness, RereadIdentity, NothingPasted, AgentSeen, HoldFirst, HoldAgain,
        ReadingFails, TimesOut, Killed, Proceed, Refuse, Ends, Succeed
<1>2. ASSUME NEW p \in Panes, PaneStep(p) PROVE ~astray'
  BY <1>2 DEF PaneStep, UserRuns, UserResumes, Returns, Closes, AgentStarts, AgentOpens, Becomes
<1> QED
  BY <1>1, <1>2 DEF Next, vars, ServerDies, ServerStarts, Begin

LEMMA NextReported ==
    ASSUME CallsOK, ReportedIsRunning, [Next]_vars
    PROVE  ReportedIsRunning'
<1> HIDE DEF CallsOK, CallsKept
<1> USE DEF ReportedIsRunning, history
<1>1. ASSUME NEW c \in Callers, CallerStep(c) \/ Killed(c) PROVE ~misled'
  <2>1. CASE HoldAgain(c)
    BY <2>1, HeldIsOpen DEF HoldAgain, Succeed, Proceed
  <2> QED
    BY <1>1, <2>1
    DEF CallerStep, ListPanes, TakeLock, CheckIdle, CheckMode, CheckOwner, VerifyServer, SetBuffer,
        PlaceWitness, RereadIdentity, GuardedPaste, Paste, NothingPasted, AgentSeen, HoldFirst,
        ReadingFails, TimesOut, Killed, Proceed, Refuse, Ends
<1>2. ASSUME NEW p \in Panes, PaneStep(p) PROVE ~misled'
  BY <1>2 DEF PaneStep, UserRuns, UserResumes, Returns, Closes, AgentStarts, AgentOpens, Becomes
<1> QED
  BY <1>1, <1>2 DEF Next, vars, ServerDies, ServerStarts, Begin

LEMMA Invariant == Spec => [](CallsOK /\ IInv)
<1>1. Init => CallsOK /\ IInv
  BY InitCalls
  DEF Init, IInv, PanesKept, Witnessed, Alone, TypedWhereVerified, ReportedIsRunning, Clients, At,
      NoCall, Checked, Waiting
<1>2. TypeOK /\ CallsOK /\ IInv /\ [Next]_vars => (CallsOK /\ IInv)'
  BY NextCalls, NextPanes, NextWitnessed, NextAlone, NextTyped, NextReported DEF IInv
<1> QED
  BY <1>1, <1>2, ResumeTypes, PTL DEF Spec

-----------------------------------------------------------------------------
\* However servers are replaced, and whatever witness or buffer an earlier call
\* left behind, what is typed is typed on the server the caller verified
\* (resume.rs deliver: witness, identity read again, guarded paste).
THEOREM TypedWhereVerifiedHolds == Spec => []TypedWhereVerified
BY Invariant, PTL DEF IInv

\* Resumed is reported of a pane that runs that very conversation
\* (resume.rs, the settled wait; detect.rs bind).
THEOREM ReportedIsRunningHolds == Spec => []ReportedIsRunning
BY Invariant, PTL DEF IInv

\* Callers that all return never leave two of osm's agents on a conversation
\* whose agent keeps its transcript open (resume.rs: the lock, held from before
\* the check until the transcript was seen).
THEOREM OneClientHolds == Spec => []OneClient
<1>1. Alone => OneClient
  <2>1. SUFFICES ASSUME Alone, ~lapsed, NEW v \in Conversations, KindOf[v] \in KeepsOpen
                 PROVE  Cardinality(Clients(v)) <= 1
    BY DEF OneClient
  <2>2. \A p, q \in Clients(v) : p = q
    BY <2>1 DEF Alone
  <2>3. CASE Clients(v) = {}
    BY <2>3, FS_EmptySet
  <2>4. ASSUME NEW p \in Clients(v) PROVE Cardinality(Clients(v)) <= 1
    <3>1. Clients(v) = {p}
      BY <2>2
    <3> QED
      BY <3>1, FS_Singleton
  <2> QED
    BY <2>3, <2>4
<1> QED
  BY <1>1, Invariant, PTL DEF IInv
=============================================================================
