------------------------------- MODULE Resume -------------------------------
(***************************************************************************)
(* agent::resume: several osm processes (a restore's resume pass, `osm     *)
(* resume` typed by a person) put conversations back into panes, while the *)
(* user works in the same panes, agents take their time to start, and tmux *)
(* servers die and are replaced.                                           *)
(*                                                                         *)
(* A replacement takes the socket and hands out the same pane ids.  Every  *)
(* server here carries the same configured id option and runs under the    *)
(* same reissued pid, so that only its start tick tells it from the last:  *)
(* servers are numbered by it.                                             *)
(***************************************************************************)
EXTENDS Detection, Naturals

CONSTANTS
    Callers,         \* osm processes
    Panes,           \* pane ids
    Kinds,           \* kinds of agent
    Conversations,
    Asked,           \* those that callers put back; the user may run any
    KindOf,          \* [Conversations -> Kinds]
    NamesItself,     \* kinds whose resume command line carries the id in a flag
    KeepsOpen,       \* kinds that keep the transcript open while they run
    Nothing,
    MaxServers       \* bound: servers ever started

ASSUME ResumeAssumption ==
    /\ Asked \subseteq Conversations
    /\ KindOf \in [Conversations -> Kinds]
    /\ NamesItself \subseteq Kinds
    /\ KeepsOpen \subseteq Kinds
    /\ KeepsOpen \intersect NamesItself = {}   \* Codex does the one, Claude and OpenCode the other
    /\ Kinds \intersect {"shell", "program"} = {}
    /\ Nothing \notin Callers \union Conversations \union Panes
    /\ MaxServers \in Nat \ {0}

Servers == 1..MaxServers

VARIABLES
    server,      \* the server on the socket, 0 if none
    born,        \* servers started so far
    pane,        \* what each pane of that server is doing
    witness,     \* callers whose witness option that server holds
    buffer,      \* callers whose paste buffer that server holds
    lock,        \* which caller holds each conversation
    call,        \* how far each caller is
    lapsed,      \* history: a caller ended while its agent was still starting
    astray,      \* history: a command was typed on another server than verified
    misled       \* history: a conversation was reported back that was not

vars == <<server, born, pane, witness, buffer, lock, call, lapsed, astray, misled>>

Doings == {"gone", "shell", "busy", "launching", "agent"}

\* `conv` is what an agent runs, or what a program of the user's has open;
\* `own` tells an agent the user started from one that osm did.
Pane == [runs : Doings, conv : Conversations \union {Nothing}, open : BOOLEAN, own : BOOLEAN]

At(doing) == [runs |-> doing, conv |-> Nothing, open |-> FALSE, own |-> FALSE]

Steps == {"idle", "listing", "locking", "checking", "mode", "owner", "verifying",
          "buffering", "witnessing", "rereading", "pasting", "polling", "confirming",
          "settling"}

Call == [ pc   : Steps,
          conv : Conversations \union {Nothing},
          pane : Panes \union {Nothing},
          on   : 0..MaxServers ]       \* the server it verified

Waiting == {"polling", "confirming", "settling"}

NoCall == [pc |-> "idle", conv |-> Nothing, pane |-> Nothing, on |-> 0]

TypeOK ==
    /\ server \in 0..MaxServers
    /\ born \in 0..MaxServers
    /\ pane \in [Panes -> Pane]
    /\ witness \subseteq Callers
    /\ buffer \subseteq Callers
    /\ lock \in [Conversations -> Callers \union {Nothing}]
    /\ call \in [Callers -> Call]
    /\ \A v \in Conversations, c \in Callers :
          lock[v] = c => call[c].conv = v /\ call[c].pc \notin {"listing", "locking"}
    /\ lapsed \in BOOLEAN
    /\ astray \in BOOLEAN
    /\ misled \in BOOLEAN

Init ==
    /\ server = 1
    /\ born = 1
    /\ pane = [p \in Panes |-> At("shell")]
    /\ witness = {}
    /\ buffer = {}
    /\ lock = [v \in Conversations |-> Nothing]
    /\ call = [c \in Callers |-> NoCall]
    /\ lapsed = FALSE
    /\ astray = FALSE
    /\ misled = FALSE

tmux == <<server, born, pane, witness, buffer>>
osm == <<lock, call>>
history == <<lapsed, astray, misled>>

-----------------------------------------------------------------------------
(* The process table behind the panes: each pane's shell is its own pid.   *)

Program(p, name) ==
    [ pid |-> <<p, name>>, above |-> {<<p, "shell">>, <<p, name>>}, name |-> name, opens |-> {},
      lost |-> {}, argv |-> {}, hidden |-> FALSE, ours |-> TRUE ]

ProcessesOf(p) ==
    LET here == pane[p]
    IN  CASE here.runs = "busy" ->
               {[Program(p, "program") EXCEPT !.opens = {here.conv} \ {Nothing}]}
          [] here.runs = "agent" ->
               {[Program(p, KindOf[here.conv]) EXCEPT
                    !.opens = IF here.open THEN {here.conv} ELSE {},
                    !.argv = IF KindOf[here.conv] \in NamesItself THEN {here.conv} ELSE {}]}
          [] OTHER -> {}

Table == UNION {ProcessesOf(p) : p \in Panes}

\* The pane's foreground command.
Command(p) ==
    CASE pane[p].runs = "agent" -> KindOf[pane[p].conv]
      [] pane[p].runs = "busy" -> "program"
      [] OTHER -> "shell"

OfKind(k) == {v \in Conversations : KindOf[v] = k}

BoundNow(p, k) == Bind(Table, <<p, "shell">>, Command(p), {k}, [j \in {k} |-> OfKind(j)])

-----------------------------------------------------------------------------
(* Servers, the user, and agents.                                          *)

\* Its panes and their programs die with it, its options and its buffers too.
ServerDies ==
    /\ server # 0
    /\ server' = 0
    /\ pane' = [p \in Panes |-> At("gone")]
    /\ witness' = {}
    /\ buffer' = {}
    /\ UNCHANGED <<born, osm, history>>

ServerStarts ==
    /\ server = 0
    /\ born < MaxServers
    /\ born' = born + 1
    /\ server' = born + 1
    /\ pane' = [p \in Panes |-> At("shell")]
    /\ UNCHANGED <<witness, buffer, osm, history>>

Becomes(p, what) ==
    /\ pane' = [pane EXCEPT ![p] = what]
    /\ UNCHANGED <<server, born, witness, buffer, osm, history>>

\* A program of the user's that reads a transcript (a pager, a tail).
UserRuns(p, v) == pane[p].runs = "shell" /\ Becomes(p, [At("busy") EXCEPT !.conv = v])

\* The user opens a conversation with a command line of their own.
UserResumes(p, v) ==
    /\ pane[p].runs = "shell"
    /\ Becomes(p, [runs |-> "agent", conv |-> v, open |-> KindOf[v] \in KeepsOpen, own |-> TRUE])

\* A program ends, an agent quits or rejects its conversation.
Returns(p) == pane[p].runs \in {"busy", "agent"} /\ Becomes(p, At("shell"))

Closes(p) == pane[p].runs = "shell" /\ Becomes(p, At("gone"))

AgentStarts(p) ==
    /\ pane[p].runs = "launching"
    /\ Becomes(p, [pane[p] EXCEPT !.runs = "agent"])

AgentOpens(p) ==
    /\ pane[p].runs = "agent"
    /\ KindOf[pane[p].conv] \in KeepsOpen
    /\ ~pane[p].open
    /\ Becomes(p, [pane[p] EXCEPT !.open = TRUE])

-----------------------------------------------------------------------------
(* Callers. *)

Goto(c, pc) == call' = [call EXCEPT ![c].pc = pc]

\* The outcome is returned and the guard dropped.
Return(c) ==
    /\ call' = [call EXCEPT ![c] = NoCall]
    /\ lock' = [v \in Conversations |-> IF lock[v] = c THEN Nothing ELSE lock[v]]

Proceed(c, pc) == Goto(c, pc) /\ UNCHANGED <<tmux, lock, history>>

Refuse(c) == Return(c) /\ UNCHANGED <<tmux, history>>

\* The incarnation is read once: by a restore when it verified its panes, by
\* `osm resume` here.
Begin(c, v, p) ==
    /\ call[c].pc = "idle"
    /\ server # 0
    /\ call' = [call EXCEPT ![c] = [pc |-> "listing", conv |-> v, pane |-> p, on |-> server]]
    /\ UNCHANGED <<tmux, lock, history>>

Exists(p) == pane[p].runs # "gone"

\* live_pane_ids, which preflight tests for membership.
ListPanes(c) ==
    /\ call[c].pc = "listing"
    /\ IF Exists(call[c].pane) THEN Proceed(c, "locking") ELSE Refuse(c)

\* Mutant of TakeLock: the lock is tested and not taken.
TakeLockShared(c) ==
    /\ call[c].pc = "locking"
    /\ IF lock[call[c].conv] = Nothing THEN Proceed(c, "checking") ELSE Refuse(c)

\* The conversation is another process's: active_elsewhere.
TakeLock(c) ==
    /\ call[c].pc = "locking"
    /\ IF lock[call[c].conv] = Nothing
       THEN /\ lock' = [lock EXCEPT ![call[c].conv] = c]
            /\ Goto(c, "checking")
            /\ UNCHANGED <<tmux, history>>
       ELSE Refuse(c)

CheckIdle(c) ==
    /\ call[c].pc = "checking"
    /\ IF Exists(call[c].pane) /\ Command(call[c].pane) = "shell"
       THEN Proceed(c, "mode") ELSE Refuse(c)

\* The user may have put any pane that exists into copy mode.
CheckMode(c) ==
    /\ call[c].pc = "mode"
    /\ \/ Exists(call[c].pane) /\ Proceed(c, "owner")
       \/ Refuse(c)

CheckOwner(c) ==
    /\ call[c].pc = "owner"
    /\ IF Liveness(Table, KindOf[call[c].conv], call[c].conv) = "inactive"
       THEN Proceed(c, "verifying") ELSE Refuse(c)

\* server_moved: nothing has been written yet.
VerifyServer(c) ==
    /\ call[c].pc = "verifying"
    /\ IF server = call[c].on THEN Proceed(c, "buffering") ELSE Refuse(c)

SetBuffer(c) ==
    /\ call[c].pc = "buffering"
    /\ IF server # 0
       THEN /\ buffer' = buffer \union {c}
            /\ Goto(c, "witnessing")
            /\ UNCHANGED <<server, born, pane, witness, lock, history>>
       ELSE Refuse(c)

PlaceWitness(c) ==
    /\ call[c].pc = "witnessing"
    /\ IF server # 0
       THEN /\ witness' = witness \union {c}
            /\ Goto(c, "rereading")
            /\ UNCHANGED <<server, born, pane, buffer, lock, history>>
       ELSE Refuse(c)

\* The option and the buffer are removed again, whatever came of the paste.
Tidy(c) ==
    /\ witness' = witness \ {c}
    /\ buffer' = buffer \ {c}

\* The paste did not take place, which is not an error: its effect is waited for.
NothingPasted(c) ==
    /\ Tidy(c)
    /\ Goto(c, "polling")
    /\ UNCHANGED <<server, born, pane, lock, history>>

\* The whole incarnation, start tick included; no other server is asked.
RereadIdentity(c) ==
    /\ call[c].pc = "rereading"
    /\ IF server = call[c].on THEN Proceed(c, "pasting")
       ELSE IF server = 0 THEN Refuse(c)
       ELSE NothingPasted(c)

\* What the command typed by a paste does to a pane.
Typed(v, p) ==
    IF pane[p].runs = "shell"
    THEN [runs |-> "launching", conv |-> v, open |-> FALSE, own |-> FALSE]
    ELSE pane[p]

Paste(c) ==
    /\ pane' = [pane EXCEPT ![call[c].pane] = Typed(call[c].conv, call[c].pane)]
    /\ astray' = (astray \/ call[c].on # server)
    /\ Tidy(c)
    /\ Goto(c, "polling")
    /\ UNCHANGED <<server, born, lock, lapsed, misled>>

\* Mutant of GuardedPaste: the condition is the configured id and the pid.
GuardedPasteByOption(c) ==
    /\ call[c].pc = "pasting"
    /\ IF server # 0 /\ Exists(call[c].pane) THEN Paste(c) ELSE Refuse(c)

\* if-shell: condition and paste are one command inside the server.  Without the
\* witness it does nothing; a pane that is gone, or no server, is an error.
GuardedPaste(c) ==
    /\ call[c].pc = "pasting"
    /\ IF server = 0 THEN Refuse(c)
       ELSE IF c \notin witness THEN NothingPasted(c)
       ELSE IF c \in buffer /\ Exists(call[c].pane) THEN Paste(c)
       ELSE /\ Return(c)
            /\ Tidy(c)
            /\ UNCHANGED <<server, born, pane, history>>

AgentSeen(c) ==
    /\ call[c].pc = "polling"
    /\ server # 0
    /\ Command(call[c].pane) = KindOf[call[c].conv]
    /\ Proceed(c, "confirming")

\* The pane runs the conversation its caller was asked to put there.
Runs(c) == pane[call[c].pane].runs = "agent" /\ pane[call[c].pane].conv = call[c].conv

\* Resumed is returned.
Succeed(c) ==
    /\ Return(c)
    /\ misled' = (misled \/ ~Runs(c))
    /\ UNCHANGED <<tmux, lapsed, astray>>

Holds(c) == BoundNow(call[c].pane, KindOf[call[c].conv]) = {call[c].conv}

\* Mutant of HoldFirst: the agent's command is taken for the conversation.
HoldByCommand(c) ==
    /\ call[c].pc = "confirming"
    /\ Command(call[c].pane) = KindOf[call[c].conv]
    /\ Succeed(c)

HoldFirst(c) ==
    /\ call[c].pc = "confirming"
    /\ Holds(c)
    /\ Proceed(c, "settling")

\* Any wobble starts the wait again; holding it throughout is success.
HoldAgain(c) ==
    /\ call[c].pc = "settling"
    /\ IF Holds(c) THEN Succeed(c) ELSE Proceed(c, "confirming")

\* The pane is gone, or nobody answers.
ReadingFails(c) ==
    /\ \/ call[c].pc = "polling" /\ server = 0
       \/ call[c].pc \in {"confirming", "settling"} /\ ~Exists(call[c].pane)
    /\ Refuse(c)

\* Its command is still on its way to the pane, or its agent has not opened the
\* conversation: an end of the caller now leaves a delivery behind.
Unfinished(c) ==
    /\ call[c].pc \in Waiting
    /\ call[c].on = server
    /\ LET here == pane[call[c].pane]
       IN  /\ here.runs \in {"launching", "agent"}
           /\ here.conv = call[c].conv
           /\ ~here.open
           /\ ~here.own

Ends(c) ==
    /\ lapsed' = (lapsed \/ Unfinished(c))
    /\ Return(c)
    /\ UNCHANGED <<tmux, astray, misled>>

\* Mutant of TimesOut: the identity is waited for without a deadline.
TimesOutPolling(c) == call[c].pc = "polling" /\ Ends(c)

\* One deadline covers both waits.
TimesOut(c) == call[c].pc \in Waiting /\ Ends(c)

\* A killed process's lock is released by the kernel.
Killed(c) == call[c].pc # "idle" /\ Ends(c)

-----------------------------------------------------------------------------
CallerStep(c) ==
    \/ ListPanes(c) \/ TakeLock(c) \/ CheckIdle(c) \/ CheckMode(c) \/ CheckOwner(c)
    \/ VerifyServer(c) \/ SetBuffer(c) \/ PlaceWitness(c) \/ RereadIdentity(c)
    \/ GuardedPaste(c) \/ AgentSeen(c) \/ HoldFirst(c) \/ HoldAgain(c)
    \/ ReadingFails(c) \/ TimesOut(c)

PaneStep(p) ==
    \/ \E v \in Conversations : UserRuns(p, v) \/ UserResumes(p, v)
    \/ Returns(p) \/ Closes(p)
    \/ AgentStarts(p) \/ AgentOpens(p)

Next ==
    \/ ServerDies \/ ServerStarts
    \/ \E p \in Panes : PaneStep(p)
    \/ \E c \in Callers, v \in Asked, p \in Panes : Begin(c, v, p)
    \/ \E c \in Callers : CallerStep(c) \/ Killed(c)

Spec == Init /\ [][Next]_vars

\* Every wait has a deadline, and a process that is not killed goes on.
Fairness == \A c \in Callers : WF_vars(CallerStep(c)) /\ WF_vars(TimesOut(c))

FairSpec == Spec /\ Fairness

-----------------------------------------------------------------------------
(* Properties. *)

\* Nothing is typed into a pane of a server other than the one the caller
\* verified, though a replacement carries the same option, pid and pane ids.
TypedWhereVerified == ~astray

\* What is reported as resumed was running in that pane when it was reported: not
\* merely an agent of that kind, nor a program that has the conversation open.
ReportedIsRunning == ~misled

\* The panes that run a conversation because osm typed it there.
Clients(v) == {p \in Panes : /\ pane[p].runs \in {"launching", "agent"}
                             /\ pane[p].conv = v
                             /\ ~pane[p].own}

\* osm never has two clients of its own on one conversation, for agents that
\* keep their transcript open, as long as no caller ended while the agent it
\* had started was still on its way to opening it.
OneClient ==
    ~lapsed =>
        \A v \in Conversations :
            KindOf[v] \in KeepsOpen => Cardinality(Clients(v)) <= 1

\* Not kept by the code.  The same for every agent osm resumes, as the documentation has it.
ActiveIsRefused == ~lapsed => \A v \in Conversations : Cardinality(Clients(v)) <= 1

\* No conversation stays locked: every call that has taken it returns.
LockComesFree == \A v \in Asked : lock[v] # Nothing ~> lock[v] = Nothing
=============================================================================
