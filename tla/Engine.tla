------------------------------- MODULE Engine -------------------------------
(***************************************************************************)
(* The engine as it is installed: two systemd user units, the daemon that  *)
(* keeps its tmux hooks on whatever server is running, and the user's      *)
(* `osm install`, `uninstall`, `install-hooks` and `uninstall-hooks`.      *)
(*                                                                         *)
(* tmux servers are numbered by incarnation; hooks die with the server.    *)
(* systemctl may accept a command, refuse it, or be killed at its budget   *)
(* with the command taken or not; tmux and the lock directory may refuse   *)
(* any call.  Version 1 of osm is installed, or none; the user installs    *)
(* version 2 to the same prefix, one systemd searches, and types its       *)
(* commands from what is installed.                                        *)
(***************************************************************************)
EXTENDS Integers, FiniteSets

CONSTANTS
    Events,        \* tmux events osm hooks
    GiveUpAfter,   \* MAX_CONSECUTIVE_CAPTURE_FAILURES
    MaxServers,    \* bound: tmux servers
    MaxCommands,   \* bound: commands the user types
    MaxSpells,     \* bound: times captures begin to fail
    MaxFaults      \* bound: calls refused, captures killed, health files lost

ASSUME EngineAssumption ==
    /\ IsFiniteSet(Events)
    /\ {GiveUpAfter, MaxServers, MaxCommands, MaxSpells, MaxFaults} \subseteq Nat
    /\ GiveUpAfter > 0

VARIABLES
    server,    \* the tmux server: incarnation, 0 for none, its marked hooks, and
               \* how the last removal of them ended
    started,   \* tmux servers so far
    binary,    \* version of osm on disk, 0 for none
    units,     \* systemd's state of osm.service and osm-restore.service
    daemon,    \* the process of osm.service, and the version a restore runs
    mutator,   \* who changes the hooks, and how far they are
    command,   \* what the user is running
    typed,     \* commands so far
    health,    \* whether captures fail, and capture-health.json
    counting,  \* who has read that file and is about to write it
    faults,    \* so far
    declined   \* history: the servers the daemon has hooked whose hooks the user took
               \* away, or broke off changing half way

capturing == <<health, counting>>

vars == <<server, started, binary, units, daemon, mutator, command, typed, capturing, faults,
          declined>>

Actors == {"daemon", "user"}

Servers == 1..MaxServers
Unhooked == [e \in Events |-> 0]
NoServer == [gen |-> 0, hooks |-> Unhooked, removal |-> "whole"]
Up == server.gen # 0

NoDaemon == [version |-> 0, hooked |-> 0, read |-> 0]
Quiet == [op |-> "none", step |-> "idle", left |-> {}]
NoCommand == [kind |-> "none", pc |-> "idle", pending |-> FALSE, problem |-> FALSE,
              done |-> FALSE]

\* Those that count failures: the daemon, and a hook's capture or ExecStop's.
Counters == {"timer", "event"}
NotCounting == [open |-> FALSE, to |-> 0, misread |-> FALSE]

\* Past the limit the streak is not told apart further.
Longest == GiveUpAfter + 1

Kinds == {"install", "uninstall", "install-hooks", "uninstall-hooks"}
Steps == {"idle", "waiting", "removing", "removed", "appending"}
Stages == {"idle", "probing", "stopping", "confirming", "copying", "hooking", "reloading",
           "enabling", "removing"}

\* A login has just queued both units, or osm was never installed.
Init ==
    /\ server = NoServer
    /\ started = 0
    /\ binary \in {0, 1}
    /\ units = IF binary = 0 THEN [main |-> "inactive", restore |-> "inactive", runs |-> 0]
               ELSE [main |-> "queued", restore |-> "queued", runs |-> 0]
    /\ daemon = NoDaemon
    /\ mutator = [a \in Actors |-> Quiet]
    /\ command = NoCommand
    /\ typed = 0
    /\ health = [streak |-> 0, failing |-> FALSE, spells |-> 0, sound |-> TRUE]
    /\ counting = [c \in Counters |-> NotCounting]
    /\ faults = 0
    /\ declined = [g \in Servers |-> "no"]

-----------------------------------------------------------------------------
(* tmux, and whether captures work.                                        *)

ServerStarts ==
    /\ ~Up
    /\ started < MaxServers
    /\ server' = [NoServer EXCEPT !.gen = started + 1]
    /\ started' = started + 1
    /\ UNCHANGED <<binary, units, daemon, mutator, command, typed, capturing, faults, declined>>

ServerDies ==
    /\ Up
    /\ server' = NoServer
    /\ UNCHANGED <<started, binary, units, daemon, mutator, command, typed, capturing, faults, declined>>

CapturesBreak ==
    /\ ~health.failing
    /\ health.spells < MaxSpells
    /\ health' = [health EXCEPT !.failing = TRUE, !.spells = @ + 1]
    /\ UNCHANGED <<server, started, binary, units, daemon, mutator, command, typed, counting,
                   faults, declined>>

CapturesWork ==
    /\ health.failing
    /\ health' = [health EXCEPT !.failing = FALSE]
    /\ UNCHANGED <<server, started, binary, units, daemon, mutator, command, typed, counting,
                   faults, declined>>

Fault == faults < MaxFaults /\ faults' = faults + 1

\* The health file cannot be read or written: a full disk, a wrong owner.
FileBreaks ==
    /\ health.sound
    /\ Fault
    /\ health' = [health EXCEPT !.sound = FALSE]
    /\ UNCHANGED <<server, started, binary, units, daemon, mutator, command, typed, counting,
                   declined>>

FileMended ==
    /\ ~health.sound
    /\ health' = [health EXCEPT !.sound = TRUE]
    /\ UNCHANGED <<server, started, binary, units, daemon, mutator, command, typed, counting,
                   faults, declined>>

\* A file that another is just rewriting, or that cannot be read, counts as none.
Misreads(c) == ~health.sound \/ \E d \in Counters \ {c} : counting[d].open

\* record_success and record_failure: the file is read ...
Loads(c) ==
    /\ ~counting[c].open
    /\ \E misread \in {FALSE} \union {Misreads(c)} :
          LET streak == IF misread THEN 0 ELSE health.streak
              to == IF ~health.failing THEN 0
                    ELSE IF streak < Longest THEN streak + 1 ELSE streak
          IN  counting' = [counting EXCEPT ![c] = [open |-> TRUE, to |-> to, misread |-> misread]]

\* ... and written, without a lock on it.  What fails half way leaves the file
\* as it was, empty, or written.
Stores(c, ok) ==
    /\ counting[c].open
    /\ ok = health.sound
    /\ \E streak \in IF ok THEN {counting[c].to} ELSE {health.streak, 0, counting[c].to} :
          health' = [health EXCEPT !.streak = streak]
    /\ counting' = [counting EXCEPT ![c] = NotCounting]

\* Killed before it wrote, or when it had emptied the file.
StoresNothing(c) ==
    /\ \E streak \in {health.streak} \union (IF counting[c].open THEN {0} ELSE {}) :
          health' = [health EXCEPT !.streak = streak]
    /\ counting' = [counting EXCEPT ![c] = NotCounting]

\* A hook's capture and the shutdown capture count in the same file.  One that
\* was debounced, deferred or kept out by a restore counts nowhere.
HookCaptures ==
    /\ binary # 0
    /\ (\E e \in Events : server.hooks[e] > 0) \/ units.main = "stopping"
    /\ Loads("event")
    /\ UNCHANGED <<server, started, binary, units, daemon, mutator, command, typed, health,
                   faults, declined>>

HookRecords ==
    /\ \E ok \in BOOLEAN : Stores("event", ok)
    /\ UNCHANGED <<server, started, binary, units, daemon, mutator, command, typed, faults,
                   declined>>

HookKilled ==
    /\ counting["event"].open
    /\ Fault
    /\ StoresNothing("event")
    /\ UNCHANGED <<server, started, binary, units, daemon, mutator, command, typed, declined>>

-----------------------------------------------------------------------------
(* systemd.                                                                *)

RestoreRuns == units.restore \in {"queued", "activating"}

RestoreStarts ==
    /\ units.restore = "queued"
    /\ units' = [units EXCEPT !.restore = IF binary = 0 THEN "inactive" ELSE "activating",
                              !.runs = binary]
    /\ UNCHANGED <<server, started, binary, daemon, mutator, command, typed, capturing, faults, declined>>

\* RemainAfterExit keeps a oneshot that succeeded active.
RestoreEnds(ok) ==
    /\ units.restore = "activating"
    /\ units' = [units EXCEPT !.restore = IF ok THEN "exited" ELSE "inactive", !.runs = 0]
    /\ UNCHANGED <<server, started, binary, daemon, mutator, command, typed, capturing, faults, declined>>

\* After=osm-restore.service keeps the daemon's start job waiting; a daemon that
\* failed is started again.
MainStarts ==
    /\ \/ units.main = "queued" /\ ~RestoreRuns
       \/ units.main = "restarting"
    /\ binary # 0
    /\ units' = [units EXCEPT !.main = "active"]
    /\ daemon' = [NoDaemon EXCEPT !.version = binary]
    /\ UNCHANGED <<server, started, binary, mutator, command, typed, capturing, faults, declined>>

\* The process goes, in the middle of what it was doing.
DaemonGone ==
    /\ daemon' = NoDaemon
    /\ mutator' = [mutator EXCEPT !["daemon"] = Quiet]

\* ExecStop, the shutdown capture, comes first (HookCaptures).
MainStops ==
    /\ units.main = "stopping"
    /\ units' = [units EXCEPT !.main = "inactive"]
    /\ DaemonGone
    /\ StoresNothing("timer")
    /\ UNCHANGED <<server, started, binary, command, typed, faults, declined>>

-----------------------------------------------------------------------------
(* The hooks, under their lock.                                            *)

Holds(a) == mutator[a].step \in {"removing", "removed", "appending"}

Begun(a, op) == [mutator EXCEPT ![a] = [op |-> op, step |-> "waiting", left |-> Events]]

\* Mutant of Hold: a mutation takes its turn whether or not another is at it.
HoldUnlocked(a) ==
    /\ mutator[a].step = "waiting"
    /\ mutator' = [mutator EXCEPT ![a].step = "removing"]
    /\ UNCHANGED <<server, started, binary, units, daemon, command, typed, capturing, faults, declined>>

Hold(a) ==
    /\ mutator[a].step = "waiting"
    /\ \A b \in Actors : ~Holds(b)
    /\ mutator' = [mutator EXCEPT ![a].step = "removing"]
    /\ UNCHANGED <<server, started, binary, units, daemon, command, typed, capturing, faults, declined>>

\* remove_marked takes one marked hook away at a time.
Removes(a, e) ==
    /\ mutator[a].step = "removing"
    /\ server.hooks[e] > 0
    /\ server' = [server EXCEPT !.hooks[e] = @ - 1]
    /\ UNCHANGED <<started, binary, units, daemon, mutator, command, typed, capturing, faults, declined>>

RemovalEnds(a, how) ==
    /\ mutator' = [mutator EXCEPT ![a].step = IF mutator[a].op = "install" THEN "appending"
                                              ELSE "removed"]
    /\ server' = [server EXCEPT !.removal = how]
    /\ UNCHANGED <<started, binary, units, daemon, command, typed, capturing, declined>>

\* None is listed; without a server nothing is.
Removed(a) ==
    /\ mutator[a].step = "removing"
    /\ server.hooks = Unhooked
    /\ RemovalEnds(a, "whole")
    /\ UNCHANGED faults

\* The listing or one removal is refused, which reads like the end of the list.
CutShort(a) ==
    /\ mutator[a].step = "removing"
    /\ server.hooks # Unhooked
    /\ Fault
    /\ RemovalEnds(a, "cut short")

Appends(a, e) ==
    /\ mutator[a].step = "appending"
    /\ Up
    /\ e \in mutator[a].left
    /\ server' = [server EXCEPT !.hooks[e] = @ + 1]
    /\ mutator' = [mutator EXCEPT ![a].left = @ \ {e}]
    /\ UNCHANGED <<started, binary, units, daemon, command, typed, capturing, faults, declined>>

Succeeds(a) ==
    \/ mutator[a].step = "appending" /\ mutator[a].left = {}
    \/ mutator[a].step = "removed"

\* No server to append on, or the lock still held after LOCK_WAIT.
Fails(a) ==
    \/ mutator[a].step = "appending" /\ mutator[a].left # {} /\ ~Up
    \/ mutator[a].step = "waiting" /\ \E b \in Actors \ {a} : Holds(b)

\* No tmux to run, no directory for the lock, or a hook that is not set.
Refused(a) ==
    /\ mutator[a].step = "waiting" \/ (mutator[a].step = "appending" /\ mutator[a].left # {})
    /\ Fault

\* The call of install or uninstall returns.  An error of a removal is told.
Registered(a, ok) ==
    /\ IF ok THEN Succeeds(a) /\ UNCHANGED faults
       ELSE (Fails(a) /\ UNCHANGED faults) \/ Refused(a)
    /\ server' = IF ok \/ mutator[a].op = "install" \/ ~Up THEN server
                 ELSE [server EXCEPT !.removal = IF @ = "cut short" THEN @ ELSE "refused"]
    /\ mutator' = [mutator EXCEPT ![a] = Quiet]

\* Mutant of RecordedServer: whatever server is there when it is done.
RecordedServerNow == server.gen

\* What the daemon puts on record: the incarnation it read before it began.
RecordedServer == daemon.read

\* What the user decided about a server ends where a daemon has hooked it again.
DaemonRegistered(ok) ==
    /\ Registered("daemon", ok)
    /\ daemon' = [daemon EXCEPT !.hooked = IF ok THEN RecordedServer ELSE @, !.read = 0]
    /\ declined' = [declined EXCEPT ![RecordedServer] = IF ok THEN "no" ELSE @]
    /\ UNCHANGED <<started, binary, units, command, typed, capturing>>

-----------------------------------------------------------------------------
(* The daemon.                                                             *)

\* Mutant of Unknown: every tick registers.
UnknownAlways == Up

Unknown == Up /\ server.gen # daemon.hooked

\* ensure_hooks, up to the registration.
EnsureHooks ==
    /\ daemon.version # 0
    /\ mutator["daemon"].step = "idle"
    /\ ~counting["timer"].open
    /\ \/ /\ ~Up /\ daemon.hooked # 0
          /\ daemon' = [daemon EXCEPT !.hooked = 0]
          /\ UNCHANGED mutator
       \/ /\ Unknown
          /\ daemon' = [daemon EXCEPT !.read = server.gen]
          /\ mutator' = Begun("daemon", "install")
    /\ UNCHANGED <<server, started, binary, units, command, typed, capturing, faults, declined>>

\* The timer's capture.
TimerCaptures ==
    /\ daemon.version # 0
    /\ mutator["daemon"].step = "idle"
    /\ Loads("timer")
    /\ UNCHANGED <<server, started, binary, units, daemon, mutator, command, typed, health,
                   faults, declined>>

\* Mutant of GivesUp: at the limit itself, and not beyond it.
GivesUpAtLimit(ok) == ok /\ counting["timer"].to = GiveUpAfter

\* A count that could not be written is taken for none.
GivesUp(ok) == ok /\ counting["timer"].to >= GiveUpAfter

\* The daemon exits at the failure that is one too many.
TimerRecords(ok) ==
    /\ Stores("timer", ok)
    /\ IF GivesUp(ok)
       THEN /\ units' = [units EXCEPT !.main = IF @ = "stopping" THEN "inactive" ELSE "restarting"]
            /\ DaemonGone
       ELSE UNCHANGED <<units, daemon, mutator>>
    /\ UNCHANGED <<server, started, binary, command, typed, faults, declined>>

-----------------------------------------------------------------------------
(* The user.                                                               *)

Goto(pc) == command' = [command EXCEPT !.pc = pc]
Ends == command' = NoCommand

Types(kind) ==
    /\ command.pc = "idle"
    /\ typed < MaxCommands
    /\ kind # "install" => binary # 0
    /\ typed' = typed + 1
    /\ command' = [NoCommand EXCEPT !.kind = kind,
                     !.pc = CASE kind = "install" -> "probing"
                              [] kind = "uninstall" -> "reloading"
                              [] OTHER -> "hooking"]
    /\ mutator' = CASE kind = "install-hooks" -> Begun("user", "install")
                    [] kind = "uninstall-hooks" -> Begun("user", "uninstall")
                    [] OTHER -> mutator
    /\ UNCHANGED <<server, started, binary, units, daemon, capturing, faults, declined>>

\* Whether osm.service runs.  A unit whose start is queued is inactive.
Probes ==
    /\ command.pc = "probing"
    /\ IF units.main \in {"inactive", "queued"}
       THEN command' = [command EXCEPT !.pc = "copying", !.pending = units.main = "queued"]
       ELSE Goto("stopping")
    /\ UNCHANGED <<server, started, binary, units, daemon, mutator, typed, capturing, faults, declined>>

\* Mutant of ProbeLost: nobody could say, so it is not running.
ProbeLostIsNo ==
    /\ command.pc = "probing"
    /\ Goto("copying")
    /\ UNCHANGED <<server, started, binary, units, daemon, mutator, typed, capturing, faults, declined>>

ProbeLost ==
    /\ command.pc = "probing"
    /\ Ends
    /\ UNCHANGED <<server, started, binary, units, daemon, mutator, typed, capturing, faults, declined>>

Stopped(all) ==
    [units EXCEPT !.main = IF @ \in {"active", "stopping"} THEN "stopping" ELSE "inactive",
                  !.restore = IF all THEN "inactive" ELSE @,
                  !.runs = IF all THEN 0 ELSE @]

\* An accepted stop is queued; one that was killed may have been.
StopsUnits(accepted, taken) ==
    /\ command.pc = "stopping"
    /\ accepted => taken
    /\ units' = IF taken THEN Stopped(command.kind = "uninstall") ELSE units
    /\ IF accepted THEN Goto("confirming") ELSE Ends
    /\ UNCHANGED <<server, started, binary, daemon, mutator, typed, capturing, faults, declined>>

\* Mutant of Inactive: an accepted stop is a stopped unit.
InactiveOnceAccepted == TRUE

Inactive == units.main = "inactive" /\ (command.kind = "uninstall" => units.restore = "inactive")

Confirms ==
    /\ command.pc = "confirming"
    /\ Inactive
    /\ IF command.kind = "install" THEN Goto("copying") /\ UNCHANGED mutator
       ELSE Goto("hooking") /\ mutator' = Begun("user", "uninstall")
    /\ UNCHANGED <<server, started, binary, units, daemon, typed, capturing, faults, declined>>

ConfirmsNothing ==
    /\ command.pc = "confirming"
    /\ Ends
    /\ UNCHANGED <<server, started, binary, units, daemon, mutator, typed, capturing, faults, declined>>

\* Binary and unit files are replaced; then the hooks, where there is a server.
Copies ==
    /\ command.pc = "copying"
    /\ binary' = 2
    /\ IF Up THEN Goto("hooking") /\ mutator' = Begun("user", "install")
       ELSE Goto("reloading") /\ UNCHANGED mutator
    /\ UNCHANGED <<server, started, units, daemon, typed, capturing, faults, declined>>

\* What the user has done to the hooks of the server the daemon takes for hooked.
Declines(how) ==
    declined' = IF Up /\ server.gen = daemon.hooked
                THEN [declined EXCEPT ![server.gen] = how] ELSE declined

UserRegistered(ok) ==
    /\ Registered("user", ok)
    /\ IF ok THEN Declines(IF mutator["user"].op = "install" THEN "no" ELSE "yes")
       ELSE IF Holds("user") THEN Declines("half way") ELSE UNCHANGED declined
    /\ CASE command.kind = "install" /\ ok -> Goto("reloading")
         [] command.kind = "uninstall" ->
              command' = [command EXCEPT !.pc = "removing", !.problem = ~ok]
         [] OTHER -> Ends
    /\ UNCHANGED <<started, binary, units, daemon, typed, capturing>>

UserInterrupts ==
    /\ command.pc # "idle"
    /\ IF Holds("user") THEN Declines("half way") ELSE UNCHANGED declined
    /\ mutator' = [mutator EXCEPT !["user"] = Quiet]
    /\ Ends
    /\ UNCHANGED <<server, started, binary, units, daemon, typed, capturing, faults>>

Reloads(accepted) ==
    /\ command.pc = "reloading"
    /\ IF ~accepted THEN Ends
       ELSE IF command.kind = "install" THEN Goto("enabling") ELSE Goto("stopping")
    /\ UNCHANGED <<server, started, binary, units, daemon, mutator, typed, capturing, faults, declined>>

\* enable --now starts a unit that is inactive and does nothing to another.
Enabled ==
    [units EXCEPT !.main = IF @ = "inactive" THEN "queued" ELSE @,
                  !.restore = IF @ = "inactive" THEN "queued" ELSE @]

Enables(accepted, taken) ==
    /\ command.pc = "enabling"
    /\ accepted => taken
    /\ units' = IF taken THEN Enabled ELSE units
    /\ command' = [NoCommand EXCEPT !.kind = "install", !.done = accepted]
    /\ UNCHANGED <<server, started, binary, daemon, mutator, typed, capturing, faults, declined>>

\* Whatever came of the hooks; what did not go well ends in a failure.
RemovesFiles ==
    /\ command.pc = "removing"
    /\ binary' = 0
    /\ command' = [NoCommand EXCEPT !.kind = "uninstall", !.done = ~command.problem]
    /\ UNCHANGED <<server, started, units, daemon, mutator, typed, capturing, faults, declined>>

-----------------------------------------------------------------------------
MutatorStep(a) ==
    \/ Hold(a) \/ Removed(a) \/ CutShort(a)
    \/ \E e \in Events : Removes(a, e) \/ Appends(a, e)

Systemd ==
    \/ RestoreStarts \/ (\E ok \in BOOLEAN : RestoreEnds(ok))
    \/ MainStarts \/ MainStops

DaemonStep ==
    \/ EnsureHooks \/ TimerCaptures
    \/ \E ok \in BOOLEAN : DaemonRegistered(ok) \/ TimerRecords(ok)

UserStep ==
    \/ \E kind \in Kinds : Types(kind)
    \/ Probes \/ ProbeLost
    \/ \E accepted, taken \in BOOLEAN : StopsUnits(accepted, taken) \/ Enables(accepted, taken)
    \/ Confirms \/ ConfirmsNothing \/ Copies
    \/ \E ok \in BOOLEAN : UserRegistered(ok) \/ Reloads(ok)
    \/ UserInterrupts \/ RemovesFiles

Next ==
    \/ ServerStarts \/ ServerDies
    \/ CapturesBreak \/ CapturesWork \/ FileBreaks \/ FileMended
    \/ HookCaptures \/ HookRecords \/ HookKilled
    \/ Systemd \/ DaemonStep \/ UserStep
    \/ \E a \in Actors : MutatorStep(a)

\* The daemon looks at the server before every capture of its timer; tmux
\* answers; a command that has the hooks' lock goes on or is killed.
Fairness ==
    /\ SF_vars(EnsureHooks)
    /\ WF_vars(TimerCaptures)
    /\ WF_vars(\E ok \in BOOLEAN : TimerRecords(ok))
    /\ WF_vars(\E ok \in BOOLEAN : DaemonRegistered(ok))
    /\ WF_vars(\E ok \in BOOLEAN : UserRegistered(ok))
    /\ \A a \in Actors : WF_vars(MutatorStep(a))

Spec == Init /\ [][Next]_vars /\ Fairness

-----------------------------------------------------------------------------

Server  == [gen : 0..MaxServers, hooks : [Events -> Nat],
            removal : {"whole", "cut short", "refused"}]
Units   == [main : {"inactive", "queued", "active", "stopping", "restarting"},
            restore : {"inactive", "queued", "activating", "exited"}, runs : 0..2]
Daemon  == [version : 0..2, hooked : 0..MaxServers, read : 0..MaxServers]
Mutator == [op : {"none", "install", "uninstall"}, step : Steps, left : SUBSET Events]
Command == [kind : Kinds \union {"none"}, pc : Stages, pending : BOOLEAN, problem : BOOLEAN,
            done : BOOLEAN]
Health  == [streak : 0..Longest, failing : BOOLEAN, spells : 0..MaxSpells, sound : BOOLEAN]
Count   == [open : BOOLEAN, to : 0..Longest, misread : BOOLEAN]

TypeOK ==
    /\ server \in Server
    /\ started \in 0..MaxServers
    /\ binary \in 0..2
    /\ units \in Units
    /\ daemon \in Daemon
    /\ mutator \in [Actors -> Mutator]
    /\ command \in Command
    /\ typed \in 0..MaxCommands
    /\ health \in Health
    /\ counting \in [Counters -> Count]
    /\ faults \in 0..MaxFaults
    /\ declined \in [Servers -> {"no", "half way", "yes"}]

\* However many installs, daemons and servers there were, no event fires two
\* captures, unless the last removal on that server was cut short (hooks.rs
\* install, "Why this takes a lock").
OneHookEach == server.removal = "cut short" \/ \A e \in Events : server.hooks[e] <= 1

\* Hooks that run a file that is not there are those of a server whose last
\* removal was refused or cut short: not in the middle of an uninstall, and not
\* on a server that starts later (main.rs Uninstall, "a hook left set after the
\* binary is gone fires at nothing").
NoHookWithoutBinary == binary = 0 => server.hooks = Unhooked \/ server.removal # "whole"

\* Not kept by the code.  An uninstall that reports no failure has left no hook
\* (main.rs Uninstall, "it must not pretend the hooks are gone").
GoneAsReported ==
    command.kind = "uninstall" /\ command.done => server.hooks = Unhooked

\* The binary is neither replaced nor deleted under a daemon that runs, unless
\* its start was queued when the install asked (main.rs stop_units).
NotUnderneath ==
    [][binary' # binary => daemon.version = 0 \/ command.pending]_vars

\* The decision of the user about a server that the running daemon has hooked.
InForce(g) == declined[g] # "no" /\ daemon.hooked = g

\* A server that stays up has its hooks back, whatever failed on the way, unless
\* the user took them away or a command of theirs broke off in the middle
\* (main.rs ensure_hooks).
HooksComeBack ==
    \A g \in Servers :
       (server.gen = g /\ daemon.version # 0 /\ ~InForce(g))
          ~> (\/ \A e \in Events : server.hooks[e] > 0
              \/ server.gen # g \/ daemon.version = 0 \/ InForce(g))

HooksGrow == server'.gen = server.gen /\ \E e \in Events : server'.hooks[e] > server.hooks[e]

\* While the daemon that hooked a server runs, hooks the user took off that
\* server are put back by nobody but the user (main.rs ensure_hooks, "a user who
\* runs `osm uninstall-hooks`").
DecisionKept == [][Up /\ InForce(server.gen) /\ HooksGrow => Holds("user")]_vars

\* Not kept by the code.  The same for as long as the server stays up ("on a
\* server that stays up keeps their decision"), whatever daemon runs.
DecisionStands ==
    [][Up /\ declined[server.gen] = "yes" /\ HooksGrow => Holds("user")]_vars

\* A daemon whose captures keep failing makes itself seen, unless its health file
\* is out of order, or read in the middle of being rewritten, again and again
\* (main.rs MAX_CONSECUTIVE_CAPTURE_FAILURES).
FailureIsSeen ==
    (health.failing /\ daemon.version # 0)
       ~> (\/ ~health.failing \/ daemon.version = 0 \/ ~health.sound
           \/ \E c \in Counters : counting[c].misread)

\* After an install that reported no failure no process of the engine runs
\* another version (README.md, "two versions of the engine on one database").
OneVersion ==
    command.kind = "install" /\ command.done =>
       daemon.version \in {0, binary} /\ units.runs \in {0, binary}
=============================================================================
