---------------------------- MODULE EngineProofs ----------------------------
(***************************************************************************)
(* For any events, tmux servers, commands, faults and spells of failing    *)
(* captures: no event is hooked twice and no hook outlives the binary,     *)
(* unless a removal was cut short or refused; the binary is not touched    *)
(* under a daemon that was running when the user asked; and a daemon       *)
(* leaves alone what the user took off the server it has hooked.  (That    *)
(* hooks come back and that failure is seen rests on fairness and is left  *)
(* to TLC.)                                                                *)
(***************************************************************************)
EXTENDS Engine, TLAPS

-----------------------------------------------------------------------------
(* The inductive invariant, in named parts.                                *)

\* osm.service has a process exactly while systemd says so; without one there
\* is nothing the daemon remembers or does.
DaemonLives ==
    /\ daemon.version # 0 <=> units.main \in {"active", "stopping"}
    /\ daemon.version = 0 =>
          daemon = NoDaemon /\ mutator["daemon"] = Quiet /\ ~counting["timer"].open

\* Nobody knows of a server that has not started yet, and no server has no hooks.
Known ==
    /\ server.gen <= started /\ daemon.hooked <= started /\ daemon.read <= started
    /\ server.gen = 0 => server.hooks = Unhooked

Gone == server.hooks = Unhooked \/ server.removal # "whole"

\* A mutation appends only where nothing is marked, unless its removal was cut short.
Turn(a) ==
    /\ mutator[a].step = "appending" =>
          /\ mutator[a].op = "install"
          /\ \A e \in mutator[a].left : server.removal = "cut short" \/ server.hooks[e] = 0
    /\ mutator[a].step = "removed" => mutator[a].op # "install" /\ Gone

\* The lock: one mutation at a time.
LockHeld ==
    /\ ~(Holds("daemon") /\ Holds("user"))
    /\ \A a \in Actors : Turn(a)

\* Where the user's command stands says what it has made sure of.
CommandStands ==
    /\ command.pc = "hooking" <=> mutator["user"].step # "idle"
    /\ command.pc = "hooking" => binary # 0
    /\ command.pc # "idle" /\ command.kind # "install" => binary # 0
    /\ command.pc \in {"probing", "copying"} => command.kind = "install"
    /\ command.pc = "copying" => units.main = "inactive" \/ command.pending
    /\ command.pc = "hooking" /\ command.kind = "uninstall" =>
          units.main = "inactive" /\ mutator["user"].op = "uninstall"
    /\ command.pc = "removing" => units.main = "inactive" /\ Gone

NoBinary == binary = 0 => daemon.version = 0 /\ Gone

\* The daemon registers only with a server it does not take for hooked.
DaemonKnows == mutator["daemon"].step # "idle" /\ Up => server.gen # daemon.hooked

IInv ==
    /\ DaemonLives /\ Known /\ LockHeld /\ CommandStands /\ NoBinary /\ DaemonKnows
    /\ OneHookEach

-----------------------------------------------------------------------------
LEMMA Bounds ==
    /\ Longest \in Nat /\ MaxServers \in Nat /\ MaxCommands \in Nat /\ MaxSpells \in Nat
    /\ MaxFaults \in Nat
    /\ 0 \in 0..Longest /\ 0 \in 0..MaxServers /\ 0 \in 0..MaxCommands /\ 0 \in 0..MaxSpells
    /\ 0 \in 0..MaxFaults /\ 0 \in 0..2
BY EngineAssumption DEF Longest

USE Bounds
DEF Kinds, Steps, Stages, Actors, Counters, Servers, Up, Unhooked, NoServer, NoDaemon, Quiet,
    NoCommand, NotCounting, capturing

(* Types of what the actions put together. *)

LEMMA ConstantTypes ==
    /\ NoServer \in Server /\ NoDaemon \in Daemon /\ Quiet \in Mutator /\ NoCommand \in Command
    /\ NotCounting \in Count
BY DEF Server, Daemon, Mutator, Command, Count

LEMMA FaultType == ASSUME TypeOK, Fault PROVE faults' \in 0..MaxFaults
<1>1. faults \in 0..MaxFaults
  BY DEF TypeOK
<1> QED
  BY ONLY <1>1, Bounds, Fault DEF Fault

LEMMA StreakType ==
    ASSUME TypeOK, NEW streak \in 0..Longest
    PROVE  [health EXCEPT !.streak = streak] \in Health
BY DEF TypeOK, Health

LEMMA NotCountingType ==
    ASSUME TypeOK, NEW c \in Counters
    PROVE  [counting EXCEPT ![c] = NotCounting] \in [Counters -> Count]
BY ConstantTypes DEF TypeOK

LEMMA LoadsType ==
    ASSUME TypeOK, NEW c \in Counters, Loads(c)
    PROVE  counting' \in [Counters -> Count]
<1>1. ASSUME NEW to \in 0..Longest, NEW misread \in BOOLEAN
      PROVE  [counting EXCEPT ![c] = [open |-> TRUE, to |-> to, misread |-> misread]]
                \in [Counters -> Count]
  BY DEF TypeOK, Count
<1>2. ASSUME NEW streak \in 0..Longest
      PROVE  (IF ~health.failing THEN 0 ELSE IF streak < Longest THEN streak + 1 ELSE streak)
                \in 0..Longest
  OBVIOUS
<1>3. health.streak \in 0..Longest
  BY DEF TypeOK, Health
<1>4. Misreads(c) \in BOOLEAN
  BY DEF Misreads
<1> QED
  <2>1. PICK misread \in {FALSE} \union {Misreads(c)} :
           LET streak == IF misread THEN 0 ELSE health.streak
               to == IF ~health.failing THEN 0
                     ELSE IF streak < Longest THEN streak + 1 ELSE streak
           IN  counting' = [counting EXCEPT ![c] = [open |-> TRUE, to |-> to, misread |-> misread]]
    BY DEF Loads
  <2>2. (IF misread THEN 0 ELSE health.streak) \in 0..Longest /\ misread \in BOOLEAN
    BY <1>3, <1>4
  <2> QED
    BY ONLY <1>1, <1>2, <2>1, <2>2

LEMMA StoresType ==
    ASSUME TypeOK, NEW c \in Counters, NEW ok \in BOOLEAN, Stores(c, ok)
    PROVE  health' \in Health /\ counting' \in [Counters -> Count]
<1>1. health.streak \in 0..Longest /\ counting[c].to \in 0..Longest
  BY DEF TypeOK, Health, Count
<1>2. PICK streak \in {health.streak, 0, counting[c].to} :
         health' = [health EXCEPT !.streak = streak]
  BY DEF Stores
<1>3. health' \in Health
  BY <1>1, <1>2, StreakType
<1> QED
  BY <1>3, NotCountingType DEF Stores

LEMMA StoresNothingType ==
    ASSUME TypeOK, NEW c \in Counters, StoresNothing(c)
    PROVE  health' \in Health /\ counting' \in [Counters -> Count]
<1>1. health.streak \in 0..Longest
  BY DEF TypeOK, Health
<1>2. PICK streak \in {health.streak, 0} : health' = [health EXCEPT !.streak = streak]
  BY DEF StoresNothing
<1>3. health' \in Health
  BY <1>1, <1>2, StreakType
<1> QED
  BY <1>3, NotCountingType DEF StoresNothing

LEMMA DeclinesType ==
    ASSUME TypeOK, NEW how \in {"no", "half way", "yes"}, Declines(how)
    PROVE  declined' \in [Servers -> {"no", "half way", "yes"}]
BY DEF TypeOK, Declines

LEMMA GotoType ==
    ASSUME TypeOK, NEW pc \in Stages, Goto(pc)
    PROVE  command' \in Command
BY DEF TypeOK, Goto, Command

LEMMA EndsType == ASSUME Ends PROVE command' \in Command
BY ConstantTypes DEF Ends

LEMMA BegunType ==
    ASSUME TypeOK, NEW a \in Actors, NEW op \in {"install", "uninstall"}
    PROVE  Begun(a, op) \in [Actors -> Mutator]
BY DEF TypeOK, Begun, Mutator, Steps

LEMMA QuietType ==
    ASSUME TypeOK, NEW a \in Actors
    PROVE  [mutator EXCEPT ![a] = Quiet] \in [Actors -> Mutator]
BY ConstantTypes DEF TypeOK

LEMMA StepType ==
    ASSUME TypeOK, NEW a \in Actors, NEW step \in Steps
    PROVE  [mutator EXCEPT ![a].step = step] \in [Actors -> Mutator]
BY DEF TypeOK, Mutator

LEMMA RegisteredType ==
    ASSUME TypeOK, NEW a \in Actors, NEW ok \in BOOLEAN, Registered(a, ok)
    PROVE  server' \in Server /\ mutator' \in [Actors -> Mutator] /\ faults' \in 0..MaxFaults
<1>1. server' \in Server
  <2>1. ASSUME NEW how \in {"cut short", "refused"}
        PROVE  [server EXCEPT !.removal = how] \in Server
    BY DEF TypeOK, Server
  <2> QED
    BY <2>1 DEF TypeOK, Registered
<1>2. faults' \in 0..MaxFaults
  BY FaultType DEF TypeOK, Registered, Refused
<1> QED
  BY <1>1, <1>2, QuietType DEF Registered

LEMMA UnitTypes ==
    ASSUME TypeOK
    PROVE  Stopped(TRUE) \in Units /\ Stopped(FALSE) \in Units /\ Enabled \in Units
<1> USE DEF TypeOK, Units
<1>1. Stopped(TRUE) \in Units /\ Stopped(FALSE) \in Units
  <2>1. ASSUME NEW main \in {"stopping", "inactive"}
        PROVE  [units EXCEPT !.main = main, !.restore = "inactive", !.runs = 0] \in Units
    OBVIOUS
  <2>2. ASSUME NEW main \in {"stopping", "inactive"}
        PROVE  [units EXCEPT !.main = main, !.restore = units.restore, !.runs = units.runs]
                  \in Units
    OBVIOUS
  <2> QED
    BY <2>1, <2>2 DEF Stopped
<1>2. Enabled \in Units
  BY DEF Enabled
<1> QED
  BY <1>1, <1>2

LEMMA TypeNext == ASSUME TypeOK, Next PROVE TypeOK'
<1> USE DEF TypeOK
<1>1. CASE ServerStarts \/ ServerDies
  <2>1. CASE ServerStarts
    <3>1. started + 1 \in 0..MaxServers
      <4>1. started \in 0..MaxServers
        OBVIOUS
      <4> QED
        BY ONLY <2>1, <4>1, Bounds DEF ServerStarts
    <3> QED
      BY <2>1, <3>1 DEF ServerStarts, Server
  <2> QED
    BY <1>1, <2>1, ConstantTypes DEF ServerDies
<1>2. CASE CapturesBreak \/ CapturesWork \/ FileBreaks \/ FileMended
  <2>1. health' \in Health
    <3>1. CASE CapturesBreak
      <4>1. health.spells + 1 \in 0..MaxSpells
        <5>1. health.spells \in 0..MaxSpells
          BY DEF Health
        <5> QED
          BY ONLY <3>1, <5>1, Bounds DEF CapturesBreak
      <4> QED
        BY <3>1, <4>1 DEF CapturesBreak, Health
    <3>2. CASE CapturesWork \/ FileBreaks \/ FileMended
      BY <3>2 DEF CapturesWork, FileBreaks, FileMended, Health
    <3> QED
      BY <1>2, <3>1, <3>2
  <2>2. faults' \in 0..MaxFaults
    BY <1>2, FaultType DEF CapturesBreak, CapturesWork, FileBreaks, FileMended
  <2> QED
    BY <1>2, <2>1, <2>2 DEF CapturesBreak, CapturesWork, FileBreaks, FileMended
<1>2a. CASE HookCaptures \/ HookRecords \/ HookKilled
  <2>1. CASE HookCaptures
    BY <2>1, LoadsType DEF HookCaptures
  <2>2. CASE HookRecords
    BY <2>2, StoresType DEF HookRecords
  <2>3. CASE HookKilled
    BY <2>3, StoresNothingType, FaultType DEF HookKilled
  <2> QED
    BY <1>2a, <2>1, <2>2, <2>3
<1>3. CASE RestoreStarts \/ \E ok \in BOOLEAN : RestoreEnds(ok)
  <2>1. units' \in Units
    <3>1. CASE RestoreStarts
      BY <3>1 DEF RestoreStarts, Units
    <3>2. ASSUME NEW ok \in BOOLEAN, RestoreEnds(ok) PROVE units' \in Units
      <4>1. ASSUME NEW to \in {"exited", "inactive"}
            PROVE  [units EXCEPT !.restore = to, !.runs = 0] \in Units
        BY DEF Units
      <4> QED
        BY <3>2, <4>1 DEF RestoreEnds
    <3> QED
      BY <1>3, <3>1, <3>2
  <2> QED
    BY <1>3, <2>1 DEF RestoreStarts, RestoreEnds
<1>4. CASE MainStarts
  BY <1>4 DEF MainStarts, Units, Daemon
<1>5. CASE MainStops
  <2>1. [units EXCEPT !.main = "inactive"] \in Units
    BY DEF Units
  <2> QED
    BY <1>5, <2>1, StoresNothingType, ConstantTypes, QuietType DEF MainStops, DaemonGone
<1>6. CASE EnsureHooks
  <2>1. /\ [daemon EXCEPT !.hooked = 0] \in Daemon
        /\ [daemon EXCEPT !.read = server.gen] \in Daemon
    BY DEF Daemon, Server
  <2> QED
    BY <1>6, <2>1, BegunType DEF EnsureHooks
<1>6a. CASE TimerCaptures
  BY <1>6a, LoadsType DEF TimerCaptures
<1>7. ASSUME NEW ok \in BOOLEAN, TimerRecords(ok) PROVE TypeOK'
  <2>1. [units EXCEPT !.main = IF @ = "stopping" THEN "inactive" ELSE "restarting"] \in Units
    BY DEF Units
  <2> QED
    BY <1>7, <2>1, StoresType, ConstantTypes, QuietType DEF TimerRecords, DaemonGone
<1>8. ASSUME NEW ok \in BOOLEAN, DaemonRegistered(ok) PROVE TypeOK'
  <2>1. daemon' \in Daemon
    <3>1. [daemon EXCEPT !.hooked = daemon.read, !.read = 0] \in Daemon
      BY DEF Daemon
    <3>2. [daemon EXCEPT !.hooked = daemon.hooked, !.read = 0] \in Daemon
      BY DEF Daemon
    <3> QED
      BY <1>8, <3>1, <3>2 DEF DaemonRegistered, RecordedServer
  <2>2. declined' \in [Servers -> {"no", "half way", "yes"}]
    BY <1>8 DEF DaemonRegistered
  <2> QED
    BY <1>8, <2>1, <2>2, RegisteredType DEF DaemonRegistered
<1>9. ASSUME NEW kind \in Kinds, Types(kind) PROVE TypeOK'
  <2>1. command' \in Command
    BY <1>9 DEF Types, Command
  <2>2. mutator' \in [Actors -> Mutator]
    BY <1>9, BegunType DEF Types
  <2>3. typed' \in 0..MaxCommands
    <3>1. typed \in 0..MaxCommands
      OBVIOUS
    <3> QED
      BY ONLY <1>9, <3>1, Bounds DEF Types
  <2> QED
    BY <1>9, <2>1, <2>2, <2>3 DEF Types
<1>10. CASE Probes
  <2>1. command' \in Command
    BY <1>10, GotoType DEF Probes, Command
  <2> QED
    BY <1>10, <2>1 DEF Probes
<1>11. CASE ProbeLost \/ ConfirmsNothing \/ \E ok \in BOOLEAN : Reloads(ok)
  BY <1>11, EndsType, GotoType DEF ProbeLost, ConfirmsNothing, Reloads
<1>12. ASSUME NEW accepted \in BOOLEAN, NEW taken \in BOOLEAN, StopsUnits(accepted, taken)
       PROVE  TypeOK'
  <2>1. units' \in Units
    BY <1>12, UnitTypes DEF StopsUnits
  <2> QED
    BY <1>12, <2>1, EndsType, GotoType DEF StopsUnits
<1>13. ASSUME NEW accepted \in BOOLEAN, NEW taken \in BOOLEAN, Enables(accepted, taken)
       PROVE  TypeOK'
  <2>1. command' \in Command
    BY <1>13 DEF Enables, Command
  <2> QED
    BY <1>13, <2>1, UnitTypes DEF Enables
<1>14. CASE Confirms \/ Copies
  <2>1. CASE Confirms
    BY <2>1, BegunType, GotoType DEF Confirms
  <2>2. CASE Copies
    <3>1. mutator' \in [Actors -> Mutator]
      BY <2>2, BegunType DEF Copies
    <3>2. command' \in Command
      BY <2>2, GotoType DEF Copies
    <3>3. binary' \in 0..2
      BY ONLY <2>2 DEF Copies
    <3> QED
      BY <2>2, <3>1, <3>2, <3>3 DEF Copies
  <2> QED
    BY <1>14, <2>1, <2>2
<1>15. ASSUME NEW ok \in BOOLEAN, UserRegistered(ok) PROVE TypeOK'
  <2>1. declined' \in [Servers -> {"no", "half way", "yes"}]
    BY <1>15, DeclinesType DEF UserRegistered
  <2>2. command' \in Command
    <3>1. [command EXCEPT !.pc = "removing", !.problem = ~ok] \in Command
      BY DEF Command
    <3> QED
      BY <1>15, <3>1, EndsType, GotoType DEF UserRegistered
  <2> QED
    BY <1>15, <2>1, <2>2, RegisteredType DEF UserRegistered
<1>16. CASE UserInterrupts
  <2>1. declined' \in [Servers -> {"no", "half way", "yes"}]
    BY <1>16, DeclinesType DEF UserInterrupts
  <2> QED
    BY <1>16, <2>1, EndsType, QuietType DEF UserInterrupts
<1>17. CASE RemovesFiles
  BY <1>17 DEF RemovesFiles, Command
<1>18. ASSUME NEW a \in Actors, MutatorStep(a) PROVE TypeOK'
  <2>1. CASE Hold(a)
    BY <2>1, StepType DEF Hold
  <2>4. CASE Removed(a) \/ CutShort(a)
    <3>1. ASSUME NEW how \in {"whole", "cut short"}, RemovalEnds(a, how)
          PROVE  mutator' \in [Actors -> Mutator] /\ server' \in Server
      BY <3>1, StepType DEF RemovalEnds, Server
    <3> QED
      BY <2>4, <3>1, FaultType DEF Removed, CutShort, RemovalEnds
  <2>2. ASSUME NEW e \in Events, Removes(a, e) PROVE TypeOK'
    <3>0. server.hooks \in [Events -> Nat]
      BY DEF Server
    <3>1. server.hooks[e] - 1 \in Nat
      BY ONLY <2>2, <3>0, e \in Events DEF Removes
    <3>2. [server.hooks EXCEPT ![e] = @ - 1] \in [Events -> Nat]
      BY <3>0, <3>1
    <3>3. server' = [server EXCEPT !.hooks = [server.hooks EXCEPT ![e] = @ - 1]]
      BY <2>2 DEF Removes
    <3>4. server' \in Server
      BY <3>2, <3>3 DEF Server
    <3> QED
      BY <2>2, <3>4 DEF Removes
  <2>3. ASSUME NEW e \in Events, Appends(a, e) PROVE TypeOK'
    <3>1. server' \in Server
      <4>0. server.hooks \in [Events -> Nat]
        BY DEF Server
      <4>1. server.hooks[e] + 1 \in Nat
        BY ONLY <4>0, e \in Events
      <4>2. [server.hooks EXCEPT ![e] = @ + 1] \in [Events -> Nat]
        BY <4>0, <4>1
      <4>3. server' = [server EXCEPT !.hooks = [server.hooks EXCEPT ![e] = @ + 1]]
        BY <2>3 DEF Appends
      <4> QED
        BY <4>2, <4>3 DEF Server
    <3>2. mutator' \in [Actors -> Mutator]
      BY <2>3 DEF Appends, Mutator
    <3> QED
      BY <2>3, <3>1, <3>2 DEF Appends
  <2> QED
    BY <1>18, <2>1, <2>2, <2>3, <2>4 DEF MutatorStep
<1> QED
  BY <1>1, <1>2, <1>3, <1>4, <1>5, <1>6, <1>7, <1>8, <1>9, <1>10, <1>11, <1>12, <1>13, <1>14,
     <1>15, <1>16, <1>17, <1>18, <1>2a, <1>6a
  DEF Next, Systemd, DaemonStep, UserStep

LEMMA TypeStutters == ASSUME TypeOK, UNCHANGED vars PROVE TypeOK'
BY DEF TypeOK, vars

\* Every variable keeps its type (Engine's state as the code's files, systemd
\* and tmux have it).
THEOREM EngineTypes == Spec => []TypeOK
<1>1. Init => TypeOK
  BY ConstantTypes DEF Init, TypeOK, Units, Health
<1> QED
  BY <1>1, TypeNext, TypeStutters, PTL DEF Spec

-----------------------------------------------------------------------------
(* The other parts: under each action, those it can disturb. *)

HIDE Bounds

Words ==
    Kinds \union Steps \union Stages
      \union {"none", "uninstall", "whole", "cut short", "refused",
              "inactive", "queued", "active", "stopping", "restarting", "activating", "exited"}

\* What these proofs need of the types: the fields, and which of them are numbers.
Shape ==
    /\ server \in [gen : Nat, hooks : [Events -> Nat], removal : Words]
    /\ started \in Nat
    /\ units \in [main : Words, restore : Words, runs : Nat]
    /\ daemon \in [version : Nat, hooked : Nat, read : Nat]
    /\ mutator \in [Actors -> [op : Words, step : Words, left : SUBSET Events]]
    /\ command \in [kind : Words, pc : Words, pending : BOOLEAN, problem : BOOLEAN,
                    done : BOOLEAN]
    /\ counting \in [Counters -> [open : BOOLEAN, to : Nat, misread : BOOLEAN]]

LEMMA Shapes == ASSUME TypeOK PROVE Shape
<1>1. MaxServers \in Nat /\ Longest \in Nat
  BY Bounds
<1>2. /\ Kinds \union {"none"} \subseteq Words /\ Steps \subseteq Words /\ Stages \subseteq Words
      /\ {"none", "install", "uninstall"} \subseteq Words
      /\ {"whole", "cut short", "refused"} \subseteq Words
      /\ {"inactive", "queued", "active", "stopping", "restarting"} \subseteq Words
      /\ {"inactive", "queued", "activating", "exited"} \subseteq Words
  BY DEF Words
<1>3. server \in [gen : Nat, hooks : [Events -> Nat], removal : Words] /\ started \in Nat
  <2>1. server \in Server /\ started \in 0..MaxServers
    BY DEF TypeOK
  <2>2. {"whole", "cut short", "refused"} \subseteq Words
    BY <1>2
  <2>3. 0..MaxServers \subseteq Nat
    BY ONLY <1>1
  <2> QED
    BY ONLY <2>1, <2>2, <2>3 DEF Server
<1>4. units \in [main : Words, restore : Words, runs : Nat]
  <2>1. units \in Units
    BY DEF TypeOK
  <2>2. /\ {"inactive", "queued", "active", "stopping", "restarting"} \subseteq Words
        /\ {"inactive", "queued", "activating", "exited"} \subseteq Words
    BY <1>2
  <2> QED
    BY ONLY <2>1, <2>2 DEF Units
<1>5. daemon \in [version : Nat, hooked : Nat, read : Nat]
  <2>1. daemon \in Daemon
    BY DEF TypeOK
  <2> QED
    BY ONLY <1>1, <2>1 DEF Daemon
<1>6. mutator \in [Actors -> [op : Words, step : Words, left : SUBSET Events]]
  <2>1. mutator \in [Actors -> Mutator]
    BY DEF TypeOK
  <2> QED
    BY ONLY <1>2, <2>1 DEF Mutator
<1>7. command \in [kind : Words, pc : Words, pending : BOOLEAN, problem : BOOLEAN,
                  done : BOOLEAN]
  <2>1. command \in Command
    BY DEF TypeOK
  <2> QED
    BY ONLY <1>2, <2>1 DEF Command
<1>8. counting \in [Counters -> [open : BOOLEAN, to : Nat, misread : BOOLEAN]]
  <2>1. counting \in [Counters -> Count]
    BY DEF TypeOK
  <2> QED
    BY ONLY <1>1, <2>1 DEF Count
<1> QED
  BY <1>3, <1>4, <1>5, <1>6, <1>7, <1>8 DEF Shape

HIDE DEF Kinds, Steps, Stages
USE DEF Shape, Gone, Turn

LEMMA InitIInv == Init => IInv
BY DEF Init, IInv, DaemonLives, Known, LockHeld, CommandStands, NoBinary, DaemonKnows,
       OneHookEach, Holds

\* Who neither begins nor goes on with a mutation does not disturb the lock.
LEMMA LockKept ==
    ASSUME Shape, LockHeld, NEW a \in Actors,
           server'.hooks = server.hooks,
           \/ server'.removal = server.removal
           \/ server.removal # "cut short" /\ server'.removal = "refused",
           \A b \in Actors \ {a} : mutator'[b] = mutator[b],
           mutator'[a] = mutator[a] \/ mutator'[a].step \in {"idle", "waiting"}
    PROVE  LockHeld'
<1>1. \A b \in Actors : mutator'[b] = mutator[b] \/ mutator'[b].step \in {"idle", "waiting"}
  OBVIOUS
<1>2. ~(Holds("daemon") /\ Holds("user"))'
  BY <1>1 DEF LockHeld, Holds
<1>3. ASSUME NEW b \in Actors PROVE Turn(b)'
  <2>1. CASE mutator'[b] = mutator[b]
    <3>1. Turn(b)
      BY DEF LockHeld
    <3>2. (server.removal = "cut short" => server'.removal = "cut short") /\ (Gone => Gone')
      OBVIOUS
    <3> QED
      BY ONLY <2>1, <3>1, <3>2, server'.hooks = server.hooks DEF Turn
  <2>2. CASE mutator'[b].step \in {"idle", "waiting"}
    BY <2>2
  <2> QED
    BY <1>1, <2>1, <2>2
<1> QED
  BY <1>2, <1>3 DEF LockHeld

LEMMA ServerStartsStep == ASSUME Shape, IInv, ServerStarts PROVE IInv'
<1> USE DEF IInv, ServerStarts
<1>1. Known'
  BY DEF Known
<1>2. LockHeld'
  BY DEF LockHeld, Holds
<1>3. CommandStands'
  BY DEF CommandStands
<1>4. NoBinary'
  BY DEF NoBinary
<1>5. DaemonKnows'
  BY DEF Known, DaemonKnows
<1>6. OneHookEach'
  <2>1. \A e \in Events : server'.hooks[e] <= 1
    OBVIOUS
  <2> QED
    BY ONLY <2>1, Zenon DEF OneHookEach
<1>7. DaemonLives'
  BY DEF DaemonLives
<1> QED
  BY <1>1, <1>2, <1>3, <1>4, <1>5, <1>6, <1>7

LEMMA ServerDiesStep == ASSUME Shape, IInv, ServerDies PROVE IInv'
<1> USE DEF IInv, ServerDies
<1>1. Known'
  BY DEF Known
<1>2. LockHeld'
  BY DEF LockHeld, Holds
<1>3. CommandStands'
  BY DEF CommandStands
<1>4. NoBinary'
  BY DEF NoBinary
<1>5. DaemonKnows'
  BY DEF DaemonKnows
<1>6. OneHookEach'
  <2>1. \A e \in Events : server'.hooks[e] <= 1
    OBVIOUS
  <2> QED
    BY ONLY <2>1, Zenon DEF OneHookEach
<1>7. DaemonLives'
  BY DEF DaemonLives
<1> QED
  BY <1>1, <1>2, <1>3, <1>4, <1>5, <1>6, <1>7

LEMMA HealthsStep ==
    ASSUME Shape, IInv,
           \/ CapturesBreak \/ CapturesWork \/ FileBreaks \/ FileMended
           \/ HookCaptures \/ HookRecords \/ HookKilled \/ TimerCaptures
    PROVE  IInv'
<1>1. UNCHANGED <<server, started, binary, units, daemon, mutator, command, declined>>
  BY DEF CapturesBreak, CapturesWork, FileBreaks, FileMended, HookCaptures, HookRecords,
         HookKilled, TimerCaptures
<1>2. daemon.version = 0 => counting'["timer"] = counting["timer"]
  BY DEF CapturesBreak, CapturesWork, FileBreaks, FileMended, HookCaptures, HookRecords,
         HookKilled, TimerCaptures, Loads, Stores, StoresNothing
<1>3. DaemonLives'
  BY <1>1, <1>2 DEF IInv, DaemonLives
<1>4. Known' /\ LockHeld' /\ CommandStands' /\ NoBinary' /\ DaemonKnows' /\ OneHookEach'
  BY ONLY IInv, <1>1
  DEF IInv, Known, LockHeld, CommandStands, NoBinary, DaemonKnows, OneHookEach, Holds, Gone, Up
<1> QED
  BY <1>3, <1>4 DEF IInv

LEMMA RestoreStep ==
    ASSUME Shape, IInv, RestoreStarts \/ \E ok \in BOOLEAN : RestoreEnds(ok)
    PROVE  IInv'
<1> USE DEF IInv, RestoreStarts, RestoreEnds
<1>1. DaemonLives'
  BY DEF DaemonLives
<1>2. CommandStands'
  BY DEF CommandStands
<1>3. Known' /\ LockHeld' /\ NoBinary' /\ DaemonKnows' /\ OneHookEach'
  <2>1. UNCHANGED <<server, started, binary, daemon, mutator, declined>>
    OBVIOUS
  <2> QED
    BY ONLY IInv, <2>1 DEF IInv, Known, LockHeld, NoBinary, DaemonKnows, OneHookEach, Holds, Gone, Up
<1> QED
  BY <1>1, <1>2, <1>3

LEMMA MainStartsStep == ASSUME Shape, IInv, MainStarts PROVE IInv'
<1> USE DEF IInv, MainStarts, RestoreRuns
<1>1. DaemonLives'
  BY DEF DaemonLives
<1>2. Known'
  BY DEF Known
<1>3. CommandStands'
  BY DEF CommandStands
<1>4. NoBinary'
  BY DEF NoBinary
<1>5. DaemonKnows'
  BY DEF DaemonLives, DaemonKnows
<1>6. LockHeld' /\ OneHookEach'
  BY DEF LockHeld, OneHookEach, Holds
<1> QED
  BY <1>1, <1>2, <1>3, <1>4, <1>5, <1>6

LEMMA MainStopsStep == ASSUME Shape, IInv, MainStops PROVE IInv'
<1> USE DEF IInv, MainStops, DaemonGone, StoresNothing
<1>1. DaemonLives'
  BY DEF DaemonLives
<1>2. Known'
  BY DEF Known
<1>3. LockHeld'
  <2>1. \A b \in Actors \ {"daemon"} : mutator'[b] = mutator[b]
    OBVIOUS
  <2>2. mutator'["daemon"] = mutator["daemon"] \/ mutator'["daemon"].step \in {"idle", "waiting"}
    OBVIOUS
  <2>3. /\ server'.hooks = server.hooks
        /\ \/ server'.removal = server.removal
           \/ server.removal # "cut short" /\ server'.removal = "refused"
    OBVIOUS
  <2> QED
    BY <2>1, <2>2, <2>3, LockKept
<1>4. CommandStands'
  BY DEF CommandStands
<1>5. NoBinary'
  BY DEF NoBinary
<1>6. DaemonKnows'
  BY DEF DaemonKnows
<1>7. OneHookEach'
  BY DEF OneHookEach
<1> QED
  BY <1>1, <1>2, <1>3, <1>4, <1>5, <1>6, <1>7

LEMMA EnsureHooksStep == ASSUME Shape, IInv, EnsureHooks PROVE IInv'
<1> USE DEF IInv, EnsureHooks, Begun, Unknown
<1>1. DaemonLives'
  BY DEF DaemonLives
<1>2. Known'
  BY DEF Known
<1>3. LockHeld'
  <2>1. \A b \in Actors \ {"daemon"} : mutator'[b] = mutator[b]
    OBVIOUS
  <2>2. mutator'["daemon"] = mutator["daemon"] \/ mutator'["daemon"].step \in {"idle", "waiting"}
    OBVIOUS
  <2>3. /\ server'.hooks = server.hooks
        /\ \/ server'.removal = server.removal
           \/ server.removal # "cut short" /\ server'.removal = "refused"
    OBVIOUS
  <2> QED
    BY <2>1, <2>2, <2>3, LockKept
<1>4. CommandStands'
  BY DEF CommandStands
<1>5. NoBinary'
  BY DEF NoBinary
<1>6. DaemonKnows'
  BY DEF DaemonKnows
<1>7. OneHookEach'
  BY DEF OneHookEach
<1> QED
  BY <1>1, <1>2, <1>3, <1>4, <1>5, <1>6, <1>7

LEMMA TimerRecordsStep ==
    ASSUME Shape, IInv, NEW ok \in BOOLEAN, TimerRecords(ok)
    PROVE  IInv'
<1> USE DEF IInv, TimerRecords, DaemonGone, Stores
<1>0. units.main \in {"active", "stopping"} /\ ~counting'["timer"].open
  BY DEF DaemonLives
<1>1. DaemonLives'
  <2>1. CASE GivesUp(ok)
    <3>1. units'.main \in {"inactive", "restarting"}
      BY <2>1
    <3>2. daemon' = NoDaemon /\ mutator'["daemon"] = Quiet
      BY <2>1
    <3> QED
      BY ONLY <1>0, <3>1, <3>2 DEF DaemonLives, NoDaemon
  <2>2. CASE ~GivesUp(ok)
    BY <1>0, <2>2 DEF DaemonLives
  <2> QED
    BY <2>1, <2>2
<1>2. Known'
  BY DEF Known
<1>3. LockHeld'
  <2>1. \A b \in Actors \ {"daemon"} : mutator'[b] = mutator[b]
    OBVIOUS
  <2>2. mutator'["daemon"] = mutator["daemon"] \/ mutator'["daemon"].step \in {"idle", "waiting"}
    OBVIOUS
  <2>3. /\ server'.hooks = server.hooks
        /\ \/ server'.removal = server.removal
           \/ server.removal # "cut short" /\ server'.removal = "refused"
    OBVIOUS
  <2> QED
    BY <2>1, <2>2, <2>3, LockKept
<1>4. CommandStands'
  BY <1>0 DEF CommandStands
<1>5. NoBinary'
  BY DEF NoBinary
<1>6. DaemonKnows'
  BY DEF DaemonKnows
<1>7. OneHookEach'
  BY DEF OneHookEach
<1> QED
  BY <1>1, <1>2, <1>3, <1>4, <1>5, <1>6, <1>7

LEMMA DaemonRegisteredStep ==
    ASSUME Shape, IInv, NEW ok \in BOOLEAN, DaemonRegistered(ok)
    PROVE  IInv'
<1> USE DEF IInv, DaemonRegistered, Registered, RecordedServer
<1>0. mutator["daemon"].step # "idle" /\ daemon.version # 0
  <2>1. Succeeds("daemon") \/ Fails("daemon") \/ Refused("daemon")
    OBVIOUS
  <2>2. mutator["daemon"].step # "idle"
    BY ONLY <2>1 DEF Succeeds, Fails, Refused
  <2> QED
    BY ONLY <2>2, DaemonLives DEF DaemonLives, Quiet
<1>1. DaemonLives'
  BY <1>0 DEF DaemonLives
<1>2. Known'
  <2>1. /\ server'.gen = server.gen /\ server'.hooks = server.hooks /\ started' = started
        /\ daemon'.read = 0
        /\ daemon'.hooked = daemon.read \/ daemon'.hooked = daemon.hooked
    OBVIOUS
  <2> QED
    BY ONLY <2>1, Known, started \in Nat DEF Known
<1>3. LockHeld'
  <2>1. \A b \in Actors \ {"daemon"} : mutator'[b] = mutator[b]
    OBVIOUS
  <2>2. mutator'["daemon"] = mutator["daemon"] \/ mutator'["daemon"].step \in {"idle", "waiting"}
    OBVIOUS
  <2>3. /\ server'.hooks = server.hooks
        /\ \/ server'.removal = server.removal
           \/ server.removal # "cut short" /\ server'.removal = "refused"
    OBVIOUS
  <2> QED
    BY <2>1, <2>2, <2>3, LockKept
<1>4. CommandStands'
  BY DEF CommandStands
<1>5. NoBinary'
  BY DEF NoBinary
<1>6. DaemonKnows'
  BY <1>0 DEF DaemonLives, DaemonKnows
<1>7. OneHookEach'
  BY DEF OneHookEach
<1> QED
  BY <1>1, <1>2, <1>3, <1>4, <1>5, <1>6, <1>7

LEMMA TypesStep == ASSUME Shape, IInv, NEW kind \in Kinds, Types(kind) PROVE IInv'
<1> USE DEF IInv, Types, Begun
<1>1. DaemonLives'
  BY DEF DaemonLives
<1>2. LockHeld'
  <2>1. \A b \in Actors \ {"user"} : mutator'[b] = mutator[b]
    OBVIOUS
  <2>2. mutator'["user"] = mutator["user"] \/ mutator'["user"].step \in {"idle", "waiting"}
    OBVIOUS
  <2>3. /\ server'.hooks = server.hooks
        /\ \/ server'.removal = server.removal
           \/ server.removal # "cut short" /\ server'.removal = "refused"
    OBVIOUS
  <2> QED
    BY <2>1, <2>2, <2>3, LockKept
<1>3. CommandStands'
  BY DEF CommandStands, Kinds
<1>4. DaemonKnows'
  BY DEF DaemonKnows
<1>5. Known' /\ NoBinary' /\ OneHookEach'
  BY DEF Known, NoBinary, OneHookEach
<1> QED
  BY <1>1, <1>2, <1>3, <1>4, <1>5

LEMMA ProbesStep == ASSUME Shape, IInv, Probes \/ ProbeLost \/ ConfirmsNothing PROVE IInv'
<1> USE DEF IInv, Probes, ProbeLost, ConfirmsNothing, Goto, Ends
<1>1. CommandStands'
  <2>1. CASE Probes
    BY <2>1 DEF CommandStands
  <2>2. CASE ProbeLost \/ ConfirmsNothing
    BY <2>2 DEF CommandStands
  <2> QED
    BY <2>1, <2>2
<1>2. DaemonLives' /\ Known' /\ LockHeld' /\ NoBinary' /\ DaemonKnows' /\ OneHookEach'
  BY DEF DaemonLives, Known, LockHeld, NoBinary, DaemonKnows, OneHookEach, Holds
<1> QED
  BY <1>1, <1>2

LEMMA StopsUnitsStep ==
    ASSUME Shape, IInv, NEW accepted \in BOOLEAN, NEW taken \in BOOLEAN,
           StopsUnits(accepted, taken)
    PROVE  IInv'
<1> USE DEF IInv, StopsUnits, Stopped, Goto, Ends
<1>1. DaemonLives'
  BY DEF DaemonLives
<1>2. CommandStands'
  BY DEF CommandStands
<1>3. Known' /\ LockHeld' /\ NoBinary' /\ DaemonKnows' /\ OneHookEach'
  BY DEF Known, LockHeld, NoBinary, DaemonKnows, OneHookEach, Holds
<1> QED
  BY <1>1, <1>2, <1>3

LEMMA EnablesStep ==
    ASSUME Shape, IInv, NEW accepted \in BOOLEAN, NEW taken \in BOOLEAN, Enables(accepted, taken)
    PROVE  IInv'
<1> USE DEF IInv, Enables, Enabled
<1>1. DaemonLives'
  BY DEF DaemonLives
<1>2. CommandStands'
  BY DEF CommandStands
<1>3. Known' /\ LockHeld' /\ NoBinary' /\ DaemonKnows' /\ OneHookEach'
  BY DEF Known, LockHeld, NoBinary, DaemonKnows, OneHookEach, Holds
<1> QED
  BY <1>1, <1>2, <1>3

LEMMA ConfirmsStep == ASSUME Shape, IInv, Confirms PROVE IInv'
<1> USE DEF IInv, Confirms, Inactive, Goto, Begun
<1>1. DaemonLives'
  BY DEF DaemonLives
<1>2. LockHeld'
  <2>1. \A b \in Actors \ {"user"} : mutator'[b] = mutator[b]
    OBVIOUS
  <2>2. mutator'["user"] = mutator["user"] \/ mutator'["user"].step \in {"idle", "waiting"}
    OBVIOUS
  <2>3. /\ server'.hooks = server.hooks
        /\ \/ server'.removal = server.removal
           \/ server.removal # "cut short" /\ server'.removal = "refused"
    OBVIOUS
  <2> QED
    BY <2>1, <2>2, <2>3, LockKept
<1>3. CommandStands'
  BY DEF CommandStands
<1>4. DaemonKnows'
  BY DEF DaemonKnows
<1>5. Known' /\ NoBinary' /\ OneHookEach'
  BY DEF Known, NoBinary, OneHookEach
<1> QED
  BY <1>1, <1>2, <1>3, <1>4, <1>5

LEMMA CopiesStep == ASSUME Shape, IInv, Copies PROVE IInv'
<1> USE DEF IInv, Copies, Goto, Begun
<1>1. DaemonLives'
  BY DEF DaemonLives
<1>2. LockHeld'
  <2>1. \A b \in Actors \ {"user"} : mutator'[b] = mutator[b]
    OBVIOUS
  <2>2. mutator'["user"] = mutator["user"] \/ mutator'["user"].step \in {"idle", "waiting"}
    OBVIOUS
  <2>3. /\ server'.hooks = server.hooks
        /\ \/ server'.removal = server.removal
           \/ server.removal # "cut short" /\ server'.removal = "refused"
    OBVIOUS
  <2> QED
    BY <2>1, <2>2, <2>3, LockKept
<1>3. CommandStands'
  <2>1. binary' # 0
    OBVIOUS
  <2>2. CASE Up
    BY <2>1, <2>2 DEF CommandStands
  <2>3. CASE ~Up
    BY <2>1, <2>3 DEF CommandStands
  <2> QED
    BY <2>2, <2>3
<1>4. NoBinary'
  BY DEF NoBinary
<1>5. DaemonKnows'
  BY DEF DaemonKnows
<1>6. Known' /\ OneHookEach'
  BY DEF Known, OneHookEach
<1> QED
  BY <1>1, <1>2, <1>3, <1>4, <1>5, <1>6

LEMMA UserRegisteredStep ==
    ASSUME Shape, IInv, NEW ok \in BOOLEAN, UserRegistered(ok)
    PROVE  IInv'
<1> USE DEF IInv, UserRegistered, Registered, Goto, Ends
<1>0. /\ mutator["user"].step # "idle"
      /\ mutator' = [mutator EXCEPT !["user"] = Quiet]
      /\ server'.hooks = server.hooks /\ server'.gen = server.gen
      /\ server'.removal # server.removal =>
            server.removal # "cut short" /\ server'.removal # "whole"
  BY DEF Succeeds, Fails, Refused
<1>0a. /\ mutator'["user"].step = "idle" /\ UNCHANGED <<binary, units>>
      /\ IF command.kind = "uninstall"
         THEN command'.kind = "uninstall" /\ command'.pc = "removing"
         ELSE \/ command.kind = "install" /\ command'.kind = "install" /\ command'.pc = "reloading"
              \/ command'.kind = "none" /\ command'.pc = "idle"
  <2>1. CASE command.kind = "uninstall"
    BY <2>1
  <2>2. CASE command.kind = "install" /\ ok
    BY <2>2
  <2>3. CASE command.kind # "uninstall" /\ ~(command.kind = "install" /\ ok)
    <3>1. command' = NoCommand
      BY ONLY <2>3, UserRegistered(ok) DEF UserRegistered, Ends
    <3> QED
      BY <2>3, <3>1
  <2> QED
    BY <2>1, <2>2, <2>3
<1>1. DaemonLives'
  BY <1>0 DEF DaemonLives
<1>2. Known'
  BY <1>0 DEF Known
<1>3. LockHeld'
  <2>1. \A b \in Actors \ {"user"} : mutator'[b] = mutator[b]
    OBVIOUS
  <2>2. mutator'["user"] = mutator["user"] \/ mutator'["user"].step \in {"idle", "waiting"}
    OBVIOUS
  <2>3. /\ server'.hooks = server.hooks
        /\ \/ server'.removal = server.removal
           \/ server.removal # "cut short" /\ server'.removal = "refused"
    OBVIOUS
  <2> QED
    BY <2>1, <2>2, <2>3, LockKept
<1>4. CommandStands'
  <2>1. command.pc = "hooking" /\ binary # 0
    BY <1>0 DEF CommandStands
  <2>2. CASE command.kind = "uninstall"
    <3>2. Gone'
      <4>1. CASE ok
        <5>1. mutator["user"].op = "uninstall"
          BY <2>1, <2>2 DEF CommandStands
        <5>2. mutator["user"].step = "removed"
          BY <4>1, <5>1 DEF Succeeds, LockHeld
        <5> QED
          BY <1>0, <5>2 DEF LockHeld
      <4>2. CASE ~ok
        <5>1. mutator["user"].op = "uninstall"
          BY <2>1, <2>2 DEF CommandStands
        <5> QED
          BY <1>0, <4>2, <5>1 DEF Known
      <4> QED
        BY <4>1, <4>2
    <3>3. units'.main = "inactive" /\ binary' # 0
      BY <2>1, <2>2 DEF CommandStands
    <3> QED
      BY ONLY <1>0a, <2>2, <3>2, <3>3 DEF CommandStands, Gone
  <2>3. CASE command.kind # "uninstall"
    BY ONLY <1>0a, <2>1, <2>3 DEF CommandStands
  <2> QED
    BY <2>2, <2>3
<1>5. DaemonKnows'
  BY <1>0 DEF DaemonKnows
<1>6. NoBinary' /\ OneHookEach'
  BY <1>0 DEF NoBinary, OneHookEach
<1> QED
  BY <1>1, <1>2, <1>3, <1>4, <1>5, <1>6

LEMMA UserInterruptsStep == ASSUME Shape, IInv, UserInterrupts PROVE IInv'
<1> USE DEF IInv, UserInterrupts, Ends
<1>1. DaemonLives'
  BY DEF DaemonLives
<1>2. Known'
  BY DEF Known
<1>3. LockHeld'
  <2>1. \A b \in Actors \ {"user"} : mutator'[b] = mutator[b]
    OBVIOUS
  <2>2. mutator'["user"] = mutator["user"] \/ mutator'["user"].step \in {"idle", "waiting"}
    OBVIOUS
  <2>3. /\ server'.hooks = server.hooks
        /\ \/ server'.removal = server.removal
           \/ server.removal # "cut short" /\ server'.removal = "refused"
    OBVIOUS
  <2> QED
    BY <2>1, <2>2, <2>3, LockKept
<1>4. CommandStands'
  BY DEF CommandStands
<1>5. DaemonKnows'
  BY DEF DaemonKnows
<1>6. NoBinary' /\ OneHookEach'
  BY DEF NoBinary, OneHookEach
<1> QED
  BY <1>1, <1>2, <1>3, <1>4, <1>5, <1>6

LEMMA ReloadsStep == ASSUME Shape, IInv, NEW ok \in BOOLEAN, Reloads(ok) PROVE IInv'
<1> USE DEF IInv, Reloads, Goto, Ends
<1>1. CommandStands'
  BY DEF CommandStands
<1>2. DaemonLives' /\ Known' /\ LockHeld' /\ NoBinary' /\ DaemonKnows' /\ OneHookEach'
  BY DEF DaemonLives, Known, LockHeld, NoBinary, DaemonKnows, OneHookEach, Holds
<1> QED
  BY <1>1, <1>2

LEMMA RemovesFilesStep == ASSUME Shape, IInv, RemovesFiles PROVE IInv'
<1> USE DEF IInv, RemovesFiles, Ends
<1>1. CommandStands'
  BY DEF CommandStands
<1>2. NoBinary'
  BY DEF NoBinary, DaemonLives, CommandStands
<1>3. DaemonLives' /\ Known' /\ LockHeld' /\ DaemonKnows' /\ OneHookEach'
  BY DEF DaemonLives, Known, LockHeld, DaemonKnows, OneHookEach, Holds
<1> QED
  BY <1>1, <1>2, <1>3

LEMMA HoldStep == ASSUME Shape, IInv, NEW a \in Actors, Hold(a) PROVE IInv'
<1>1. DaemonLives'
  <2>1. /\ mutator' = [mutator EXCEPT ![a].step = "removing"]
        /\ UNCHANGED <<units, daemon, counting>>
        /\ mutator[a] # Quiet
    BY DEF Hold, Quiet
  <2>2. CASE a = "daemon"
    BY <2>1, <2>2 DEF IInv, DaemonLives
  <2>3. CASE a # "daemon"
    <3>1. mutator'["daemon"] = mutator["daemon"]
      BY <2>1, <2>3
    <3> QED
      BY <2>1, <3>1 DEF IInv, DaemonLives
  <2> QED
    BY <2>2, <2>3
<1> USE DEF IInv, Hold, Holds
<1>2. LockHeld'
  BY DEF LockHeld
<1>3. CommandStands'
  BY DEF CommandStands
<1>4. DaemonKnows'
  BY DEF DaemonKnows
<1>5. Known' /\ NoBinary' /\ OneHookEach'
  BY DEF Known, NoBinary, OneHookEach
<1> QED
  BY <1>1, <1>2, <1>3, <1>4, <1>5

LEMMA RemovalEndsStep ==
    ASSUME Shape, IInv, NEW a \in Actors, Removed(a) \/ CutShort(a)
    PROVE  IInv'
<1> USE DEF IInv, Holds
<1>0. /\ mutator[a].step = "removing"
      /\ server'.hooks = server.hooks /\ server'.gen = server.gen
      /\ server'.removal = "cut short" \/ server.hooks = Unhooked
      /\ UNCHANGED <<started, binary, units, daemon, command, counting>>
      /\ \A b \in Actors \ {a} : mutator'[b] = mutator[b]
      /\ mutator'[a].op = mutator[a].op /\ mutator'[a].left = mutator[a].left
      /\ mutator'[a].step = IF mutator[a].op = "install" THEN "appending" ELSE "removed"
  <2>1. ASSUME NEW how \in Words, RemovalEnds(a, how)
        PROVE  /\ server'.hooks = server.hooks /\ server'.gen = server.gen
               /\ server'.removal = how
               /\ UNCHANGED <<started, binary, units, daemon, command, counting>>
               /\ \A b \in Actors \ {a} : mutator'[b] = mutator[b]
               /\ mutator'[a].op = mutator[a].op /\ mutator'[a].left = mutator[a].left
               /\ mutator'[a].step = IF mutator[a].op = "install" THEN "appending" ELSE "removed"
    BY <2>1 DEF RemovalEnds
  <2>2. "whole" \in Words /\ "cut short" \in Words
    BY DEF Words
  <2> QED
    BY <2>1, <2>2 DEF Removed, CutShort
<1>0a. Gone'
  BY ONLY <1>0 DEF Gone
<1>1. DaemonLives'
  <2>1. CASE a = "daemon"
    <3>0. mutator["daemon"].step = "removing"
      BY ONLY <1>0, <2>1
    <3>1. daemon.version # 0
      BY ONLY <3>0, DaemonLives DEF DaemonLives, Quiet
    <3> QED
      BY ONLY <1>0, <3>1, DaemonLives DEF DaemonLives
  <2>2. CASE a = "user"
    BY ONLY <1>0, <2>2, DaemonLives DEF DaemonLives, Actors
  <2> QED
    BY <2>1, <2>2
<1>2. LockHeld'
  <2>2. \A b \in Actors \ {a} : ~Holds(b) /\ ~Holds(b)'
    BY <1>0 DEF LockHeld
  <2>3. ASSUME NEW b \in Actors \ {a} PROVE Turn(b)'
    BY <2>2
  <2>4. Turn(a)'
    BY ONLY <1>0, <1>0a, a \in Actors, mutator[a].left \subseteq Events DEF Turn, Unhooked
  <2>5. ~(Holds("daemon") /\ Holds("user"))'
    BY <2>2
  <2> QED
    BY <2>3, <2>4, <2>5 DEF LockHeld
<1>3. CommandStands'
  <2>1. \A b \in Actors : (mutator'[b].step = "idle" <=> mutator[b].step = "idle")
                          /\ mutator'[b].op = mutator[b].op
    BY ONLY <1>0
  <2> QED
    BY ONLY <1>0, <1>0a, <2>1, CommandStands DEF CommandStands, Actors
<1>4. DaemonKnows'
  BY <1>0 DEF DaemonKnows
<1>5. Known' /\ NoBinary'
  BY ONLY <1>0, <1>0a, Known, NoBinary DEF Known, NoBinary
<1>6. OneHookEach'
  <2>1. server'.removal = "cut short" \/ \A e \in Events : server.hooks[e] = 0
    BY ONLY <1>0 DEF Unhooked
  <2>2. ASSUME NEW e \in Events, server.hooks[e] = 0 PROVE server.hooks[e] <= 1
    BY ONLY <2>2
  <2> QED
    BY ONLY <1>0, <2>1, <2>2, Zenon DEF OneHookEach
<1> QED
  BY <1>1, <1>2, <1>3, <1>4, <1>5, <1>6

LEMMA RemovesStep ==
    ASSUME Shape, IInv, NEW a \in Actors, NEW e \in Events, Removes(a, e)
    PROVE  IInv'
<1> USE DEF IInv, Removes
<1>1. Known'
  BY DEF Known
<1>2. LockHeld'
  BY DEF LockHeld, Holds
<1>3. CommandStands'
  BY DEF CommandStands
<1>4. NoBinary'
  BY DEF NoBinary
<1>5. DaemonKnows'
  BY DEF DaemonKnows
<1>6. OneHookEach'
  <2>1. /\ server'.removal = server.removal
        /\ server.hooks \in [Events -> Nat]
        /\ server'.hooks = [server.hooks EXCEPT ![e] = server.hooks[e] - 1]
    OBVIOUS
  <2>2. ASSUME NEW x \in Events, server.hooks[x] <= 1 PROVE server'.hooks[x] <= 1
    BY ONLY <2>1, <2>2
  <2> QED
    BY ONLY <2>1, <2>2, OneHookEach, Zenon DEF OneHookEach
<1>7. DaemonLives'
  BY DEF DaemonLives
<1> QED
  BY <1>1, <1>2, <1>3, <1>4, <1>5, <1>6, <1>7

LEMMA AppendsStep ==
    ASSUME Shape, IInv, NEW a \in Actors, NEW e \in Events, Appends(a, e)
    PROVE  IInv'
<1> USE DEF IInv, Appends, Holds
<1>0. /\ server' = [server EXCEPT !.hooks = [server.hooks EXCEPT ![e] = server.hooks[e] + 1]]
      /\ server.removal = "cut short" \/ server.hooks[e] = 0
  <2>1. mutator[a].step = "appending" /\ e \in mutator[a].left /\ Turn(a)
    BY DEF LockHeld
  <2>2. server.removal = "cut short" \/ server.hooks[e] = 0
    BY ONLY <2>1 DEF Turn
  <2> QED
    BY <2>2
<1>1. DaemonLives'
  <2>1. CASE a = "daemon"
    BY <2>1 DEF DaemonLives
  <2>2. CASE a = "user"
    BY <2>2 DEF DaemonLives
  <2> QED
    BY <2>1, <2>2
<1>2. Known'
  BY DEF Known
<1>3. LockHeld'
  BY DEF LockHeld
<1>4. CommandStands'
  <2>1. /\ UNCHANGED <<binary, units, command>>
        /\ \A b \in Actors : mutator'[b].step = mutator[b].step /\ mutator'[b].op = mutator[b].op
    OBVIOUS
  <2>2. command.pc # "removing"
    <3>1. a = "user" => command.pc = "hooking"
      BY DEF CommandStands
    <3>2. a = "daemon" => units.main # "inactive"
      BY DEF DaemonLives
    <3> QED
      BY <3>1, <3>2 DEF CommandStands
  <2> QED
    BY ONLY <2>1, <2>2, CommandStands DEF CommandStands, Actors
<1>5. NoBinary'
  BY DEF NoBinary, DaemonLives, CommandStands
<1>6. DaemonKnows'
  BY DEF DaemonKnows
<1>7. OneHookEach'
  <2>1. server.hooks \in [Events -> Nat]
    OBVIOUS
  <2>2. /\ server'.removal = server.removal
        /\ server'.hooks = [server.hooks EXCEPT ![e] = server.hooks[e] + 1]
    BY <1>0
  <2>3. ASSUME NEW x \in Events, server.hooks[x] <= 1, server.hooks[e] = 0
        PROVE  server'.hooks[x] <= 1
    BY ONLY <2>1, <2>2, <2>3, e \in Events
  <2> QED
    BY ONLY <1>0, <2>2, <2>3, OneHookEach, Zenon DEF OneHookEach
<1> QED
  BY <1>1, <1>2, <1>3, <1>4, <1>5, <1>6, <1>7

LEMMA NextIInv == ASSUME Shape, IInv, Next PROVE IInv'
<1>1. CASE Systemd
  BY <1>1, RestoreStep, MainStartsStep, MainStopsStep DEF Systemd
<1>2. CASE DaemonStep
  BY <1>2, EnsureHooksStep, HealthsStep, TimerRecordsStep, DaemonRegisteredStep DEF DaemonStep
<1>3. CASE UserStep
  BY <1>3, TypesStep, ProbesStep, StopsUnitsStep, EnablesStep, ConfirmsStep, CopiesStep,
     UserRegisteredStep, UserInterruptsStep, ReloadsStep, RemovesFilesStep
  DEF UserStep
<1>4. ASSUME NEW a \in Actors, MutatorStep(a) PROVE IInv'
  BY <1>4, HoldStep, RemovalEndsStep, RemovesStep, AppendsStep DEF MutatorStep
<1> QED
  BY <1>1, <1>2, <1>3, <1>4, ServerStartsStep, ServerDiesStep, HealthsStep DEF Next

LEMMA StutterIInv == ASSUME IInv, UNCHANGED vars PROVE IInv'
BY DEF vars, IInv, DaemonLives, Known, LockHeld, CommandStands, NoBinary, DaemonKnows,
       OneHookEach, Holds

LEMMA Invariant == Spec => [](TypeOK /\ IInv)
<1>1. TypeOK /\ IInv /\ [Next]_vars => IInv'
  BY Shapes, NextIInv, StutterIInv
<1> QED
  BY <1>1, EngineTypes, InitIInv, PTL DEF Spec

-----------------------------------------------------------------------------
\* Whatever is installed, started, killed, refused and interrupted in whatever
\* order, no tmux event has two of osm's hooks, unless the last removal on that
\* server was cut short (hooks.rs install: the lock, and the removal before the
\* append).
THEOREM OneHookEachHolds == Spec => []OneHookEach
<1>1. IInv => OneHookEach
  BY DEF IInv
<1> QED
  BY <1>1, Invariant, PTL

\* Where no osm is installed a server carries a hook that would run it only if
\* its last removal was refused or cut short (main.rs Uninstall: units stopped,
\* then hooks, then files).
THEOREM NoHookWithoutBinaryHolds == Spec => []NoHookWithoutBinary
<1>1. IInv => NoHookWithoutBinary
  BY DEF IInv, NoBinary, NoHookWithoutBinary
<1> QED
  BY <1>1, Invariant, PTL

-----------------------------------------------------------------------------
(* What a step may not do. *)

\* Only Copies and RemovesFiles touch the binary, and both come after the unit
\* was seen inactive, or queued when the install asked.
LEMMA BinaryStep ==
    ASSUME Shape, IInv, [Next]_vars, binary' # binary
    PROVE  daemon.version = 0 \/ command.pending
<1>1. Copies \/ RemovesFiles
  BY DEF Next, vars, ServerStarts, ServerDies, CapturesBreak, CapturesWork, FileBreaks,
         FileMended, HookCaptures, HookRecords, HookKilled, Systemd, RestoreStarts, RestoreEnds,
         MainStarts, MainStops, DaemonStep, EnsureHooks, TimerCaptures, TimerRecords,
         DaemonRegistered, UserStep, Types, Probes, ProbeLost, StopsUnits, Enables, Confirms,
         ConfirmsNothing, UserRegistered, Reloads, UserInterrupts, MutatorStep, Hold, Removed,
         CutShort, RemovalEnds, Removes, Appends
<1>2. CASE Copies
  BY <1>2 DEF Copies, IInv, CommandStands, DaemonLives
<1>3. CASE RemovesFiles
  BY <1>3 DEF RemovesFiles, IInv, CommandStands, DaemonLives
<1> QED
  BY <1>1, <1>2, <1>3

\* The binary is neither replaced nor deleted under a daemon that runs, unless
\* its start was queued when the install asked (main.rs stop_units).
THEOREM NotUnderneathHolds == Spec => NotUnderneath
<1>1. TypeOK /\ IInv /\ [Next]_vars =>
         [binary' # binary => daemon.version = 0 \/ command.pending]_vars
  BY Shapes, BinaryStep
<1> QED
  BY <1>1, Invariant, PTL DEF Spec, NotUnderneath

\* A hook more on the same server is an Appends step.
LEMMA HookStep ==
    ASSUME Shape, IInv, [Next]_vars, HooksGrow
    PROVE  \E a \in Actors, x \in Events : Appends(a, x)
<1>1. PICK e \in Events : server'.gen = server.gen /\ server'.hooks[e] > server.hooks[e]
  BY DEF HooksGrow
<1>2. server'.hooks # server.hooks
  BY <1>1
<1>3. ~ServerStarts /\ ~ServerDies
  BY <1>1 DEF ServerStarts, ServerDies
<1>4. ASSUME NEW a \in Actors, NEW x \in Events, Removes(a, x) PROVE FALSE
  BY <1>1, <1>4 DEF Removes
<1>5. ASSUME NEW a \in Actors, NEW ok \in BOOLEAN, Registered(a, ok) PROVE FALSE
  BY <1>2, <1>5 DEF Registered
<1>6. ASSUME NEW a \in Actors, Removed(a) \/ CutShort(a) PROVE FALSE
  BY <1>2, <1>6 DEF Removed, CutShort, RemovalEnds
<1>7. CASE \E a \in Actors : MutatorStep(a)
  BY <1>2, <1>4, <1>6, <1>7 DEF MutatorStep, Hold
<1> QED
  BY <1>2, <1>3, <1>5, <1>7
  DEF Next, vars, CapturesBreak, CapturesWork, FileBreaks, FileMended, HookCaptures, HookRecords,
      HookKilled, Systemd, RestoreStarts, RestoreEnds, MainStarts, MainStops, DaemonStep,
      EnsureHooks, TimerCaptures, TimerRecords, DaemonRegistered, UserStep, Types, Probes,
      ProbeLost, StopsUnits, Enables, Confirms, ConfirmsNothing, Copies, RemovesFiles,
      UserRegistered, Reloads, UserInterrupts

\* While the daemon that hooked a server runs, whoever adds a hook to that server
\* is the user (main.rs ensure_hooks).  A daemon that starts is not bound by it.
THEOREM DecisionKeptHolds == Spec => DecisionKept
<1>1. ASSUME Shape, IInv, [Next]_vars, Up, InForce(server.gen), HooksGrow
      PROVE  Holds("user")
  <2>1. PICK a \in Actors, x \in Events : Appends(a, x)
    BY <1>1, HookStep
  <2>2. mutator["daemon"].step = "idle"
    BY <1>1 DEF IInv, DaemonKnows, InForce
  <2> QED
    BY <2>1, <2>2 DEF Appends, Holds
<1>2. TypeOK /\ IInv /\ [Next]_vars =>
         [Up /\ InForce(server.gen) /\ HooksGrow => Holds("user")]_vars
  BY <1>1, Shapes
<1> QED
  BY <1>2, Invariant, PTL DEF Spec, DecisionKept
=============================================================================
