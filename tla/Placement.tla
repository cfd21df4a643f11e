----------------------------- MODULE Placement -----------------------------
(***************************************************************************)
(* desktop.rs and the placement half of restore.rs: every delivered        *)
(* session gets a terminal back, spawned, found by its process, moved,     *)
(* read back and seen to attach, and the source snapshot is retired only   *)
(* into a snapshot that holds those windows.                               *)
(*                                                                         *)
(* Meanwhile the user opens, moves and closes terminals, a window is       *)
(* re-created under another address, an address is reused by a stranger,   *)
(* the compositor stops answering.  A terminal is a process with at most   *)
(* one window and one tmux client; restores exclude each other.            *)
(***************************************************************************)
EXTENDS Naturals, Sequences, FiniteSets, FiniteSetsExt

CONSTANTS
    Sessions,
    Held,          \* those the source's topology holds
    Workspaces,
    Monitors,
    Addresses,
    SpotOf,        \* [Sessions -> [ws, mon]], where each was captured
    Nothing,
    MaxTerminals,  \* bound: terminal processes ever
    MaxAttempts,   \* bound: restores
    Depth          \* bound: snapshots before the source

Terminals == 1..MaxTerminals

ASSUME PlacementAssumption ==
    /\ Held \subseteq Sessions
    /\ SpotOf \in [Sessions -> [ws : Workspaces, mon : Monitors]]
    /\ Nothing \notin Sessions /\ Nothing \notin Addresses /\ Nothing \notin Workspaces
    /\ \A t \in Terminals : Nothing # t
    /\ \A S \in SUBSET Sessions : Nothing # S
    /\ MaxTerminals \in Nat /\ MaxAttempts \in Nat /\ Depth \in Nat

VARIABLES
    plugged,     \* monitors the compositor lists
    lives,       \* the monitor each workspace is on
    active,      \* the workspace each monitor shows
    terminal,
    layout,      \* what placement_for_restore answers for the source
    owed,        \* what the last reading of that boot's desktop held
    placing,     \* restore.place_windows
    restorable,  \* the source may still be restored from
    published,   \* the windows of the snapshot a restore published
    attempt,     \* restores begun
    att,         \* the placement pass
    landed,      \* history: sessions whose own terminal was where it was captured
                 \* when this attempt read it back
    robbed       \* history: a terminal attached by its deadline was taken back

vars == <<plugged, lives, active, terminal, layout, owed, placing, restorable, published,
          attempt, att, landed, robbed>>

Window == [addr : Addresses, ws : Workspaces]

Row == [session : Sessions, addr : Addresses, ws : Workspaces, mon : Monitors]

Terminal ==
    [ state : {"unused", "starting", "up", "dead"}, ours : BOOLEAN,
      addr : Addresses \union {Nothing}, ws : Workspaces \union {Nothing},
      shows : Sessions \union {Nothing} ]

Unused == [state |-> "unused", ours |-> FALSE, addr |-> Nothing, ws |-> Nothing,
           shows |-> Nothing]

Steps == {"idle", "next", "finding", "monitors", "dispatching", "reading", "attaching",
          "taking back", "publishing", "joining", "writing"}

NoAttempt == [ pc |-> "idle", left |-> {}, delivered |-> {}, session |-> Nothing,
               term |-> Nothing, window |-> Nothing, todo |-> <<>>, late |-> FALSE,
               bare |-> FALSE, seen |-> "unreadable", claims |-> {}, degraded |-> FALSE,
               windows |-> {}, rows |-> {} ]

Verdicts == {"yes", "no", "elsewhere", "unreadable"}

\* A terminal whose window was listed.
Mapped == {x \in Terminal : x.addr \in Addresses /\ x.ws \in Workspaces}

Attempt ==
    [ pc        : Steps,
      left      : SUBSET Sessions,               \* sessions not yet done with
      delivered : SUBSET Sessions,               \* those the restore brought back
      session   : Sessions \union {Nothing},     \* the one under way,
      term      : Terminals \union {Nothing},    \* its terminal
      window    : Window \union {Nothing},       \* and the window last found of it
      todo      : Seq({"monitor", "workspace"}), \* moves still to be dispatched
      late      : BOOLEAN,                       \* the step's interval is over
      bare      : BOOLEAN,                       \* history: it showed nothing then
      seen      : Verdicts,                      \* the last verdict read
      claims    : SUBSET Row,                    \* the windows placed
      degraded  : BOOLEAN,                       \* some work was not done
      windows   : SUBSET [term : Terminals, at : Mapped],
      rows      : SUBSET Row ]                   \* what the snapshot will hold

TypeOK ==
    /\ plugged \subseteq Monitors /\ plugged # {}
    /\ lives \in [Workspaces -> plugged]
    /\ active \in [plugged -> Workspaces]
    /\ terminal \in [Terminals -> Terminal]
    /\ layout = Nothing \/ layout \subseteq Sessions
    /\ owed = Nothing \/ owed \subseteq Sessions
    /\ placing \in BOOLEAN
    /\ restorable \in BOOLEAN
    /\ published \subseteq Row
    /\ attempt \in 0..MaxAttempts
    /\ att \in Attempt
    /\ landed \subseteq Sessions
    /\ robbed \in BOOLEAN

-----------------------------------------------------------------------------
(* Which layout a restore works from.                                      *)

Captured == [boot : {"this", "earlier"}, state : {"known", "unknown", "disabled", "building"},
             placed : SUBSET Sessions]

\* Mutant of PlacementForRestore: an answered empty desktop is walked past.
PlacementForRestorePopulated(source, older) ==
    LET knew == {i \in DOMAIN older : /\ older[i].boot = source.boot
                                      /\ older[i].state = "known"
                                      /\ older[i].placed # {}}
    IN  IF source.state # "unknown" THEN source.placed
        ELSE IF knew = {} THEN Nothing
        ELSE older[Max(knew)].placed \intersect Held

\* The source's own answer; or, when it is unknown, that of the newest earlier
\* snapshot of its boot that knew, empty or not, of the sessions it holds.
PlacementForRestore(source, older) ==
    LET knew == {i \in DOMAIN older : older[i].boot = source.boot /\ older[i].state = "known"}
    IN  IF source.state # "unknown" THEN source.placed
        ELSE IF knew = {} THEN Nothing
        ELSE older[Max(knew)].placed \intersect Held

\* What was last answered about that boot's desktop, session by session.
LastAnswer(source, older) ==
    LET all == Append(older, source)
        answered == {i \in DOMAIN all : /\ all[i].boot = source.boot
                                        /\ \/ all[i].state = "known"
                                           \/ i = Len(all) /\ source.state = "disabled"}
    IN  IF answered = {} THEN Nothing
        ELSE {s \in Held : \E i \in answered : /\ s \in all[i].placed
                                                   /\ \A j \in answered : j > i => s \in all[j].placed}

Honest(snapshot) == snapshot.state # "known" => snapshot.placed = {}

Init ==
    /\ plugged \in (SUBSET Monitors) \ {{}}
    /\ lives \in [Workspaces -> plugged]
    /\ active \in [plugged -> Workspaces]
    /\ \A m \in plugged : lives[active[m]] = m
    /\ terminal = [t \in Terminals |-> Unused]
    /\ \E source \in Captured, older \in [1..Depth -> Captured] :
          /\ source.boot = "earlier"
          /\ source.state # "building"
          /\ source.placed \subseteq Held
          /\ Honest(source) /\ \A i \in 1..Depth : Honest(older[i])
          /\ layout = PlacementForRestore(source, older)
          /\ owed = LastAnswer(source, older)
    /\ placing \in BOOLEAN
    /\ restorable = TRUE
    /\ published = {}
    /\ attempt = 0
    /\ att = NoAttempt
    /\ landed = {}
    /\ robbed = FALSE

desktop == <<plugged, lives, active>>
source == <<layout, owed, placing>>
history == <<landed, robbed>>

-----------------------------------------------------------------------------
(* The compositor, the user, and terminals coming up.                      *)

Up == {t \in Terminals : terminal[t].state = "up"}
Free == Addresses \ {terminal[t].addr : t \in Up}
At(addr) == {t \in Up : terminal[t].addr = addr}

Becomes(t, new) ==
    /\ terminal' = [terminal EXCEPT ![t] = new]
    /\ UNCHANGED <<desktop, source, restorable, published, attempt, att, history>>

\* A window maps on the workspace its monitor shows.
Maps(t) ==
    /\ terminal[t].state = "starting"
    /\ \E a \in Free, m \in plugged :
        Becomes(t, [terminal[t] EXCEPT !.state = "up", !.addr = a, !.ws = active[m]])

\* The shell inside runs attach-session; a hook or the user may switch it.
Shows(t, s) ==
    /\ t \in Up
    /\ terminal[t].shows # s
    /\ terminal' = [terminal EXCEPT ![t].shows = s]
    /\ UNCHANGED <<desktop, source, restorable, published, attempt, att, history>>

\* Destroyed and re-created: the same process under another address.
Remaps(t) ==
    /\ t \in Up
    /\ \E a \in Free : Becomes(t, [terminal[t] EXCEPT !.addr = a])

Dead(t) == [Unused EXCEPT !.state = "dead", !.ours = terminal[t].ours]

Dies(t) ==
    /\ terminal[t].state \in {"starting", "up"}
    /\ Becomes(t, Dead(t))

UserMoves(t, ws) ==
    /\ t \in Up
    /\ terminal[t].ws # ws
    /\ Becomes(t, [terminal[t] EXCEPT !.ws = ws])

\* With or without a tmux client in it.
UserOpens(t, s) ==
    /\ terminal[t].state = "unused"
    /\ \A u \in 1..(t - 1) : terminal[u].state # "unused"
    /\ \E a \in Free, m \in plugged :
        Becomes(t, [state |-> "up", ours |-> FALSE, addr |-> a, ws |-> active[m], shows |-> s])

-----------------------------------------------------------------------------
(* The pass over the sessions.                                             *)

Steady == UNCHANGED <<desktop, source>>

Spot == SpotOf[att.session]

\* The captured panel if it is listed, else one of those that are.
Resolve(mon) == IF mon \in plugged THEN mon ELSE CHOOSE m \in plugged : TRUE

\* One session is done with; `degraded` if its window is work not done.
Outcome(degraded, claims) ==
    att' = [att EXCEPT !.pc = "next", !.left = @ \ {att.session}, !.session = Nothing,
                       !.term = Nothing, !.window = Nothing, !.todo = <<>>, !.late = FALSE,
                       !.bare = FALSE, !.seen = "unreadable",
                       !.degraded = @ \/ degraded, !.claims = @ \union claims]

Stays == UNCHANGED <<terminal, restorable, published, attempt, history>>

\* What was restored before this pass is `delivered`; the other sessions
\* conflicted.  With placement off, unknown, or no compositor, none is placed.
Begins(delivered) ==
    /\ att.pc = "idle"
    /\ restorable
    /\ attempt < MaxAttempts
    /\ attempt' = attempt + 1
    /\ landed' = {}
    /\ \E reachable \in BOOLEAN :
        att' = [NoAttempt EXCEPT
                  !.pc = "next",
                  !.delivered = delivered,
                  !.left = IF placing /\ reachable /\ layout # Nothing THEN layout ELSE {},
                  !.degraded = \/ delivered # Held
                               \/ placing /\ layout = Nothing
                               \/ placing /\ layout # {} /\ ~reachable]
    /\ Steady
    /\ UNCHANGED <<terminal, restorable, published, robbed>>

Skips(s) ==
    /\ att.pc = "next"
    /\ s \in att.left \ att.delivered
    /\ att' = [att EXCEPT !.left = @ \ {s}, !.degraded = TRUE]
    /\ Steady /\ Stays

Spawns(s) ==
    /\ att.pc = "next"
    /\ s \in att.left \intersect att.delivered
    /\ LET unused == {t \in Terminals : terminal[t].state = "unused"}
       IN  /\ unused # {}
           /\ terminal' = [terminal EXCEPT ![Min(unused)] =
                              [Unused EXCEPT !.state = "starting", !.ours = TRUE]]
           /\ att' = [att EXCEPT !.pc = "finding", !.session = s, !.term = Min(unused)]
    /\ Steady
    /\ UNCHANGED <<restorable, published, attempt, history>>

\* No terminal to open, or it could not be started.
SpawnFails(s) ==
    /\ att.pc = "next"
    /\ s \in att.left \intersect att.delivered
    /\ att' = [att EXCEPT !.left = @ \ {s}, !.degraded = TRUE]
    /\ Steady /\ Stays

\* The interval of the present step is over.
Deadline ==
    /\ att.pc \in {"finding", "monitors", "dispatching", "reading", "attaching"}
    /\ ~att.late
    /\ att' = [att EXCEPT !.late = TRUE,
                          !.bare = att.pc = "attaching" /\ terminal[att.term].shows = Nothing]
    /\ Steady /\ Stays

Killed(t) == [terminal EXCEPT ![t] = IF @.state \in {"starting", "up"} THEN Dead(t) ELSE @]

\* The compositor stopped answering or refused: the terminal is taken back.
Lost ==
    /\ terminal' = Killed(att.term)
    /\ Outcome(TRUE, {})
    /\ Steady
    /\ UNCHANGED <<restorable, published, attempt, history>>

Leaves == Outcome(TRUE, {}) /\ Steady /\ Stays

\* Mutant of OwnedWindow: once found, the window is whatever is at its address.
OwnedWindowByAddress ==
    IF att.window = Nothing
    THEN {[addr |-> terminal[t].addr, ws |-> terminal[t].ws] : t \in Up \intersect {att.term}}
    ELSE {[addr |-> terminal[t].addr, ws |-> terminal[t].ws] : t \in At(att.window.addr)}

\* The window of the process this attempt started, as a set.
OwnedWindow ==
    {[addr |-> terminal[t].addr, ws |-> terminal[t].ws] : t \in Up \intersect {att.term}}

Finds ==
    /\ att.pc = "finding"
    /\ \E w \in OwnedWindow : att' = [att EXCEPT !.pc = "monitors", !.window = w, !.late = FALSE]
    /\ Steady /\ Stays

\* Not taken back: it may only be slow.
NeverMapped == att.pc = "finding" /\ att.late /\ Leaves

FindLost == att.pc = "finding" /\ att.late /\ Lost

MonitorOf(w) == lives[w.ws]

\* A monitor move puts the window on that monitor's active workspace, so it
\* only ever precedes the workspace move that overrules it.
PlaceLua(w) ==
    IF w.ws = Spot.ws THEN <<>>
    ELSE (IF MonitorOf(w) = Resolve(Spot.mon) THEN <<>> ELSE <<"monitor">>) \o <<"workspace">>

PlacementGap(w) == w.ws # Spot.ws \/ MonitorOf(w) # Resolve(Spot.mon)

\* Asked again until it lists a panel.
ListsMonitors ==
    /\ att.pc = "monitors"
    /\ att' = [att EXCEPT !.pc = "dispatching", !.todo = PlaceLua(att.window), !.late = FALSE]
    /\ Steady /\ Stays

MonitorsLost == att.pc = "monitors" /\ att.late /\ Lost

\* Hyprland answers ok whether or not a window has that address.
Dispatches ==
    /\ att.pc = "dispatching"
    /\ att.todo # <<>>
    /\ ~att.late
    /\ LET ws == IF Head(att.todo) = "workspace" THEN Spot.ws ELSE active[Resolve(Spot.mon)]
       IN  terminal' = [t \in Terminals |-> IF t \in At(att.window.addr)
                                            THEN [terminal[t] EXCEPT !.ws = ws] ELSE terminal[t]]
    /\ att' = [att EXCEPT !.todo = Tail(@)]
    /\ Steady
    /\ UNCHANGED <<restorable, published, attempt, history>>

DispatchRefused == att.pc = "dispatching" /\ att.todo # <<>> /\ ~att.late /\ Lost

DispatchedAll ==
    /\ att.pc = "dispatching"
    /\ att.todo = <<>>
    /\ att' = [att EXCEPT !.pc = "reading"]
    /\ Steady /\ Stays

\* Not taken back: it is the user's terminal on the wrong workspace.
Misplaced ==
    /\ att.pc \in {"dispatching", "reading"}
    /\ att.late
    /\ att.pc = "dispatching" => att.todo # <<>>
    /\ Leaves

\* What the compositor would answer of this terminal, whoever is asked for.
Landed == /\ att.term \in Up
          /\ ~PlacementGap([addr |-> terminal[att.term].addr, ws |-> terminal[att.term].ws])

\* Mutant of ReadsBack: a gap is dispatched again however late it is.
ReadsBackForever ==
    /\ att.pc = "reading"
    /\ \E w \in OwnedWindow :
        IF PlacementGap(w)
        THEN /\ att' = [att EXCEPT !.pc = "dispatching", !.window = w, !.todo = PlaceLua(w)]
             /\ UNCHANGED landed
        ELSE /\ att' = [att EXCEPT !.pc = "attaching", !.window = w, !.late = FALSE]
             /\ landed' = IF Landed THEN landed \union {att.session} ELSE landed
    /\ Steady
    /\ UNCHANGED <<terminal, restorable, published, attempt, robbed>>

ReadsBack ==
    /\ att.pc = "reading"
    /\ \E w \in OwnedWindow :
        IF PlacementGap(w)
        THEN /\ ~att.late
             /\ att' = [att EXCEPT !.pc = "dispatching", !.window = w, !.todo = PlaceLua(w)]
             /\ UNCHANGED landed
        ELSE /\ att' = [att EXCEPT !.pc = "attaching", !.window = w, !.late = FALSE]
             /\ landed' = IF Landed THEN landed \union {att.session} ELSE landed
    /\ Steady
    /\ UNCHANGED <<terminal, restorable, published, attempt, robbed>>

\* A reply says nothing, or what this terminal's own client shows.
Verdict == CASE terminal[att.term].shows = att.session -> "yes"
             [] terminal[att.term].shows = Nothing -> "no"
             [] OTHER -> "elsewhere"

Placed ==
    Outcome(FALSE, {[session |-> att.session, addr |-> att.window.addr,
                     ws |-> Spot.ws, mon |-> Resolve(Spot.mon)]})

Polls(answered) ==
    /\ att.pc = "attaching"
    /\ ~att.late
    /\ IF answered /\ Verdict = "yes" THEN Placed
       ELSE att' = [att EXCEPT !.seen = IF answered THEN Verdict ELSE "unreadable"]
    /\ Steady /\ Stays

\* Mutant of AsksAgain: the poll that ran the clock out decides.
AsksNoMore(answered) ==
    /\ att.pc = "attaching"
    /\ att.late
    /\ att.seen = "no"
    /\ att' = [att EXCEPT !.pc = "taking back"]
    /\ Steady /\ Stays

\* Only "no" authorises anything, so it is asked once more.
AsksAgain(answered) ==
    /\ att.pc = "attaching"
    /\ att.late
    /\ att.seen = "no"
    /\ CASE answered /\ Verdict = "yes" -> Placed
         [] answered /\ Verdict = "no" -> att' = [att EXCEPT !.pc = "taking back"]
         [] OTHER -> Outcome(TRUE, {})
    /\ Steady /\ Stays

\* Unreadable, or showing another session: left alone.
NeverAttached ==
    /\ att.pc = "attaching"
    /\ att.late
    /\ att.seen # "no"
    /\ Leaves

TakesBack ==
    /\ att.pc = "taking back"
    /\ terminal' = Killed(att.term)
    /\ robbed' = (robbed \/ (att.term \in Up /\ ~att.bare))
    /\ Outcome(TRUE, {})
    /\ Steady
    /\ UNCHANGED <<restorable, published, attempt, landed>>

-----------------------------------------------------------------------------
(* The publication.                                                        *)

EndsPartial ==
    /\ att.pc = "next"
    /\ att.left = {}
    /\ att.degraded
    /\ att' = NoAttempt
    /\ Steady /\ Stays

\* The compositor's windows first, then the server's clients, joined by pid.
ReadsWindows ==
    /\ att.pc = "next"
    /\ att.left = {}
    /\ ~att.degraded
    /\ att' = [att EXCEPT !.pc = "joining",
                          !.windows = IF placing THEN {[term |-> t, at |-> terminal[t]] : t \in Up}
                                                 ELSE {}]
    /\ Steady /\ Stays

\* The windows could not be read within the budget: placement is unknown.
WindowsUnknown ==
    /\ att.pc = "next"
    /\ att.left = {}
    /\ ~att.degraded
    /\ placing
    /\ att' = [att EXCEPT !.pc = "writing"]
    /\ Steady /\ Stays

Clients == {t \in Up : terminal[t].shows # Nothing}

Joined == {w \in att.windows : w.term \in Clients}

RowOf(w) == [session |-> terminal[w.term].shows, addr |-> w.at.addr, ws |-> w.at.ws,
             mon |-> lives[w.at.ws]]

MapsWindows ==
    /\ att.pc = "joining"
    /\ att' = [att EXCEPT !.pc = "writing", !.windows = {}, !.rows = {RowOf(w) : w \in Joined}]
    /\ Steady /\ Stays

\* Mutant of UnplacedWindows: any window of the session's will do.
UnplacedWindowsBySession ==
    {c \in att.claims : ~\E r \in att.rows : r.session = c.session}

\* That window, holding that session, where it was put.
UnplacedWindows == att.claims \ att.rows

Publishes ==
    /\ att.pc = "writing"
    /\ published' = att.rows
    /\ restorable' = (UnplacedWindows # {})
    /\ att' = NoAttempt
    /\ Steady
    /\ UNCHANGED <<terminal, attempt, history>>

\* Killed, or the publication failed: nothing is retired, terminals stay.
Stops ==
    /\ att.pc # "idle"
    /\ att' = NoAttempt
    /\ Steady /\ Stays

-----------------------------------------------------------------------------

World ==
    \/ \E t \in Terminals : Maps(t) \/ Remaps(t) \/ Dies(t)
    \/ \E t \in Terminals, s \in Sessions : Shows(t, s)
    \/ \E t \in Terminals, s \in Sessions \union {Nothing} : UserOpens(t, s)
    \/ \E t \in Terminals, ws \in Workspaces : UserMoves(t, ws)

Pass ==
    \/ \E s \in Sessions : Skips(s) \/ Spawns(s) \/ SpawnFails(s)
    \/ Finds \/ NeverMapped \/ FindLost
    \/ ListsMonitors \/ MonitorsLost
    \/ Dispatches \/ DispatchRefused \/ DispatchedAll
    \/ Misplaced \/ ReadsBack
    \/ \E answered \in BOOLEAN : Polls(answered) \/ AsksAgain(answered)
    \/ NeverAttached \/ TakesBack
    \/ EndsPartial \/ ReadsWindows \/ WindowsUnknown \/ MapsWindows \/ Publishes

Next ==
    \/ World
    \/ \E delivered \in SUBSET Held : Begins(delivered)
    \/ Pass
    \/ Deadline
    \/ Stops

Spec == Init /\ [][Next]_vars

\* Calls return and clocks advance.
FairSpec == Spec /\ WF_vars(Pass) /\ WF_vars(Deadline)

-----------------------------------------------------------------------------

\* The source is retired only into a snapshot in which every session its
\* boot's desktop last showed has a window where it was captured, on the
\* panel that stands for its own; never when nothing is known of that desktop
\* (restore.rs unplaced_windows, desktop.rs placement_for_restore).
RetiredWithWindows ==
    [][ restorable /\ ~restorable' /\ placing =>
            /\ owed # Nothing
            /\ \A s \in owed : \E r \in published' :
                  /\ r.session = s
                  /\ r.ws = SpotOf[s].ws
                  /\ r.mon = Resolve(SpotOf[s].mon) ]_vars

\* No terminal is opened for a session the desktop had been cleared of
\* (desktop.rs placement_for_restore, "the two directions it will not look").
NothingInvented ==
    att.session # Nothing => owed # Nothing /\ att.session \in owed

\* The source is retired only when every session its boot's desktop last showed
\* had its own terminal where it was captured, when that was last read back in
\* this attempt (desktop.rs confirm_placement, owned_window).
RetiredOnceLanded ==
    [][restorable /\ ~restorable' /\ placing => owed # Nothing /\ owed \subseteq landed]_vars

\* A terminal that showed a session when its time ran out is not taken back
\* for showing none (desktop.rs attach_verdict).
ShownIsKept == ~robbed

\* Every pass comes to an end, whatever the compositor and tmux do.
PassEnds == (att.pc # "idle") ~> (att.pc = "idle")

\* Not kept by the code.  "Retiring the source against somebody else's window
\* loses the only record of where osm's window belonged" (desktop.rs
\* PlacedWindow): a claim that the publication finds again is a window of osm's.
FoundAgainIsOwn ==
    [][MapsWindows => \A w \in Joined : RowOf(w) \in att.claims => terminal[w.term].ours]_vars

\* Not kept by the code.  "Retrying is safe because restore is idempotent" (restore.rs): osm never
\* has two terminals of its own showing the same session.
OneWindowPerSession ==
    \A t, u \in {v \in Up : terminal[v].ours /\ terminal[v].shows # Nothing} :
        terminal[t].shows = terminal[u].shows => t = u
=============================================================================
