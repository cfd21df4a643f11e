----------------------------- MODULE AgentDebt -----------------------------
(***************************************************************************)
(* Which conversation belongs in which pane, from the snapshot a boot      *)
(* inherits to the one that replaces it.  A restore rebuilds panes as bare *)
(* shells and records, per place, the conversation it still owes there;    *)
(* captures in between may carry a binding they cannot see only where that *)
(* debt says so; the restore's own publication retires the source.         *)
(*                                                                         *)
(* A place stands for a session, window index and pane index: here every   *)
(* session has one window of one pane.  One boot, one tmux server.         *)
(***************************************************************************)
EXTENDS Naturals, FiniteSets, FiniteSetsExt

CONSTANTS
    Places,
    Conversations,
    Nothing,
    Bound,        \* [Places -> Conversations \union {Nothing}], what the source binds
    CapturedAs,   \* [Places -> Panes], its pane ids, issued by an older server
    Window,       \* WINDOW_SECS, in ticks
    MaxPanes,     \* bound: pane ids issued; a server never reissues one
    MaxClock      \* bound: ticks

Panes == 1..MaxPanes

Clock == 0..MaxClock

ASSUME AgentDebtAssumption ==
    /\ MaxPanes \in Nat
    /\ MaxClock \in Nat
    /\ Window \in Nat
    /\ Nothing \notin Places \union Conversations \union Panes \union Clock
    /\ Places \intersect {"unborn", "gone"} = {}
    /\ Bound \in [Places -> Conversations \union {Nothing}]
    /\ \A d, e \in Places : Bound[d] = Bound[e] /\ Bound[d] # Nothing => d = e
    /\ CapturedAs \in [Places -> Panes]

VARIABLES
    clock,
    at,          \* where each pane is: a place, "unborn" or "gone"
    runs,        \* the conversation each pane runs
    restorable,  \* whether the source may still be restored from
    due,         \* places whose session the source is still owed (session_rows)
    newest,      \* the newest snapshot: of this server or not, and its bindings
    debt,        \* agent_resume_debt: when each place's row was recorded
    rst,         \* the restore
    reading,     \* topology and detection a capture or a publication has read
    promised,    \* history: when a restore last undertook to put Bound[d] back
    settled,     \* history: places paid since, by confirmation or by sight
    back,        \* history: conversations osm has known to run on this boot
    touched,     \* history: places whose pane a person put there or took away
    hollow,      \* history: places whose conversation the newest snapshot had
                 \* already let go when a restore last undertook it
    mishap       \* history: a debt statement failed, which is only reported

vars == <<clock, at, runs, restorable, due, newest, debt, rst, reading,
          promised, settled, back, touched, hollow, mishap>>

Binding == [pane : Panes \union {Nothing}, place : Places, conv : Conversations]

NoReading == [pc |-> "none"]

\* What one capture reads off tmux and the agents' stores.
Readings ==
    [ pc : {"read"}, ran : BOOLEAN, at : [Panes -> Places \union {"unborn", "gone"}],
      found : [Panes -> Conversations \union {Nothing}], unknown : SUBSET Panes ]

Steps == {"idle", "building", "recording", "resuming", "publishing"}

Newest == [ours : BOOLEAN, bound : SUBSET Binding]

\* The restore: the pane of each session it delivered, the places it still has
\* to resume and those it has confirmed.
Restore == [ pc : Steps, map : [Places -> Panes \union {Nothing}], left : SUBSET Places,
             confirmed : SUBSET Places, degraded : BOOLEAN ]

NoRestore == [pc |-> "idle", map |-> [d \in Places |-> Nothing], left |-> {},
              confirmed |-> {}, degraded |-> FALSE]

TypeOK ==
    /\ clock \in Clock
    /\ at \in [Panes -> Places \union {"unborn", "gone"}]
    /\ runs \in [Panes -> Conversations \union {Nothing}]
    /\ restorable \in BOOLEAN
    /\ due \subseteq Places
    /\ newest \in Newest
    /\ debt \in [Places -> Clock \union {Nothing}]
    /\ rst \in Restore
    /\ reading = NoReading \/ reading \in Readings
    /\ promised \in [Places -> Clock \union {Nothing}]
    /\ settled \subseteq Places
    /\ back \subseteq Conversations
    /\ touched \subseteq Places
    /\ hollow \subseteq Places
    /\ mishap \in BOOLEAN

Init ==
    /\ clock = 0
    /\ at = [p \in Panes |-> "unborn"]
    /\ runs = [p \in Panes |-> Nothing]
    /\ restorable = TRUE
    /\ due = Places
    /\ newest = [ ours |-> FALSE,
                  bound |-> {[pane |-> CapturedAs[d], place |-> d, conv |-> Bound[d]] :
                                d \in {e \in Places : Bound[e] # Nothing}} ]
    /\ debt = [d \in Places |-> Nothing]
    /\ rst = NoRestore
    /\ reading = NoReading
    /\ promised = [d \in Places |-> Nothing]
    /\ settled = {}
    /\ back = {}
    /\ touched = {}
    /\ hollow = {}
    /\ mishap = FALSE

panes == <<at, runs>>
store == <<restorable, due, newest, debt>>
history == <<promised, settled, back, touched, hollow, mishap>>

PaneAt(d) == {p \in Panes : at[p] = d}
Unborn == {p \in Panes : at[p] = "unborn"}
Owes(d) == Bound[d] # Nothing
Running == {runs[p] : p \in Panes} \ {Nothing}

-----------------------------------------------------------------------------
(* The clock, and a person at the keyboard. *)

Tick ==
    /\ clock < MaxClock
    /\ clock' = clock + 1
    /\ UNCHANGED <<panes, store, rst, reading, history>>

ByHand(places) ==
    /\ touched' = touched \union places
    /\ UNCHANGED <<clock, store, rst, reading, promised, settled, back, hollow, mishap>>

OpensPane(d) ==
    /\ PaneAt(d) = {}
    /\ Unborn # {}
    /\ at' = [at EXCEPT ![Min(Unborn)] = d]
    /\ UNCHANGED runs
    /\ ByHand({d})

ClosesPane(p) ==
    /\ at[p] \in Places
    /\ at' = [at EXCEPT ![p] = "gone"]
    /\ runs' = [runs EXCEPT ![p] = Nothing]
    /\ ByHand({at[p]})

MovesPane(p, d) ==
    /\ at[p] \in Places
    /\ PaneAt(d) = {}
    /\ at' = [at EXCEPT ![p] = d]
    /\ UNCHANGED runs
    /\ ByHand({at[p], d})

\* By hand, or an agent that starts after its resume was reported failed.
Starts(p, v) ==
    /\ at[p] \in Places
    /\ runs[p] = Nothing
    /\ v \notin Running
    /\ runs' = [runs EXCEPT ![p] = v]
    /\ UNCHANGED at
    /\ ByHand(IF v = Bound[at[p]] THEN {} ELSE {at[p]})

Ends(p) ==
    /\ runs[p] # Nothing
    /\ runs' = [runs EXCEPT ![p] = Nothing]
    /\ UNCHANGED at
    /\ ByHand({})

-----------------------------------------------------------------------------
(* Debt rows. *)

Expired(since) == since # Nothing /\ since + Window < clock

\* Mutant of Prune: the boundary is exclusive.
PruneEarly(rows) ==
    [d \in Places |-> IF rows[d] # Nothing /\ rows[d] + Window <= clock THEN Nothing ELSE rows[d]]

Prune(rows) == [d \in Places |-> IF Expired(rows[d]) THEN Nothing ELSE rows[d]]

\* Mutant of Discharge: evidence pays nothing.
DischargeNone(rows, live) == rows

Discharge(rows, live) == [d \in Places |-> IF Bound[d] \in live THEN Nothing ELSE rows[d]]

\* What is owed, each with the place it is owed at.
Pending(rows) == {<<d, Bound[d]>> : d \in {e \in Places : Prune(rows)[e] # Nothing}}

-----------------------------------------------------------------------------
(* What a capture writes. *)

Live(r) == {r.found[p] : p \in Panes} \ {Nothing}

\* The previous snapshot's binding of the pane now at r.at[p]: by id on the
\* same server, else by place.
Previous(r, p) ==
    LET byPane == {b \in newest.bound : newest.ours /\ b.pane = p}
        byPlace == {b \in newest.bound : b.place = r.at[p]}
    IN  {b.conv : b \in IF byPane # {} THEN byPane ELSE byPlace}

\* carry_owed_bindings, for a pane with no fresh binding.
Carries(r, rows, p, v) ==
    /\ v \in Previous(r, p)
    /\ v \notin Live(r)
    /\ \/ ~r.ran
       \/ p \in r.unknown
       \/ <<r.at[p], v>> \in Pending(rows)

Seated(r) == {p \in Panes : r.at[p] \in Places}

Bindings(r, rows) ==
    LET Bind(p, v) == [pane |-> p, place |-> r.at[p], conv |-> v]
    IN  {Bind(p, r.found[p]) : p \in {q \in Seated(r) : r.found[q] # Nothing}}
        \union
        {Bind(x[1], x[2]) : x \in
            {y \in {q \in Seated(r) : r.found[q] = Nothing} \X Conversations :
                Carries(r, rows, y[1], y[2])}}

\* A whole session the source is owed and no live one replaces is copied with
\* its panes, under ids no server issues.
CopyPanes(r, owed) ==
    {[pane |-> Nothing, place |-> d, conv |-> Bound[d]] :
        d \in {e \in owed : Owes(e) /\ e \notin {r.at[p] : p \in Panes}}}

\* Evidence first, then the carry decision, then the rows that are left.
Written(r, owed) ==
    LET rows == Discharge(debt, Live(r))
    IN  [ours |-> TRUE, bound |-> Bindings(r, rows) \union CopyPanes(r, owed)]

\* pending() deletes what it passes, and runs only where detection did.
RowsAfter(r) ==
    LET rows == Discharge(debt, Live(r))
    IN  IF r.ran /\ newest.bound # {} THEN Prune(rows) ELSE rows

\* `owed` is what the source is still owed as the transaction writes.
WriteTopology(owed) ==
    /\ newest' = Written(reading, owed)
    /\ debt' = RowsAfter(reading)
    /\ back' = back \union Live(reading)
    /\ settled' = settled \union {d \in Places : Bound[d] \in Live(reading)}
    /\ reading' = NoReading

-----------------------------------------------------------------------------
(* Captures.  A restore excludes them by holding the lock.                 *)

\* A pane whose agent holds an unlinked transcript cannot be read; a store
\* that cannot be read leaves nothing read at all.
Detects(ran, unknown) ==
    /\ unknown \subseteq {p \in Panes : runs[p] # Nothing}
    /\ ran \/ unknown = {}
    /\ reading' = [ pc |-> "read", ran |-> ran, at |-> at, unknown |-> unknown,
                    found |-> [p \in Panes |-> IF ran /\ p \notin unknown THEN runs[p]
                                                                          ELSE Nothing] ]

CaptureReads(ran, unknown) ==
    /\ rst.pc = "idle"
    /\ reading = NoReading
    /\ Detects(ran, unknown)
    /\ UNCHANGED <<clock, panes, store, rst, history>>

CaptureCommits ==
    /\ rst.pc = "idle"
    /\ reading # NoReading
    /\ WriteTopology(due)
    /\ UNCHANGED <<clock, panes, restorable, due, rst, promised, touched, hollow, mishap>>

CaptureFails ==
    /\ rst.pc = "idle"
    /\ reading # NoReading
    /\ reading' = NoReading
    /\ UNCHANGED <<clock, panes, store, rst, history>>

-----------------------------------------------------------------------------
(* The restore. *)

RestoreBegins ==
    /\ rst.pc = "idle"
    /\ reading = NoReading
    /\ restorable
    /\ rst' = [NoRestore EXCEPT !.pc = "building"]
    /\ UNCHANGED <<clock, panes, store, reading, history>>

\* Sessions are created, or adopted when one of that name is equivalent; the
\* others conflicted or failed.  With nothing delivered the attempt failed.
Builds(delivered) ==
    LET new == {d \in delivered : PaneAt(d) = {}}
    IN  /\ rst.pc = "building"
        /\ \E how \in [new -> Unborn] :
            /\ \A d, e \in new : how[d] = how[e] => d = e
            /\ {how[d] : d \in new} = {p \in Unborn : p < Min(Unborn) + Cardinality(new)}
            /\ at' = [p \in Panes |-> IF \E d \in new : how[d] = p
                                      THEN CHOOSE d \in new : how[d] = p ELSE at[p]]
        /\ rst' = IF delivered = {} THEN NoRestore
                  ELSE [rst EXCEPT
                          !.pc = "recording",
                          !.map = [d \in Places |->
                                     IF d \in delivered THEN CHOOSE p \in Panes : at'[p] = d
                                                        ELSE Nothing],
                          !.left = {d \in delivered : Owes(d)}]
        /\ UNCHANGED <<clock, runs, store, reading, history>>

Holds(snapshot, v) == \E b \in snapshot.bound : b.conv = v

Delivered == {d \in Places : rst.map[d] # Nothing}

\* Before anything is delivered, and whether or not anything will be.
Records ==
    /\ rst.pc = "recording"
    /\ rst' = [rst EXCEPT !.pc = "resuming"]
    /\ debt' = [d \in Places |-> IF d \in rst.left THEN clock ELSE Prune(debt)[d]]
    /\ promised' = [d \in Places |-> IF d \in rst.left THEN clock ELSE promised[d]]
    /\ settled' = settled \ rst.left
    /\ hollow' = (hollow \ rst.left) \union {d \in rst.left : ~Holds(newest, Bound[d])}
    /\ UNCHANGED <<clock, panes, restorable, due, newest, reading, back, touched, mishap>>

\* It could not be written down: reported, and the restore goes on.
RecordFails ==
    /\ rst.pc = "recording"
    /\ rst' = [rst EXCEPT !.pc = "resuming"]
    /\ mishap' = TRUE
    /\ UNCHANGED <<clock, panes, store, reading, promised, settled, back, touched, hollow>>

\* Too old, not discoverable, its agent not enabled or not resumable, or
\* already running elsewhere: left a shell, and no failure.
Skips(d) ==
    /\ rst.pc = "resuming"
    /\ d \in rst.left
    /\ rst' = [rst EXCEPT !.left = @ \ {d}]
    /\ UNCHANGED <<clock, panes, store, reading, history>>

ResumeFails(d) ==
    /\ rst.pc = "resuming"
    /\ d \in rst.left
    /\ rst' = [rst EXCEPT !.left = @ \ {d}, !.degraded = TRUE]
    /\ UNCHANGED <<clock, panes, store, reading, history>>

\* Delivered, started and confirmed; the row for exactly this place is paid,
\* or that fails and is reported.
Resumes(d) ==
    /\ rst.pc = "resuming"
    /\ d \in rst.left
    /\ at[rst.map[d]] \in Places
    /\ runs[rst.map[d]] = Nothing
    /\ Bound[d] \notin Running
    /\ runs' = [runs EXCEPT ![rst.map[d]] = Bound[d]]
    /\ rst' = [rst EXCEPT !.left = @ \ {d}, !.confirmed = @ \union {d}]
    /\ back' = back \union {Bound[d]}
    /\ settled' = settled \union {d}
    /\ \/ debt' = [debt EXCEPT ![d] = Nothing] /\ UNCHANGED mishap
       \/ mishap' = TRUE /\ UNCHANGED debt
    /\ UNCHANGED <<clock, at, restorable, due, newest, reading, promised, touched, hollow>>

Whole == Delivered = Places /\ ~rst.degraded

\* The publication reads the machine it is about to write down.
PublishReads(ran, unknown) ==
    /\ rst.pc = "resuming"
    /\ rst.left = {}
    /\ Whole
    /\ rst' = [rst EXCEPT !.pc = "publishing"]
    /\ Detects(ran, unknown)
    /\ UNCHANGED <<clock, panes, store, history>>

\* Mutant of Unobserved: the confirmation is taken for the binding.
UnobservedNone(written) == {}

\* A confirmed conversation the topology does not bind to the pane it was
\* confirmed in keeps the source restorable.
Unobserved(written) ==
    {d \in rst.confirmed : ~\E b \in written.bound : b.pane = rst.map[d] /\ b.conv = Bound[d]}

\* One transaction.
Publishes ==
    /\ rst.pc = "publishing"
    /\ due' = due \ Delivered
    /\ WriteTopology(due \ Delivered)
    /\ restorable' = (Unobserved(newest') # {})
    /\ rst' = NoRestore
    /\ UNCHANGED <<clock, panes, promised, touched, hollow, mishap>>

\* The publication failed on its own terms ("unsecured"): nothing is retired.
PublishFails ==
    /\ rst.pc = "publishing"
    /\ due' = due \ Delivered
    /\ rst' = NoRestore
    /\ reading' = NoReading
    /\ UNCHANGED <<clock, panes, restorable, newest, debt, history>>

EndsPartial ==
    /\ rst.pc = "resuming"
    /\ rst.left = {}
    /\ ~Whole
    /\ due' = due \ Delivered
    /\ rst' = NoRestore
    /\ UNCHANGED <<clock, panes, restorable, newest, debt, reading, history>>

RestoreKilled ==
    /\ rst.pc # "idle"
    /\ rst' = NoRestore
    /\ reading' = NoReading
    /\ UNCHANGED <<clock, panes, store, history>>

-----------------------------------------------------------------------------

Unknowns == SUBSET {p \in Panes : runs[p] # Nothing}

Next ==
    \/ Tick
    \/ \E d \in Places : OpensPane(d)
    \/ \E p \in Panes : ClosesPane(p)
    \/ \E p \in Panes, d \in Places : MovesPane(p, d)
    \/ \E p \in Panes, v \in Conversations : Starts(p, v)
    \/ \E p \in Panes : Ends(p)
    \/ \E ran \in BOOLEAN, unknown \in Unknowns : CaptureReads(ran, unknown)
    \/ CaptureCommits
    \/ CaptureFails
    \/ RestoreBegins
    \/ \E delivered \in SUBSET Places : Builds(delivered)
    \/ Records
    \/ RecordFails
    \/ \E d \in Places : Skips(d) \/ ResumeFails(d) \/ Resumes(d)
    \/ \E ran \in BOOLEAN, unknown \in Unknowns : PublishReads(ran, unknown)
    \/ Publishes
    \/ PublishFails
    \/ EndsPartial
    \/ RestoreKilled

Spec == Init /\ [][Next]_vars

-----------------------------------------------------------------------------

\* A conversation a restore undertook to put back is in the newest snapshot for
\* as long as the undertaking lasts, unless it has been seen back, a person
\* has put or taken the pane, or it was already gone from that snapshot when the
\* restore undertook it (debt.rs; capture.rs carry_owed_bindings).
KeptUntilBack ==
    \A d \in Places \ (touched \union hollow) :
        promised[d] # Nothing /\ ~Expired(promised[d]) /\ Bound[d] \notin back
            => Holds(newest, Bound[d])

\* A snapshot binds a conversation to a pane it was not seen in only where a
\* restore undertook it, within the window, and it has not been back since: a
\* conversation the user closed is not resurrected (debt.rs).
CarriedWherePromised ==
    [][ newest' # newest /\ reading.ran /\ ~mishap =>
            \A b \in newest'.bound :
                \/ b.pane = Nothing
                \/ b.pane \in reading.unknown
                \/ reading.found[b.pane] = b.conv
                \/ /\ b.conv = Bound[b.place]
                   /\ b.place \notin settled'
                   /\ promised[b.place] # Nothing
                   /\ ~Expired(promised[b.place]) ]_vars

\* The source is retired only into a snapshot that binds everything this
\* attempt confirmed and everything not yet back (restore.rs publication).
RetiredIntoBindings ==
    [][ restorable /\ ~restorable' /\ ~mishap =>
            \A d \in Places \ (touched \union hollow) :
                \/ ~Owes(d)
                \/ Expired(promised[d])
                \/ d \notin rst.confirmed /\ Bound[d] \in back
                \/ Holds(newest', Bound[d]) ]_vars

\* Not kept by the code.  The recorded debt "lets such a capture carry the bindings", whatever was
\* captured before (restore.rs, where the debt is recorded).
KeptWheneverCaptured ==
    \A d \in Places \ touched :
        promised[d] # Nothing /\ ~Expired(promised[d]) /\ Bound[d] \notin back
            => Holds(newest, Bound[d])
=============================================================================
