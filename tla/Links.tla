------------------------------- MODULE Links -------------------------------
(***************************************************************************)
(* Windows linked into several sessions, through a restore that puts back  *)
(* only some of those sessions and the captures that follow it: what the   *)
(* restore writes down about the windows it made, what a capture links a   *)
(* carried session to, and when it takes a debt for paid.                  *)
(*                                                                         *)
(* One snapshot of an earlier boot is restored, several times, onto        *)
(* servers that may die and be replaced within the boot, each numbering    *)
(* its windows from 0.  The user creates, links and closes sessions        *)
(* between any two sessions of a restore, a window at one index of a       *)
(* session at most.  A session's own restore is one step that may stop at  *)
(* any window; windows differ in what same_window sees (`look`) and in the *)
(* rest.                                                                   *)
(***************************************************************************)
EXTENDS Integers, Sequences, FiniteSets, SequencesExt, TLC

CONSTANTS
    Names,          \* of sessions
    Indexes,        \* of windows in a session
    Looks, Rests,   \* name and pane count; directories and geometry
    Home,           \* what the rest comes out as where it cannot be had
    Captured,       \* sessions of the source: name -> index -> window
    ShapeOf,        \* its windows: number -> shape
    MaxSnapshots,   \* bound: snapshots ever, the source included
    MaxServers,     \* bound: tmux servers of this boot
    MaxWindows,     \* bound: windows one server makes
    MaxAttempts,    \* bound: restores
    MaxMoves        \* bound: sessions the user opens or closes, servers that die

Source == 1

Shape == [look : Looks, rest : Rests]

Plain == [look |-> CHOOSE l \in Looks : TRUE, rest |-> Home]

ASSUME LinksAssumption ==
    /\ Home \in Rests
    /\ Indexes \subseteq Nat
    /\ DOMAIN Captured \subseteq Names
    /\ \A s \in DOMAIN Captured : DOMAIN Captured[s] \subseteq Indexes
    /\ \A n \in DOMAIN ShapeOf : ShapeOf[n] \in Shape
    /\ {MaxSnapshots, MaxServers, MaxWindows, MaxAttempts, MaxMoves} \subseteq Nat

VARIABLES
    server,      \* the tmux server: its incarnation, sessions and windows
    snaps,       \* the snapshots, oldest first
    restorable,  \* the source may still be restored from
    attempts,    \* restore_attempts with their restore_window_map
    restore,     \* the restore under way
    moves,       \* what the user and the server have done
    firm         \* history: windows the last recorded restore put back

vars == <<server, snaps, restorable, attempts, restore, moves, firm>>

\* A window as a snapshot calls it: <<0, n>> is @n, <<k, n>> is carried:k:@n.
Ids == (0..MaxSnapshots) \X (0..MaxWindows)

\* History: a window's identity, whatever server holds it.
Identities == (0..MaxServers) \X (0..MaxWindows)

Empty == <<>>

None == [gen |-> 0, next |-> 0, holds |-> [s \in Names |-> Empty], shape |-> Empty,
         known |-> Empty]

Steps == {"idle", "building", "checking", "validating", "concluding"}

NoRestore == [ pc |-> "idle", left |-> {}, live |-> {}, anchor |-> 0, built |-> FALSE,
               changed |-> FALSE, map |-> Empty, delivered |-> {}, spoilt |-> {} ]

Init ==
    /\ server = None
    /\ snaps = << [ server |-> 0,
                    rows |-> [s \in DOMAIN Captured |->
                                [at |-> [i \in DOMAIN Captured[s] |-> <<0, Captured[s][i]>>],
                                 owed |-> FALSE]],
                    window |-> [id \in {<<0, n>> : n \in DOMAIN ShapeOf} |->
                                  [shape |-> ShapeOf[id[2]], known |-> {<<0, id[2]>>}]] ] >>
    /\ restorable = TRUE
    /\ attempts = <<>>
    /\ restore = NoRestore
    /\ moves = 0
    /\ firm = {}

-----------------------------------------------------------------------------
(* The tmux server.                                                        *)

Live(s) == server.holds[s] # Empty
LiveNames == {s \in Names : Live(s)}
Up == LiveNames # {}
Incarnation == IF Up THEN server.gen ELSE 0
HeldBy(holds, s) == {holds[s][i] : i \in DOMAIN holds[s]}
LiveWindows == UNION {HeldBy(server.holds, s) : s \in Names}

\* The first session starts a server, which numbers its windows from 0.
Started == IF Up THEN server ELSE [None EXCEPT !.gen = server.gen + 1]

\* A window dies with the last session that holds it.
Holding(srv, holds) ==
    LET kept == UNION {HeldBy(holds, s) : s \in Names}
    IN  [srv EXCEPT !.holds = holds,
                    !.shape = [w \in kept |-> srv.shape[w]],
                    !.known = [w \in kept |-> srv.known[w]]]

Made(srv, shape, known) ==
    [srv EXCEPT !.next = @ + 1, !.shape = @ @@ (srv.next :> shape),
                !.known = @ @@ (srv.next :> known)]

\* The bounds on servers and on the windows of one.
Room(srv) == srv.gen <= MaxServers /\ srv.next <= MaxWindows

Moves ==
    /\ moves < MaxMoves
    /\ moves' = moves + 1
    /\ UNCHANGED <<snaps, restorable, attempts, restore, firm>>

\* What was captured at an index, or lost; elsewhere, nothing anybody captured.
ShapeAt(s, i, lost) ==
    IF s \in DOMAIN Captured
    THEN [ShapeOf[Captured[s][i]] EXCEPT !.rest = IF lost THEN Home ELSE @]
    ELSE Plain

\* A session of windows of its own, as they were captured or not, and of
\* windows linked from others.
UserCreates(s, opened, linked) ==
    /\ ~Live(s)
    /\ IsInjective(linked)
    /\ LET Opens(acc, i) ==
               [srv |-> Made(acc.srv, ShapeAt(s, i, opened[i]), {<<acc.srv.gen, acc.srv.next>>}),
                at |-> acc.at @@ (i :> acc.srv.next)]
           new == FoldLeft(Opens, [srv |-> Started, at |-> linked],
                           SetToSortSeq(DOMAIN opened, <))
       IN  /\ Room(new.srv)
           /\ server' = Holding(new.srv, [server.holds EXCEPT ![s] = new.at])
    /\ Moves

\* Bound: no server dies between the session that started it and the check
\* that gives the restore its identity.
Known == ~(restore.pc = "checking" /\ restore.anchor = 0)

UserCloses(s) ==
    /\ Live(s)
    /\ Known \/ LiveNames # {s}
    /\ server' = Holding(server, [server.holds EXCEPT ![s] = Empty])
    /\ Moves

ServerDies ==
    /\ Up
    /\ Known
    /\ server' = Holding(server, [s \in Names |-> Empty])
    /\ Moves

-----------------------------------------------------------------------------
(* A snapshot against the server.                                          *)

Row(k, s) == snaps[k].rows[s]
Rows(k) == DOMAIN snaps[k].rows
IdsOf(k, s) == {Row(k, s).at[i] : i \in DOMAIN Row(k, s).at}
Described(k, id) == snaps[k].window[id]

\* No difference: the same indexes, each with a window of the captured shape.
Matches(k, s) ==
    /\ Live(s)
    /\ DOMAIN server.holds[s] = DOMAIN Row(k, s).at
    /\ \A i \in DOMAIN server.holds[s] :
          server.shape[server.holds[s][i]] = Described(k, Row(k, s).at[i]).shape

\* What the transaction at hand discharges before it asks what is owed.
Discharged(k) ==
    IF restore.pc = "concluding" /\ k = Source THEN restore.delivered \ restore.spoilt ELSE {}

Owed(k, s) == s \in Rows(k) \ Discharged(k) /\ Row(k, s).owed

Shared(k, id) == Cardinality({s \in Rows(k) : id \in IdsOf(k, s)}) > 1

-----------------------------------------------------------------------------
(* The restore.                                                            *)

Begins ==
    /\ restore.pc = "idle"
    /\ restorable
    /\ Len(attempts) < MaxAttempts
    /\ restore' = [NoRestore EXCEPT !.pc = "building", !.left = Rows(Source),
                                    !.live = LiveNames, !.anchor = Incarnation]
    \* Reclaimed: every session of a snapshot that owes something is owed.
    /\ snaps' = [k \in DOMAIN snaps |->
                   [snaps[k] EXCEPT !.rows =
                      [s \in Rows(k) |->
                         [@[s] EXCEPT !.owed = \/ k = Source
                                               \/ \E t \in Rows(k) : Row(k, t).owed]]]]
    /\ UNCHANGED <<server, restorable, attempts, moves, firm>>

\* seed_window_map stops at the first pair that contradicts the map.
Seeded(s) ==
    LET Pair(acc, i) ==
            LET id == Row(Source, s).at[i]
                w  == server.holds[s][i]
            IN  IF ~acc.ok THEN acc
                ELSE IF id \in DOMAIN acc.map THEN [acc EXCEPT !.ok = acc.map[id] = w]
                ELSE [acc EXCEPT !.map = @ @@ (id :> w)]
    IN  FoldLeft(Pair, [map |-> restore.map, ok |-> TRUE],
                 SetToSortSeq(DOMAIN server.holds[s], <))

\* What the map says of a window is from now on its identity.
Recognised(map) ==
    [server EXCEPT !.known =
        [w \in DOMAIN @ |-> @[w] \union UNION {Described(Source, id).known :
                                                 id \in {x \in DOMAIN map : map[x] = w}}]]

Adopts(s) ==
    /\ restore.pc = "building"
    /\ s \in restore.left \intersect restore.live
    /\ IF Matches(Source, s)
       THEN /\ restore' = [restore EXCEPT
                             !.pc = "checking", !.left = @ \ {s}, !.built = FALSE,
                             !.map = Seeded(s).map,
                             !.delivered = IF Seeded(s).ok THEN @ \union {s} ELSE @]
            /\ server' = Recognised(Seeded(s).map)
       ELSE /\ restore' = [restore EXCEPT !.pc = "checking", !.left = @ \ {s}, !.built = FALSE]
            /\ UNCHANGED server
    /\ UNCHANGED <<snaps, restorable, attempts, moves, firm>>

\* The windows in index order: one that is already mapped is linked, any other
\* is made.  It stops after `n` of them, or at a link whose window is gone; a
\* session that begins with a link stands on a placeholder until the end.
Rebuilt(s, n, lost) ==
    LET order == SetToSortSeq(DOMAIN Row(Source, s).at, <)
        Window(acc, i) ==
            LET id == Row(Source, s).at[i]
                described == Described(Source, id)
            IN  IF ~acc.ok THEN acc
                ELSE IF id \in DOMAIN acc.map
                THEN IF acc.map[id] \in LiveWindows
                     THEN [acc EXCEPT !.at = @ @@ (i :> acc.map[id])]
                     ELSE [acc EXCEPT !.ok = FALSE]
                ELSE [acc EXCEPT !.srv = Made(acc.srv, ShapeAt(s, i, lost), described.known),
                                 !.at = @ @@ (i :> acc.srv.next),
                                 !.map = @ @@ (id :> acc.srv.next)]
        parking == order[Len(order)] + 1
        onLink == n > 0 /\ Row(Source, s).at[order[1]] \in DOMAIN restore.map
        parked == IF onLink
                  THEN [srv |-> Made(Started, Plain, {<<Started.gen, Started.next>>}),
                        at |-> (parking :> Started.next), map |-> restore.map, ok |-> TRUE]
                  ELSE [srv |-> Started, at |-> Empty, map |-> restore.map, ok |-> TRUE]
        built == FoldLeft(Window, parked, SubSeq(order, 1, n))
        whole == built.ok /\ n = Len(order)
    IN  [built EXCEPT !.at = IF whole THEN [i \in DOMAIN Row(Source, s).at |-> @[i]] ELSE @,
                      !.ok = whole]

\* A directory that is gone or a layout that is refused is lost.
Creates(s, n, lost) ==
    /\ restore.pc = "building"
    /\ s \in restore.left \ restore.live
    /\ n <= Cardinality(DOMAIN Row(Source, s).at)
    /\ LET new == Rebuilt(s, IF Live(s) THEN 0 ELSE n, lost)
       IN  /\ new.at # Empty => Room(new.srv)
           /\ server' = IF new.at = Empty THEN server
                        ELSE Holding(new.srv, [server.holds EXCEPT ![s] = new.at])
           /\ restore' = [restore EXCEPT
                            !.pc = "checking", !.left = @ \ {s}, !.built = TRUE,
                            !.map = new.map,
                            !.spoilt = IF lost /\ new.map # restore.map THEN @ \union {s} ELSE @,
                            !.delivered = IF new.ok THEN @ \union {s} ELSE @]
    /\ UNCHANGED <<snaps, restorable, attempts, moves, firm>>

\* ServerWatch.check, and the end of the loop.
Checks ==
    /\ restore.pc = "checking"
    /\ LET moved == \/ restore.anchor # 0 /\ Incarnation # restore.anchor
                    \/ restore.anchor = 0 /\ ~Up /\ restore.built
       IN  restore' = [restore EXCEPT
                         !.changed = moved,
                         !.anchor = IF @ = 0 THEN Incarnation ELSE @,
                         !.pc = IF moved \/ restore.left = {} THEN "validating" ELSE "building"]
    /\ UNCHANGED <<server, snaps, restorable, attempts, moves, firm>>

\* Mutant of Broken: the map is believed.
BrokenNever == {}

\* validate_links: sessions that lack a window they share.
Broken ==
    {s \in restore.delivered : \E id \in IdsOf(Source, s) :
        /\ Shared(Source, id)
        /\ id \in DOMAIN restore.map
        /\ restore.map[id] \notin HeldBy(server.holds, s)}

\* Mutant of Mapping: only what the delivered sessions hold is written down.
MappingDelivered ==
    [id \in {x \in DOMAIN restore.map : \E s \in restore.delivered : x \in IdsOf(Source, s)} |->
        restore.map[id]]

Mapping == restore.map

\* The attempt's server and its window map are written down.
Records ==
    /\ restore.pc = "validating"
    /\ IF restore.changed
       THEN /\ attempts' = Append(attempts, [source |-> Source, server |-> 0, map |-> Empty])
            /\ restore' = [restore EXCEPT !.pc = "concluding", !.delivered = {}]
            /\ UNCHANGED firm
       ELSE /\ attempts' = Append(attempts, [source |-> Source, server |-> restore.anchor,
                                             map |-> Mapping])
            /\ restore' = [restore EXCEPT !.pc = "concluding", !.delivered = @ \ Broken]
            /\ firm' = {<<restore.anchor, restore.map[id]>> : id \in DOMAIN restore.map}
    /\ UNCHANGED <<server, snaps, restorable, moves>>

\* What is paid when the attempt ends short of a success; the restore that
\* succeeds publishes instead (Publishes).
ReturnsSource ==
    /\ restore.pc = "concluding"
    /\ restore' = NoRestore
    /\ snaps' = [snaps EXCEPT ![Source].rows =
                   [s \in Rows(Source) |-> [@[s] EXCEPT !.owed = Owed(Source, s)]]]
    /\ UNCHANGED <<server, restorable, attempts, moves, firm>>

Stops ==
    /\ restore.pc # "idle"
    /\ restore' = NoRestore
    /\ UNCHANGED <<server, snaps, restorable, attempts, moves, firm>>

-----------------------------------------------------------------------------
(* The capture.                                                            *)

Original(id) == <<0, id[2]>>

CarriedId(k, id) == IF id[1] = 0 THEN <<k, id[2]>> ELSE id

\* restore_window_map: the newest attempt made on this very server.
MapOf(k) ==
    LET eligible == {a \in DOMAIN attempts : /\ attempts[a].source = k
                                             /\ attempts[a].server = Incarnation}
    IN  IF eligible = {} THEN Empty
        ELSE attempts[CHOOSE a \in eligible : \A b \in eligible : b <= a].map

SameWindow(k, id, w) == Described(k, id).shape.look = server.shape[w].look

\* Mutant of Candidates: any server's numbers will do.
CandidatesOfAnyServer(k, id) ==
    IF Original(id) \in DOMAIN MapOf(k) THEN {MapOf(k)[Original(id)]} ELSE {id[2]}

Candidates(k, id) ==
    IF Original(id) \in DOMAIN MapOf(k) THEN {MapOf(k)[Original(id)]}
    ELSE IF snaps[k].server = Incarnation THEN {id[2]} ELSE {}

\* resolve_window: the live window a carried one is, else a copy of it.
Target(k, id) ==
    LET found == {w \in Candidates(k, id) \intersect LiveWindows : SameWindow(k, id, w)}
    IN  IF found = {} THEN CarriedId(k, id) ELSE <<0, CHOOSE w \in found : TRUE>>

Witnesses(k, id, s) == {t \in Rows(k) \ {s} : id \in IdsOf(k, t) /\ Matches(k, t)}

\* Every answer the server has to which window that is.
Claims(k, id, s) ==
    ({MapOf(k)[x] : x \in {Original(id)} \intersect DOMAIN MapOf(k)} \intersect LiveWindows)
      \union UNION {{server.holds[t][j] : j \in {x \in DOMAIN Row(k, t).at : Row(k, t).at[x] = id}}
                      : t \in Witnesses(k, id, s)}

\* Mutant of LinkBreak: a session that matches on its own is back.
LinkBreakNever(k, s) == FALSE

\* Mutant of LinkBreak: every sharer must be there to testify.
LinkBreakAllSharers(k, s) ==
    \E i \in DOMAIN Row(k, s).at :
        LET id == Row(k, s).at[i]
        IN  /\ Shared(k, id)
            /\ \/ {t \in Rows(k) \ {s} : id \in IdsOf(k, t)} # Witnesses(k, id, s)
               \/ Claims(k, id, s) # {server.holds[s][i]}

\* shared_link_break: a shared window nothing vouches for, or one that some
\* answer says is another.
LinkBreak(k, s) ==
    \E i \in DOMAIN Row(k, s).at :
        /\ Shared(k, Row(k, s).at[i])
        /\ Claims(k, Row(k, s).at[i], s) # {server.holds[s][i]}

Back(k, s) == Owed(k, s) /\ Matches(k, s) /\ ~LinkBreak(k, s)

\* The newest snapshot that owes a session which is not live carries it.
Carries(k, s) ==
    /\ Owed(k, s) /\ ~Live(s)
    /\ \A j \in DOMAIN snaps : Owed(j, s) => j <= k

\* The rows carry_forward inserts for the sessions it copies from snapshot k.
Copies(k) ==
    {CarriedId(k, id) : id \in {x \in UNION {IdsOf(k, s) : s \in {t \in Names : Carries(k, t)}} :
                                  Target(k, x)[1] # 0}}

\* The schema refuses the transaction: one id twice in a snapshot, or one
\* window twice in a session.
Refused ==
    \/ \E j, k \in DOMAIN snaps : j # k /\ Copies(j) \intersect Copies(k) # {}
    \/ \E k \in DOMAIN snaps, s \in Names :
          /\ Carries(k, s)
          /\ \E i, j \in DOMAIN Row(k, s).at :
                i # j /\ Target(k, Row(k, s).at[i]) = Target(k, Row(k, s).at[j])

Written ==
    LET carrier(s) == CHOOSE k \in DOMAIN snaps : Carries(k, s)
        carried == {s \in Names : \E k \in DOMAIN snaps : Carries(k, s)}
        copied == UNION {Copies(k) : k \in DOMAIN snaps}
        origin(id) == CHOOSE x \in [k : DOMAIN snaps, id : Ids] :
                         /\ x.id \in DOMAIN snaps[x.k].window
                         /\ CarriedId(x.k, x.id) = id
                         /\ id \in Copies(x.k)
    IN  [ server |-> server.gen,
          rows |-> [s \in LiveNames |->
                      [at |-> [i \in DOMAIN server.holds[s] |-> <<0, server.holds[s][i]>>],
                       owed |-> FALSE]]
                   @@ [s \in carried |->
                         [at |-> [i \in DOMAIN Row(carrier(s), s).at |->
                                    Target(carrier(s), Row(carrier(s), s).at[i])],
                          owed |-> TRUE]],
          window |-> [id \in {<<0, w>> : w \in LiveWindows} |->
                        [shape |-> server.shape[id[2]], known |-> server.known[id[2]]]]
                     @@ [id \in copied |-> Described(origin(id).k, origin(id).id)] ]

Settled(k) ==
    [snaps[k] EXCEPT !.rows =
        [s \in Rows(k) |-> [@[s] EXCEPT !.owed = Owed(k, s) /\ ~Back(k, s) /\ ~Carries(k, s)]]]

Capture ==
    /\ restore.pc = "idle"
    /\ Up
    /\ Len(snaps) < MaxSnapshots
    /\ ~Refused
    /\ snaps' = Append([k \in DOMAIN snaps |-> Settled(k)], Written)
    /\ UNCHANGED <<server, restorable, attempts, restore, moves, firm>>

\* All of the source is back on the server that was watched throughout: it is
\* published and the source retired.
Publishes ==
    /\ restore.pc = "concluding"
    /\ ~restore.changed
    /\ restore.delivered = Rows(Source)
    /\ restore.spoilt = {}
    /\ IF Incarnation # restore.anchor
       THEN /\ attempts' = [attempts EXCEPT ![Len(attempts)].server = 0]
            /\ UNCHANGED <<snaps, restorable>>
       ELSE /\ Len(snaps) < MaxSnapshots
            /\ ~Refused
            /\ snaps' = Append([k \in DOMAIN snaps |-> Settled(k)], Written)
            /\ restorable' = FALSE
            /\ UNCHANGED attempts
    /\ restore' = NoRestore
    /\ UNCHANGED <<server, moves, firm>>

-----------------------------------------------------------------------------

\* The user's sessions have the captured indexes, or one: one that differs in
\* them is no more and no less another session than one of other shapes.
Usual(s) == IF s \in DOMAIN Captured THEN DOMAIN Captured[s] ELSE {Min(Indexes)}

Next ==
    \/ \E s \in Names : UserCloses(s)
    \/ \E s \in Names : \E I \in SUBSET Usual(s) :
          \E opened \in [I -> BOOLEAN], linked \in [Usual(s) \ I -> LiveWindows] :
             UserCreates(s, opened, linked)
    \/ ServerDies
    \/ Begins \/ Checks \/ Records \/ ReturnsSource \/ Publishes \/ Stops
    \/ \E s \in restore.left : Adopts(s)
    \/ \E s \in restore.left, n \in 0..Cardinality(Indexes), lost \in BOOLEAN :
          Creates(s, n, lost)
    \/ Capture

Spec == Init /\ [][Next]_vars

-----------------------------------------------------------------------------

TypeOK ==
    /\ moves \in 0..MaxMoves
    /\ server.gen \in 0..MaxServers /\ server.next \in 0..MaxWindows
    /\ DOMAIN server.shape = LiveWindows /\ DOMAIN server.known = LiveWindows
    /\ \A w \in LiveWindows : server.shape[w] \in Shape /\ server.known[w] \subseteq Identities
    /\ \A k \in DOMAIN snaps, s \in Names :
          s \in Rows(k) => /\ IdsOf(k, s) \subseteq DOMAIN snaps[k].window
                          /\ Row(k, s).owed \in BOOLEAN
    /\ \A k \in DOMAIN snaps : DOMAIN snaps[k].window \subseteq Ids
    /\ \A a \in DOMAIN attempts : DOMAIN attempts[a].map \subseteq Ids
    /\ restorable \in BOOLEAN
    /\ restore.pc \in Steps
    /\ restore.delivered \union restore.left \union restore.spoilt \subseteq Names

Captures == restore.pc = "idle" /\ Len(snaps') > Len(snaps)

\* The live windows the source's window is, as its last recorded restore left
\* them.
Became(id) ==
    {w \in LiveWindows : /\ <<server.gen, w>> \in firm
                         /\ server.known[w] \intersect Described(Source, id).known # {}
                         /\ SameWindow(Source, id, w)}

LinkedRight(k, id) ==
    LET t == Target(k, id)
    IN  t[1] = 0 => server.known[t[2]] \intersect Described(k, id).known # {}

Carried == {x \in (DOMAIN snaps) \X Names : Carries(x[1], x[2])}

\* A carried session is linked into a live window only if it is the window it
\* held: on whatever server and by whatever restore (capture.rs
\* resolve_window, "a carried window mapped onto the wrong live window
\* corrupts one").  Of windows read from a live server.
LinkedIsItself ==
    [][ Captures => \A x \in Carried : \A id \in IdsOf(x[1], x[2]) :
            id[1] = 0 => LinkedRight(x[1], id) ]_vars

\* The same of windows that were carried before: "one carried window keeps a
\* single identity across generations" (docs/design.md).
CarriedIsItself ==
    [][ Captures => \A x \in Carried : \A id \in IdsOf(x[1], x[2]) :
            LinkedRight(x[1], id) ]_vars

\* A capture never meets its own schema: what is owed can always be carried
\* (capture.rs carry_forward, "make every capture a superset").
NeverRefused == restore.pc = "idle" /\ Up => ~Refused

\* A session carried beside one that came back shares its window still: the
\* copy is linked to what the restore made, however its own session ended
\* (capture.rs resolve_window, restore.rs run_restore_attempt).
MixedPairStaysOne ==
    [][ Captures => \A s \in Names : Carries(Source, s) =>
            \A i \in DOMAIN Row(Source, s).at :
               LET here == Became(Row(Source, s).at[i])
               IN  here # {} => snaps'[Len(snaps')].rows[s].at[i] \in {<<0, w>> : w \in here} ]_vars

\* A debt is discharged as paid only into a session that shares the windows it
\* was captured sharing: with every sharer that is back, and with at least one
\* of them or what the restore made (capture.rs shared_link_break).
PaidIsShared ==
    [][ Captures => \A k \in DOMAIN snaps, s \in LiveNames :
          Owed(k, s) /\ ~snaps'[k].rows[s].owed =>
            \A i \in DOMAIN Row(k, s).at :
               LET id == Row(k, s).at[i]
                   w  == server.holds[s][i]
                   others == {t \in Rows(k) \ {s} : id \in IdsOf(k, t) /\ Matches(k, t)}
               IN  Shared(k, id) =>
                     /\ \A t \in others : w \in HeldBy(server.holds, t)
                     /\ others = {} => server.known[w] \intersect Described(k, id).known # {} ]_vars

\* Something says of every window s shares which it is now, and nothing
\* contradicts it.
Vouched(s) ==
    \A i \in DOMAIN Row(Source, s).at :
        LET id == Row(Source, s).at[i]
            w  == server.holds[s][i]
            others == {t \in Rows(Source) \ {s} : id \in IdsOf(Source, t) /\ Matches(Source, t)}
        IN  Shared(Source, id) =>
              /\ Became(id) # {} \/ others # {}
              /\ Became(id) \subseteq {w}
              /\ \A t \in others : \A j \in DOMAIN Row(Source, t).at :
                    Row(Source, t).at[j] = id => server.holds[t][j] = w

\* A session that is back, its shared windows the ones the restore made or a
\* returned sharer holds, with nobody holding another in their place, is not
\* owed for ever because a third sharer was closed (capture.rs
\* shared_link_break, "must not demand evidence from every historic sharer").
ReturnIsRecognised ==
    [][ Captures => \A s \in Names :
            Owed(Source, s) /\ Matches(Source, s) /\ Vouched(s) => ~snaps'[Source].rows[s].owed ]_vars

\* Sessions a restore reports back hold one window where one was captured
\* (restore.rs validate_links).
ReportedShare ==
    [][ restore.pc = "validating" /\ restore'.pc = "concluding" =>
          \A s, t \in restore'.delivered : \A id \in IdsOf(Source, s) \intersect IdsOf(Source, t) :
             s # t => HeldBy(server.holds, s) \intersect HeldBy(server.holds, t) # {} ]_vars
=============================================================================
