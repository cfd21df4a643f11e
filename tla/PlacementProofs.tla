-------------------------- MODULE PlacementProofs --------------------------
(***************************************************************************)
(* For any sessions, desktops, terminals and users: a placement pass opens *)
(* no terminal the desktop had been cleared of, takes no terminal back     *)
(* that showed a session, and retires its source only when every session's *)
(* own terminal was read back where it belongs, and only into a snapshot   *)
(* with all the windows.  (That a pass comes to an end rests on fairness   *)
(* and is left to TLC.)                                                    *)
(***************************************************************************)
EXTENDS Placement, FiniteSetTheorems, WellFoundedInduction, TLAPS

-----------------------------------------------------------------------------
(* The inductive invariant, in named parts.                                *)

\* The layout a restore works from is what was last answered.
Answered ==
    /\ layout = Nothing <=> owed = Nothing
    /\ layout # Nothing => owed = layout

\* Windows have one address each.
Distinct ==
    /\ \A t \in Up : terminal[t] \in Mapped
    /\ \A t, u \in Up : terminal[t].addr = terminal[u].addr => t = u

\* A session is in hand from the start of its terminal to its outcome.
InHand == {"finding", "monitors", "dispatching", "reading", "attaching", "taking back"}

Underway ==
    /\ att.left # {} => layout # Nothing /\ att.left \subseteq layout
    /\ att.pc \in InHand => att.session \in att.left /\ att.term \in Terminals
    /\ att.pc \notin InHand => att.session = Nothing
    /\ att.pc \in InHand \ {"finding", "taking back"} => att.window \in Window
    /\ att.pc \in InHand => terminal[att.term].state # "unused"
    /\ att.pc \in InHand \ {"finding"} => terminal[att.term].state \in {"up", "dead"}

\* A terminal that showed a session when its time ran out does so until it dies.
Shown ==
    /\ att.pc = "attaching" /\ att.late /\ ~att.bare =>
          terminal[att.term].shows # Nothing \/ terminal[att.term].state = "dead"
    /\ att.pc = "taking back" /\ att.term \in Up => att.bare

\* Every session that is done with, if no work was left undone, has its claim.
ClaimOf(s, c) == c.session = s /\ c.ws = SpotOf[s].ws /\ c.mon = Resolve(SpotOf[s].mon)

Claimed ==
    /\ placing /\ att.pc # "idle" /\ ~att.degraded =>
          /\ layout # Nothing
          /\ \A s \in layout : s \in att.left \/ \E c \in att.claims : ClaimOf(s, c)
    /\ att.pc \in {"joining", "writing"} => att.left = {} /\ ~att.degraded

\* Likewise, if no work was left undone, its own terminal was read back in place.
Arrived ==
    /\ att.pc = "attaching" => att.session \in landed
    /\ placing /\ att.pc # "idle" /\ ~att.degraded =>
          \A s \in layout : s \in att.left \/ s \in landed

IInv == Answered /\ Distinct /\ Underway /\ Shown /\ Claimed /\ Arrived /\ ShownIsKept

-----------------------------------------------------------------------------
(* Types. *)

\* A set of numbers that is not empty has a least one.
LEMMA Least ==
    ASSUME NEW T \in SUBSET Nat, T # {}
    PROVE  \E b \in T : \A c \in T : b <= c
<1> DEFINE R == OpToRel(<, Nat)
<1>1. IsWellFoundedOn(R, Nat)
  BY NatLessThanWellFounded
<1>2. \A a, b \in T : a < b => <<a, b>> \in R
  BY DEF OpToRel
<1> HIDE DEF R
<1>3. PICK b \in T : \A a \in T : ~(<<a, b>> \in R)
  BY <1>1, WFMin, Zenon
<1>4. \A a \in T : ~(a < b)
  BY <1>2, <1>3
<1>5. T \subseteq Nat
  OBVIOUS
<1>6. \A a \in T : b <= a
  BY <1>4, <1>5
<1>7. QED  BY <1>6

LEMMA FirstTerminal ==
    ASSUME NEW S \in SUBSET Terminals, S # {}
    PROVE  Min(S) \in S
<1>1. \E b \in S : \A c \in S : b <= c
  BY Least, PlacementAssumption DEF Terminals
<1>2. QED  BY <1>1 DEF Min

LEMMA NoAttemptType == NoAttempt \in Attempt
BY DEF NoAttempt, Attempt, Steps, Verdicts

LEMMA ResolveType == ASSUME TypeOK, NEW mon PROVE Resolve(mon) \in plugged
BY DEF TypeOK, Resolve

LEMMA SpotType ==
    ASSUME NEW s \in Sessions
    PROVE  SpotOf[s].ws \in Workspaces /\ SpotOf[s].mon \in Monitors
BY PlacementAssumption

LEMMA UnusedType == Unused \in Terminal
BY DEF Unused, Terminal

LEMMA OutcomeType ==
    ASSUME TypeOK, NEW degraded \in BOOLEAN, NEW claims \in SUBSET Row,
           Outcome(degraded, claims)
    PROVE  /\ att' \in Attempt
           /\ att'.pc = "next" /\ att'.left = att.left \ {att.session} /\ att'.session = Nothing
           /\ att'.degraded = (att.degraded \/ degraded)
           /\ att'.claims = att.claims \union claims
           /\ att'.delivered = att.delivered
<1> DEFINE d == att.degraded \/ degraded
<1>1. att \in Attempt /\ d \in BOOLEAN
  BY DEF TypeOK
<1>2. att' = [att EXCEPT !.pc = "next", !.left = att.left \ {att.session}, !.session = Nothing,
                         !.term = Nothing, !.window = Nothing, !.todo = <<>>, !.late = FALSE,
                         !.bare = FALSE, !.seen = "unreadable", !.degraded = d,
                         !.claims = att.claims \union claims]
  BY <1>1 DEF Outcome, Attempt
<1> HIDE DEF d
<1>3. <<>> \in Seq({"monitor", "workspace"})
  OBVIOUS
<1>4. /\ att'.pc = "next" /\ att'.left = att.left \ {att.session} /\ att'.session = Nothing
      /\ att'.degraded = d
      /\ att'.claims = att.claims \union claims
      /\ att'.delivered = att.delivered
  BY <1>1, <1>2 DEF Attempt
<1>5. att' \in Attempt
  BY <1>1, <1>2, <1>3 DEF Attempt, Steps, Verdicts
<1>6. QED  BY <1>4, <1>5 DEF d

LEMMA KilledType ==
    ASSUME TypeOK, NEW t \in Terminals
    PROVE  Killed(t) \in [Terminals -> Terminal]
BY DEF TypeOK, Killed, Dead, Unused, Terminal

LEMMA WindowsType == TypeOK /\ Distinct => OwnedWindow \subseteq Window
BY DEF TypeOK, Distinct, OwnedWindow, Up, Mapped, Window

\* What a pass claims of its window.
LEMMA ClaimType ==
    ASSUME TypeOK, Underway, att.pc = "attaching"
    PROVE  [session |-> att.session, addr |-> att.window.addr, ws |-> Spot.ws,
            mon |-> Resolve(Spot.mon)] \in Row
<1>1. att.session \in Sessions /\ att.window \in Window
  BY DEF TypeOK, Attempt, Underway, InHand
<1>2. Spot.ws \in Workspaces
  BY <1>1, SpotType DEF Spot
<1>3. Resolve(Spot.mon) \in Monitors
  BY ResolveType DEF TypeOK
<1>4. QED  BY <1>1, <1>2, <1>3 DEF Row, Window

LEMMA PlaceLuaType == ASSUME NEW w PROVE PlaceLua(w) \in Seq({"monitor", "workspace"})
<1>1. /\ <<>> \in Seq({"monitor", "workspace"})
      /\ <<"monitor">> \in Seq({"monitor", "workspace"})
      /\ <<"workspace">> \in Seq({"monitor", "workspace"})
  OBVIOUS
<1>2. /\ <<>> \o <<"workspace">> \in Seq({"monitor", "workspace"})
      /\ <<"monitor">> \o <<"workspace">> \in Seq({"monitor", "workspace"})
  BY <1>1
<1>3. QED  BY <1>1, <1>2 DEF PlaceLua

LEMMA BecomesType ==
    ASSUME TypeOK, NEW t \in Terminals, NEW new \in Terminal, Becomes(t, new)
    PROVE  TypeOK'
BY DEF TypeOK, Becomes, desktop, source, history

LEMMA WorldType ==
    ASSUME TypeOK, World
    PROVE  TypeOK'
<1>1. \A t \in Terminals : terminal[t] \in Terminal
  BY DEF TypeOK
<1>2. \A m \in plugged : active[m] \in Workspaces
  BY DEF TypeOK
<1>3. ASSUME NEW t \in Terminals, Maps(t) PROVE TypeOK'
  <2>1. PICK a \in Free, m \in plugged :
           Becomes(t, [terminal[t] EXCEPT !.state = "up", !.addr = a, !.ws = active[m]])
    BY <1>3 DEF Maps
  <2>2. [terminal[t] EXCEPT !.state = "up", !.addr = a, !.ws = active[m]] \in Terminal
    BY <1>1, <1>2, <2>1 DEF Terminal, Free
  <2>3. QED  BY <2>1, <2>2, BecomesType
<1>4. ASSUME NEW t \in Terminals, Remaps(t) PROVE TypeOK'
  <2>1. PICK a \in Free : Becomes(t, [terminal[t] EXCEPT !.addr = a])
    BY <1>4 DEF Remaps
  <2>2. [terminal[t] EXCEPT !.addr = a] \in Terminal
    BY <1>1, <2>1 DEF Terminal, Free
  <2>3. QED  BY <2>1, <2>2, BecomesType
<1>5. ASSUME NEW t \in Terminals, Dies(t) PROVE TypeOK'
  <2>1. Dead(t) \in Terminal
    BY <1>1, UnusedType DEF Dead, Terminal, Unused
  <2>2. QED  BY <1>5, <2>1, BecomesType DEF Dies
<1>6. ASSUME NEW t \in Terminals, NEW s \in Sessions, Shows(t, s) PROVE TypeOK'
  <2>1. terminal' \in [Terminals -> Terminal]
    BY <1>1, <1>6 DEF Shows, TypeOK, Terminal
  <2>2. QED  BY <1>6, <2>1 DEF Shows, TypeOK, desktop, source, history
<1>7. ASSUME NEW t \in Terminals, NEW s \in Sessions \union {Nothing}, UserOpens(t, s) PROVE TypeOK'
  <2>1. PICK a \in Free, m \in plugged :
           Becomes(t, [state |-> "up", ours |-> FALSE, addr |-> a, ws |-> active[m], shows |-> s])
    BY <1>7 DEF UserOpens
  <2>2. [state |-> "up", ours |-> FALSE, addr |-> a, ws |-> active[m], shows |-> s] \in Terminal
    BY <1>2, <2>1 DEF Terminal, Free
  <2>3. QED  BY <2>1, <2>2, BecomesType
<1>8. ASSUME NEW t \in Terminals, NEW ws \in Workspaces, UserMoves(t, ws) PROVE TypeOK'
  <2>1. [terminal[t] EXCEPT !.ws = ws] \in Terminal
    BY <1>1 DEF Terminal
  <2>2. QED  BY <1>8, <2>1, BecomesType DEF UserMoves
<1>9. QED  BY <1>3, <1>4, <1>5, <1>6, <1>7, <1>8 DEF World

\* What a step of the pass leaves alone.
LEMMA Frame ==
    ASSUME TypeOK, UNCHANGED <<plugged, lives, active, layout, owed, placing>>,
           terminal' \in [Terminals -> Terminal], restorable' \in BOOLEAN,
           published' \subseteq Row, attempt' \in 0..MaxAttempts, att' \in Attempt,
           landed' \subseteq Sessions, robbed' \in BOOLEAN
    PROVE  TypeOK'
BY DEF TypeOK

LEMMA BeginsType ==
    ASSUME TypeOK, NEW delivered \in SUBSET Held, Begins(delivered)
    PROVE  TypeOK'
<1>1. layout = Nothing \/ layout \subseteq Sessions
  BY DEF TypeOK
<1>2. PICK reachable \in BOOLEAN :
         att' = [NoAttempt EXCEPT
                   !.pc = "next",
                   !.delivered = delivered,
                   !.left = IF placing /\ reachable /\ layout # Nothing THEN layout ELSE {},
                   !.degraded = \/ delivered # Held
                                \/ placing /\ layout = Nothing
                                \/ placing /\ layout # {} /\ ~reachable]
  BY DEF Begins
<1> DEFINE left == IF placing /\ reachable /\ layout # Nothing THEN layout ELSE {}
           degraded == \/ delivered # Held
                       \/ placing /\ layout = Nothing
                       \/ placing /\ layout # {} /\ ~reachable
<1>3. left \in SUBSET Sessions /\ degraded \in BOOLEAN /\ delivered \in SUBSET Sessions
  BY <1>1, PlacementAssumption
<1>4. att' = [NoAttempt EXCEPT !.pc = "next", !.delivered = delivered, !.left = left,
                               !.degraded = degraded]
  BY <1>2
<1> HIDE DEF left, degraded
<1>5. att' \in Attempt
  BY <1>3, <1>4, NoAttemptType DEF Attempt, Steps
<1>6. attempt' \in 0..MaxAttempts
  BY PlacementAssumption DEF Begins, TypeOK
<1>7. QED  BY <1>6, <1>5, Frame DEF Begins, TypeOK, Steady, desktop, source, history

LEMMA PassType ==
    ASSUME TypeOK, Distinct, Underway, Pass
    PROVE  TypeOK'
<1> USE DEF Steady, Stays, desktop, source, history
<1> DEFINE Same == /\ UNCHANGED <<plugged, lives, active, layout, owed, placing>>
                   /\ UNCHANGED <<terminal, restorable, published, attempt, landed, robbed>>
<1>0. /\ Same /\ att' \in Attempt => TypeOK'
      /\ att \in Attempt
  BY Frame DEF TypeOK
<1>1. ASSUME NEW s \in Sessions, Skips(s) \/ SpawnFails(s) PROVE TypeOK'
  <2>1. att' = [att EXCEPT !.left = @ \ {s}, !.degraded = TRUE] /\ Same
    BY <1>1 DEF Skips, SpawnFails
  <2>2. att' \in Attempt
    BY <1>0, <2>1 DEF Attempt
  <2>3. QED  BY <1>0, <2>1, <2>2
<1>2. ASSUME NEW s \in Sessions, Spawns(s) PROVE TypeOK'
  <2> DEFINE unused == {t \in Terminals : terminal[t].state = "unused"}
  <2>1. Min(unused) \in Terminals
    BY <1>2, FirstTerminal DEF Spawns
  <2>2. terminal' \in [Terminals -> Terminal]
    BY <1>2, <2>1 DEF Spawns, TypeOK, Unused, Terminal
  <2>3. att' \in Attempt
    BY <1>0, <1>2, <2>1 DEF Spawns, Attempt, Steps
  <2>4. QED  BY <1>2, <2>2, <2>3, Frame DEF Spawns, TypeOK
<1>3. CASE Finds
  <2>1. PICK w \in OwnedWindow :
           att' = [att EXCEPT !.pc = "monitors", !.window = w, !.late = FALSE]
    BY <1>3 DEF Finds
  <2>2. att' \in Attempt
    BY <1>0, <2>1, WindowsType DEF Attempt, Steps
  <2>3. QED  BY <1>0, <1>3, <2>2 DEF Finds
<1>4. CASE Leaves
  BY <1>0, <1>4, OutcomeType DEF Leaves
<1>5. CASE att.pc \in InHand /\ Lost
  <2>1. terminal' \in [Terminals -> Terminal]
    BY <1>5, KilledType DEF Lost, Underway
  <2>2. att' \in Attempt
    BY <1>5, OutcomeType DEF Lost
  <2>3. QED  BY <1>5, <2>1, <2>2, Frame DEF Lost, TypeOK
<1>6. CASE ListsMonitors
  <2>1. PlaceLua(att.window) \in Seq({"monitor", "workspace"})
    BY PlaceLuaType
  <2>2. QED  BY <1>0, <1>6, <2>1 DEF ListsMonitors, Attempt, Steps
<1>7. CASE Dispatches
  <2>1. att.session \in Sessions
    BY <1>7 DEF Dispatches, Underway, InHand, TypeOK, Attempt
  <2>2. Spot.ws \in Workspaces /\ active[Resolve(Spot.mon)] \in Workspaces
    BY <2>1, SpotType, ResolveType DEF Spot, TypeOK
  <2>3. terminal' \in [Terminals -> Terminal]
    BY <1>7, <2>2 DEF Dispatches, TypeOK, Terminal
  <2>4. att.todo \in Seq({"monitor", "workspace"}) /\ att.todo # <<>>
    BY <1>0, <1>7 DEF Dispatches, Attempt
  <2>5. Tail(att.todo) \in Seq({"monitor", "workspace"})
    BY <2>4
  <2>6. att' = [att EXCEPT !.todo = Tail(att.todo)]
    BY <1>7 DEF Dispatches
  <2>7. att' \in Attempt
    BY <1>0, <2>5, <2>6 DEF Attempt
  <2>8. QED  BY <1>7, <2>3, <2>7, Frame DEF Dispatches, TypeOK
<1>8. CASE DispatchedAll
  BY <1>0, <1>8 DEF DispatchedAll, Attempt, Steps
<1>9. CASE ReadsBack
  <2>1. \A w \in OwnedWindow : PlaceLua(w) \in Seq({"monitor", "workspace"})
    BY PlaceLuaType
  <2>2. PICK w \in OwnedWindow :
           \/ att' = [att EXCEPT !.pc = "dispatching", !.window = w, !.todo = PlaceLua(w)]
           \/ att' = [att EXCEPT !.pc = "attaching", !.window = w, !.late = FALSE]
    BY <1>9 DEF ReadsBack
  <2>3. w \in Window /\ PlaceLua(w) \in Seq({"monitor", "workspace"})
    BY <2>1, <2>2, WindowsType
  <2>4. /\ [att EXCEPT !.pc = "dispatching", !.window = w, !.todo = PlaceLua(w)] \in Attempt
        /\ [att EXCEPT !.pc = "attaching", !.window = w, !.late = FALSE] \in Attempt
    BY ONLY <1>0, <2>3 DEF Attempt, Steps
  <2>5. att' \in Attempt
    BY <2>2, <2>4
  <2>6. landed' \subseteq Sessions
    <3>1. att.session \in Sessions /\ landed \subseteq Sessions
      BY <1>0, <1>9 DEF ReadsBack, Underway, InHand, TypeOK, Attempt
    <3>2. landed' = landed \/ landed' = landed \union {att.session}
      BY <1>9, Zenon DEF ReadsBack
    <3>3. QED  BY <3>1, <3>2
  <2>7. QED  BY <1>9, <2>5, <2>6, Frame DEF ReadsBack, TypeOK
<1>10. CASE att.pc = "attaching" /\ Placed /\ Same
  BY <1>0, <1>10, OutcomeType, ClaimType DEF Placed
<1>11. ASSUME NEW answered \in BOOLEAN, Polls(answered) PROVE TypeOK'
  BY <1>0, <1>10, <1>11 DEF Polls, Attempt, Verdicts, Verdict
<1>12. ASSUME NEW answered \in BOOLEAN, AsksAgain(answered) PROVE TypeOK'
  <2>1. CASE answered /\ Verdict = "yes"
    BY <1>10, <1>12, <2>1 DEF AsksAgain
  <2>2. CASE answered /\ Verdict = "no"
    <3>1. att' = [att EXCEPT !.pc = "taking back"] /\ Same
      BY <1>12, <2>2 DEF AsksAgain
    <3>2. QED  BY <1>0, <3>1 DEF Attempt, Steps
  <2>3. CASE ~(answered /\ Verdict = "yes") /\ ~(answered /\ Verdict = "no")
    <3>1. Outcome(TRUE, {}) /\ Same
      BY <1>12, <2>3 DEF AsksAgain
    <3>2. QED  BY <1>0, <3>1, OutcomeType
  <2>4. QED  BY <2>1, <2>2, <2>3
<1>13. CASE TakesBack
  <2>1. terminal' \in [Terminals -> Terminal]
    BY <1>13, KilledType DEF TakesBack, Underway, InHand
  <2>2. att' \in Attempt
    BY <1>13, OutcomeType DEF TakesBack
  <2>3. robbed' \in BOOLEAN
    BY <1>13, Zenon DEF TakesBack, TypeOK
  <2>4. QED  BY <1>13, <2>1, <2>2, <2>3, Frame DEF TakesBack, TypeOK
<1>14. CASE EndsPartial
  BY <1>0, <1>14, NoAttemptType DEF EndsPartial
<1>15. CASE ReadsWindows
  <2>1. {[term |-> t, at |-> terminal[t]] : t \in Up} \subseteq [term : Terminals, at : Mapped]
    BY DEF Distinct, Up
  <2>2. QED  BY <1>0, <1>15, <2>1 DEF ReadsWindows, Attempt, Steps
<1>16. CASE WindowsUnknown
  BY <1>0, <1>16 DEF WindowsUnknown, Attempt, Steps
<1>17. CASE MapsWindows
  <2>1. \A w \in att.windows : /\ w.term \in Terminals
                                /\ w.at.addr \in Addresses /\ w.at.ws \in Workspaces
    BY <1>0 DEF Attempt, Mapped
  <2>2. \A t \in Clients : terminal[t].shows \in Sessions
    BY DEF Clients, Up, TypeOK, Terminal
  <2>3. att'.rows \subseteq Row
    <3>1. att'.rows = {RowOf(w) : w \in Joined}
      BY <1>0, <1>17 DEF MapsWindows, Attempt
    <3>2. \A w \in Joined : lives[w.at.ws] \in Monitors
      BY <2>1 DEF Joined, TypeOK
    <3>3. \A w \in Joined : RowOf(w) \in Row
      BY <2>1, <2>2, <3>2 DEF Joined, RowOf, Row
    <3>4. QED  BY <3>1, <3>3
  <2>4. att' \in Attempt
    <3>1. att' = [att EXCEPT !.pc = "writing", !.windows = {}, !.rows = {RowOf(w) : w \in Joined}]
      BY <1>17 DEF MapsWindows
    <3>2. {RowOf(w) : w \in Joined} \subseteq Row
      BY <1>0, <2>3, <3>1 DEF Attempt
    <3>3. QED  BY ONLY <1>0, <3>1, <3>2 DEF Attempt, Steps
  <2>5. QED  BY <1>0, <1>17, <2>4 DEF MapsWindows
<1>18. CASE Publishes
  <2>1. restorable' \in BOOLEAN /\ published' \subseteq Row
    BY <1>0, <1>18 DEF Publishes, Attempt
  <2>2. QED  BY <1>18, <2>1, NoAttemptType, Frame DEF Publishes, TypeOK
<1>19. CASE \/ NeverMapped \/ FindLost \/ MonitorsLost \/ DispatchRefused
            \/ Misplaced \/ NeverAttached
  BY <1>4, <1>5, <1>19 DEF NeverMapped, FindLost, MonitorsLost, DispatchRefused, Misplaced,
     NeverAttached, InHand
<1>20. QED
  BY <1>1, <1>2, <1>3, <1>6, <1>7, <1>8, <1>9, <1>11, <1>12, <1>13, <1>14, <1>15, <1>16,
     <1>17, <1>18, <1>19 DEF Pass

LEMMA TypeNext ==
    ASSUME TypeOK, Distinct, Underway, Next
    PROVE  TypeOK'
<1>1. CASE Deadline
  <2>1. att' \in Attempt
    BY <1>1 DEF Deadline, TypeOK, Attempt
  <2>2. QED  BY <1>1, <2>1, Frame DEF Deadline, TypeOK, Steady, Stays, desktop, source, history
<1>2. CASE Stops
  BY <1>2, NoAttemptType, Frame DEF Stops, TypeOK, Steady, Stays, desktop, source, history
<1>3. QED  BY <1>1, <1>2, WorldType, BeginsType, PassType DEF Next

-----------------------------------------------------------------------------
(* The first state. *)

\* A set of positions that is not empty has a last one.
LEMMA Greatest ==
    ASSUME NEW n \in Nat, NEW S \in SUBSET (1..n), S # {}
    PROVE  Max(S) \in S /\ \A i \in S : i <= Max(S)
<1> DEFINE T == {n - i : i \in S}
<1>1. T \in SUBSET Nat /\ T # {}
  <2>1. \A i \in S : i \in Nat /\ n - i \in Nat
    OBVIOUS
  <2>2. QED  BY <2>1
<1>2. PICK b \in T : \A c \in T : b <= c
  BY <1>1, Least
<1>3. PICK m \in S : b = n - m
  BY <1>2
<1>4. \A i \in S : n - m <= n - i
  BY <1>2, <1>3
<1>5. m \in S /\ \A i \in S : m >= i
  BY <1>4
<1>6. QED  BY <1>5 DEF Max

\* The layout a restore works from is what its boot's desktop last answered,
\* of the sessions the source holds.
LEMMA LayoutIsLastAnswer ==
    ASSUME NEW src \in Captured, NEW older \in [1..Depth -> Captured],
           src.placed \subseteq Held, src.state # "building",
           Honest(src), \A i \in 1..Depth : Honest(older[i])
    PROVE  /\ PlacementForRestore(src, older) = Nothing <=> LastAnswer(src, older) = Nothing
           /\ PlacementForRestore(src, older) # Nothing =>
                  /\ LastAnswer(src, older) = PlacementForRestore(src, older)
                  /\ PlacementForRestore(src, older) \subseteq Sessions
<1> DEFINE all == Append(older, src)
           n == Depth + 1
           knew == {i \in DOMAIN older : older[i].boot = src.boot /\ older[i].state = "known"}
           answered == {i \in DOMAIN all : /\ all[i].boot = src.boot
                                           /\ \/ all[i].state = "known"
                                              \/ i = Len(all) /\ src.state = "disabled"}
           last == {s \in Held : \E i \in answered :
                       /\ s \in all[i].placed
                       /\ \A j \in answered : j > i => s \in all[j].placed}
<1>1. Depth \in Nat /\ Held \subseteq Sessions /\ \A S \in SUBSET Sessions : Nothing # S
  BY PlacementAssumption
<1>2. older \in Seq(Captured) /\ Len(older) = Depth
  BY <1>1
<1>3. /\ DOMAIN all = 1..n /\ Len(all) = n /\ all[n] = src /\ DOMAIN older = 1..Depth
      /\ \A i \in 1..Depth : all[i] = older[i]
  BY <1>1, <1>2
<1>4. LastAnswer(src, older) = IF answered = {} THEN Nothing ELSE last
  BY DEF LastAnswer
<1>5. PlacementForRestore(src, older) =
         IF src.state # "unknown" THEN src.placed
         ELSE IF knew = {} THEN Nothing ELSE older[Max(knew)].placed \intersect Held
  BY DEF PlacementForRestore
<1>6. CASE src.state # "unknown"
  <2>1. n \in answered
    BY <1>1, <1>3, <1>6 DEF Captured
  <2>2. \A i \in answered : i \in Nat /\ i <= n
    BY <1>1, <1>3
  <2> HIDE DEF answered, all
  <2>3. last \subseteq src.placed
    BY <1>1, <1>3, <2>1, <2>2
  <2>4. src.placed \subseteq last
    BY <1>1, <1>3, <2>1, <2>2
  <2>5. last = src.placed /\ src.placed \subseteq Sessions
    BY <1>1, <2>3, <2>4
  <2>6. QED  BY <1>1, <1>4, <1>5, <1>6, <2>1, <2>5
<1>7. CASE src.state = "unknown"
  <2>1. answered = knew
    BY <1>1, <1>3, <1>7
  <2>2. knew \in SUBSET (1..Depth)
    BY <1>3
  <2>3. CASE knew = {}
    BY <1>4, <1>5, <1>7, <2>1, <2>3
  <2>4. CASE knew # {}
    <3> DEFINE m == Max(knew)
    <3> HIDE DEF answered, knew, all
    <3>1. \A i \in knew : i \in Nat /\ all[i] = older[i]
      BY ONLY <1>3, <2>2
    <3>2. m \in knew /\ \A i \in knew : i <= m
      BY ONLY <1>1, <2>2, <2>4, Greatest
    <3> HIDE DEF m
    <3>3. last \subseteq older[m].placed \intersect Held
      BY <2>1, <3>1, <3>2
    <3>4. older[m].placed \intersect Held \subseteq last
      <4>1. \A j \in knew : ~(j > m)
        BY <3>1, <3>2
      <4>2. \A s \in older[m].placed \intersect Held :
               s \in all[m].placed /\ \A j \in answered : j > m => s \in all[j].placed
        BY <2>1, <3>1, <3>2, <4>1
      <4>3. QED  BY <2>1, <3>2, <4>2
    <3>5. last = older[m].placed \intersect Held
      BY <3>3, <3>4
    <3>6. last \subseteq Sessions /\ last # Nothing
      BY <1>1
    <3>7. QED  BY <1>4, <1>5, <1>7, <2>1, <2>4, <3>5, <3>6 DEF m
  <2>5. QED  BY <2>3, <2>4
<1>8. QED  BY <1>6, <1>7

LEMMA First == Init => TypeOK /\ IInv
<1> SUFFICES ASSUME Init PROVE TypeOK /\ IInv
  OBVIOUS
<1>1. PICK src \in Captured, older \in [1..Depth -> Captured] :
         /\ src.state # "building" /\ src.placed \subseteq Held
         /\ Honest(src) /\ \A i \in 1..Depth : Honest(older[i])
         /\ layout = PlacementForRestore(src, older)
         /\ owed = LastAnswer(src, older)
  BY DEF Init
<1>2. /\ layout = Nothing <=> owed = Nothing
      /\ layout # Nothing => owed = layout /\ layout \subseteq Sessions
  BY <1>1, LayoutIsLastAnswer
<1>3. \A t \in Terminals : terminal[t] = Unused
  BY DEF Init
<1>4. /\ att = NoAttempt /\ att.pc = "idle" /\ att.left = {} /\ att.session = Nothing
      /\ att \in Attempt
  BY NoAttemptType DEF Init, NoAttempt
<1>5. /\ plugged \in (SUBSET Monitors) \ {{}} /\ active \in [plugged -> Workspaces]
      /\ lives \in [Workspaces -> plugged]
  BY Zenon DEF Init
<1>6. terminal \in [Terminals -> Terminal] /\ attempt \in 0..MaxAttempts
  BY UnusedType, PlacementAssumption DEF Init
<1>7. TypeOK
  <2>1. plugged \subseteq Monitors /\ plugged # {}
    BY <1>5
  <2>2. /\ placing \in BOOLEAN /\ restorable \in BOOLEAN /\ robbed \in BOOLEAN
        /\ published \subseteq Row /\ landed \subseteq Sessions
    BY Zenon DEF Init
  <2>3. owed = Nothing \/ owed \subseteq Sessions
    BY <1>2
  <2>4. layout = Nothing \/ layout \subseteq Sessions
    BY <1>2
  <2>5. QED  BY <1>4, <1>5, <1>6, <2>1, <2>2, <2>3, <2>4 DEF TypeOK
<1>8. Up = {}
  BY <1>3 DEF Up, Unused
<1>9. Answered /\ Distinct
  BY <1>2, <1>8 DEF Answered, Distinct
<1>10. Underway /\ Shown /\ Claimed /\ Arrived
  BY <1>4 DEF Underway, Shown, Claimed, Arrived, InHand
<1>11. ShownIsKept
  BY DEF Init, ShownIsKept
<1>12. QED  BY <1>7, <1>9, <1>10, <1>11 DEF IInv

-----------------------------------------------------------------------------
(* The steps, one invariant part after the other.                          *)

\* The source and the desktop are what they were.
LEMMA SourceKept == [Next]_vars => UNCHANGED <<layout, owed, placing, plugged>>
<1> USE DEF Steady, Stays, desktop, source, history, Becomes
<1>1. World => UNCHANGED <<layout, owed, placing, plugged>>
  BY DEF World, Maps, Remaps, Dies, Shows, UserOpens, UserMoves
<1>2. \A d \in SUBSET Held : Begins(d) => UNCHANGED <<layout, owed, placing, plugged>>
  BY DEF Begins
<1>3. Pass => UNCHANGED <<layout, owed, placing, plugged>>
  BY DEF Pass, Skips, Spawns, SpawnFails, Finds, NeverMapped, FindLost, ListsMonitors,
     MonitorsLost, Dispatches, DispatchRefused, DispatchedAll, Misplaced, ReadsBack, Polls,
     AsksAgain, NeverAttached, TakesBack, EndsPartial, ReadsWindows, WindowsUnknown,
     MapsWindows, Publishes, Lost, Leaves
<1>4. QED  BY <1>1, <1>2, <1>3 DEF Next, Deadline, Stops, vars

LEMMA AnsweredNext == Answered /\ [Next]_vars => Answered'
BY SourceKept DEF Answered

\* One terminal becomes another, in a window of its own if it has one.
LEMMA OneTerminal ==
    ASSUME TypeOK, Distinct, NEW t \in Terminals, NEW new \in Terminal,
           terminal' = [terminal EXCEPT ![t] = new],
           new.state = "up" =>
              new \in Mapped /\ \A u \in Up \ {t} : terminal[u].addr # new.addr
    PROVE  Distinct'
<1>1. /\ terminal'[t] = new
      /\ \A u \in Terminals \ {t} : terminal'[u] = terminal[u]
  BY DEF TypeOK
<1>2. /\ \A u \in Up' \ {t} : u \in Up /\ terminal'[u] = terminal[u]
      /\ t \in Up' => new.state = "up"
      /\ Up' \subseteq Terminals
  BY <1>1 DEF Up
<1>3. \A u \in Up' : terminal'[u] \in Mapped
  BY <1>1, <1>2 DEF Distinct
<1>4. \A u, v \in Up' : terminal'[u].addr = terminal'[v].addr => u = v
  BY <1>1, <1>2 DEF Distinct
<1>5. QED  BY <1>3, <1>4 DEF Distinct, Mapped, Terminal

LEMMA DistinctKilled ==
    ASSUME TypeOK, Distinct, NEW t \in Terminals, terminal' = Killed(t)
    PROVE  Distinct'
<1> DEFINE new == IF terminal[t].state \in {"starting", "up"} THEN Dead(t) ELSE terminal[t]
<1>1. terminal' = [terminal EXCEPT ![t] = new]
  BY DEF Killed, TypeOK
<1>2. terminal[t] \in Terminal
  BY DEF TypeOK
<1>3. new \in Terminal /\ new.state # "up"
  BY <1>2, UnusedType DEF Dead, Unused, Terminal
<1> HIDE DEF new
<1>4. QED  BY <1>1, <1>3, OneTerminal

LEMMA DistinctWorld ==
    ASSUME TypeOK, Distinct, World
    PROVE  Distinct'
<1>1. \A t \in Terminals : terminal[t] \in Terminal
  BY DEF TypeOK
<1>2. \A m \in plugged : active[m] \in Workspaces
  BY DEF TypeOK
<1>3. \A a \in Free : a \in Addresses /\ \A u \in Up : terminal[u].addr # a
  BY DEF Free
<1>4. \A t \in Up : t \in Terminals /\ terminal[t] \in Mapped
  BY DEF Distinct, Up
<1>5. ASSUME NEW t \in Terminals, Maps(t) PROVE Distinct'
  <2>1. PICK a \in Free, m \in plugged :
           terminal' = [terminal EXCEPT ![t] = [terminal[t] EXCEPT !.state = "up", !.addr = a,
                                                                   !.ws = active[m]]]
    BY <1>5 DEF Maps, Becomes
  <2> DEFINE new == [terminal[t] EXCEPT !.state = "up", !.addr = a, !.ws = active[m]]
  <2>2. new \in Mapped /\ new.addr = a
    BY <1>1, <1>2, <1>3, <2>1 DEF Terminal, Mapped
  <2> HIDE DEF new
  <2>3. QED  BY <1>3, <2>1, <2>2, OneTerminal DEF new, Mapped
<1>6. ASSUME NEW t \in Terminals, Remaps(t) PROVE Distinct'
  <2>1. PICK a \in Free : terminal' = [terminal EXCEPT ![t] = [terminal[t] EXCEPT !.addr = a]]
    BY <1>6 DEF Remaps, Becomes
  <2> DEFINE new == [terminal[t] EXCEPT !.addr = a]
  <2>2. new \in Mapped /\ new.addr = a
    BY <1>1, <1>3, <1>4, <1>6, <2>1 DEF Terminal, Mapped, Remaps
  <2> HIDE DEF new
  <2>3. QED  BY <1>3, <2>1, <2>2, OneTerminal DEF new, Mapped
<1>7. ASSUME NEW t \in Terminals, Dies(t) PROVE Distinct'
  <2>1. Dead(t) \in Terminal /\ Dead(t).state # "up"
    BY <1>1, UnusedType DEF Dead, Terminal, Unused
  <2>2. QED  BY <1>7, <2>1, OneTerminal DEF Dies, Becomes
<1>8. ASSUME NEW t \in Terminals, NEW s \in Sessions, Shows(t, s) PROVE Distinct'
  <2> DEFINE new == [terminal[t] EXCEPT !.shows = s]
  <2>1. terminal' = [terminal EXCEPT ![t] = new]
    BY <1>8 DEF Shows, TypeOK
  <2>2. new \in Mapped /\ new.addr = terminal[t].addr
    BY <1>1, <1>4, <1>8 DEF Terminal, Mapped, Shows
  <2>3. \A u \in Up \ {t} : terminal[u].addr # terminal[t].addr
    BY <1>8 DEF Shows, Distinct
  <2> HIDE DEF new
  <2>4. QED  BY <2>1, <2>2, <2>3, OneTerminal DEF Mapped
<1>9. ASSUME NEW t \in Terminals, NEW s \in Sessions \union {Nothing}, UserOpens(t, s)
      PROVE  Distinct'
  <2>1. PICK a \in Free, m \in plugged :
           terminal' = [terminal EXCEPT ![t] = [state |-> "up", ours |-> FALSE, addr |-> a,
                                                ws |-> active[m], shows |-> s]]
    BY <1>9 DEF UserOpens, Becomes
  <2> DEFINE new == [state |-> "up", ours |-> FALSE, addr |-> a, ws |-> active[m], shows |-> s]
  <2>2. new \in Mapped /\ new.addr = a
    BY <1>2, <1>3, <2>1 DEF Terminal, Mapped
  <2> HIDE DEF new
  <2>3. QED  BY <1>3, <2>1, <2>2, OneTerminal DEF new, Mapped
<1>10. ASSUME NEW t \in Terminals, NEW ws \in Workspaces, UserMoves(t, ws) PROVE Distinct'
  <2> DEFINE new == [terminal[t] EXCEPT !.ws = ws]
  <2>1. terminal' = [terminal EXCEPT ![t] = new]
    BY <1>10 DEF UserMoves, Becomes
  <2>2. new \in Mapped /\ new.addr = terminal[t].addr
    BY <1>1, <1>4, <1>10 DEF Terminal, Mapped, UserMoves
  <2>3. \A u \in Up \ {t} : terminal[u].addr # terminal[t].addr
    BY <1>10 DEF UserMoves, Distinct
  <2> HIDE DEF new
  <2>4. QED  BY <2>1, <2>2, <2>3, OneTerminal DEF Mapped
<1>11. QED  BY <1>5, <1>6, <1>7, <1>8, <1>9, <1>10 DEF World

LEMMA DistinctSame == ASSUME Distinct, UNCHANGED terminal PROVE Distinct'
BY DEF Distinct, Up

LEMMA DistinctNext ==
    ASSUME TypeOK, Distinct, Underway, [Next]_vars
    PROVE  Distinct'
<1> USE DEF Steady, Stays, history
<1>1. CASE World
  BY <1>1, DistinctWorld
<1>2. ASSUME NEW s \in Sessions, Spawns(s) PROVE Distinct'
  <2> DEFINE t == Min({u \in Terminals : terminal[u].state = "unused"})
             new == [Unused EXCEPT !.state = "starting", !.ours = TRUE]
  <2>1. t \in Terminals /\ terminal' = [terminal EXCEPT ![t] = new]
    BY <1>2, FirstTerminal DEF Spawns
  <2>2. new \in Terminal /\ new.state # "up"
    BY UnusedType DEF Unused, Terminal
  <2> HIDE DEF t, new
  <2>3. QED  BY <2>1, <2>2, OneTerminal
<1>3. CASE att.pc \in InHand /\ (Lost \/ TakesBack)
  BY <1>3, DistinctKilled DEF Lost, TakesBack, Underway
<1>4. CASE Dispatches
  <2>1. att.session \in Sessions
    BY <1>4 DEF Dispatches, Underway, InHand, TypeOK, Attempt
  <2>2. PICK ws \in Workspaces :
           terminal' = [t \in Terminals |-> IF t \in At(att.window.addr)
                                             THEN [terminal[t] EXCEPT !.ws = ws] ELSE terminal[t]]
    BY <1>4, <2>1, SpotType, ResolveType DEF Dispatches, Spot, TypeOK
  <2>3. \A t \in Terminals : /\ terminal[t] \in Terminal
                               /\ \/ terminal'[t] = terminal[t]
                                  \/ terminal'[t] = [terminal[t] EXCEPT !.ws = ws]
    BY <2>2 DEF TypeOK
  <2>4. ASSUME NEW t \in Terminals
        PROVE  /\ terminal'[t].state = terminal[t].state
               /\ terminal'[t].addr = terminal[t].addr
               /\ terminal[t] \in Mapped => terminal'[t] \in Mapped
    <3>1. CASE terminal'[t] = terminal[t]
      BY <3>1
    <3>2. CASE terminal'[t] = [terminal[t] EXCEPT !.ws = ws]
      BY <2>3, <3>2 DEF Terminal, Mapped
    <3>3. QED  BY <2>3, <3>1, <3>2
  <2>5. \A t \in Up' : t \in Up /\ t \in Terminals
    BY <2>4 DEF Up
  <2>6. \A t \in Up' : terminal'[t] \in Mapped
    BY <2>4, <2>5 DEF Distinct
  <2>7. \A t, u \in Up' : terminal'[t].addr = terminal'[u].addr => t = u
    BY <2>4, <2>5 DEF Distinct
  <2>8. QED  BY <2>6, <2>7 DEF Distinct, Mapped, Terminal
<1>5. CASE UNCHANGED terminal
  BY <1>5, DistinctSame
<1>6. QED
  BY <1>1, <1>2, <1>3, <1>4, <1>5 DEF Next, vars, Begins, Deadline, Stops, Pass, Skips,
     SpawnFails, Finds, NeverMapped, FindLost, ListsMonitors, MonitorsLost, DispatchRefused,
     DispatchedAll, Misplaced, ReadsBack, Polls, AsksAgain, NeverAttached, TakesBack,
     EndsPartial, ReadsWindows, WindowsUnknown, MapsWindows, Publishes, Leaves, InHand

\* The pass goes from one session to the next: what Outcome leaves.
LEMMA NextNext ==
    ASSUME Underway, UNCHANGED layout,
           att'.pc = "next", att'.session = Nothing, att'.left \subseteq att.left
    PROVE  Underway' /\ Shown'
BY DEF Underway, Shown, InHand

\* The world changes terminals, one at a time, and none of them in these ways.
LEMMA WorldKeeps ==
    ASSUME TypeOK, World
    PROVE  /\ UNCHANGED <<att, landed, robbed, published, restorable, layout, owed, placing,
                          plugged>>
           /\ \A t \in Terminals :
                 /\ terminal'[t].state = "unused" => terminal[t].state = "unused"
                 /\ terminal'[t].state = "starting" => terminal[t].state = "starting"
                 /\ terminal[t].state = "dead" => terminal'[t].state = "dead"
                 /\ terminal[t].state \notin {"unused", "dead"} /\ terminal[t].shows # Nothing =>
                       terminal'[t].shows # Nothing \/ terminal'[t].state = "dead"
<1> USE DEF Becomes, source, desktop, history
<1>1. /\ terminal \in [Terminals -> Terminal]
      /\ \A s \in Sessions : s # Nothing
  BY PlacementAssumption DEF TypeOK
<1>2. UNCHANGED <<att, landed, robbed, published, restorable, layout, owed, placing, plugged>>
  BY DEF World, Maps, Remaps, Dies, Shows, UserOpens, UserMoves
<1> DEFINE Alike(old, new) ==
              /\ new.state = "unused" => old.state = "unused"
              /\ new.state = "starting" => old.state = "starting"
              /\ old.state = "dead" => new.state = "dead"
              /\ old.state \notin {"unused", "dead"} /\ old.shows # Nothing =>
                    new.shows # Nothing \/ new.state = "dead"
<1>3. ASSUME NEW t \in Terminals, NEW new, terminal' = [terminal EXCEPT ![t] = new],
             Alike(terminal[t], new)
      PROVE  \A u \in Terminals : Alike(terminal[u], terminal'[u])
  BY <1>1, <1>3
<1>4. \A t \in Terminals : terminal[t] \in Terminal
  BY <1>1
<1>5. ASSUME NEW t \in Terminals, Maps(t) PROVE \A u \in Terminals : Alike(terminal[u], terminal'[u])
  <2>1. PICK a \in Free, m \in plugged :
           terminal' = [terminal EXCEPT ![t] = [terminal[t] EXCEPT !.state = "up", !.addr = a,
                                                                   !.ws = active[m]]]
    BY <1>5 DEF Maps
  <2>2. Alike(terminal[t], [terminal[t] EXCEPT !.state = "up", !.addr = a, !.ws = active[m]])
    BY <1>4, <1>5 DEF Terminal, Maps
  <2>3. QED  BY <1>3, <2>1, <2>2
<1>6. ASSUME NEW t \in Terminals, Remaps(t) PROVE \A u \in Terminals : Alike(terminal[u], terminal'[u])
  <2>1. PICK a \in Free : terminal' = [terminal EXCEPT ![t] = [terminal[t] EXCEPT !.addr = a]]
    BY <1>6 DEF Remaps
  <2>2. Alike(terminal[t], [terminal[t] EXCEPT !.addr = a])
    BY <1>4 DEF Terminal
  <2>3. QED  BY <1>3, <2>1, <2>2
<1>7. ASSUME NEW t \in Terminals, Dies(t) PROVE \A u \in Terminals : Alike(terminal[u], terminal'[u])
  <2>1. Alike(terminal[t], Dead(t))
    BY DEF Dead, Unused
  <2>2. QED  BY <1>3, <1>7, <2>1 DEF Dies
<1>8. ASSUME NEW t \in Terminals, NEW s \in Sessions, Shows(t, s)
      PROVE  \A u \in Terminals : Alike(terminal[u], terminal'[u])
  <2>1. terminal' = [terminal EXCEPT ![t] = [terminal[t] EXCEPT !.shows = s]]
    BY <1>1, <1>8 DEF Shows
  <2>2. Alike(terminal[t], [terminal[t] EXCEPT !.shows = s])
    BY <1>1, <1>4 DEF Terminal
  <2>3. QED  BY <1>3, <2>1, <2>2
<1>9. ASSUME NEW t \in Terminals, NEW s \in Sessions \union {Nothing}, UserOpens(t, s)
      PROVE  \A u \in Terminals : Alike(terminal[u], terminal'[u])
  <2>1. PICK a \in Free, m \in plugged :
           terminal' = [terminal EXCEPT ![t] = [state |-> "up", ours |-> FALSE, addr |-> a,
                                                ws |-> active[m], shows |-> s]]
    BY <1>9 DEF UserOpens
  <2>2. Alike(terminal[t], [state |-> "up", ours |-> FALSE, addr |-> a, ws |-> active[m],
                            shows |-> s])
    BY <1>9 DEF UserOpens
  <2>3. QED  BY <1>3, <2>1, <2>2
<1>10. ASSUME NEW t \in Terminals, NEW ws \in Workspaces, UserMoves(t, ws)
       PROVE  \A u \in Terminals : Alike(terminal[u], terminal'[u])
  <2>1. Alike(terminal[t], [terminal[t] EXCEPT !.ws = ws])
    BY <1>4 DEF Terminal
  <2>2. QED  BY <1>3, <1>10, <2>1 DEF UserMoves
<1>11. \A u \in Terminals : Alike(terminal[u], terminal'[u])
  BY <1>5, <1>6, <1>7, <1>8, <1>9, <1>10 DEF World
<1>12. QED  BY <1>2, <1>11

LEMMA InHandWorld ==
    ASSUME TypeOK, Underway, Shown, World
    PROVE  Underway' /\ Shown'
<1>1. att' = att /\ layout' = layout
  BY WorldKeeps
<1>2. CASE att.pc \in InHand
  <2>1. att.term \in Terminals /\ terminal[att.term] \in Terminal
        /\ terminal'[att.term] \in Terminal
    BY <1>2, WorldType DEF Underway, TypeOK
  <2>2. Underway'
    BY <1>1, <1>2, <2>1, WorldKeeps DEF Underway, Terminal, InHand
  <2>3. Shown'
    BY <1>1, <1>2, <2>1, WorldKeeps DEF Shown, Underway, Terminal, InHand, Up
  <2>4. QED  BY <2>2, <2>3
<1>3. CASE att.pc \notin InHand
  <2>1. Underway'
    BY <1>1, <1>3 DEF Underway, InHand
  <2>2. Shown'
    BY <1>1, <1>3 DEF Shown, InHand
  <2>3. QED  BY <2>1, <2>2
<1>4. QED  BY <1>2, <1>3

\* The session in hand goes one step further.
LEMMA Onward ==
    ASSUME Underway, UNCHANGED layout, att.pc \in InHand, att'.pc \in InHand \ {"finding"},
           att'.left = att.left, att'.session = att.session, att'.term = att.term,
           att'.window \in Window \/ att'.pc = "taking back",
           terminal'[att.term].state \in {"up", "dead"}
    PROVE  Underway'
BY DEF Underway, InHand

\* No session is in hand.
LEMMA NoneInHand ==
    ASSUME Underway, UNCHANGED layout, att'.pc \in Steps \ InHand, att'.session = Nothing,
           att'.left \subseteq att.left
    PROVE  Underway' /\ Shown'
BY DEF Underway, Shown, InHand

LEMMA InHandPass ==
    ASSUME TypeOK, Distinct, Underway, Shown, Pass
    PROVE  Underway' /\ Shown'
<1> USE DEF Steady, Stays, desktop, source, history
<1>0. att \in Attempt /\ UNCHANGED <<layout, owed, placing, plugged>>
  BY SourceKept DEF TypeOK, Next
<1>1. ASSUME NEW s \in Sessions, Skips(s) \/ SpawnFails(s) PROVE Underway' /\ Shown'
  <2>1. att' = [att EXCEPT !.left = @ \ {s}, !.degraded = TRUE] /\ att.pc = "next"
    BY <1>1 DEF Skips, SpawnFails
  <2>2. att'.left = att.left \ {s} /\ att'.pc = "next" /\ att'.session = att.session
    BY <1>0, <2>1 DEF Attempt
  <2>3. att.session = Nothing
    BY <2>1 DEF Underway, InHand
  <2>4. QED  BY <1>0, <2>2, <2>3, NextNext
<1>2. ASSUME NEW s \in Sessions, Spawns(s) PROVE Underway' /\ Shown'
  <2> DEFINE t == Min({u \in Terminals : terminal[u].state = "unused"})
  <2>1. /\ t \in Terminals
        /\ terminal' = [terminal EXCEPT ![t] = [Unused EXCEPT !.state = "starting", !.ours = TRUE]]
        /\ att' = [att EXCEPT !.pc = "finding", !.session = s, !.term = t]
        /\ s \in att.left
    BY <1>2, FirstTerminal DEF Spawns
  <2> HIDE DEF t
  <2>2. /\ att'.pc = "finding" /\ att'.session = s /\ att'.term = t /\ att'.left = att.left
    BY <1>0, <2>1 DEF Attempt
  <2>3. terminal'[t].state = "starting"
    BY <2>1 DEF TypeOK, Unused
  <2>4. QED  BY <1>0, <2>1, <2>2, <2>3 DEF Underway, Shown, InHand
<1>3. ASSUME NEW d \in BOOLEAN, NEW c \in SUBSET Row, Outcome(d, c) PROVE Underway' /\ Shown'
  BY <1>0, <1>3, OutcomeType, NextNext
<1>4. CASE Finds
  <2>1. PICK w \in OwnedWindow :
           att' = [att EXCEPT !.pc = "monitors", !.window = w, !.late = FALSE]
    BY <1>4 DEF Finds
  <2>2. terminal[att.term].state = "up" /\ w \in Window
    BY <2>1, WindowsType DEF OwnedWindow, Up
  <2>3. /\ att'.pc = "monitors" /\ att'.window = w /\ att'.left = att.left
        /\ att'.session = att.session /\ att'.term = att.term
    BY <1>0, <2>1 DEF Attempt
  <2>4. Underway'
    BY <1>0, <1>4, <2>2, <2>3, Onward DEF Finds, InHand
  <2>5. QED  BY <2>3, <2>4 DEF Shown
<1>5. CASE ListsMonitors
  <2>1. /\ att'.pc = "dispatching" /\ att'.window = att.window /\ att'.left = att.left
        /\ att'.session = att.session /\ att'.term = att.term
    BY <1>0, <1>5 DEF ListsMonitors, Attempt
  <2>2. att.window \in Window /\ terminal[att.term].state \in {"up", "dead"}
    BY <1>5 DEF ListsMonitors, Underway, InHand
  <2>3. Underway'
    BY <1>0, <1>5, <2>1, <2>2, Onward DEF ListsMonitors, InHand
  <2>4. QED  BY <2>1, <2>3 DEF Shown
<1>6. CASE Dispatches
  <2>1. /\ att'.pc = "dispatching" /\ att'.window = att.window /\ att'.left = att.left
        /\ att'.session = att.session /\ att'.term = att.term
    BY <1>0, <1>6 DEF Dispatches, Attempt
  <2>2. att.term \in Terminals /\ att.window \in Window
        /\ terminal[att.term].state \in {"up", "dead"} /\ terminal[att.term] \in Terminal
    BY <1>6 DEF Dispatches, Underway, InHand, TypeOK
  <2>3. terminal'[att.term].state = terminal[att.term].state
    BY <1>6, <2>2 DEF Dispatches, Terminal
  <2>4. Underway'
    BY <1>0, <1>6, <2>1, <2>2, <2>3, Onward DEF Dispatches, InHand
  <2>5. QED  BY <2>1, <2>4 DEF Shown
<1>7. CASE DispatchedAll
  <2>1. /\ att'.pc = "reading" /\ att'.window = att.window /\ att'.left = att.left
        /\ att'.session = att.session /\ att'.term = att.term
    BY <1>0, <1>7 DEF DispatchedAll, Attempt
  <2>2. att.window \in Window /\ terminal[att.term].state \in {"up", "dead"}
    BY <1>7 DEF DispatchedAll, Underway, InHand
  <2>3. Underway'
    BY <1>0, <1>7, <2>1, <2>2, Onward DEF DispatchedAll, InHand
  <2>4. QED  BY <2>1, <2>3 DEF Shown
<1>8. CASE ReadsBack
  <2>1. PICK w \in OwnedWindow :
           \/ att' = [att EXCEPT !.pc = "dispatching", !.window = w, !.todo = PlaceLua(w)]
           \/ att' = [att EXCEPT !.pc = "attaching", !.window = w, !.late = FALSE]
    BY <1>8 DEF ReadsBack
  <2>2. terminal[att.term].state = "up" /\ w \in Window
    BY <2>1, WindowsType DEF OwnedWindow, Up
  <2>3. /\ att'.pc = "dispatching" \/ (att'.pc = "attaching" /\ ~att'.late)
        /\ att'.window = w /\ att'.left = att.left
        /\ att'.session = att.session /\ att'.term = att.term
    <3>1. CASE att' = [att EXCEPT !.pc = "dispatching", !.window = w, !.todo = PlaceLua(w)]
      BY <1>0, <3>1 DEF Attempt
    <3>2. CASE att' = [att EXCEPT !.pc = "attaching", !.window = w, !.late = FALSE]
      BY <1>0, <3>2 DEF Attempt
    <3>3. QED  BY <2>1, <3>1, <3>2
  <2>4. Underway'
    BY <1>0, <1>8, <2>2, <2>3, Onward DEF ReadsBack, InHand
  <2>5. QED  BY <2>3, <2>4 DEF Shown
<1>9. CASE att.pc = "attaching" /\ Placed
  BY <1>3, <1>9, ClaimType DEF Placed
<1>10. ASSUME NEW answered \in BOOLEAN, Polls(answered) PROVE Underway' /\ Shown'
  <2>1. CASE answered /\ Verdict = "yes"
    BY <1>9, <1>10, <2>1 DEF Polls
  <2>2. CASE ~(answered /\ Verdict = "yes")
    <3>1. /\ att'.pc = att.pc /\ att'.window = att.window /\ att'.left = att.left
          /\ att'.session = att.session /\ att'.term = att.term
          /\ att'.late = att.late
      BY <1>0, <1>10, <2>2 DEF Polls, Attempt
    <3>2. att.pc = "attaching" /\ ~att.late /\ UNCHANGED terminal
      BY <1>10 DEF Polls
    <3>3. QED  BY <1>0, <3>1, <3>2 DEF Underway, Shown, InHand
  <2>3. QED  BY <2>1, <2>2
<1>11. ASSUME NEW answered \in BOOLEAN, AsksAgain(answered) PROVE Underway' /\ Shown'
  <2>1. CASE answered /\ Verdict = "yes"
    BY <1>9, <1>11, <2>1 DEF AsksAgain
  <2>2. CASE answered /\ Verdict = "no"
    <3>1. /\ att' = [att EXCEPT !.pc = "taking back"] /\ UNCHANGED terminal
          /\ att.pc = "attaching" /\ att.late
      BY <1>11, <2>2 DEF AsksAgain
    <3>2. /\ att'.pc = "taking back" /\ att'.left = att.left /\ att'.bare = att.bare
          /\ att'.session = att.session /\ att'.term = att.term
      BY <1>0, <3>1 DEF Attempt
    <3>3. terminal[att.term].shows = Nothing /\ terminal[att.term].state \in {"up", "dead"}
      BY <2>2, <3>1 DEF Verdict, Underway, InHand
    <3>4. Underway'
      BY <1>0, <3>1, <3>2, <3>3, Onward DEF InHand
    <3>5. Shown'
      BY <3>1, <3>2, <3>3 DEF Shown, Up
    <3>6. QED  BY <3>4, <3>5
  <2>3. CASE ~(answered /\ Verdict = "yes") /\ ~(answered /\ Verdict = "no")
    BY <1>3, <1>11, <2>3 DEF AsksAgain
  <2>4. QED  BY <2>1, <2>2, <2>3
<1>12. CASE Lost \/ Leaves \/ TakesBack
  BY <1>3, <1>12 DEF Lost, Leaves, TakesBack
<1>13. CASE EndsPartial \/ Publishes
  <2>1. att'.pc = "idle" /\ att'.session = Nothing /\ att'.left = {}
    BY <1>13 DEF EndsPartial, Publishes, NoAttempt
  <2>2. QED  BY <1>0, <2>1, NoneInHand DEF Steps, InHand
<1>14. CASE ReadsWindows \/ WindowsUnknown \/ MapsWindows
  <2>1. att'.pc \in {"joining", "writing"} /\ att'.session = att.session /\ att'.left = att.left
    BY <1>0, <1>14 DEF ReadsWindows, WindowsUnknown, MapsWindows, Attempt
  <2>2. att.session = Nothing
    BY <1>14 DEF ReadsWindows, WindowsUnknown, MapsWindows, Underway, InHand
  <2>3. QED  BY <1>0, <2>1, <2>2, NoneInHand DEF Steps, InHand
<1>15. QED
  BY <1>1, <1>2, <1>4, <1>5, <1>6, <1>7, <1>8, <1>10, <1>11, <1>12, <1>13, <1>14 DEF Pass,
     NeverMapped, FindLost, MonitorsLost, DispatchRefused, Misplaced, NeverAttached

LEMMA InHandNext ==
    ASSUME TypeOK, Distinct, Underway, Shown, [Next]_vars
    PROVE  Underway' /\ Shown'
<1> USE DEF Steady, Stays, desktop, source, history
<1>0. att \in Attempt /\ UNCHANGED <<layout, owed, placing, plugged>>
  BY SourceKept DEF TypeOK
<1>1. ASSUME NEW delivered \in SUBSET Held, Begins(delivered) PROVE Underway' /\ Shown'
  <2>1. PICK reachable \in BOOLEAN :
           /\ att'.pc = "next" /\ att'.session = Nothing
           /\ att'.left = IF placing /\ reachable /\ layout # Nothing THEN layout ELSE {}
    BY <1>1 DEF Begins, NoAttempt
  <2>2. QED  BY <1>0, <2>1 DEF Underway, Shown, InHand
<1>2. CASE Deadline
  <2> DEFINE bare == att.pc = "attaching" /\ terminal[att.term].shows = Nothing
  <2>1. att' = [att EXCEPT !.late = TRUE, !.bare = bare]
    BY <1>2 DEF Deadline
  <2>2. bare \in BOOLEAN
    OBVIOUS
  <2>3. /\ att'.pc = att.pc /\ att'.window = att.window /\ att'.left = att.left
        /\ att'.session = att.session /\ att'.term = att.term
        /\ att'.bare = bare
    BY <1>0, <2>1, <2>2 DEF Attempt
  <2>4. UNCHANGED terminal /\ att.pc # "taking back"
    BY <1>2 DEF Deadline
  <2>5. Underway'
    BY <1>0, <2>3, <2>4 DEF Underway, InHand
  <2>6. QED  BY <2>3, <2>4, <2>5 DEF Shown
<1>3. CASE Stops
  <2>1. att'.pc = "idle" /\ att'.session = Nothing /\ att'.left = {}
    BY <1>3 DEF Stops, NoAttempt
  <2>2. QED  BY <1>0, <2>1, NoneInHand DEF Steps, InHand
<1>4. CASE UNCHANGED vars
  BY <1>4 DEF vars, Underway, Shown, InHand, Up
<1>5. QED  BY <1>1, <1>2, <1>3, <1>4, InHandWorld, InHandPass DEF Next

\* A session that is done with has its claim, unless some work was not done.
LEMMA ClaimedDone ==
    ASSUME TypeOK, Claimed, UNCHANGED <<layout, placing, plugged>>, att.pc # "idle",
           att'.pc \in Steps \ {"joining", "writing"}, NEW done,
           att'.left = att.left \ done, att.claims \subseteq att'.claims,
           ~att'.degraded => /\ ~att.degraded
                             /\ \A s \in done : \E c \in att'.claims : ClaimOf(s, c)
    PROVE  Claimed'
BY DEF Claimed, ClaimOf, Resolve

LEMMA ClaimedPass ==
    ASSUME TypeOK, Distinct, Underway, Claimed, Pass
    PROVE  Claimed'
<1> USE DEF Steady, Stays, desktop, source, history
<1>0. att \in Attempt /\ UNCHANGED <<layout, owed, placing, plugged>>
  BY SourceKept DEF TypeOK, Next
<1> DEFINE Further == /\ att.pc # "idle" /\ att'.pc \in Steps \ {"joining", "writing"}
                      /\ att'.left = att.left /\ att'.claims = att.claims
                      /\ att'.degraded = att.degraded
<1>1. CASE Further
  <2>1. att'.left = att.left \ {}
    BY <1>1
  <2>2. QED  BY <1>0, <1>1, <2>1, ClaimedDone
<1>2. ASSUME NEW s \in Sessions, Skips(s) \/ SpawnFails(s) PROVE Claimed'
  <2>1. att' = [att EXCEPT !.left = @ \ {s}, !.degraded = TRUE] /\ att.pc = "next"
    BY <1>2 DEF Skips, SpawnFails
  <2>2. /\ att'.left = att.left \ {s} /\ att'.pc = "next" /\ att'.degraded
        /\ att'.claims = att.claims
    BY <1>0, <2>1 DEF Attempt
  <2>3. QED  BY <1>0, <2>1, <2>2, ClaimedDone DEF Steps
<1>3. ASSUME NEW s \in Sessions, Spawns(s) PROVE Claimed'
  <2>1. att' = [att EXCEPT !.pc = "finding", !.session = s,
                           !.term = Min({u \in Terminals : terminal[u].state = "unused"})]
    BY <1>3 DEF Spawns
  <2>2. Further
    BY <1>0, <1>3, <2>1 DEF Spawns, Attempt, Steps
  <2>3. QED  BY <1>1, <2>2
<1>4. CASE att.pc # "idle" /\ Outcome(TRUE, {})
  <2>1. /\ att'.left = att.left \ {att.session} /\ att'.pc = "next"
        /\ att'.degraded = (att.degraded \/ TRUE)
        /\ att'.claims = att.claims \union {}
    BY <1>4, OutcomeType
  <2>2. att'.degraded
    BY <2>1
  <2>3. QED  BY <1>0, <1>4, <2>1, <2>2, ClaimedDone DEF Steps
<1>5. CASE att.pc = "attaching" /\ Placed
  <2> DEFINE c == [session |-> att.session, addr |-> att.window.addr, ws |-> Spot.ws,
                   mon |-> Resolve(Spot.mon)]
  <2>1. c \in Row /\ ClaimOf(att.session, c)
    BY <1>5, ClaimType DEF ClaimOf, Spot
  <2>2. Outcome(FALSE, {c})
    BY <1>5 DEF Placed
  <2> HIDE DEF c
  <2>3. /\ att'.left = att.left \ {att.session} /\ att'.pc = "next"
        /\ att'.degraded = (att.degraded \/ FALSE)
        /\ att'.claims = att.claims \union {c}
    BY <2>1, <2>2, OutcomeType
  <2>4. \A s \in {att.session} : \E x \in att'.claims : ClaimOf(s, x)
    BY <2>1, <2>3
  <2>5. QED  BY <1>0, <1>5, <2>3, <2>4, ClaimedDone DEF Steps
<1>6. CASE Finds \/ ListsMonitors \/ Dispatches \/ DispatchedAll
  <2>1. Further
    BY <1>0, <1>6 DEF Finds, ListsMonitors, Dispatches, DispatchedAll, Attempt, Steps
  <2>2. QED  BY <1>1, <2>1
<1>7. CASE ReadsBack
  <2>1. PICK w \in OwnedWindow :
           \/ att' = [att EXCEPT !.pc = "dispatching", !.window = w, !.todo = PlaceLua(w)]
           \/ att' = [att EXCEPT !.pc = "attaching", !.window = w, !.late = FALSE]
    BY <1>7 DEF ReadsBack
  <2>2. CASE att' = [att EXCEPT !.pc = "dispatching", !.window = w, !.todo = PlaceLua(w)]
    BY <1>0, <1>1, <1>7, <2>2 DEF ReadsBack, Attempt, Steps
  <2>3. CASE att' = [att EXCEPT !.pc = "attaching", !.window = w, !.late = FALSE]
    BY <1>0, <1>1, <1>7, <2>3 DEF ReadsBack, Attempt, Steps
  <2>4. QED  BY <2>1, <2>2, <2>3
<1>8. ASSUME NEW answered \in BOOLEAN, Polls(answered) PROVE Claimed'
  <2>1. CASE answered /\ Verdict = "yes"
    BY <1>5, <1>8, <2>1 DEF Polls
  <2>2. CASE ~(answered /\ Verdict = "yes")
    BY <1>0, <1>1, <1>8, <2>2 DEF Polls, Attempt, Steps
  <2>3. QED  BY <2>1, <2>2
<1>9. ASSUME NEW answered \in BOOLEAN, AsksAgain(answered) PROVE Claimed'
  <2>1. CASE answered /\ Verdict = "yes"
    BY <1>5, <1>9, <2>1 DEF AsksAgain
  <2>2. CASE answered /\ Verdict = "no"
    BY <1>0, <1>1, <1>9, <2>2 DEF AsksAgain, Attempt, Steps
  <2>3. CASE ~(answered /\ Verdict = "yes") /\ ~(answered /\ Verdict = "no")
    BY <1>4, <1>9, <2>3 DEF AsksAgain
  <2>4. QED  BY <2>1, <2>2, <2>3
<1>10. CASE att.pc # "idle" /\ (Lost \/ Leaves \/ TakesBack)
  BY <1>4, <1>10 DEF Lost, Leaves, TakesBack
<1>11. CASE EndsPartial \/ Publishes
  <2>1. att'.pc = "idle"
    BY <1>11 DEF EndsPartial, Publishes, NoAttempt
  <2>2. QED  BY <2>1 DEF Claimed
<1>12. CASE ReadsWindows \/ WindowsUnknown \/ MapsWindows
  <2>1. /\ att'.left = att.left /\ att'.claims = att.claims /\ att'.degraded = att.degraded
        /\ att.pc # "idle"
    BY <1>0, <1>12 DEF ReadsWindows, WindowsUnknown, MapsWindows, Attempt
  <2>2. att.left = {} /\ ~att.degraded
    BY <1>12 DEF ReadsWindows, WindowsUnknown, MapsWindows, Claimed
  <2>3. QED  BY <1>0, <2>1, <2>2 DEF Claimed, ClaimOf, Resolve
<1>13. QED
  BY <1>2, <1>3, <1>6, <1>7, <1>8, <1>9, <1>10, <1>11, <1>12 DEF Pass, NeverMapped, FindLost,
     MonitorsLost, DispatchRefused, Misplaced, NeverAttached, TakesBack

LEMMA ClaimedNext ==
    ASSUME TypeOK, Distinct, Underway, Claimed, [Next]_vars
    PROVE  Claimed'
<1> USE DEF Steady, Stays, desktop, source, history
<1>0. att \in Attempt /\ UNCHANGED <<layout, owed, placing, plugged>>
  BY SourceKept DEF TypeOK
<1>1. ASSUME NEW delivered \in SUBSET Held, Begins(delivered) PROVE Claimed'
  <2>1. PICK reachable \in BOOLEAN :
           att' = [NoAttempt EXCEPT
                     !.pc = "next",
                     !.delivered = delivered,
                     !.left = IF placing /\ reachable /\ layout # Nothing THEN layout ELSE {},
                     !.degraded = \/ delivered # Held
                                  \/ placing /\ layout = Nothing
                                  \/ placing /\ layout # {} /\ ~reachable]
    BY <1>1 DEF Begins
  <2>2. /\ att'.pc = "next"
        /\ att'.left = IF placing /\ reachable /\ layout # Nothing THEN layout ELSE {}
        /\ ~att'.degraded => ~(placing /\ layout = Nothing)
                             /\ ~(placing /\ layout # {} /\ ~reachable)
    BY <2>1 DEF NoAttempt
  <2>3. QED  BY <1>0, <2>2 DEF Claimed
<1>2. CASE Deadline
  <2> DEFINE bare == att.pc = "attaching" /\ terminal[att.term].shows = Nothing
  <2>1. att' = [att EXCEPT !.late = TRUE, !.bare = bare] /\ att.pc # "idle"
        /\ att.pc \in Steps \ {"joining", "writing"}
    BY <1>2 DEF Deadline, Steps
  <2>2. /\ att'.pc = att.pc /\ att'.left = att.left \ {} /\ att'.claims = att.claims
        /\ att'.degraded = att.degraded
    BY <1>0, <2>1 DEF Attempt
  <2>3. QED  BY <1>0, <2>1, <2>2, ClaimedDone
<1>3. CASE Stops
  BY <1>3 DEF Stops, NoAttempt, Claimed
<1>4. CASE UNCHANGED att
  BY <1>0, <1>4 DEF Claimed, ClaimOf, Resolve
<1>5. QED  BY <1>1, <1>2, <1>3, <1>4, WorldKeeps, ClaimedPass DEF Next, vars

\* What is read back without a gap is the terminal's own window, in place.
LEMMA LandedOnceRead ==
    ASSUME ReadsBack, att'.pc = "attaching", att \in Attempt
    PROVE  landed' = landed \union {att.session}
<1>1. PICK w \in OwnedWindow :
         IF PlacementGap(w)
         THEN att' = [att EXCEPT !.pc = "dispatching", !.window = w, !.todo = PlaceLua(w)]
         ELSE landed' = IF Landed THEN landed \union {att.session} ELSE landed
  BY Zenon DEF ReadsBack
<1>2. ~PlacementGap(w)
  BY <1>1 DEF Attempt
<1>3. att.term \in Up /\ w = [addr |-> terminal[att.term].addr, ws |-> terminal[att.term].ws]
  BY <1>1 DEF OwnedWindow
<1>4. Landed
  BY <1>2, <1>3, Zenon DEF Landed
<1>5. QED  BY <1>1, <1>2, <1>4

\* Only a restore that begins forgets what landed.
LEMMA LandedGrows ==
    ASSUME TypeOK, World \/ Pass \/ Deadline \/ Stops
    PROVE  landed \subseteq landed'
<1> USE DEF Steady, Stays, desktop, source, history
<1>1. CASE ReadsBack
  <2>1. landed' = landed \/ landed' = landed \union {att.session}
    BY <1>1, Zenon DEF ReadsBack
  <2>2. QED  BY <2>1
<1>2. CASE UNCHANGED landed
  BY <1>2
<1>3. QED
  BY <1>1, <1>2, WorldKeeps DEF Deadline, Stops, Pass, Skips, Spawns, SpawnFails, Finds,
     NeverMapped, FindLost, ListsMonitors, MonitorsLost, Dispatches, DispatchRefused,
     DispatchedAll, Misplaced, Polls, AsksAgain, NeverAttached, TakesBack, EndsPartial,
     ReadsWindows, WindowsUnknown, MapsWindows, Publishes, Lost, Leaves

\* A session is left to place, or it landed, or some work was not done.
LEMMA ArrivedDone ==
    ASSUME Arrived, UNCHANGED <<layout, placing>>, att.pc # "idle", landed \subseteq landed',
           NEW done, att'.left = att.left \ done,
           att'.pc = "attaching" => att'.session \in landed',
           ~att'.degraded => ~att.degraded /\ done \subseteq landed'
    PROVE  Arrived'
BY DEF Arrived

LEMMA ArrivedPass ==
    ASSUME TypeOK, Distinct, Underway, Arrived, Pass
    PROVE  Arrived'
<1> USE DEF Steady, Stays, desktop, source, history
<1>0. att \in Attempt /\ UNCHANGED <<layout, placing>> /\ landed \subseteq landed'
  BY SourceKept, LandedGrows DEF TypeOK, Next
<1> DEFINE Further == /\ att.pc # "idle" /\ att'.pc # "attaching"
                      /\ att'.left = att.left /\ att'.degraded = att.degraded
<1>1. CASE Further
  <2>1. att'.left = att.left \ {}
    BY <1>1
  <2>2. QED  BY <1>0, <1>1, <2>1, ArrivedDone
<1>2. ASSUME NEW s \in Sessions, Skips(s) \/ SpawnFails(s) PROVE Arrived'
  <2>1. att' = [att EXCEPT !.left = @ \ {s}, !.degraded = TRUE] /\ att.pc = "next"
    BY <1>2 DEF Skips, SpawnFails
  <2>2. att'.left = att.left \ {s} /\ att'.pc = "next" /\ att'.degraded
    BY <1>0, <2>1 DEF Attempt
  <2>3. QED  BY <1>0, <2>1, <2>2, ArrivedDone
<1>3. ASSUME NEW s \in Sessions, Spawns(s) PROVE Arrived'
  <2>1. att' = [att EXCEPT !.pc = "finding", !.session = s,
                           !.term = Min({u \in Terminals : terminal[u].state = "unused"})]
    BY <1>3 DEF Spawns
  <2>2. Further
    BY <1>0, <1>3, <2>1 DEF Spawns, Attempt
  <2>3. QED  BY <1>1, <2>2
<1>4. CASE att.pc # "idle" /\ Outcome(TRUE, {})
  <2>1. /\ att'.left = att.left \ {att.session} /\ att'.pc = "next"
        /\ att'.degraded = (att.degraded \/ TRUE)
    BY <1>4, OutcomeType
  <2>2. att'.degraded
    BY <2>1
  <2>3. QED  BY <1>0, <1>4, <2>1, <2>2, ArrivedDone
<1>5. CASE att.pc = "attaching" /\ Placed
  <2> DEFINE c == [session |-> att.session, addr |-> att.window.addr, ws |-> Spot.ws,
                   mon |-> Resolve(Spot.mon)]
  <2>1. c \in Row
    BY <1>5, ClaimType
  <2>2. Outcome(FALSE, {c})
    BY <1>5 DEF Placed
  <2> HIDE DEF c
  <2>3. /\ att'.left = att.left \ {att.session} /\ att'.pc = "next"
        /\ att'.degraded = (att.degraded \/ FALSE)
    BY <2>1, <2>2, OutcomeType
  <2>4. {att.session} \subseteq landed'
    BY <1>0, <1>5 DEF Arrived
  <2>5. QED  BY <1>0, <1>5, <2>3, <2>4, ArrivedDone
<1>6. CASE Finds \/ ListsMonitors \/ Dispatches \/ DispatchedAll
  <2>1. Further
    BY <1>0, <1>6 DEF Finds, ListsMonitors, Dispatches, DispatchedAll, Attempt
  <2>2. QED  BY <1>1, <2>1
<1>7. CASE ReadsBack
  <2>1. PICK w \in OwnedWindow :
           \/ att' = [att EXCEPT !.pc = "dispatching", !.window = w, !.todo = PlaceLua(w)]
           \/ att' = [att EXCEPT !.pc = "attaching", !.window = w, !.late = FALSE]
    BY <1>7 DEF ReadsBack
  <2>2. CASE att' = [att EXCEPT !.pc = "dispatching", !.window = w, !.todo = PlaceLua(w)]
    BY <1>0, <1>1, <1>7, <2>2 DEF ReadsBack, Attempt
  <2>3. CASE att' = [att EXCEPT !.pc = "attaching", !.window = w, !.late = FALSE]
    <3>1. /\ att'.pc = "attaching" /\ att'.left = att.left \ {} /\ att'.session = att.session
          /\ att'.degraded = att.degraded /\ att.pc # "idle"
      BY <1>0, <1>7, <2>3 DEF ReadsBack, Attempt
    <3>2. att'.session \in landed'
      BY <1>0, <1>7, <3>1, LandedOnceRead
    <3>3. QED  BY <1>0, <3>1, <3>2, ArrivedDone
  <2>4. QED  BY <2>1, <2>2, <2>3
<1>8. ASSUME NEW answered \in BOOLEAN, Polls(answered) PROVE Arrived'
  <2>1. CASE answered /\ Verdict = "yes"
    BY <1>5, <1>8, <2>1 DEF Polls
  <2>2. CASE ~(answered /\ Verdict = "yes")
    <3>1. /\ att.pc = "attaching" /\ att'.left = att.left \ {} /\ att'.session = att.session
          /\ att'.degraded = att.degraded
      BY <1>0, <1>8, <2>2 DEF Polls, Attempt
    <3>2. att'.session \in landed'
      BY <1>0, <3>1 DEF Arrived
    <3>3. QED  BY <1>0, <3>1, <3>2, ArrivedDone
  <2>3. QED  BY <2>1, <2>2
<1>9. ASSUME NEW answered \in BOOLEAN, AsksAgain(answered) PROVE Arrived'
  <2>1. CASE answered /\ Verdict = "yes"
    BY <1>5, <1>9, <2>1 DEF AsksAgain
  <2>2. CASE answered /\ Verdict = "no"
    BY <1>0, <1>1, <1>9, <2>2 DEF AsksAgain, Attempt
  <2>3. CASE ~(answered /\ Verdict = "yes") /\ ~(answered /\ Verdict = "no")
    BY <1>4, <1>9, <2>3 DEF AsksAgain
  <2>4. QED  BY <2>1, <2>2, <2>3
<1>10. CASE att.pc # "idle" /\ (Lost \/ Leaves \/ TakesBack)
  BY <1>4, <1>10 DEF Lost, Leaves, TakesBack
<1>11. CASE EndsPartial \/ Publishes
  <2>1. att'.pc = "idle"
    BY <1>11 DEF EndsPartial, Publishes, NoAttempt
  <2>2. QED  BY <2>1 DEF Arrived
<1>12. CASE ReadsWindows \/ WindowsUnknown \/ MapsWindows
  <2>1. Further
    BY <1>0, <1>12 DEF ReadsWindows, WindowsUnknown, MapsWindows, Attempt
  <2>2. QED  BY <1>1, <2>1
<1>13. QED
  BY <1>2, <1>3, <1>6, <1>7, <1>8, <1>9, <1>10, <1>11, <1>12 DEF Pass, NeverMapped, FindLost,
     MonitorsLost, DispatchRefused, Misplaced, NeverAttached, TakesBack

LEMMA ArrivedNext ==
    ASSUME TypeOK, Distinct, Underway, Arrived, [Next]_vars
    PROVE  Arrived'
<1> USE DEF Steady, Stays, desktop, source, history
<1>0. att \in Attempt /\ UNCHANGED <<layout, placing>>
  BY SourceKept DEF TypeOK
<1>1. ASSUME NEW delivered \in SUBSET Held, Begins(delivered) PROVE Arrived'
  <2>1. PICK reachable \in BOOLEAN :
           /\ att'.pc = "next"
           /\ att'.left = IF placing /\ reachable /\ layout # Nothing THEN layout ELSE {}
           /\ ~att'.degraded => ~(placing /\ layout = Nothing)
                                /\ ~(placing /\ layout # {} /\ ~reachable)
    BY <1>1 DEF Begins, NoAttempt
  <2>2. QED  BY <1>0, <2>1 DEF Arrived
<1>2. CASE Deadline
  <2> DEFINE bare == att.pc = "attaching" /\ terminal[att.term].shows = Nothing
  <2>1. att' = [att EXCEPT !.late = TRUE, !.bare = bare] /\ att.pc # "idle"
    BY <1>2 DEF Deadline
  <2>2. /\ att'.pc = att.pc /\ att'.left = att.left \ {} /\ att'.session = att.session
        /\ att'.degraded = att.degraded
    BY <1>0, <2>1 DEF Attempt
  <2>3. landed \subseteq landed'
    BY <1>2, LandedGrows
  <2>4. QED  BY <1>0, <2>1, <2>2, <2>3, ArrivedDone DEF Arrived
<1>3. CASE Stops
  BY <1>3 DEF Stops, NoAttempt, Arrived
<1>4. CASE UNCHANGED <<att, landed>>
  BY <1>0, <1>4 DEF Arrived
<1>5. QED  BY <1>1, <1>2, <1>3, <1>4, WorldKeeps, ArrivedPass DEF Next, vars

\* A terminal taken back showed nothing when its time ran out.
LEMMA ShownIsKeptNext ==
    ASSUME TypeOK, Shown, ShownIsKept, [Next]_vars
    PROVE  ShownIsKept'
<1> USE DEF Steady, Stays, desktop, source, history
<1>1. CASE TakesBack
  BY <1>1, Zenon DEF TakesBack, Shown, ShownIsKept
<1>2. CASE UNCHANGED robbed
  BY <1>2 DEF ShownIsKept
<1>3. QED
  BY <1>1, <1>2, WorldKeeps DEF Next, vars, Begins, Deadline, Stops, Pass, Skips, Spawns,
     SpawnFails, Finds, NeverMapped, FindLost, ListsMonitors, MonitorsLost, Dispatches,
     DispatchRefused, DispatchedAll, Misplaced, ReadsBack, Polls, AsksAgain, NeverAttached,
     EndsPartial, ReadsWindows, WindowsUnknown, MapsWindows, Publishes, Lost, Leaves

-----------------------------------------------------------------------------
(* The theorems. *)

THEOREM Invariant == Spec => [](TypeOK /\ IInv)
<1>1. TypeOK /\ IInv /\ [Next]_vars => TypeOK' /\ IInv'
  <2> SUFFICES ASSUME TypeOK, IInv, [Next]_vars PROVE TypeOK' /\ IInv'
    OBVIOUS
  <2> USE DEF IInv
  <2>1. TypeOK'
    BY TypeNext DEF vars, TypeOK
  <2>2. Answered' /\ Distinct'
    BY AnsweredNext, DistinctNext
  <2>3. Underway' /\ Shown' /\ Claimed' /\ Arrived'
    BY InHandNext, ClaimedNext, ArrivedNext
  <2>4. ShownIsKept'
    BY ShownIsKeptNext
  <2>5. QED  BY <2>1, <2>2, <2>3, <2>4
<1>2. QED  BY <1>1, First, PTL DEF Spec

\* Every state of every run has its type: a terminal's window, when it is up,
\* is an address and a workspace, and a pass is where its fields say it is.
THEOREM PlacementTypes == Spec => []TypeOK
BY Invariant, PTL

\* No terminal is opened for a session the desktop had been cleared of: the
\* pass works through the layout, and the layout is what that boot's desktop
\* last answered (desktop.rs placement_for_restore).
THEOREM NothingInventedHolds == Spec => []NothingInvented
<1>1. TypeOK /\ IInv => NothingInvented
  BY DEF IInv, Answered, Underway, NothingInvented
<1>2. QED  BY <1>1, Invariant, PTL

\* A terminal that showed a session when its time ran out is never taken back,
\* however the user switches its client after that (desktop.rs attach_verdict).
THEOREM ShownIsKeptHolds == Spec => []ShownIsKept
<1>1. TypeOK /\ IInv => ShownIsKept
  BY DEF IInv
<1>2. QED  BY <1>1, Invariant, PTL

\* A snapshot is retired by a publication that found every claim again, after
\* a pass that left no work undone.
LEMMA Retires ==
    ASSUME TypeOK, IInv, [Next]_vars, restorable, ~restorable', placing
    PROVE  /\ Publishes /\ att.claims \subseteq published'
           /\ att.pc = "writing" /\ att.left = {} /\ ~att.degraded
           /\ owed # Nothing /\ owed = layout
<1>1. Publishes
  BY WorldKeeps DEF Next, vars, Begins, Deadline, Stops, Pass, Skips, Spawns, SpawnFails,
     Finds, NeverMapped, FindLost, ListsMonitors, MonitorsLost, Dispatches, DispatchRefused,
     DispatchedAll, Misplaced, ReadsBack, Polls, AsksAgain, NeverAttached, TakesBack,
     EndsPartial, ReadsWindows, WindowsUnknown, MapsWindows, Lost, Leaves, Steady, Stays,
     history
<1>2. att.claims \subseteq published' /\ att.pc = "writing"
  BY <1>1 DEF Publishes, UnplacedWindows
<1>3. att.left = {} /\ ~att.degraded
  BY <1>2 DEF IInv, Claimed
<1>4. layout # Nothing
  BY <1>2, <1>3 DEF IInv, Claimed
<1>5. owed # Nothing /\ owed = layout
  BY <1>4 DEF IInv, Answered
<1>6. QED  BY <1>1, <1>2, <1>3, <1>5

\* The source is retired only into a snapshot that holds, for every session its
\* boot's desktop last showed, a window where it was captured: each was
\* claimed, and every claim was found again (restore.rs unplaced_windows).
THEOREM RetiredWithWindowsHolds == Spec => RetiredWithWindows
<1>1. TypeOK /\ IInv /\ [Next]_vars =>
         [ restorable /\ ~restorable' /\ placing =>
             /\ owed # Nothing
             /\ \A s \in owed : \E r \in published' :
                   /\ r.session = s
                   /\ r.ws = SpotOf[s].ws
                   /\ r.mon = Resolve(SpotOf[s].mon) ]_vars
  <2> SUFFICES ASSUME TypeOK, IInv, [Next]_vars, restorable, ~restorable', placing
               PROVE  /\ owed # Nothing
                      /\ \A s \in owed : \E r \in published' :
                            /\ r.session = s
                            /\ r.ws = SpotOf[s].ws
                            /\ r.mon = Resolve(SpotOf[s].mon)
    OBVIOUS
  <2>1. /\ att.claims \subseteq published' /\ att.pc = "writing"
        /\ att.left = {} /\ ~att.degraded /\ owed # Nothing /\ owed = layout
    BY Retires
  <2>2. \A s \in layout : \E c \in att.claims : ClaimOf(s, c)
    BY <2>1 DEF IInv, Claimed
  <2>3. QED  BY <2>1, <2>2 DEF ClaimOf
<1>2. QED  BY <1>1, Invariant, PTL DEF Spec, RetiredWithWindows

\* The source is retired only when every session its boot's desktop last showed
\* had its own terminal, found by its process and not by an address, where it
\* was captured when this attempt read it back (desktop.rs owned_window,
\* confirm_placement).  What is claimed after that is an address, and the
\* address may have passed to another window: see FoundAgainIsOwn.
THEOREM RetiredOnceLandedHolds == Spec => RetiredOnceLanded
<1>1. TypeOK /\ IInv /\ [Next]_vars =>
         [restorable /\ ~restorable' /\ placing => owed # Nothing /\ owed \subseteq landed]_vars
  <2> SUFFICES ASSUME TypeOK, IInv, [Next]_vars, restorable, ~restorable', placing
               PROVE  owed # Nothing /\ owed \subseteq landed
    OBVIOUS
  <2>1. /\ att.pc = "writing" /\ att.left = {} /\ ~att.degraded
        /\ owed # Nothing /\ owed = layout
    BY Retires
  <2>2. \A s \in layout : s \in landed
    BY <2>1 DEF IInv, Arrived
  <2>3. layout \subseteq landed
    BY <2>2
  <2>4. QED  BY <2>1, <2>3
<1>2. QED  BY <1>1, Invariant, PTL DEF Spec, RetiredOnceLanded
=============================================================================
