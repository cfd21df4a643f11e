------------------------ MODULE SessionMemoryRetire ------------------------
(***************************************************************************)
(* A restore retires its source only into a snapshot that holds what the   *)
(* source held, provided the tmux server does not die before the restore   *)
(* has read its identity once (without that proviso it is false: a server  *)
(* that replaced the first one is taken for it).  If it does not die after *)
(* the last check either, nothing a restore took on is discharged unless   *)
(* it is back or recorded.                                                 *)
(***************************************************************************)
EXTENDS SessionMemoryProofs

NoUnanchoredDeath == "unanchored" \notin DeathWindows

\* A server exists exactly as long as it holds a session.
ServerHoldsLive == server = 0 => live = Nothing

Sourced == rst.pc \notin {"idle", "locked", "reclaimed"} => rst.src < nextId

\* From MarkInProgress to the end of the publication the source is marked.
Owner ==
    rst.pc \in {"marked", "flagged", "owing", "started", "building", "checking",
                "resuming", "publishing", "publishable"}
        => snaps[rst.src].state = "restore_in_progress"

\* Nothing is delivered before the first session is handled.
StartsEmpty ==
    rst.pc \in {"idle", "locked", "reclaimed", "selected", "marked", "flagged",
                "owing", "started"}
        => rst.done = {} /\ rst.short = {}

\* The sessions of the source that the restore counts as delivered.
Counted == (rst.done \ rst.short) \intersect Held(Plan)

Returned(s) == <<s, Plan[s]>> \in Contents(live) \union parted

\* As long as the server is the one the restore anchored on, every session it
\* counts as delivered is there, or the user closed or changed it.
Kept ==
    rst.pc \in {"building", "checking", "resuming", "publishing"}
        /\ (rst.anchor = 0 \/ server = rst.anchor)
        => \A s \in Counted : Returned(s)

\* With no server to anchor on, only sessions the user closed can be counted.
UnanchoredParted ==
    rst.anchor = 0 =>
        /\ rst.pc = "building" =>
              \A s \in Counted : <<s, Plan[s]>> \in parted
        /\ rst.pc \in {"resuming", "publishing", "publishable"} => rst.done = {}

PublishesWhole ==
    rst.pc \in {"publishing", "publishable"} => rst.done = Held(Plan) /\ rst.short = {}

PublishesKept ==
    rst.pc = "publishable" =>
        \A s \in Counted : <<s, Plan[s]>> \in Contents(rst.topo) \union parted

RetireInv ==
    /\ DebtInv
    /\ NoUnanchoredDeath
    /\ ServerHoldsLive
    /\ WrittenInOrder
    /\ Sourced
    /\ Owner
    /\ StartsEmpty
    /\ Kept
    /\ UnanchoredParted
    /\ PublishesWhole
    /\ PublishesKept

-----------------------------------------------------------------------------
(* What is owed, and the history of what the user closed. *)

LEMMA OwedPrimed ==
    ASSUME NEW i \in Ids, snaps'[i].state = "restore_in_progress",
           NEW p \in Contents(snaps'[i].holds)
    PROVE  p \in OwedContents'
BY DEF OwedContents

\* While the source is being restored, its contents stay in the history.
LEMMA PartedStays ==
    ASSUME NEW i \in Ids, NEW s,
           parted \in SUBSET (Sessions \X Shapes),
           snaps'[i].state = "restore_in_progress",
           snaps'[i].holds = snaps[i].holds,
           <<s, snaps[i].holds[s]>> \in parted,
           parted \intersect OwedContents' \subseteq parted'
    PROVE  <<s, snaps[i].holds[s]>> \in parted'
<1> DEFINE p == <<s, snaps[i].holds[s]>>
<1>1. p \in Contents(snaps'[i].holds)
  BY DEF Contents
<1> QED
  BY <1>1, OwedPrimed

LEMMA FreshIsFresh == Fresh # rst.anchor
<1>1. 1 # rst.anchor \/ 2 # rst.anchor
  OBVIOUS
<1>2. \E x \in Incarnations : x # rst.anchor
  BY <1>1 DEF Incarnations
<1> QED
  BY <1>2 DEF Fresh

LEMMA InitRetire == NoUnanchoredDeath /\ Init => RetireInv
BY InitDebt
   DEF Init, RetireInv, ServerHoldsLive, WrittenInOrder, Sourced, Owner, StartsEmpty,
       Kept, UnanchoredParted, PublishesWhole, PublishesKept, IdleRestore, Blank

-----------------------------------------------------------------------------
(* The server and the user. *)

\* What the user closes or changes is remembered while the source is marked.
LEMMA ReturnedByUser ==
    ASSUME RetireInv, NEW s, Returned(s), rst.src \in Ids,
           snaps[rst.src].state = "restore_in_progress",
           NEW s0 \in Sessions, NEW shape \in Shapes \union {None}, UserChanges(s0, shape)
    PROVE  Returned(s)'
<1>1. /\ rst' = rst /\ snaps' = snaps /\ rst \in Restore
      /\ parted \in SUBSET (Sessions \X Shapes)
      /\ parted' = (parted \union (Contents(live) \ Contents(live')))
                     \intersect OwedContents'
  BY DEF UserChanges, RetireInv, DebtInv, TypeInv, TypeOK
<1> DEFINE p == <<s, Plan[s]>>
<1>2. p \in Contents(live) \union parted
  BY DEF Returned
<1>3. p \in Sessions \X Shapes
  BY <1>1, <1>2 DEF Contents
<1>4. p \in Contents(snaps'[rst.src].holds)
  BY <1>1, <1>3 DEF Contents, Plan
<1>5. p \in OwedContents'
  BY <1>1, <1>4, OwedPrimed
<1>6. p \in Contents(live') \union parted'
  BY <1>1, <1>2, <1>5
<1>7. Plan' = Plan
  BY <1>1 DEF Plan
<1> HIDE DEF p
<1> QED
  BY <1>6, <1>7 DEF Returned, p, Contents

LEMMA UserChangesRetire ==
    ASSUME RetireInv, DebtInv', NEW s0 \in Sessions,
           NEW shape \in Shapes \union {None}, UserChanges(s0, shape)
    PROVE  RetireInv'
<1>1. /\ rst' = rst /\ snaps' = snaps /\ nextId' = nextId
      /\ live' = [live EXCEPT ![s0] = shape]
      /\ server' = IF Held(live') = {} THEN 0
                   ELSE IF server = 0 THEN Fresh ELSE server
      /\ parted' = (parted \union (Contents(live) \ Contents(live')))
                     \intersect OwedContents'
  BY DEF UserChanges
<1>2. /\ rst \in Restore /\ live' \in Topology
      /\ parted \in SUBSET (Sessions \X Shapes)
      /\ rst.pc \notin {"idle", "locked", "reclaimed"} => rst.src \in Ids
  BY DEF RetireInv, DebtInv, TypeInv, TypeOK, HasSource
<1>3. Plan' = Plan /\ Counted' = Counted
  BY <1>1 DEF Plan, Counted
<1>4. ASSUME NEW s, rst.pc \in {"building", "checking", "resuming", "publishing"},
             Returned(s)
      PROVE  Returned(s)'
  <2>1. rst.src \in Ids /\ snaps[rst.src].state = "restore_in_progress"
    BY <1>2, <1>4 DEF RetireInv, Owner
  <2>2. QED  BY <1>4, <2>1, ReturnedByUser
<1>5. ServerHoldsLive'
  <2>1. ASSUME Held(live') = {} PROVE live' = Nothing
    BY <1>2, <2>1 DEF Held, Nothing, Topology
  <2>2. Fresh # 0
    BY FreshType DEF Incarnations
  <2> QED
    BY <1>1, <2>1, <2>2 DEF ServerHoldsLive
<1>6. Kept'
  <2> SUFFICES ASSUME rst.pc \in {"building", "checking", "resuming", "publishing"},
                      rst.anchor = 0 \/ server' = rst.anchor,
                      NEW s \in Counted
               PROVE  Returned(s)'
    BY <1>1, <1>3 DEF Kept
  <2>1. rst.anchor = 0 \/ server = rst.anchor
    BY <1>1, FreshIsFresh
  <2> QED
    BY <1>4, <2>1 DEF RetireInv, Kept
<1>7. UnanchoredParted'
  <2> SUFFICES ASSUME rst.anchor = 0, rst.pc = "building",
                      NEW s \in Counted
               PROVE  <<s, Plan[s]>> \in parted'
    BY <1>1, <1>3 DEF RetireInv, UnanchoredParted
  <2>1. <<s, Plan[s]>> \in parted
    BY DEF RetireInv, UnanchoredParted
  <2>2. rst.src \in Ids /\ snaps'[rst.src].state = "restore_in_progress"
    BY <1>1, <1>2 DEF RetireInv, Owner
  <2> QED
    BY <1>1, <1>2, <2>1, <2>2, PartedStays DEF Plan
<1>8. PublishesKept'
  <2> SUFFICES ASSUME rst.pc = "publishable", NEW s \in Counted,
                      <<s, Plan[s]>> \notin Contents(rst.topo)
               PROVE  <<s, Plan[s]>> \in parted'
    BY <1>1, <1>3 DEF PublishesKept, Contents
  <2>1. <<s, Plan[s]>> \in parted
    BY DEF RetireInv, PublishesKept
  <2>2. rst.src \in Ids /\ snaps'[rst.src].state = "restore_in_progress"
    BY <1>1, <1>2 DEF RetireInv, Owner
  <2> QED
    BY <1>1, <1>2, <2>1, <2>2, PartedStays DEF Plan
<1> QED
  BY <1>1, <1>3, <1>5, <1>6, <1>7, <1>8
  DEF RetireInv, WrittenInOrder, Sourced, Owner, StartsEmpty, PublishesWhole,
      NoUnanchoredDeath

\* A death during a restore is either noticed by the anchor, or there was
\* nothing to lose.
LEMMA ServerDiesRetire ==
    ASSUME RetireInv, DebtInv', ServerDies
    PROVE  RetireInv'
<1>1. /\ rst' = rst /\ snaps' = snaps /\ nextId' = nextId /\ live' = Nothing
      /\ server # 0 /\ server' = 0 /\ DeathWindow # "unanchored"
      /\ parted' = parted \intersect OwedContents'
  BY DEF ServerDies, Observe, RetireInv, NoUnanchoredDeath
<1>2. /\ rst \in Restore /\ parted \in SUBSET (Sessions \X Shapes)
      /\ rst.pc \notin {"idle", "locked", "reclaimed"} => rst.src \in Ids
  BY DEF RetireInv, DebtInv, TypeInv, TypeOK, HasSource
<1>3. Plan' = Plan /\ Counted' = Counted
  BY <1>1 DEF Plan, Counted
<1>4. ASSUME rst.pc \in {"building", "publishable"}, NEW s, <<s, Plan[s]>> \in parted
      PROVE  <<s, Plan[s]>> \in parted'
  <2>1. rst.src \in Ids /\ snaps'[rst.src].state = "restore_in_progress"
    BY <1>1, <1>2, <1>4 DEF RetireInv, Owner
  <2> QED
    BY <1>1, <1>2, <1>4, <2>1, PartedStays DEF Plan
<1>5. UnanchoredParted'
  BY <1>1, <1>3, <1>4 DEF RetireInv, UnanchoredParted
<1>6. Kept'
  <2> SUFFICES ASSUME rst.pc \in {"building", "checking", "resuming", "publishing"},
                      rst.anchor = 0 \/ server' = rst.anchor,
                      NEW s \in Counted
               PROVE  Returned(s)'
    BY <1>1, <1>3 DEF Kept
  <2>1. rst.anchor = 0
    BY <1>1
  <2>2. rst.pc # "checking"
    BY <1>1, <2>1 DEF DeathWindow
  <2>3. rst.pc = "building"
    BY <2>1, <2>2 DEF RetireInv, UnanchoredParted, Counted
  <2>4. <<s, Plan[s]>> \in parted'
    BY <1>4, <2>1, <2>3 DEF RetireInv, UnanchoredParted
  <2> QED
    BY <1>3, <2>4 DEF Returned
<1>7. PublishesKept'
  <2> SUFFICES ASSUME rst.pc = "publishable", NEW s \in Counted,
                      <<s, Plan[s]>> \notin Contents(rst.topo)
               PROVE  <<s, Plan[s]>> \in parted'
    BY <1>1, <1>3 DEF PublishesKept, Contents
  <2> QED
    BY <1>4 DEF RetireInv, PublishesKept
<1> QED
  BY <1>1, <1>3, <1>5, <1>6, <1>7
  DEF RetireInv, ServerHoldsLive, WrittenInOrder, Sourced, Owner, StartsEmpty,
      PublishesWhole, NoUnanchoredDeath

LEMMA RebootRetire ==
    ASSUME RetireInv, DebtInv', Reboot
    PROVE  RetireInv'
<1>1. /\ rst' = IdleRestore /\ snaps' = snaps /\ nextId' = nextId
      /\ live' = Nothing /\ IdleRestore.pc = "idle"
      /\ IdleRestore.done = {} /\ IdleRestore.short = {}
  BY DEF Reboot, IdleRestore
<1> QED
  BY <1>1
  DEF RetireInv, ServerHoldsLive, WrittenInOrder, Sourced, Owner, StartsEmpty, Kept,
      UnanchoredParted, PublishesWhole, PublishesKept, NoUnanchoredDeath, Nothing

\* A step that leaves the restore, the server and the table's states and
\* contents alone.
LEMMA BystanderRetire ==
    ASSUME RetireInv, DebtInv', UNCHANGED <<rst, server, live, snaps, nextId>>, Observe
    PROVE  RetireInv'
<1>1. /\ rst \in Restore /\ parted \in SUBSET (Sessions \X Shapes)
      /\ rst.pc \notin {"idle", "locked", "reclaimed"} => rst.src \in Ids
      /\ Plan' = Plan /\ Counted' = Counted
  BY DEF RetireInv, DebtInv, TypeInv, TypeOK, HasSource, Plan, Counted
<1>2. ASSUME rst.pc \in {"building", "checking", "resuming", "publishing", "publishable"},
             NEW s, <<s, Plan[s]>> \in parted
      PROVE  <<s, Plan[s]>> \in parted'
  <2>1. rst.src \in Ids /\ snaps'[rst.src].state = "restore_in_progress"
    BY <1>1, <1>2 DEF RetireInv, Owner
  <2> QED
    BY <1>1, <1>2, <2>1, PartedStays DEF Plan, Observe
<1>3. Kept' /\ UnanchoredParted' /\ PublishesKept'
  BY <1>1, <1>2
  DEF RetireInv, Kept, UnanchoredParted, PublishesKept, Returned, Contents
<1> QED
  BY <1>1, <1>3
  DEF RetireInv, ServerHoldsLive, WrittenInOrder, Sourced, Owner, StartsEmpty,
      PublishesWhole, NoUnanchoredDeath

LEMMA EnvironmentRetire == RetireInv /\ Environment => RetireInv'
<1> SUFFICES ASSUME RetireInv, Environment PROVE RetireInv'
  OBVIOUS
<1>0. DebtInv'
  BY EnvironmentDebt DEF RetireInv
<1>1. ASSUME NEW t, ClockMoves(t) PROVE RetireInv'
  BY <1>0, <1>1, BystanderRetire DEF ClockMoves
<1> QED
  BY <1>0, <1>1, UserChangesRetire, ServerDiesRetire, RebootRetire
  DEF Environment, UserCreates, UserReshapes, UserCloses

-----------------------------------------------------------------------------
(* Captures: none runs during a restore. *)

LEMMA CarryForwardState ==
    ASSUME NEW table \in [Ids -> Snapshot], NEW topology, NEW i \in Ids
    PROVE  /\ CarryForward(table, topology)[i].state = table[i].state
           /\ CarryForward(table, topology)[i].holds = table[i].holds
<1> DEFINE left == table[i].owed \ Settled(table, topology, i)
<1>1. CarryForward(table, topology)[i]
         = IF i \notin DebtSources(table) THEN table[i]
           ELSE [table[i] EXCEPT !.owed = left, !.unresolved = (left # {})]
  BY DEF CarryForward
<1> HIDE DEF left
<1> QED
  BY <1>1 DEF Snapshot

LEMMA WriteTopologyRows ==
    ASSUME NEW table \in [Ids -> Snapshot], NEW id \in Ids, NEW topology,
           NEW b, NEW now, NEW placement
    PROVE  /\ WriteTopology(table, id, topology, b, now, placement)[id]
                 = CapturedRow(table, topology, b, now, placement)
           /\ \A i \in Ids \ {id} :
                 /\ WriteTopology(table, id, topology, b, now, placement)[i].state
                       = table[i].state
                 /\ WriteTopology(table, id, topology, b, now, placement)[i].holds
                       = table[i].holds
<1> DEFINE row == CapturedRow(table, topology, b, now, placement)
<1> HIDE DEF row
<1>1. CarryForward(table, topology) \in [Ids -> Snapshot]
  BY CarryForwardType
<1> QED
  BY <1>1, CarryForwardState DEF WriteTopology, row

LEMMA CaptureRetire == RetireInv /\ CaptureStep => RetireInv'
<1> SUFFICES ASSUME RetireInv, CaptureStep PROVE RetireInv'
  OBVIOUS
<1>0. /\ DebtInv' /\ rst.pc = "idle" /\ rst' = rst /\ server' = server /\ live' = live
      /\ snaps \in [Ids -> Snapshot] /\ nextId \in Nat
  BY CaptureDebt
  DEF RetireInv, DebtInv, TypeInv, TypeOK, Exclusion, CaptureStep, CaptureCollect,
      CaptureCommit, CapturePrune, CaptureStops
<1>1. WrittenInOrder'
  <2>1. ASSUME NEW placement, CaptureCommit(placement) PROVE WrittenInOrder'
    <3>1. nextId \in Ids /\ nextId' = nextId + 1
      BY <1>0, <2>1 DEF CaptureCommit, RetireInv, DebtInv, TypeInv, TypeOK, Ids
    <3>2. \A i \in Ids \ {nextId} : snaps'[i].state = snaps[i].state
      BY <1>0, <2>1, <3>1, WriteTopologyRows DEF CaptureCommit
    <3> QED
      BY <1>0, <3>1, <3>2 DEF WrittenInOrder, RetireInv, Ids
  <2>2. CASE CapturePrune
    BY <1>0, <2>2 DEF CapturePrune, Prune, Blank, WrittenInOrder, RetireInv
  <2>3. CASE CaptureCollect \/ CaptureStops
    BY <2>3 DEF CaptureCollect, CaptureStops, WrittenInOrder, RetireInv
  <2> QED
    BY <2>1, <2>2, <2>3 DEF CaptureStep
<1> QED
  BY <1>0, <1>1
  DEF RetireInv, ServerHoldsLive, Sourced, Owner, StartsEmpty, Kept, UnanchoredParted,
      PublishesWhole, PublishesKept, NoUnanchoredDeath

-----------------------------------------------------------------------------
(* The restore. *)

\* A restore's own statements change the state of its source only.
LEMMA InOrderKept ==
    ASSUME RetireInv, nextId' = nextId,
           \A i \in Ids :
              snaps'[i].state # snaps[i].state =>
                 i = rst.src /\ rst.pc \notin {"idle", "locked", "reclaimed"}
    PROVE  WrittenInOrder'
<1>1. \A i \in Ids : i >= nextId => snaps[i].state = "absent"
  BY DEF RetireInv, WrittenInOrder
<1>2. rst.pc \notin {"idle", "locked", "reclaimed"} => rst.src < nextId
  BY DEF RetireInv, Sourced
<1>3. nextId \in Nat
  BY DEF RetireInv, DebtInv, TypeInv, TypeOK
<1> QED
  BY <1>1, <1>2, <1>3 DEF WrittenInOrder, Ids

LEMMA InOrderUnchanged ==
    ASSUME RetireInv, UNCHANGED <<snaps, nextId>>
    PROVE  WrittenInOrder'
BY DEF RetireInv, WrittenInOrder

LEMMA InOrderSameStates ==
    ASSUME RetireInv, nextId' = nextId, \A i \in Ids : snaps'[i].state = snaps[i].state
    PROVE  WrittenInOrder'
BY DEF RetireInv, WrittenInOrder

\* Once the sessions are handled only the source and the table matter.
LEMMA LateRetire ==
    ASSUME RetireInv, DebtInv', nextId' = nextId, server' = server, live' = live,
           WrittenInOrder',
           \/ rst' = IdleRestore
           \/ /\ rst'.pc \in {"failing", "discharging", "refreshed", "recorded", "returned"}
              /\ rst'.src < nextId
    PROVE  RetireInv'
<1>1. IdleRestore.pc = "idle" /\ IdleRestore.done = {} /\ IdleRestore.short = {}
  BY DEF IdleRestore
<1> QED
  BY <1>1
  DEF RetireInv, ServerHoldsLive, Sourced, Owner, StartsEmpty, Kept, UnanchoredParted,
      PublishesWhole, PublishesKept, NoUnanchoredDeath

\* Before the first session is handled, nothing has been delivered.
LEMMA EarlyRetire ==
    ASSUME RetireInv, DebtInv', nextId' = nextId, server' = server, live' = live,
           WrittenInOrder', rst'.done = {}, rst'.short = {},
           \/ rst'.pc \in {"locked", "reclaimed"}
           \/ rst'.pc = "selected" /\ rst'.src < nextId
           \/ /\ rst'.pc \in {"marked", "flagged", "owing", "started", "building"}
              /\ rst'.src < nextId
              /\ snaps'[rst'.src].state = "restore_in_progress"
    PROVE  RetireInv'
BY DEF RetireInv, ServerHoldsLive, Sourced, Owner, StartsEmpty, Kept, UnanchoredParted,
       PublishesWhole, PublishesKept, NoUnanchoredDeath, Counted

LEMMA EarlyStepsRetire ==
    ASSUME RetireInv, DebtInv',
           \/ BeginRestore \/ ReclaimOrphans \/ SelectSource \/ MarkInProgress
           \/ OweSnapshot \/ OweSessions \/ StartAttempt \/ ReadLiveNames
    PROVE  RetireInv'
<1>0. /\ rst \in Restore /\ snaps \in [Ids -> Snapshot] /\ nextId \in Nat
      /\ rst.pc \notin {"idle", "locked", "reclaimed"}
            => rst.src \in Ids /\ rst.src < nextId
      /\ rst.pc \in {"idle", "locked", "reclaimed", "selected", "marked", "flagged",
                     "owing", "started"} => rst.done = {} /\ rst.short = {}
      /\ rst.pc \in {"marked", "flagged", "owing", "started"}
            => snaps[rst.src].state = "restore_in_progress"
      /\ \A i \in Ids : i >= nextId => snaps[i].state = "absent"
  BY DEF RetireInv, DebtInv, TypeInv, TypeOK, HasSource, Sourced, StartsEmpty, Owner,
         WrittenInOrder
<1>1. CASE BeginRestore
  <2>1. /\ snaps' = snaps /\ nextId' = nextId /\ server' = server /\ live' = live
        /\ rst.pc = "idle" /\ rst' = [rst EXCEPT !.pc = "locked"]
    BY <1>1 DEF BeginRestore, Proceeds, Goto
  <2>2. WrittenInOrder'
    BY <2>1, InOrderUnchanged
  <2>3. rst'.pc = "locked" /\ rst'.done = {} /\ rst'.short = {}
    BY <1>0, <2>1 DEF Restore
  <2> QED
    BY <2>1, <2>2, <2>3, EarlyRetire
<1>2. CASE ReclaimOrphans
  <2>1. /\ nextId' = nextId /\ server' = server /\ live' = live
        /\ rst.pc = "locked" /\ rst' = [rst EXCEPT !.pc = "reclaimed"]
        /\ snaps' = Reclaim(snaps)
    BY <1>2 DEF ReclaimOrphans, Proceeds, Goto
  <2>2. \A i \in Ids : snaps[i].state = "absent" => snaps'[i].state = "absent"
    BY <1>0, <2>1 DEF Reclaim, Snapshot
  <2>3. WrittenInOrder'
    BY <2>1, <2>2 DEF RetireInv, WrittenInOrder
  <2>4. rst'.pc = "reclaimed" /\ rst'.done = {} /\ rst'.short = {}
    BY <1>0, <2>1 DEF Restore
  <2> QED
    BY <2>1, <2>3, <2>4, EarlyRetire
<1>3. CASE SelectSource
  <2>1. PICK i \in SelectRestoreSource(snaps, boot) :
           /\ snaps' = snaps /\ nextId' = nextId /\ server' = server /\ live' = live
           /\ rst.pc = "reclaimed"
           /\ rst' = [rst EXCEPT !.pc = "selected", !.src = i]
    BY <1>3 DEF SelectSource, Proceeds, Goto
  <2>2. i \in Ids /\ snaps[i].state = "complete"
    BY DEF SelectRestoreSource, Newest, PreviousBoot, Present
  <2>3. i < nextId
    BY <1>0, <2>2 DEF Ids
  <2>4. WrittenInOrder'
    BY <2>1, InOrderUnchanged
  <2>5. /\ rst'.pc = "selected" /\ rst'.done = {} /\ rst'.short = {}
        /\ rst'.src = i
    BY <1>0, <2>1 DEF Restore
  <2> QED
    BY <2>1, <2>3, <2>4, <2>5, EarlyRetire
<1>4. CASE MarkInProgress
  <2>1. /\ nextId' = nextId /\ server' = server /\ live' = live
        /\ rst.pc = "selected" /\ rst' = [rst EXCEPT !.pc = "marked"]
        /\ snaps' = [snaps EXCEPT ![rst.src].state = "restore_in_progress"]
    BY <1>4 DEF MarkInProgress, SetState, Proceeds, Goto
  <2>2. /\ \A i \in Ids : i # rst.src => snaps'[i] = snaps[i]
        /\ snaps'[rst.src].state = "restore_in_progress"
    BY <1>0, <2>1 DEF Snapshot
  <2>3. WrittenInOrder'
    BY <2>1, <2>2, InOrderKept
  <2>4. /\ rst'.pc = "marked" /\ rst'.done = {} /\ rst'.short = {}
        /\ rst'.src = rst.src
    BY <1>0, <2>1 DEF Restore
  <2> QED
    BY <1>0, <2>1, <2>2, <2>3, <2>4, EarlyRetire
<1>5. CASE OweSnapshot \/ OweSessions
  <2>1. /\ nextId' = nextId /\ server' = server /\ live' = live
        /\ \/ rst.pc = "marked" /\ rst' = [rst EXCEPT !.pc = "flagged"]
           \/ rst.pc = "flagged" /\ rst' = [rst EXCEPT !.pc = "owing"]
    BY <1>5 DEF OweSnapshot, OweSessions, Proceeds, Goto
  <2>2. \A i \in Ids : snaps'[i].state = snaps[i].state
    BY <1>0, <1>5 DEF OweSnapshot, OweSessions, Snapshot
  <2>3. WrittenInOrder'
    BY <2>1, <2>2, InOrderKept
  <2>4. /\ rst'.pc \in {"flagged", "owing"} /\ rst'.done = {} /\ rst'.short = {}
        /\ rst'.src = rst.src
    BY <1>0, <2>1 DEF Restore
  <2> QED
    BY <1>0, <2>1, <2>2, <2>3, <2>4, EarlyRetire
<1>6. CASE StartAttempt
  <2>1. /\ snaps' = snaps /\ nextId' = nextId /\ server' = server /\ live' = live
        /\ rst.pc = "owing" /\ rst' = [rst EXCEPT !.pc = "started", !.anchor = server]
    BY <1>6 DEF StartAttempt, Proceeds, Goto
  <2>2. WrittenInOrder'
    BY <2>1, InOrderUnchanged
  <2>3. /\ rst'.pc = "started" /\ rst'.done = {} /\ rst'.short = {}
        /\ rst'.src = rst.src
    BY <1>0, <2>1 DEF Restore
  <2> QED
    BY <1>0, <2>1, <2>2, <2>3, EarlyRetire
<1>7. CASE ReadLiveNames
  <2>1. /\ snaps' = snaps /\ nextId' = nextId /\ server' = server /\ live' = live
        /\ rst.pc = "started"
        /\ rst' = [rst EXCEPT !.pc = "building", !.seen = Held(live),
                              !.todo = Held(Plan)]
    BY <1>7 DEF ReadLiveNames, Proceeds, Goto
  <2>2. WrittenInOrder'
    BY <2>1, InOrderUnchanged
  <2>3. /\ rst'.pc = "building" /\ rst'.done = {} /\ rst'.short = {}
        /\ rst'.src = rst.src
    BY <1>0, <2>1 DEF Restore
  <2> QED
    BY <1>0, <2>1, <2>2, <2>3, EarlyRetire
<1> QED
  BY <1>1, <1>2, <1>3, <1>4, <1>5, <1>6, <1>7

LEMMA ResolveState ==
    ASSUME NEW table \in [Ids -> Snapshot], NEW id \in Ids, NEW s, NEW i \in Ids
    PROVE  /\ ResolveSession(table, id, s)[i].state = table[i].state
           /\ ResolveSession(table, id, s)[i].holds = table[i].holds
BY DEF ResolveSession, Snapshot

LEMMA RefreshState ==
    ASSUME NEW table \in [Ids -> Snapshot], NEW id \in Ids, NEW i \in Ids
    PROVE  /\ RefreshUnresolved(table, id)[i].state = table[i].state
           /\ RefreshUnresolved(table, id)[i].holds = table[i].holds
<1> DEFINE owes == table[id].owed # {}
<1>1. RefreshUnresolved(table, id) = [table EXCEPT ![id].unresolved = owes]
  BY DEF RefreshUnresolved
<1> HIDE DEF owes
<1> QED
  BY <1>1 DEF Snapshot

\* The steps that end a restore without publishing.
Ending ==
    \/ EndEarly \/ RestoreStops \/ PublishDisowned \/ PublishUnsecured \/ AttemptErrors
    \/ \E written \in BOOLEAN : FinalizeFailedAttempt(written)
    \/ \E s \in Sessions : ResolveDelivered(s)
    \/ RefreshSource \/ RecordOutcome \/ ReturnSource \/ RefreshReturned

LEMMA EndingRetire == RetireInv /\ DebtInv' /\ Ending => RetireInv'
<1> SUFFICES ASSUME RetireInv, DebtInv', Ending PROVE RetireInv'
  OBVIOUS
<1>0. /\ rst \in Restore /\ snaps \in [Ids -> Snapshot]
      /\ rst.pc \notin {"idle", "locked", "reclaimed"}
            => rst.src \in Ids /\ rst.src < nextId
  BY DEF RetireInv, DebtInv, TypeInv, TypeOK, HasSource, Sourced
<1>1. nextId' = nextId /\ server' = server /\ live' = live
  BY DEF Ending, EndEarly, RestoreStops, PublishDisowned, PublishUnsecured,
         AttemptErrors, FinalizeFailedAttempt, ResolveDelivered, RefreshSource,
         RecordOutcome, ReturnSource, RefreshReturned, Proceeds
<1>2. WrittenInOrder'
  <2>1. CASE \/ RefreshSource \/ RefreshReturned
             \/ \E s \in Sessions : ResolveDelivered(s)
    <3>1. /\ rst.pc \in {"discharging", "returned"}
          /\ \/ snaps' = RefreshUnresolved(snaps, rst.src)
             \/ \E s \in Sessions : snaps' = ResolveSession(snaps, rst.src, s)
      BY <2>1 DEF RefreshSource, RefreshReturned, ResolveDelivered
    <3>2. \A i \in Ids : snaps'[i].state = snaps[i].state
      BY <1>0, <3>1, ResolveState, RefreshState
    <3> QED
      BY <1>1, <3>2, InOrderSameStates
  <2>2. CASE ReturnSource
    <3>1. /\ rst.pc \notin {"idle", "locked", "reclaimed"}
          /\ \A i \in Ids : i # rst.src => snaps'[i].state = snaps[i].state
      BY <1>0, <2>2 DEF ReturnSource, SetState, Snapshot
    <3> QED
      BY <1>1, <3>1, InOrderKept
  <2>3. CASE \/ EndEarly \/ RestoreStops \/ PublishDisowned \/ PublishUnsecured
             \/ AttemptErrors \/ RecordOutcome
             \/ \E written \in BOOLEAN : FinalizeFailedAttempt(written)
    <3>1. snaps' = snaps
      BY <2>3
      DEF EndEarly, RestoreStops, PublishDisowned, PublishUnsecured, AttemptErrors,
          RecordOutcome, FinalizeFailedAttempt
    <3> QED
      BY <1>1, <3>1, InOrderUnchanged
  <2> QED
    BY <2>1, <2>2, <2>3 DEF Ending
<1>3. \/ rst' = IdleRestore
      \/ /\ rst'.pc \in {"failing", "discharging", "refreshed", "recorded", "returned"}
         /\ rst'.src < nextId
  <2>1. CASE EndEarly \/ RestoreStops \/ RefreshReturned
    BY <2>1 DEF EndEarly, RestoreStops, RefreshReturned, Proceeds
  <2>2. CASE PublishDisowned \/ PublishUnsecured \/ AttemptErrors
    BY <1>0, <2>2
    DEF PublishDisowned, PublishUnsecured, AttemptErrors, Proceeds, Discharging,
        IdleRestore
  <2>3. CASE \E s \in Sessions : ResolveDelivered(s)
    BY <1>0, <2>3 DEF ResolveDelivered, Proceeds, Restore
  <2>4. CASE RefreshSource \/ RecordOutcome \/ ReturnSource
    BY <1>0, <2>4 DEF RefreshSource, RecordOutcome, ReturnSource, Proceeds, Goto, Restore
  <2>5. CASE \E written \in BOOLEAN : FinalizeFailedAttempt(written)
    BY <1>0, <2>5 DEF FinalizeFailedAttempt, Proceeds, Goto, Restore
  <2> QED
    BY <2>1, <2>2, <2>3, <2>4, <2>5 DEF Ending
<1> QED
  BY <1>1, <1>2, <1>3, LateRetire

-----------------------------------------------------------------------------
(* The steps that bring sessions back and publish them. *)

Bringing == {"building", "checking", "resuming", "publishing", "publishable"}

LEMMA PartedKept ==
    ASSUME RetireInv, snaps' = snaps, Observe, rst.pc \in Bringing,
           NEW s, <<s, Plan[s]>> \in parted
    PROVE  <<s, Plan[s]>> \in parted'
<1>1. rst.src \in Ids /\ parted \in SUBSET (Sessions \X Shapes)
  BY DEF RetireInv, DebtInv, TypeInv, TypeOK, HasSource, Bringing
<1>2. snaps'[rst.src].state = "restore_in_progress"
  BY DEF RetireInv, Owner, Bringing
<1> QED
  BY <1>1, <1>2, PartedStays DEF Plan, Observe

LEMMA BringingRetire ==
    ASSUME RetireInv, DebtInv', UNCHANGED <<snaps, nextId>>, rst.pc \in Bringing,
           rst'.pc \in Bringing, rst'.src = rst.src, ServerHoldsLive', Kept',
           UnanchoredParted', PublishesWhole', PublishesKept'
    PROVE  RetireInv'
<1>1. WrittenInOrder'
  BY InOrderUnchanged
<1>2. Sourced' /\ Owner' /\ StartsEmpty'
  BY DEF RetireInv, Sourced, Owner, StartsEmpty, Bringing
<1> QED
  BY <1>1, <1>2 DEF RetireInv, NoUnanchoredDeath

\* A session found live counts only if it is what the source holds.
LEMMA AdoptRetire ==
    ASSUME RetireInv, DebtInv', NEW s0 \in Sessions,
           AdoptSession(s0) \/ CreateCollides(s0)
    PROVE  RetireInv'
<1>1. rst \in Restore /\ live \in Topology
  BY DEF RetireInv, DebtInv, TypeInv, TypeOK
<1>2. /\ UNCHANGED <<snaps, nextId, server, live>> /\ Observe
      /\ rst.pc = "building" /\ rst'.pc = "checking" /\ rst'.src = rst.src
      /\ rst'.anchor = rst.anchor /\ rst'.short = rst.short
      /\ \/ rst'.done = rst.done
         \/ rst'.done = rst.done \union {s0} /\ live[s0] = Plan[s0]
  BY <1>1 DEF AdoptSession, CreateCollides, Proceeds, Restore
<1>3. Plan' = Plan
  BY <1>2 DEF Plan
<1>4. Kept'
  <2> SUFFICES ASSUME rst.anchor = 0 \/ server = rst.anchor, NEW s \in Counted'
               PROVE  Returned(s)'
    BY <1>2 DEF Kept
  <2>1. CASE s \in Counted
    <3>1. <<s, Plan[s]>> \in Contents(live) \union parted
      BY <1>2, <2>1 DEF RetireInv, Kept, Returned
    <3>2. <<s, Plan[s]>> \in Contents(live') \union parted'
      BY <1>2, <3>1, PartedKept DEF Bringing
    <3> QED
      BY <1>3, <3>2 DEF Returned
  <2>2. CASE s \notin Counted
    <3>1. s = s0 /\ live[s] = Plan[s] /\ s \in Held(Plan)
      BY <1>2, <1>3, <2>2 DEF Counted
    <3>2. Plan[s] \in Shapes
      BY <1>1, <3>1 DEF Held, Topology
    <3>3. <<s, Plan[s]>> \in Contents(live')
      BY <1>2, <3>1, <3>2 DEF Contents
    <3> QED
      BY <1>3, <3>3 DEF Returned
  <2> QED
    BY <2>1, <2>2
<1>5. ServerHoldsLive' /\ UnanchoredParted' /\ PublishesWhole' /\ PublishesKept'
  BY <1>2 DEF RetireInv, ServerHoldsLive, UnanchoredParted, PublishesWhole, PublishesKept
<1> QED
  BY <1>2, <1>4, <1>5, BringingRetire DEF Bringing

\* A session the restore creates counts only if it came out as it was.
LEMMA CreateRetire ==
    ASSUME RetireInv, DebtInv', NEW s0 \in Sessions, NEW shape \in Shapes \union {None},
           NEW outcome \in {"done", "degraded", "failed"},
           CreateSession(s0, shape, outcome)
    PROVE  RetireInv'
<1>1. rst \in Restore /\ live \in Topology
  BY DEF RetireInv, DebtInv, TypeInv, TypeOK
<1>2. /\ UNCHANGED <<snaps, nextId>> /\ Observe
      /\ live[s0] = None /\ live' = [live EXCEPT ![s0] = shape]
      /\ server' = IF server = 0 /\ shape # None THEN Fresh ELSE server
      /\ rst.pc = "building" /\ rst'.pc = "checking" /\ rst'.src = rst.src
      /\ rst'.anchor = rst.anchor
  BY <1>1 DEF CreateSession, Restore
<1>3. Plan' = Plan
  BY <1>2 DEF Plan
<1>4. Contents(live) \subseteq Contents(live')
  BY <1>1, <1>2, SnapshotsAssumption DEF Contents, Topology
<1>5. ASSUME NEW s \in Counted', s \notin Counted
      PROVE  s = s0 /\ shape = Plan[s] /\ s \in Held(Plan)
  <2>1. /\ s \in Held(Plan)
        /\ s \in rst'.done /\ s \notin rst'.short
    BY <1>3, <1>5 DEF Counted
  <2>2. /\ rst'.done = IF outcome = "failed" THEN rst.done ELSE rst.done \union {s0}
        /\ rst'.short = IF outcome = "degraded" THEN rst.short \union {s0} ELSE rst.short
        /\ outcome = "done" => shape = Plan[s0]
    BY <1>1 DEF CreateSession, Restore
  <2> QED
    BY <1>5, <2>1, <2>2 DEF Counted
<1>6. Kept'
  <2> SUFFICES ASSUME rst.anchor = 0 \/ server' = rst.anchor, NEW s \in Counted'
               PROVE  Returned(s)'
    BY <1>2 DEF Kept
  <2>1. rst.anchor = 0 \/ server = rst.anchor
    BY <1>2, FreshIsFresh
  <2>2. CASE s \in Counted
    <3>1. <<s, Plan[s]>> \in Contents(live) \union parted
      BY <1>2, <2>1, <2>2 DEF RetireInv, Kept, Returned
    <3>2. <<s, Plan[s]>> \in Contents(live') \union parted'
      BY <1>2, <1>4, <3>1, PartedKept DEF Bringing
    <3> QED
      BY <1>3, <3>2 DEF Returned
  <2>3. CASE s \notin Counted
    <3>1. s = s0 /\ shape = Plan[s] /\ s \in Held(Plan)
      BY <1>5, <2>3
    <3>2. Plan[s] \in Shapes /\ live'[s] = Plan[s]
      BY <1>1, <1>2, <3>1 DEF Held, Topology
    <3>3. <<s, Plan[s]>> \in Contents(live')
      BY <3>1, <3>2 DEF Contents
    <3> QED
      BY <1>3, <3>3 DEF Returned
  <2> QED
    BY <2>2, <2>3
<1>7. ServerHoldsLive'
  <2> SUFFICES ASSUME server' = 0 PROVE live' = Nothing
    BY DEF ServerHoldsLive
  <2>1. server = 0 /\ shape = None
    BY <1>2, FreshType DEF Incarnations
  <2>2. live = Nothing
    BY <2>1 DEF RetireInv, ServerHoldsLive
  <2> QED
    BY <1>2, <2>1, <2>2 DEF Nothing
<1>8. UnanchoredParted' /\ PublishesWhole' /\ PublishesKept'
  BY <1>2 DEF UnanchoredParted, PublishesWhole, PublishesKept
<1> QED
  BY <1>2, <1>6, <1>7, <1>8, BringingRetire DEF Bringing

\* A server the restore could not have anchored on holds nothing.
LEMMA CheckRetire == RetireInv /\ DebtInv' /\ CheckServer => RetireInv'
<1> SUFFICES ASSUME RetireInv, DebtInv', CheckServer PROVE RetireInv'
  OBVIOUS
<1>1. /\ rst \in Restore
      /\ UNCHANGED <<snaps, nextId, server, live>> /\ Observe
      /\ rst.pc = "checking"
      /\ rst' = IF ServerIsTheSame
                THEN [rst EXCEPT !.pc = "building", !.anchor = server, !.built = FALSE]
                ELSE Discharging({})
  BY DEF CheckServer, Proceeds, RetireInv, DebtInv, TypeInv, TypeOK
<1>2. CASE ServerIsTheSame
  <2>1. /\ rst'.pc = "building" /\ rst'.src = rst.src /\ rst'.anchor = server
        /\ rst'.done = rst.done /\ rst'.short = rst.short
    BY <1>1, <1>2 DEF Restore
  <2>2. Plan' = Plan /\ Counted' = Counted
    BY <1>1, <2>1 DEF Plan, Counted
  <2>3. rst.anchor = 0 \/ server = rst.anchor
    BY <1>2 DEF ServerIsTheSame
  <2>4. ASSUME NEW s \in Counted
        PROVE  \/ <<s, Plan[s]>> \in Contents(live)
               \/ <<s, Plan[s]>> \in parted'
    <3>1. <<s, Plan[s]>> \in Contents(live) \union parted
      BY <1>1, <2>3, <2>4 DEF RetireInv, Kept, Returned
    <3> QED
      BY <1>1, <3>1, PartedKept DEF Bringing
  <2>5. Kept'
    BY <1>1, <2>1, <2>2, <2>4 DEF Kept, Returned, Contents
  <2>6. UnanchoredParted'
    <3> SUFFICES ASSUME server = 0, NEW s \in Counted
                 PROVE  <<s, Plan[s]>> \in parted'
      BY <1>1, <2>1, <2>2 DEF UnanchoredParted
    <3>1. live = Nothing
      BY DEF RetireInv, ServerHoldsLive
    <3>2. <<s, Plan[s]>> \notin Contents(live)
      BY <3>1, SnapshotsAssumption DEF Contents, Nothing
    <3> QED
      BY <2>4, <3>2
  <2>7. ServerHoldsLive' /\ PublishesWhole' /\ PublishesKept'
    BY <1>1, <2>1 DEF RetireInv, ServerHoldsLive, PublishesWhole, PublishesKept
  <2> QED
    BY <1>1, <2>1, <2>5, <2>6, <2>7, BringingRetire DEF Bringing
<1>3. CASE ~ServerIsTheSame
  <2>1. rst'.pc = "discharging" /\ rst'.src = rst.src
    BY <1>1, <1>3 DEF Discharging, IdleRestore
  <2>2. rst.src < nextId
    BY <1>1 DEF RetireInv, Sourced
  <2> QED
    BY <1>1, <2>1, <2>2, InOrderUnchanged, LateRetire
<1> QED
  BY <1>2, <1>3

\* The steps from the last session to the publication: each only passes on what
\* was counted.
PassingOn ==
    EndTree \/ PublishCollect \/ \E downgraded \in BOOLEAN : ResumeAndPlace(downgraded)

LEMMA PassingOnRetire == RetireInv /\ DebtInv' /\ PassingOn => RetireInv'
<1> SUFFICES ASSUME RetireInv, DebtInv', PassingOn PROVE RetireInv'
  OBVIOUS
<1>1. /\ rst \in Restore
      /\ UNCHANGED <<snaps, nextId, server, live>> /\ Observe
      /\ rst.pc \in {"building", "resuming", "publishing"}
  BY DEF PassingOn, EndTree, PublishCollect, ResumeAndPlace, Proceeds, RetireInv, DebtInv,
         TypeInv, TypeOK
<1>2. \/ /\ rst'.pc = "discharging" /\ rst'.src = rst.src
      \/ /\ rst'.src = rst.src /\ rst'.anchor = rst.anchor
         /\ rst'.done = rst.done /\ rst'.short = rst.short
         /\ \/ rst.pc = "building" /\ rst'.pc = "resuming"
               /\ (rst.anchor = 0 => rst.done = {})
            \/ rst.pc = "resuming" /\ rst'.pc = "publishing"
               /\ rst.done = Held(Plan) /\ rst.short = {}
            \/ rst.pc = "publishing" /\ rst'.pc = "publishable"
               /\ server = rst.anchor /\ rst'.topo = live
  <2>1. CASE EndTree
    BY <1>1, <2>1 DEF EndTree, Proceeds, Goto, Discharging, IdleRestore, Restore
  <2>2. CASE PublishCollect
    BY <1>1, <2>2 DEF PublishCollect, Proceeds, Restore
  <2>3. ASSUME NEW downgraded \in BOOLEAN, ResumeAndPlace(downgraded)
        PROVE  \/ rst'.pc = "discharging" /\ rst'.src = rst.src
               \/ /\ rst'.src = rst.src /\ rst'.anchor = rst.anchor
                  /\ rst'.done = rst.done /\ rst'.short = rst.short
                  /\ rst.pc = "resuming" /\ rst'.pc = "publishing"
                  /\ rst.done = Held(Plan) /\ rst.short = {}
    BY <1>1, <2>3
    DEF ResumeAndPlace, Degraded, Proceeds, Goto, Discharging, IdleRestore, Restore
  <2> QED
    BY <2>1, <2>2, <2>3 DEF PassingOn
<1>3. CASE rst'.pc = "discharging" /\ rst'.src = rst.src
  <2>1. rst.src < nextId
    BY <1>1 DEF RetireInv, Sourced
  <2> QED
    BY <1>1, <1>3, <2>1, InOrderUnchanged, LateRetire
<1>4. CASE rst'.pc # "discharging"
  <2>1. Plan' = Plan /\ Counted' = Counted
    BY <1>1, <1>2, <1>4 DEF Plan, Counted
  <2>2. ASSUME rst.anchor = 0 \/ server = rst.anchor, NEW s \in Counted
        PROVE  <<s, Plan[s]>> \in Contents(live) \union parted'
    <3>1. <<s, Plan[s]>> \in Contents(live) \union parted
      BY <1>1, <2>2 DEF RetireInv, Kept, Returned
    <3> QED
      BY <1>1, <3>1, PartedKept DEF Bringing
  <2>3. Kept'
    BY <1>1, <1>2, <1>4, <2>1, <2>2 DEF Kept, Returned, Contents
  <2>4. PublishesKept'
    BY <1>1, <1>2, <1>4, <2>1, <2>2 DEF PublishesKept, Contents
  <2>5. UnanchoredParted' /\ PublishesWhole' /\ ServerHoldsLive'
    BY <1>1, <1>2, <1>4, <2>1
    DEF RetireInv, UnanchoredParted, PublishesWhole, ServerHoldsLive
  <2> QED
    BY <1>1, <1>2, <1>4, <2>3, <2>4, <2>5, BringingRetire DEF Bringing
<1> QED
  BY <1>2, <1>3, <1>4

\* The table a publication writes: a new row, and every other row as it was but
\* for its debt and, when everything was observed, the source's state.
LEMMA RetireState ==
    ASSUME NEW table \in [Ids -> Snapshot], NEW id \in Ids, NEW i \in Ids
    PROVE  /\ Retire(table, id)[i].holds = table[i].holds
           /\ i # id => Retire(table, id)[i] = table[i]
BY DEF Retire, Snapshot

LEMMA PublishRows ==
    ASSUME RetireInv, NEW placement, NEW observed \in BOOLEAN,
           PublishCommit(placement, observed)
    PROVE  /\ rst.src \in Ids /\ nextId \in Ids /\ rst.src < nextId
           /\ snaps'[nextId].holds
                 = CapturedRow(RefreshUnresolved([snaps EXCEPT ![rst.src].owed = @ \ Delivered],
                                                 rst.src),
                               rst.topo, boot, clock, placement).holds
           /\ snaps'[nextId].state = "complete"
           /\ \A i \in Ids \ {nextId, rst.src} : snaps'[i].state = snaps[i].state
<1>1. /\ snaps \in [Ids -> Snapshot] /\ nextId \in 1..(MaxSnaps + 1)
      /\ nextId <= MaxSnaps /\ rst.src \in Ids /\ rst.src < nextId
      /\ rst.pc = "publishable"
  BY DEF RetireInv, DebtInv, TypeInv, TypeOK, HasSource, Sourced, PublishCommit
<1>2. nextId \in Ids /\ nextId # rst.src
  BY <1>1, SnapshotsAssumption DEF Ids
<1> DEFINE discharged == [snaps EXCEPT ![rst.src].owed = @ \ Delivered]
           refreshed == RefreshUnresolved(discharged, rst.src)
           row == CapturedRow(refreshed, rst.topo, boot, clock, placement)
           written == WriteTopology(refreshed, nextId, rst.topo, boot, clock, placement)
<1>3. /\ discharged \in [Ids -> Snapshot]
      /\ \A i \in Ids : discharged[i].state = snaps[i].state
  BY <1>1 DEF Snapshot
<1>4. snaps' = IF observed THEN Retire(written, rst.src) ELSE written
  BY DEF PublishCommit
<1> HIDE DEF discharged
<1>5. /\ refreshed \in [Ids -> Snapshot]
      /\ \A i \in Ids : refreshed[i].state = snaps[i].state
  BY <1>1, <1>3, RefreshUnresolvedType, RefreshState
<1> HIDE DEF refreshed
<1>6. /\ written[nextId] = row
      /\ \A i \in Ids \ {nextId} : written[i].state = snaps[i].state
  BY <1>2, <1>5, WriteTopologyRows
<1>7. row.state = "complete"
  BY DEF CapturedRow
<1> HIDE DEF row
<1>8. /\ snaps'[nextId] = row
      /\ \A i \in Ids \ {rst.src, nextId} : snaps'[i].state = snaps[i].state
  <2>1. CASE observed
    <3>1. \A i \in Ids \ {rst.src} : Retire(written, rst.src)[i] = written[i]
      BY <1>1, <2>1 DEF Retire, WriteTopology, CarryForward
    <3> QED
      BY <1>2, <1>4, <1>6, <2>1, <3>1
  <2>2. CASE ~observed
    BY <1>2, <1>4, <1>6, <2>2
  <2> QED
    BY <2>1, <2>2
<1> QED
  BY <1>1, <1>2, <1>7, <1>8 DEF row, refreshed, discharged

Publishing ==
    \E placement \in PlacementAnswers, observed \in BOOLEAN : PublishCommit(placement, observed)

LEMMA PublishRetire == RetireInv /\ DebtInv' /\ Publishing => RetireInv'
<1> SUFFICES ASSUME RetireInv, DebtInv',
                    NEW placement, NEW observed \in BOOLEAN,
                    PublishCommit(placement, observed)
             PROVE  RetireInv'
  BY DEF Publishing
<1>1. /\ nextId' = nextId + 1 /\ server' = server /\ live' = live /\ nextId \in Nat
      /\ rst.src < nextId /\ rst.src \in Nat
  BY PublishRows DEF PublishCommit, RetireInv, DebtInv, TypeInv, TypeOK, Ids
<1>2. \/ rst' = IdleRestore
      \/ rst'.pc = "discharging" /\ rst'.src = rst.src
  BY DEF PublishCommit, Discharging, IdleRestore
<1>3. WrittenInOrder'
  <2> SUFFICES ASSUME NEW i \in Ids, i >= nextId + 1
               PROVE  snaps'[i].state = "absent"
    BY <1>1 DEF WrittenInOrder
  <2>1. i # nextId /\ i # rst.src /\ i >= nextId
    BY <1>1 DEF Ids
  <2>2. snaps[i].state = "absent"
    BY <2>1 DEF RetireInv, WrittenInOrder
  <2> QED
    BY <2>1, <2>2, PublishRows
<1>4. IdleRestore.pc = "idle" /\ IdleRestore.done = {} /\ IdleRestore.short = {}
  BY DEF IdleRestore
<1>5. Sourced' /\ Owner' /\ StartsEmpty'
  BY <1>1, <1>2, <1>4 DEF Sourced, Owner, StartsEmpty
<1>6. Kept' /\ UnanchoredParted' /\ PublishesWhole' /\ PublishesKept'
  BY <1>2, <1>4 DEF Kept, UnanchoredParted, PublishesWhole, PublishesKept
<1> QED
  BY <1>1, <1>3, <1>5, <1>6 DEF RetireInv, ServerHoldsLive, NoUnanchoredDeath

LEMMA RestoreRetire == RetireInv /\ RestoreStep => RetireInv'
<1> SUFFICES ASSUME RetireInv, RestoreStep PROVE RetireInv'
  OBVIOUS
<1>1. DebtInv'
  BY RestoreDebt DEF RetireInv
<1>2. CASE \/ BeginRestore \/ ReclaimOrphans \/ SelectSource \/ MarkInProgress
           \/ OweSnapshot \/ OweSessions \/ StartAttempt \/ ReadLiveNames
  BY <1>1, <1>2, EarlyStepsRetire
<1>3. CASE \E s \in Sessions : AdoptSession(s) \/ CreateCollides(s)
  BY <1>1, <1>3, AdoptRetire
<1>4. CASE \E s \in Sessions, shape \in Shapes \union {None},
             outcome \in {"done", "degraded", "failed"} : CreateSession(s, shape, outcome)
  BY <1>1, <1>4, CreateRetire
<1>5. CASE CheckServer \/ PassingOn \/ Publishing \/ Ending
  BY <1>1, <1>5, CheckRetire, PassingOnRetire, PublishRetire, EndingRetire
<1> QED
  BY <1>2, <1>3, <1>4, <1>5 DEF RestoreStep, PassingOn, Publishing, Ending

LEMMA StepRetire == RetireInv /\ [Next]_vars => RetireInv'
<1> SUFFICES ASSUME RetireInv, [Next]_vars PROVE RetireInv'
  OBVIOUS
<1>1. CASE UNCHANGED vars
  BY <1>1, StepDebt
  DEF vars, RetireInv, ServerHoldsLive, WrittenInOrder, Sourced, Owner, StartsEmpty, Kept,
      UnanchoredParted, PublishesWhole, PublishesKept, Returned, Counted, Plan, Contents,
      NoUnanchoredDeath
<1> QED
  BY <1>1, EnvironmentRetire, CaptureRetire, RestoreRetire DEF Next

-----------------------------------------------------------------------------
(* The property. *)

RetiresInto(i) ==
    /\ nextId' # nextId
    /\ \A p \in Contents(snaps[i].holds) : p \in Contents(snaps'[nextId].holds) \union parted

NoneRetires ==
    \A i \in Ids : snaps'[i].state = "restored" => snaps[i].state = "restored"

LEMMA PublishHolds ==
    ASSUME RetireInv, Publishing,
           NEW i \in Ids, snaps[i].state # "restored", snaps'[i].state = "restored"
    PROVE  RetiresInto(i)
<1>1. PICK placement \in PlacementAnswers, observed \in BOOLEAN : PublishCommit(placement, observed)
  BY DEF Publishing
<1> DEFINE table == RefreshUnresolved([snaps EXCEPT ![rst.src].owed = @ \ Delivered], rst.src)
           row == CapturedRow(table, rst.topo, boot, clock, placement)
<1>2. /\ rst.src \in Ids /\ nextId \in Ids
      /\ snaps'[nextId].holds = row.holds
      /\ snaps'[nextId].state = "complete"
      /\ \A j \in Ids \ {nextId, rst.src} : snaps'[j].state = snaps[j].state
  BY <1>1, PublishRows
<1>3. i = rst.src
  BY <1>2
<1>4. /\ nextId' = nextId + 1 /\ nextId \in Nat /\ rst.pc = "publishable"
      /\ rst.topo \in Topology
  BY <1>1 DEF PublishCommit, RetireInv, DebtInv, TypeInv, TypeOK, Restore
<1>5. ASSUME NEW p \in Contents(rst.topo)
      PROVE  p \in Contents(row.holds)
  <2>1. p[1] \in Held(rst.topo)
    BY <1>5, SnapshotsAssumption DEF Contents, Held
  <2>2. p[1] \notin CarriedSessions(table, rst.topo)
    BY <2>1 DEF CarriedSessions
  <2>3. row.holds[p[1]] = rst.topo[p[1]]
    BY <1>5, <2>2 DEF CapturedRow, Contents
  <2> HIDE DEF row
  <2> QED
    BY <1>5, <2>3 DEF Contents
<1>6. ASSUME NEW p \in Contents(snaps[i].holds)
      PROVE  p \in Contents(snaps'[nextId].holds) \union parted
  <2>1. /\ p = <<p[1], p[2]>> /\ p[1] \in Sessions /\ p[2] \in Shapes
        /\ Plan[p[1]] = p[2]
    BY <1>3, <1>6 DEF Contents, Plan
  <2>2. p[1] \in Held(Plan)
    BY <2>1, SnapshotsAssumption DEF Held
  <2>3. p[1] \in Counted
    BY <1>4, <2>2 DEF Counted, RetireInv, PublishesWhole
  <2>4. <<p[1], Plan[p[1]]>> \in Contents(rst.topo) \union parted
    BY <1>4, <2>3 DEF RetireInv, PublishesKept
  <2>5. p \in Contents(rst.topo) \union parted
    BY <2>1, <2>4
  <2> HIDE DEF row
  <2> QED
    BY <1>2, <1>5, <2>5
<1> QED
  BY <1>4, <1>6 DEF RetiresInto

LEMMA OnlyPublishRetires == RetireInv /\ [Next]_vars => NoneRetires \/ Publishing
<1> SUFFICES ASSUME RetireInv, [Next]_vars, ~Publishing PROVE NoneRetires
  OBVIOUS
<1>1. /\ snaps \in [Ids -> Snapshot] /\ nextId \in 1..(MaxSnaps + 1)
      /\ rst.pc \notin {"idle", "locked", "reclaimed"} => rst.src \in Ids
  BY DEF RetireInv, DebtInv, TypeInv, TypeOK, HasSource
<1>2. CASE snaps' = snaps
  BY <1>2 DEF NoneRetires
<1>3. ASSUME NEW placement, CaptureCommit(placement) PROVE NoneRetires
  <2>1. /\ nextId \in Ids
        /\ snaps' = WriteTopology(snaps, nextId, cap.topo, boot, clock, placement)
    BY <1>1, <1>3, SnapshotsAssumption DEF CaptureCommit, Ids
  <2>2. snaps'[nextId] = CapturedRow(snaps, cap.topo, boot, clock, placement)
    BY <1>1, <2>1, WriteTopologyRows
  <2>3. snaps'[nextId].state = "complete"
    BY <2>2 DEF CapturedRow
  <2>4. \A i \in Ids \ {nextId} : snaps'[i].state = snaps[i].state
    BY <1>1, <2>1, WriteTopologyRows
  <2> QED
    BY <2>3, <2>4 DEF NoneRetires
<1>4. CASE CapturePrune
  BY <1>1, <1>4 DEF CapturePrune, Prune, Blank, NoneRetires
<1>5. CASE ReclaimOrphans
  BY <1>1, <1>5 DEF ReclaimOrphans, Reclaim, Snapshot, NoneRetires
<1>6. CASE MarkInProgress \/ ReturnSource
  BY <1>1, <1>6 DEF MarkInProgress, ReturnSource, SetState, Snapshot, NoneRetires
<1>7. CASE OweSnapshot \/ OweSessions
  BY <1>1, <1>7 DEF OweSnapshot, OweSessions, Snapshot, NoneRetires
<1>8. CASE \/ RefreshSource \/ RefreshReturned
           \/ \E s \in Sessions : ResolveDelivered(s)
  <2>1. /\ rst.src \in Ids
        /\ \/ snaps' = RefreshUnresolved(snaps, rst.src)
           \/ \E s \in Sessions : snaps' = ResolveSession(snaps, rst.src, s)
    BY <1>1, <1>8 DEF RefreshSource, RefreshReturned, ResolveDelivered
  <2>2. \A i \in Ids : snaps'[i].state = snaps[i].state
    BY <1>1, <2>1, ResolveState, RefreshState
  <2> QED
    BY <2>2 DEF NoneRetires
<1>9. CASE \/ CaptureCollect \/ CaptureStops \/ Environment \/ UNCHANGED vars
  <2>1. snaps' = snaps
    BY <1>9
    DEF CaptureCollect, CaptureStops, Environment, UserCreates, UserCloses, UserReshapes,
        UserChanges, ClockMoves, ServerDies, Reboot, vars
  <2> QED
    BY <1>2, <2>1
<1>10. CASE RestoreStep /\ snaps' # snaps
  BY <1>5, <1>6, <1>7, <1>8, <1>10
  DEF RestoreStep, Publishing, BeginRestore, SelectSource, EndEarly, StartAttempt,
      ReadLiveNames, AdoptSession, CreateCollides, CreateSession, CheckServer, EndTree,
      ResumeAndPlace, PublishCollect, PublishDisowned, PublishUnsecured, AttemptErrors,
      FinalizeFailedAttempt, RecordOutcome, RestoreStops
<1> QED
  BY <1>2, <1>3, <1>4, <1>9, <1>10 DEF Next, CaptureStep

LEMMA StepRetires ==
    RetireInv /\ [Next]_vars =>
        \A i \in Ids :
          snaps[i].state # "restored" /\ snaps'[i].state = "restored" =>
              /\ nextId' # nextId
              /\ \A p \in Contents(snaps[i].holds) :
                    p \in Contents(snaps'[nextId].holds) \union parted
BY OnlyPublishRetires, PublishHolds DEF NoneRetires, RetiresInto

\* A source retires (state `restored`) only in the transaction that publishes
\* the current boot's snapshot, and whatever the source held is in that snapshot
\* or was put back and then closed or changed by the user: the contract of
\* publish_current_boot, under the proviso above.
THEOREM RetiredIsHeld == NoUnanchoredDeath /\ Spec => RetireOnlyWhenHeld
<1> USE DEF RetireOnlyWhenHeld
<1>1. NoUnanchoredDeath /\ Spec => []RetireInv
  BY InitRetire, StepRetire, PTL DEF Spec
<1> QED
  BY <1>1, StepRetires, PTL DEF Spec

-----------------------------------------------------------------------------
(* What a restore took on is discharged only when it is back.  This needs a  *)
(* second proviso: a server that dies after the last check takes with it what *)
(* the restore still goes on to discharge.                                   *)

NoLateDeath == "after" \notin DeathWindows

\* An attempt that ended keeps its source marked until it returns it.
Marked ==
    /\ rst.pc \in {"failing", "discharging", "refreshed", "recorded"}
          => snaps[rst.src].state = "restore_in_progress"
    /\ rst.pc = "failing" => rst.todo = {}

\* Up to its end an attempt owes all of its source.
OwesAll ==
    rst.pc \in {"owing", "started", "building", "checking", "resuming", "publishing",
                "publishable", "failing"}
        => snaps[rst.src].owed = Held(Plan)

\* Once the last session has been checked, what counts as delivered is back,
\* whatever the user closes.
Back ==
    \/ rst.pc \in {"resuming", "publishing", "publishable"}
    \/ rst.pc = "building" /\ rst.todo = {}
    => \A s \in Counted : Returned(s)

\* What an attempt that ended has discharged or is about to is back.
Paid ==
    rst.pc \in {"discharging", "refreshed", "recorded"} =>
        \A s \in Held(Plan) : s \in snaps[rst.src].owed \ rst.todo \/ Returned(s)

DischargeInv == RetireInv /\ NoLateDeath /\ Marked /\ OwesAll /\ Back /\ Paid

LEMMA InitDischarge == NoUnanchoredDeath /\ NoLateDeath /\ Init => DischargeInv
BY InitRetire DEF Init, IdleRestore, DischargeInv, Marked, OwesAll, Back, Paid

LEMMA RefreshOwed ==
    ASSUME NEW table \in [Ids -> Snapshot], NEW id \in Ids, NEW i \in Ids
    PROVE  RefreshUnresolved(table, id)[i].owed = table[i].owed
<1> DEFINE owes == table[id].owed # {}
<1>1. RefreshUnresolved(table, id) = [table EXCEPT ![id].unresolved = owes]
  BY DEF RefreshUnresolved
<1> HIDE DEF owes
<1>2. QED  BY <1>1 DEF Snapshot

\* The steps of a restore in which there is nothing to say.
LEMMA OutsideDischarge ==
    ASSUME DischargeInv, RetireInv',
           rst'.pc \in {"idle", "locked", "reclaimed", "selected", "marked", "flagged",
                        "returned"}
    PROVE  DischargeInv'
BY DEF DischargeInv, NoLateDeath, Marked, OwesAll, Back, Paid

Attempted ==
    {"building", "resuming", "publishing", "publishable", "discharging", "refreshed",
     "recorded"}

LEMMA MarkedSource ==
    ASSUME DischargeInv, rst.pc \in Attempted \union {"failing", "checking", "started"}
    PROVE  /\ rst.src \in Ids
           /\ snaps[rst.src].state = "restore_in_progress"
BY DEF DischargeInv, Marked, Attempted, RetireInv, Owner, DebtInv, TypeInv, HasSource

\* What is back stays so while nobody changes tmux, and is remembered while the
\* source is marked.
LEMMA ReturnedStays ==
    ASSUME RetireInv, NEW s, Returned(s), rst.src \in Ids, rst'.src = rst.src,
           live' = live, snaps'[rst.src].state = "restore_in_progress",
           snaps'[rst.src].holds = snaps[rst.src].holds, Observe
    PROVE  Returned(s)'
<1>1. parted \in SUBSET (Sessions \X Shapes) /\ Plan' = Plan
  BY DEF RetireInv, DebtInv, TypeInv, TypeOK, Plan
<1>2. Contents(live)' = Contents(live)
  BY DEF Contents
<1>3. CASE <<s, Plan[s]>> \in parted
  BY <1>1, <1>3, PartedStays DEF Observe, Plan, Returned
<1>4. CASE <<s, Plan[s]>> \in Contents(live)
  BY <1>1, <1>2, <1>4 DEF Returned
<1>5. QED  BY <1>3, <1>4 DEF Returned

LEMMA EnvironmentDischarge ==
    ASSUME DischargeInv, RetireInv', Environment
    PROVE  DischargeInv'
<1>1. ASSUME NEW s0 \in Sessions, NEW shape \in Shapes \union {None}, UserChanges(s0, shape)
      PROVE  DischargeInv'
  <2>1. UNCHANGED <<rst, snaps>> /\ Counted' = Counted /\ Plan' = Plan
    BY <1>1 DEF UserChanges, Counted, Plan
  <2>2. ASSUME NEW s, Returned(s), rst.pc \in Attempted PROVE Returned(s)'
    BY <1>1, <2>2, MarkedSource, ReturnedByUser DEF DischargeInv
  <2>3. Back' /\ Paid'
    BY <2>1, <2>2 DEF DischargeInv, Back, Paid, Attempted
  <2>4. QED  BY <2>1, <2>3 DEF DischargeInv, NoLateDeath, Marked, OwesAll
<1>2. ASSUME ServerDies PROVE DischargeInv'
  <2>1. UNCHANGED <<rst, snaps>> /\ Counted' = Counted /\ Plan' = Plan
    BY <1>2 DEF ServerDies, Counted, Plan
  <2>2. DeathWindow # "after"
    BY <1>2 DEF ServerDies, DischargeInv, NoLateDeath
  <2>3. /\ rst.pc \notin {"resuming", "publishing", "publishable", "discharging", "refreshed",
                          "recorded"}
        /\ ~(rst.pc = "building" /\ rst.todo = {})
    BY <2>2 DEF DeathWindow
  <2>4. QED  BY <2>1, <2>3 DEF DischargeInv, NoLateDeath, Marked, OwesAll, Back, Paid
<1>3. ASSUME NEW t, ClockMoves(t) PROVE DischargeInv'
  <2>1. UNCHANGED <<rst, snaps, live>> /\ Counted' = Counted /\ Plan' = Plan /\ Observe
    BY <1>3 DEF ClockMoves, Counted, Plan
  <2>2. ASSUME NEW s, Returned(s), rst.pc \in Attempted PROVE Returned(s)'
    BY <2>1, <2>2, MarkedSource, ReturnedStays DEF DischargeInv
  <2>3. Back' /\ Paid'
    BY <2>1, <2>2 DEF DischargeInv, Back, Paid, Attempted
  <2>4. QED  BY <2>1, <2>3 DEF DischargeInv, NoLateDeath, Marked, OwesAll
<1>4. ASSUME Reboot PROVE DischargeInv'
  BY <1>4, OutsideDischarge DEF Reboot, IdleRestore
<1>5. QED
  BY <1>1, <1>2, <1>3, <1>4 DEF Environment, UserCreates, UserReshapes, UserCloses

LEMMA CaptureDischarge ==
    ASSUME DischargeInv, RetireInv', CaptureStep
    PROVE  DischargeInv'
<1>1. rst.pc = "idle" /\ rst' = rst
  BY DEF DischargeInv, RetireInv, DebtInv, Exclusion, CaptureStep, CaptureCollect,
         CaptureCommit, CapturePrune, CaptureStops
<1>2. QED  BY <1>1, OutsideDischarge

-----------------------------------------------------------------------------
(* The restore: which statement an attempt ends with. *)

LEMMA BeginsDischarge ==
    ASSUME DischargeInv, RetireInv',
           \/ BeginRestore \/ ReclaimOrphans \/ SelectSource \/ EndEarly \/ MarkInProgress
           \/ OweSnapshot \/ ReturnSource \/ RefreshReturned \/ RestoreStops
    PROVE  DischargeInv'
<1>1. rst \in Restore
  BY DEF DischargeInv, RetireInv, DebtInv, TypeInv, TypeOK
<1>2. CASE EndEarly \/ RefreshReturned \/ RestoreStops
  BY <1>2, OutsideDischarge DEF EndEarly, RefreshReturned, RestoreStops, Proceeds, IdleRestore
<1>3. CASE BeginRestore \/ ReclaimOrphans \/ SelectSource
  <2>1. rst'.pc \in {"locked", "reclaimed", "selected"}
    BY <1>1, <1>3 DEF BeginRestore, ReclaimOrphans, SelectSource, Proceeds, Goto, Restore
  <2>2. QED  BY <2>1, OutsideDischarge
<1>4. CASE MarkInProgress \/ OweSnapshot \/ ReturnSource
  <2>1. rst'.pc \in {"marked", "flagged", "returned"}
    BY <1>1, <1>4 DEF MarkInProgress, OweSnapshot, ReturnSource, Proceeds, Goto, Restore
  <2>2. QED  BY <2>1, OutsideDischarge
<1>5. QED  BY <1>2, <1>3, <1>4

LEMMA BuildsDischarge ==
    ASSUME DischargeInv, RetireInv',
           \/ OweSessions \/ StartAttempt \/ ReadLiveNames \/ AttemptErrors
           \/ \E s \in Sessions : AdoptSession(s) \/ CreateCollides(s)
           \/ \E s \in Sessions, shape \in Shapes \union {None},
                 outcome \in {"done", "degraded", "failed"} : CreateSession(s, shape, outcome)
    PROVE  DischargeInv'
<1>1. /\ rst \in Restore /\ snaps \in [Ids -> Snapshot]
      /\ rst.pc \notin {"idle", "locked", "reclaimed"} => rst.src \in Ids
  BY DEF DischargeInv, RetireInv, DebtInv, TypeInv, TypeOK, HasSource
<1>2. CASE OweSessions
  <2>1. /\ rst.pc = "flagged" /\ rst' = [rst EXCEPT !.pc = "owing"]
        /\ snaps' = [snaps EXCEPT ![rst.src].owed = Held(Plan)]
    BY <1>2 DEF OweSessions, Proceeds, Goto
  <2>2. rst'.pc = "owing" /\ rst'.src = rst.src
    BY <1>1, <2>1 DEF Restore
  <2>3. /\ snaps'[rst.src].owed = Held(Plan)
        /\ snaps'[rst.src].holds = snaps[rst.src].holds
    BY <1>1, <2>1 DEF Snapshot
  <2>4. OwesAll'
    BY <2>2, <2>3 DEF OwesAll, Plan
  <2>5. QED  BY <2>2, <2>4 DEF DischargeInv, NoLateDeath, Marked, Back, Paid
<1>3. CASE StartAttempt
  <2>1. /\ rst.pc = "owing" /\ rst'.pc = "started" /\ rst'.src = rst.src /\ snaps' = snaps
    BY <1>1, <1>3 DEF StartAttempt, Proceeds, Restore
  <2>2. QED  BY <2>1 DEF DischargeInv, NoLateDeath, Marked, Back, Paid, OwesAll, Plan
<1>4. CASE ReadLiveNames
  <2>1. /\ rst.pc = "started" /\ rst'.pc = "building" /\ rst'.src = rst.src /\ snaps' = snaps
        /\ rst'.done = rst.done
    BY <1>1, <1>4 DEF ReadLiveNames, Proceeds, Restore
  <2>2. rst.done = {}
    BY <2>1 DEF DischargeInv, RetireInv, StartsEmpty
  <2>3. Back'
    BY <2>1, <2>2 DEF Back, Counted
  <2>4. QED  BY <2>1, <2>3 DEF DischargeInv, NoLateDeath, Marked, Paid, OwesAll, Plan
<1>5. CASE AttemptErrors
  <2>1. /\ rst.pc \in {"started", "building"} /\ rst'.pc = "failing" /\ rst'.src = rst.src
        /\ rst'.todo = {} /\ snaps' = snaps
    BY <1>1, <1>5 DEF AttemptErrors, Proceeds, Restore, IdleRestore
  <2>2. snaps[rst.src].state = "restore_in_progress"
    BY <2>1, MarkedSource DEF Attempted
  <2>3. QED  BY <2>1, <2>2 DEF DischargeInv, NoLateDeath, Marked, Back, Paid, OwesAll, Plan
<1>6. CASE \/ \E s \in Sessions : AdoptSession(s) \/ CreateCollides(s)
           \/ \E s \in Sessions, shape \in Shapes \union {None},
                 outcome \in {"done", "degraded", "failed"} : CreateSession(s, shape, outcome)
  <2>1. /\ rst.pc = "building" /\ rst'.pc = "checking" /\ rst'.src = rst.src /\ snaps' = snaps
    BY <1>1, <1>6 DEF AdoptSession, CreateCollides, CreateSession, Proceeds, Restore
  <2>2. QED  BY <2>1 DEF DischargeInv, NoLateDeath, Marked, Back, Paid, OwesAll, Plan
<1>7. QED  BY <1>2, <1>3, <1>4, <1>5, <1>6

\* An attempt turns to its last statements with all of its source owed, and
\* discharges only what is back.
LEMMA TurnsToDischarge ==
    ASSUME DischargeInv, RetireInv', NEW delivered \in SUBSET Sessions,
           rst.pc \in {"building", "checking", "resuming", "publishing", "publishable"},
           UNCHANGED <<snaps, live>>, Observe, rst' = Discharging(delivered),
           \A s \in delivered \intersect Held(Plan) : Returned(s)
    PROVE  DischargeInv'
<1>1. /\ rst.src \in Ids /\ snaps[rst.src].state = "restore_in_progress"
      /\ snaps[rst.src].owed = Held(Plan)
  BY MarkedSource DEF Attempted, DischargeInv, OwesAll
<1>2. /\ rst'.pc = "discharging" /\ rst'.src = rst.src /\ rst'.todo = delivered
      /\ Plan' = Plan
  BY DEF Discharging, IdleRestore, Plan
<1>3. ASSUME NEW s \in Held(Plan), s \in delivered PROVE Returned(s)'
  BY <1>1, <1>2, <1>3, ReturnedStays DEF DischargeInv
<1>4. Paid'
  BY <1>1, <1>2, <1>3 DEF Paid
<1>5. QED  BY <1>1, <1>2, <1>4 DEF DischargeInv, NoLateDeath, Marked, Back, OwesAll

\* What counts as delivered is passed on from the last check to the publication.
LEMMA PassesBack ==
    ASSUME DischargeInv, RetireInv', UNCHANGED <<snaps, live>>, Observe,
           \/ rst.pc \in {"resuming", "publishing"}
           \/ rst.pc = "building" /\ rst.todo = {},
           rst'.pc \in {"resuming", "publishing", "publishable"},
           rst'.src = rst.src, rst'.done = rst.done, rst'.short = rst.short
    PROVE  DischargeInv'
<1>1. rst.src \in Ids /\ snaps[rst.src].state = "restore_in_progress"
  BY MarkedSource DEF Attempted
<1>2. Plan' = Plan /\ Counted' = Counted
  BY DEF Plan, Counted
<1>3. ASSUME NEW s \in Counted PROVE Returned(s)'
  BY <1>1, ReturnedStays DEF DischargeInv, Back
<1>4. Back'
  BY <1>2, <1>3 DEF Back
<1>5. QED  BY <1>2, <1>4 DEF DischargeInv, NoLateDeath, Marked, Paid, OwesAll

LEMMA ChecksDischarge ==
    ASSUME DischargeInv, RetireInv', CheckServer \/ PassingOn
    PROVE  DischargeInv'
<1>1. rst \in Restore /\ UNCHANGED <<snaps, live, server>> /\ Observe
  BY DEF DischargeInv, RetireInv, DebtInv, TypeInv, TypeOK, CheckServer, PassingOn, EndTree,
         PublishCollect, ResumeAndPlace, Proceeds
<1>2. CASE rst' = Discharging({})
  <2>1. rst.pc \in {"building", "checking", "resuming", "publishing", "publishable"}
    BY DEF CheckServer, PassingOn, EndTree, PublishCollect, ResumeAndPlace
  <2>2. QED  BY <1>1, <1>2, <2>1, TurnsToDischarge
<1>3. CASE CheckServer /\ rst' # Discharging({})
  <2>1. /\ ServerIsTheSame /\ rst.pc = "checking"
        /\ rst'.pc = "building" /\ rst'.src = rst.src /\ rst'.anchor = server
    BY <1>1, <1>3 DEF CheckServer, Proceeds, Restore
  <2>2. Back'
    BY <1>1, <2>1 DEF RetireInv, Kept, Back
  <2>3. QED
    BY <1>1, <2>1, <2>2 DEF DischargeInv, NoLateDeath, Marked, Paid, OwesAll, Plan
<1>4. CASE EndTree /\ rst' # Discharging({})
  <2>1. /\ rst.pc = "building" /\ rst.todo = {} /\ rst'.pc = "resuming"
        /\ rst'.src = rst.src /\ rst'.done = rst.done /\ rst'.short = rst.short
    BY <1>1, <1>4 DEF EndTree, Proceeds, Goto, Restore
  <2>2. QED  BY <1>1, <2>1, PassesBack
<1>5. CASE PublishCollect
  <2>1. /\ rst.pc = "publishing" /\ rst'.pc = "publishable"
        /\ rst'.src = rst.src /\ rst'.done = rst.done /\ rst'.short = rst.short
    BY <1>1, <1>5 DEF PublishCollect, Proceeds, Restore
  <2>2. QED  BY <1>1, <2>1, PassesBack
<1>6. ASSUME NEW downgraded \in BOOLEAN, ResumeAndPlace(downgraded) PROVE DischargeInv'
  <2>1. CASE rst' = Discharging(Delivered)
    <3>1. rst.pc = "resuming" /\ Delivered \in SUBSET Sessions
      BY <1>1, <1>6 DEF ResumeAndPlace, Delivered, Restore
    <3>2. \A s \in Delivered \intersect Held(Plan) : Returned(s)
      BY <3>1 DEF DischargeInv, Back, Counted, Delivered
    <3>3. QED  BY <1>1, <2>1, <3>1, <3>2, TurnsToDischarge
  <2>2. CASE rst' # Discharging(Delivered)
    <3>1. /\ rst.pc = "resuming" /\ rst'.pc = "publishing"
          /\ rst'.src = rst.src /\ rst'.done = rst.done /\ rst'.short = rst.short
      BY <1>1, <1>6, <2>2 DEF ResumeAndPlace, Proceeds, Goto, Restore
    <3>2. QED  BY <1>1, <3>1, PassesBack
  <2>3. QED  BY <2>1, <2>2
<1>7. QED  BY <1>2, <1>3, <1>4, <1>5, <1>6 DEF PassingOn

LEMMA FailsDischarge ==
    ASSUME DischargeInv, RetireInv', PublishDisowned \/ PublishUnsecured
    PROVE  DischargeInv'
<1>1. /\ rst \in Restore /\ UNCHANGED <<snaps, live>> /\ Observe
      /\ rst.pc \in {"publishing", "publishable"}
      /\ rst' \in {Discharging({}), Discharging(Delivered)}
  BY DEF DischargeInv, RetireInv, DebtInv, TypeInv, TypeOK, PublishDisowned, PublishUnsecured,
         Proceeds
<1>2. {} \in SUBSET Sessions /\ Delivered \in SUBSET Sessions
  BY <1>1 DEF Delivered, Restore
<1>3. \A s \in Delivered \intersect Held(Plan) : Returned(s)
  BY <1>1 DEF DischargeInv, Back, Counted, Delivered
<1>4. QED  BY <1>1, <1>2, <1>3, TurnsToDischarge

\* The statements after that: what is no longer owed is back.
LEMMA PaysDischarge ==
    ASSUME DischargeInv, RetireInv', UNCHANGED live, Observe,
           rst.pc \in {"failing", "discharging", "refreshed"},
           rst'.pc \in {"discharging", "refreshed", "recorded"}, rst'.src = rst.src,
           snaps'[rst.src].state = snaps[rst.src].state,
           snaps'[rst.src].holds = snaps[rst.src].holds,
           snaps[rst.src].owed \ rst.todo \subseteq snaps'[rst.src].owed \ rst'.todo
    PROVE  DischargeInv'
<1>1. rst.src \in Ids /\ snaps[rst.src].state = "restore_in_progress"
  BY MarkedSource DEF Attempted
<1>2. Plan' = Plan
  BY DEF Plan
<1>3. ASSUME NEW s, Returned(s) PROVE Returned(s)'
  BY <1>1, <1>3, ReturnedStays DEF DischargeInv
<1>4. ASSUME NEW s \in Held(Plan)
      PROVE  s \in snaps'[rst.src].owed \ rst'.todo \/ Returned(s)'
  <2>1. s \in snaps[rst.src].owed \ rst.todo \/ Returned(s)
    BY DEF DischargeInv, Paid, OwesAll, Marked
  <2>2. QED  BY <1>3, <2>1
<1>5. Paid'
  BY <1>2, <1>4 DEF Paid
<1>6. QED  BY <1>1, <1>2, <1>5 DEF DischargeInv, NoLateDeath, Marked, Back, OwesAll

LEMMA EndsDischarge ==
    ASSUME DischargeInv, RetireInv',
           \/ \E written \in BOOLEAN : FinalizeFailedAttempt(written)
           \/ \E s \in Sessions : ResolveDelivered(s)
           \/ RefreshSource \/ RecordOutcome
    PROVE  DischargeInv'
<1>1. /\ rst \in Restore /\ snaps \in [Ids -> Snapshot]
      /\ rst.pc \notin {"idle", "locked", "reclaimed"} => rst.src \in Ids
  BY DEF DischargeInv, RetireInv, DebtInv, TypeInv, TypeOK, HasSource
<1>2. ASSUME NEW written \in BOOLEAN, FinalizeFailedAttempt(written) PROVE DischargeInv'
  <2>1. /\ rst.pc = "failing" /\ rst'.pc = "recorded" /\ rst'.src = rst.src
        /\ rst'.todo = rst.todo /\ snaps' = snaps /\ live' = live /\ Observe
    BY <1>1, <1>2 DEF FinalizeFailedAttempt, Proceeds, Goto, Restore
  <2>2. rst.todo = {}
    BY <2>1 DEF DischargeInv, Marked
  <2>3. QED  BY <2>1, <2>2, PaysDischarge
<1>3. ASSUME NEW s \in Sessions, ResolveDelivered(s) PROVE DischargeInv'
  <2>1. /\ rst.pc = "discharging" /\ rst'.pc = "discharging" /\ rst'.src = rst.src
        /\ rst'.todo = rst.todo \ {s} /\ s \in rst.todo /\ live' = live /\ Observe
        /\ snaps' = [snaps EXCEPT ![rst.src].owed = @ \ {s}]
    BY <1>1, <1>3 DEF ResolveDelivered, ResolveSession, Proceeds, Restore
  <2>2. /\ snaps'[rst.src].state = snaps[rst.src].state
        /\ snaps'[rst.src].holds = snaps[rst.src].holds
        /\ snaps'[rst.src].owed = snaps[rst.src].owed \ {s}
    BY <1>1, <2>1 DEF Snapshot
  <2>3. QED  BY <2>1, <2>2, PaysDischarge
<1>4. CASE RefreshSource
  <2>1. /\ rst.pc = "discharging" /\ rst'.pc = "refreshed" /\ rst'.src = rst.src
        /\ rst'.todo = rst.todo /\ live' = live /\ Observe /\ rst.src \in Ids
        /\ snaps' = RefreshUnresolved(snaps, rst.src)
    BY <1>1, <1>4 DEF RefreshSource, Proceeds, Goto, Restore
  <2>2. /\ snaps'[rst.src].state = snaps[rst.src].state
        /\ snaps'[rst.src].holds = snaps[rst.src].holds
    BY <1>1, <2>1, RefreshState
  <2>3. snaps'[rst.src].owed = snaps[rst.src].owed
    BY <1>1, <2>1, RefreshOwed
  <2>4. QED  BY <2>1, <2>2, <2>3, PaysDischarge
<1>5. CASE RecordOutcome
  <2>1. /\ rst.pc = "refreshed" /\ rst'.pc = "recorded" /\ rst'.src = rst.src
        /\ rst'.todo = rst.todo /\ snaps' = snaps /\ live' = live /\ Observe
    BY <1>1, <1>5 DEF RecordOutcome, Proceeds, Goto, Restore
  <2>2. QED  BY <2>1, PaysDischarge
<1>6. QED  BY <1>2, <1>3, <1>4, <1>5

-----------------------------------------------------------------------------
(* The rows that a transaction writes, and what they owe. *)

Owing(row, p) ==
    /\ p \in Contents(row.holds)
    /\ \/ row.state = "restore_in_progress"
       \/ row.state = "complete" /\ p[1] \in row.owed

LEMMA OwedByRow ==
    ASSUME NEW p
    PROVE  /\ p \in OwedContents <=> \E i \in Ids : Owing(snaps[i], p)
           /\ p \in OwedContents' <=> \E i \in Ids : Owing(snaps'[i], p)
<1>1. p \in OwedContents <=> \E i \in Ids : Owing(snaps[i], p)
  BY DEF OwedContents, Owing
<1>2. p \in OwedContents' <=> \E i \in Ids : Owing(snaps'[i], p)
  BY DEF OwedContents, Owing, Contents
<1>3. QED  BY <1>1, <1>2

\* There is one newest row.
LEMMA OneCarrier ==
    ASSUME NEW table \in [Ids -> Snapshot], NEW s, NEW i \in Carrier(table, s)
    PROVE  CarriedContent(table, s) = table[i].holds[s]
<1> DEFINE j == CHOOSE k \in Carrier(table, s) : TRUE
<1>1. j \in Carrier(table, s) /\ j \in Ids /\ i \in Ids
  BY DEF Carrier, Newest, DebtSources, Present
<1>2. CarriedContent(table, s) = table[j].holds[s]
  BY DEF CarriedContent
<1> HIDE DEF j
<1>3. i = j
  <2> SUFFICES ASSUME i # j PROVE FALSE
    OBVIOUS
  <2>1. Newer(table, i, j) /\ Newer(table, j, i)
    BY <1>1 DEF Carrier, Newest
  <2>2. /\ table[i].takenAt \in Nat /\ table[j].takenAt \in Nat
        /\ i \in Nat /\ j \in Nat
    BY <1>1, SnapshotsAssumption DEF Snapshot, Ids
  <2>3. QED  BY <2>1, <2>2 DEF Newer
<1>4. QED  BY <1>2, <1>3

\* A capture leaves a debt, or records what it discharges.
LEMMA WriteDischarges ==
    ASSUME NEW table \in [Ids -> Snapshot], NEW id \in Ids, NEW topology \in Topology,
           NEW b, NEW now, NEW placement, NEW i \in Ids \ {id}, NEW p,
           Owing(table[i], p), table[i].owed # {} => table[i].unresolved
    PROVE  \/ Owing(WriteTopology(table, id, topology, b, now, placement)[i], p)
           \/ p \in Contents(CapturedRow(table, topology, b, now, placement).holds)
<1> DEFINE after == WriteTopology(table, id, topology, b, now, placement)[i]
           row == CapturedRow(table, topology, b, now, placement)
           left == table[i].owed \ Settled(table, topology, i)
<1>1. after = CarryForward(table, topology)[i]
  BY DEF WriteTopology, CarryForward
<1>2. after.state = table[i].state /\ after.holds = table[i].holds
  BY <1>1, CarryForwardState
<1>3. CASE table[i].state = "restore_in_progress"
  BY <1>2, <1>3 DEF Owing
<1>4. CASE table[i].state = "complete" /\ p[1] \notin Settled(table, topology, i)
  <2>1. p[1] \in table[i].owed
    BY <1>4 DEF Owing
  <2>2. after = IF i \notin DebtSources(table) THEN table[i]
                ELSE [table[i] EXCEPT !.owed = left, !.unresolved = (left # {})]
    BY <1>1 DEF CarryForward
  <2>3. p[1] \in left
    BY <1>4, <2>1
  <2> HIDE DEF left
  <2>4. p[1] \in after.owed
    BY <2>1, <2>2, <2>3 DEF Snapshot
  <2> HIDE DEF after
  <2>5. Owing(after, p)
    BY <1>2, <1>4, <2>4 DEF Owing
  <2>6. QED  BY <2>5 DEF after
<1>5. CASE table[i].state = "complete" /\ p[1] \in Settled(table, topology, i)
  <2>1. /\ p = <<p[1], p[2]>> /\ p[1] \in Sessions /\ p[2] \in Shapes
        /\ table[i].holds[p[1]] = p[2]
    BY DEF Owing, Contents
  <2>2. row.holds[p[1]] = p[2]
    <3>1. CASE p[1] \in Held(topology) /\ topology[p[1]] = table[i].holds[p[1]]
      BY <2>1, <3>1 DEF CapturedRow, CarriedSessions
    <3>2. CASE p[1] \notin Held(topology) /\ i \in Carrier(table, p[1])
      <4>1. p[1] \in CarriedSessions(table, topology)
        BY <2>1, <3>2 DEF CarriedSessions
      <4>2. row.holds[p[1]] = CarriedContent(table, p[1])
        BY <2>1, <4>1 DEF CapturedRow
      <4>3. QED  BY <2>1, <3>2, <4>2, OneCarrier
    <3>3. QED  BY <1>5, <3>1, <3>2 DEF Settled
  <2> HIDE DEF row
  <2>3. p \in Contents(row.holds)
    BY <2>1, <2>2 DEF Contents
  <2>4. QED  BY <2>3 DEF row
<1>6. QED  BY <1>3, <1>4, <1>5 DEF Owing

\* What may be no longer owed after a step.
Excused(p) ==
    \/ p \in Contents(live) \union parted
    \/ nextId' # nextId /\ p \in Contents(snaps'[nextId].holds)

LEMMA PublishDischarges ==
    ASSUME DischargeInv, Publishing, NEW i \in Ids, NEW p, Owing(snaps[i], p)
    PROVE  Excused(p) \/ \E j \in Ids : Owing(snaps'[j], p)
<1>1. PICK placement \in PlacementAnswers, observed \in BOOLEAN : PublishCommit(placement, observed)
  BY DEF Publishing
<1> DEFINE table == RefreshUnresolved([snaps EXCEPT ![rst.src].owed = @ \ Delivered], rst.src)
           row == CapturedRow(table, rst.topo, boot, clock, placement)
           written == WriteTopology(table, nextId, rst.topo, boot, clock, placement)
<1>2. /\ rst.src \in Ids /\ nextId \in Ids /\ rst.src < nextId
      /\ snaps'[nextId].holds = row.holds
  BY <1>1, PublishRows DEF DischargeInv
<1>3. /\ nextId' = nextId + 1 /\ nextId \in Nat /\ rst.topo \in Topology
      /\ snaps \in [Ids -> Snapshot]
      /\ rst.pc = "publishable" /\ snaps[rst.src].state = "restore_in_progress"
      /\ \A k \in Ids : snaps[k].owed # {} => snaps[k].unresolved
      /\ snaps[nextId].state = "absent"
  BY <1>1, <1>2
  DEF PublishCommit, DischargeInv, RetireInv, DebtInv, Cached, TypeInv, TypeOK, Restore,
      Owner, WrittenInOrder
<1>4. /\ table \in [Ids -> Snapshot]
      /\ \A k \in Ids \ {rst.src} : table[k] = snaps[k]
      /\ table[rst.src].state = snaps[rst.src].state
      /\ table[rst.src].holds = snaps[rst.src].holds
  <2> DEFINE discharged == [snaps EXCEPT ![rst.src].owed = @ \ Delivered]
  <2>1. /\ discharged \in [Ids -> Snapshot]
        /\ \A k \in Ids \ {rst.src} : discharged[k] = snaps[k]
        /\ discharged[rst.src].state = snaps[rst.src].state
        /\ discharged[rst.src].holds = snaps[rst.src].holds
    BY <1>2, <1>3 DEF Snapshot
  <2>2. table = RefreshUnresolved(discharged, rst.src)
    OBVIOUS
  <2> HIDE DEF discharged, table
  <2>3. QED
    BY <1>2, <2>1, <2>2, RefreshUnresolvedType, RefreshState DEF RefreshUnresolved
<1>5. snaps' = IF observed THEN Retire(written, rst.src) ELSE written
  BY <1>1 DEF PublishCommit
<1>6. i # nextId
  BY <1>3 DEF Owing
<1>7. CASE i # rst.src
  <2>1. Owing(table[i], p) /\ (table[i].owed # {} => table[i].unresolved)
    BY <1>3, <1>4, <1>7
  <2> HIDE DEF table
  <2>2. Owing(written[i], p) \/ p \in Contents(row.holds)
    BY <1>2, <1>3, <1>4, <1>6, <2>1, WriteDischarges
  <2>3. snaps'[i] = written[i]
    <3>1. Retire(written, rst.src)[i] = written[i]
      BY <1>7 DEF Retire, WriteTopology, CarryForward
    <3>2. QED  BY <1>5, <3>1
  <2> HIDE DEF written, row
  <2>4. QED  BY <1>2, <1>3, <2>2, <2>3 DEF Excused
<1>8. CASE i = rst.src /\ observed
  <2>1. p \in Contents(snaps[i].holds)
    BY DEF Owing
  <2>2. snaps'[i].state = "restored"
    <3>1. snaps'[i] = [written[i] EXCEPT !.state = "restored", !.unresolved = FALSE, !.owed = {}]
      BY <1>2, <1>5, <1>8 DEF Retire, WriteTopology, CarryForward
    <3>2. written[i] = CarryForward(table, rst.topo)[i]
      BY <1>6 DEF WriteTopology, CarryForward
    <3> HIDE DEF table
    <3>3. written[i] \in Snapshot
      BY <1>4, <3>2, CarryForwardType
    <3> HIDE DEF written
    <3>4. QED  BY <3>1, <3>3 DEF Snapshot
  <2>3. RetiresInto(i)
    BY <1>3, <1>8, <2>2, PublishHolds DEF DischargeInv
  <2>4. QED  BY <2>1, <2>3 DEF RetiresInto, Excused
<1>9. CASE i = rst.src /\ ~observed
  <2> HIDE DEF table
  <2>1. written[i].state = table[i].state /\ written[i].holds = table[i].holds
    BY <1>2, <1>4, <1>6, WriteTopologyRows
  <2> HIDE DEF written
  <2>2. snaps'[i].state = "restore_in_progress" /\ snaps'[i].holds = snaps[i].holds
    BY <1>3, <1>4, <1>5, <1>9, <2>1
  <2>3. QED  BY <2>2 DEF Owing
<1>10. QED  BY <1>7, <1>8, <1>9

LEMMA CaptureDischarges ==
    ASSUME DischargeInv, CaptureStep, NEW i \in Ids, NEW p, Owing(snaps[i], p)
    PROVE  Excused(p) \/ \E j \in Ids : Owing(snaps'[j], p)
<1>1. /\ snaps \in [Ids -> Snapshot] /\ nextId \in 1..(MaxSnaps + 1) /\ cap \in Capture
      /\ \A k \in Ids : snaps[k].owed # {} => snaps[k].unresolved
      /\ \A k \in Ids : k >= nextId => snaps[k].state = "absent"
  BY DEF DischargeInv, RetireInv, DebtInv, Cached, TypeInv, TypeOK, WrittenInOrder
<1>2. ASSUME NEW placement, CaptureCommit(placement)
      PROVE  Excused(p) \/ Owing(snaps'[i], p)
  <2>1. /\ nextId \in Ids /\ nextId' = nextId + 1 /\ cap.topo \in Topology
        /\ snaps' = WriteTopology(snaps, nextId, cap.topo, boot, clock, placement)
    BY <1>1, <1>2, SnapshotsAssumption DEF CaptureCommit, Ids, Capture
  <2>2. i # nextId
    BY <1>1, <2>1 DEF Owing, Ids
  <2>3. snaps'[nextId] = CapturedRow(snaps, cap.topo, boot, clock, placement)
    BY <1>1, <2>1, WriteTopologyRows
  <2>4. \/ Owing(snaps'[i], p)
        \/ p \in Contents(snaps'[nextId].holds)
    BY <1>1, <2>1, <2>2, <2>3, WriteDischarges
  <2>5. QED  BY <1>1, <2>1, <2>4 DEF Excused
<1>3. CASE CapturePrune
  <2>1. snaps[i].state = "restore_in_progress" \/ snaps[i].unresolved
    BY <1>1 DEF Owing
  <2>2. i \in Present(snaps)
    BY DEF Owing, Present
  <2>3. snaps'[i] = snaps[i]
    BY <1>3, <2>1, <2>2 DEF CapturePrune, Prune, Exempt
  <2>4. QED  BY <2>3
<1>4. CASE CaptureCollect \/ CaptureStops
  BY <1>4 DEF CaptureCollect, CaptureStops
<1>5. QED  BY <1>2, <1>3, <1>4 DEF CaptureStep

LEMMA ReturnDischarges ==
    ASSUME DischargeInv, ReturnSource, NEW i \in Ids, NEW p, Owing(snaps[i], p)
    PROVE  Excused(p) \/ \E j \in Ids : Owing(snaps'[j], p)
<1>1. /\ snaps \in [Ids -> Snapshot] /\ rst.src \in Ids /\ rst.pc = "recorded"
      /\ snaps' = [snaps EXCEPT ![rst.src].state = "complete"]
  BY DEF DischargeInv, RetireInv, DebtInv, TypeInv, TypeOK, HasSource, ReturnSource, SetState
<1>2. CASE i # rst.src
  BY <1>1, <1>2
<1>3. CASE i = rst.src
  <2>1. /\ snaps'[i].state = "complete" /\ snaps'[i].holds = snaps[i].holds
        /\ snaps'[i].owed = snaps[i].owed
    BY <1>1, <1>3 DEF Snapshot
  <2>2. /\ p = <<p[1], p[2]>> /\ p[1] \in Held(Plan) /\ Plan[p[1]] = p[2]
        /\ p \in Contents(snaps[i].holds)
    BY <1>3, SnapshotsAssumption DEF Owing, Contents, Held, Plan
  <2>3. p[1] \in snaps[i].owed \/ Returned(p[1])
    BY <1>1, <1>3, <2>2 DEF DischargeInv, Paid
  <2>4. CASE p[1] \in snaps[i].owed
    BY <2>1, <2>2, <2>4 DEF Owing
  <2>5. CASE Returned(p[1])
    BY <2>2, <2>5 DEF Returned, Excused
  <2>6. QED  BY <2>3, <2>4, <2>5
<1>4. QED  BY <1>2, <1>3

\* The other statements of a restore leave every debt.
Leaving ==
    \/ ReclaimOrphans \/ MarkInProgress \/ OweSnapshot \/ OweSessions
    \/ \E s \in Sessions : ResolveDelivered(s)
    \/ RefreshSource \/ RefreshReturned

LEMMA LeavingDischarges ==
    ASSUME DischargeInv, Leaving, NEW i \in Ids, NEW p, Owing(snaps[i], p)
    PROVE  Owing(snaps'[i], p)
<1>1. /\ snaps \in [Ids -> Snapshot]
      /\ rst.pc \notin {"idle", "locked", "reclaimed"} => rst.src \in Ids
      /\ \A k \in Ids : snaps[k].owed # {} => snaps[k].unresolved
      /\ rst.pc \in {"flagged", "discharging"} => snaps[rst.src].state = "restore_in_progress"
  BY DEF DischargeInv, RetireInv, DebtInv, Cached, TypeInv, TypeOK, HasSource, Owner, Marked
<1>2. p = <<p[1], p[2]>> /\ p[1] \in Held(snaps[i].holds) /\ p \in Contents(snaps[i].holds)
  BY SnapshotsAssumption DEF Owing, Contents, Held
<1>3. CASE ReclaimOrphans
  <2>1. snaps' = Reclaim(snaps)
    BY <1>3 DEF ReclaimOrphans
  <2>2. snaps[i].state = "restore_in_progress" \/ snaps[i].unresolved
    BY <1>1 DEF Owing
  <2>3. /\ snaps'[i].state = "complete" /\ snaps'[i].holds = snaps[i].holds
        /\ snaps'[i].owed = Held(snaps[i].holds)
    BY <1>1, <2>1, <2>2 DEF Reclaim, Snapshot, Owing
  <2>4. QED  BY <1>2, <2>3 DEF Owing
<1>4. CASE i # rst.src /\ ~ReclaimOrphans
  <2>1. PICK row : snaps' = [snaps EXCEPT ![rst.src] = row]
    <3>1. \E row : snaps' = [snaps EXCEPT ![rst.src] = row]
      BY <1>4 DEF Leaving, MarkInProgress, OweSnapshot, OweSessions, ResolveDelivered,
         RefreshSource, RefreshReturned, SetState, ResolveSession, RefreshUnresolved
    <3>2. QED  BY <3>1
  <2>2. QED  BY <1>1, <1>4, <2>1
<1>5. CASE i = rst.src /\ MarkInProgress
  <2>1. snaps'[i].state = "restore_in_progress" /\ snaps'[i].holds = snaps[i].holds
    BY <1>1, <1>5 DEF MarkInProgress, SetState, Snapshot
  <2>2. QED  BY <1>2, <2>1 DEF Owing
<1>6. CASE OweSnapshot
  <2>1. /\ snaps'[i].state = snaps[i].state /\ snaps'[i].holds = snaps[i].holds
        /\ snaps'[i].owed = snaps[i].owed
    BY <1>1, <1>6 DEF OweSnapshot, Snapshot
  <2>2. QED  BY <2>1 DEF Owing
<1>7. CASE i = rst.src /\ (OweSessions \/ \E s \in Sessions : ResolveDelivered(s))
  <2>1. rst.pc \in {"flagged", "discharging"}
    BY <1>7 DEF OweSessions, ResolveDelivered
  <2>2. snaps'[i].state = snaps[i].state /\ snaps'[i].holds = snaps[i].holds
    <3>1. CASE OweSessions
      BY <1>1, <3>1 DEF OweSessions, Snapshot
    <3>2. CASE \E s \in Sessions : ResolveDelivered(s)
      BY <1>1, <3>2, <2>1, ResolveState DEF ResolveDelivered
    <3>3. QED  BY <1>7, <3>1, <3>2
  <2>3. QED  BY <1>1, <1>2, <1>7, <2>1, <2>2 DEF Owing
<1>8. CASE RefreshSource \/ RefreshReturned
  <2>1. snaps' = RefreshUnresolved(snaps, rst.src) /\ rst.src \in Ids
    BY <1>1, <1>8 DEF RefreshSource, RefreshReturned
  <2>2. /\ snaps'[i].state = snaps[i].state /\ snaps'[i].holds = snaps[i].holds
        /\ snaps'[i].owed = snaps[i].owed
    BY <1>1, <2>1, RefreshState, RefreshOwed
  <2>3. QED  BY <2>2 DEF Owing
<1>9. QED  BY <1>3, <1>4, <1>5, <1>6, <1>7, <1>8 DEF Leaving

LEMMA StepDischarges ==
    ASSUME DischargeInv, [Next]_vars, NEW p \in OwedContents \ OwedContents'
    PROVE  Excused(p)
<1>1. PICK i \in Ids : Owing(snaps[i], p)
  BY OwedByRow
<1>2. ~ \E j \in Ids : Owing(snaps'[j], p)
  BY OwedByRow
<1>3. snaps' # snaps
  BY <1>1, <1>2
<1>4. CASE CaptureStep
  BY <1>1, <1>2, <1>4, CaptureDischarges
<1>5. CASE RestoreStep
  <2>1. Leaving \/ ReturnSource \/ Publishing
    BY <1>3, <1>5
    DEF RestoreStep, Leaving, Publishing, BeginRestore, SelectSource, EndEarly, StartAttempt,
        ReadLiveNames, AdoptSession, CreateCollides, CreateSession, CheckServer, EndTree,
        ResumeAndPlace, PublishCollect, PublishDisowned, PublishUnsecured, AttemptErrors,
        FinalizeFailedAttempt, RecordOutcome, RestoreStops
  <2>2. QED
    BY <1>1, <1>2, <2>1, LeavingDischarges, ReturnDischarges, PublishDischarges
<1>6. snaps' = snaps \/ CaptureStep \/ RestoreStep
  BY DEF Next, Environment, UserCreates, UserCloses, UserReshapes, UserChanges, ClockMoves,
         ServerDies, Reboot, vars
<1>7. QED  BY <1>3, <1>4, <1>5, <1>6

LEMMA PublishDischarge ==
    ASSUME DischargeInv, RetireInv', Publishing
    PROVE  DischargeInv'
<1>1. PICK placement \in PlacementAnswers, observed \in BOOLEAN : PublishCommit(placement, observed)
  BY DEF Publishing
<1>2. CASE observed
  BY <1>1, <1>2, OutsideDischarge DEF PublishCommit, IdleRestore
<1>3. CASE ~observed
  <2> DEFINE table == RefreshUnresolved([snaps EXCEPT ![rst.src].owed = @ \ Delivered], rst.src)
             written == WriteTopology(table, nextId, rst.topo, boot, clock, placement)
  <2>1. /\ rst.src \in Ids /\ nextId \in Ids /\ rst.src < nextId /\ nextId \in Nat
        /\ rst.pc = "publishable" /\ snaps[rst.src].state = "restore_in_progress"
        /\ snaps \in [Ids -> Snapshot]
    BY <1>1, PublishRows
    DEF PublishCommit, DischargeInv, RetireInv, DebtInv, TypeInv, TypeOK, Owner
  <2>2. /\ table \in [Ids -> Snapshot]
        /\ table[rst.src].state = snaps[rst.src].state
        /\ table[rst.src].holds = snaps[rst.src].holds
    <3> DEFINE discharged == [snaps EXCEPT ![rst.src].owed = @ \ Delivered]
    <3>1. /\ discharged \in [Ids -> Snapshot]
          /\ discharged[rst.src].state = snaps[rst.src].state
          /\ discharged[rst.src].holds = snaps[rst.src].holds
      BY <2>1 DEF Snapshot
    <3>2. table = RefreshUnresolved(discharged, rst.src)
      OBVIOUS
    <3> HIDE DEF discharged, table
    <3>3. QED  BY <2>1, <3>1, <3>2, RefreshUnresolvedType, RefreshState
  <2>3. snaps' = written
    BY <1>1, <1>3 DEF PublishCommit
  <2> HIDE DEF table
  <2>4. /\ snaps'[rst.src].state = "restore_in_progress"
        /\ snaps'[rst.src].holds = snaps[rst.src].holds
    <3>1. \A i \in Ids \ {nextId} :
             /\ written[i].state = table[i].state
             /\ written[i].holds = table[i].holds
      BY <2>1, <2>2, WriteTopologyRows
    <3> HIDE DEF written
    <3>2. rst.src # nextId
      BY <2>1 DEF Ids
    <3>3. QED  BY <2>1, <2>2, <2>3, <3>1, <3>2
  <2> HIDE DEF written
  <2>5. /\ rst'.pc = "discharging" /\ rst'.src = rst.src /\ live' = live /\ Observe
    BY <1>1, <1>3 DEF PublishCommit, Discharging, IdleRestore
  <2>6. Plan' = Plan
    BY <2>4, <2>5 DEF Plan
  <2>7. ASSUME NEW s \in Held(Plan) PROVE Returned(s)'
    <3>1. Returned(s)
      BY <2>1 DEF DischargeInv, RetireInv, PublishesWhole, Back, Counted
    <3>2. QED  BY <2>1, <2>4, <2>5, <3>1, ReturnedStays DEF DischargeInv
  <2>8. Paid'
    BY <2>6, <2>7 DEF Paid
  <2>9. QED  BY <2>4, <2>5, <2>8 DEF DischargeInv, NoLateDeath, Marked, Back, OwesAll
<1>4. QED  BY <1>2, <1>3

LEMMA StepDischarge == DischargeInv /\ [Next]_vars => DischargeInv'
<1> SUFFICES ASSUME DischargeInv, [Next]_vars PROVE DischargeInv'
  OBVIOUS
<1>1. RetireInv'
  BY StepRetire DEF DischargeInv
<1>2. CASE UNCHANGED vars
  BY <1>1, <1>2
  DEF vars, DischargeInv, NoLateDeath, Marked, OwesAll, Back, Paid, Returned, Counted, Plan,
      Contents
<1>3. CASE Environment \/ CaptureStep
  BY <1>1, <1>3, EnvironmentDischarge, CaptureDischarge
<1>4. CASE RestoreStep
  <2>1. \/ BeginRestore \/ ReclaimOrphans \/ SelectSource \/ EndEarly \/ MarkInProgress
        \/ OweSnapshot \/ ReturnSource \/ RefreshReturned \/ RestoreStops
        \/ OweSessions \/ StartAttempt \/ ReadLiveNames \/ AttemptErrors
        \/ \E s \in Sessions : AdoptSession(s) \/ CreateCollides(s)
        \/ \E s \in Sessions, shape \in Shapes \union {None},
              outcome \in {"done", "degraded", "failed"} : CreateSession(s, shape, outcome)
        \/ CheckServer \/ PassingOn \/ PublishDisowned \/ PublishUnsecured \/ Publishing
        \/ \E written \in BOOLEAN : FinalizeFailedAttempt(written)
        \/ \E s \in Sessions : ResolveDelivered(s)
        \/ RefreshSource \/ RecordOutcome
    BY <1>4 DEF RestoreStep, PassingOn, Publishing
  <2>2. QED
    BY <1>1, <2>1, BeginsDischarge, BuildsDischarge, ChecksDischarge, FailsDischarge,
       EndsDischarge, PublishDischarge
<1>5. QED  BY <1>2, <1>3, <1>4 DEF Next

\* What a restore took on is no longer owed only once it was live in this boot,
\* or the step that discharges it records it: by the terminal writes of an
\* attempt, the publication, and the captures that carry a debt forward
\* (snapshots.rs carry_forward; restore.rs), under both provisos.
THEOREM DischargeOnlyRecoveredHolds ==
    NoUnanchoredDeath /\ NoLateDeath /\ Spec => DischargeOnlyRecovered
<1>1. DischargeInv /\ [Next]_vars =>
        [ \A p \in OwedContents \ OwedContents' :
             \/ p \in Contents(live) \union parted
             \/ nextId' # nextId /\ p \in Contents(snaps'[nextId].holds) ]_vars
  BY StepDischarges DEF Excused
<1>2. QED
  BY <1>1, InitDischarge, StepDischarge, PTL DEF Spec, DischargeOnlyRecovered
=============================================================================
