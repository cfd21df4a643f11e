--------------------------- MODULE AgentDebtProofs ---------------------------
(***************************************************************************)
(* For any places, conversations, captures, restores and people: what a    *)
(* restore undertook to put back stays in the newest snapshot, what no     *)
(* restore undertook is not carried, and the source is retired into a      *)
(* snapshot that binds what it bound.                                      *)
(***************************************************************************)
EXTENDS AgentDebt, FiniteSetTheorems, WellFoundedInduction, TLAPS

-----------------------------------------------------------------------------
(* The inductive invariant, in named parts.                                *)

\* A pane that was at `a` once is there still, or a person had a hand in both.
Follows(a, now, hands) ==
    /\ now = "unborn" => a = "unborn"
    /\ \/ a = now
       \/ (a \in Places => a \in hands) /\ (now \in Places => now \in hands)

\* Agents run in panes; one in a pane nobody touched is the one bound there.
Bare ==
    \A p \in Panes : runs[p] # Nothing =>
        at[p] \in Places /\ (at[p] \notin touched => runs[p] = Bound[at[p]])

Delivers ==
    /\ \A d \in Places : rst.map[d] # Nothing => Follows(d, at[rst.map[d]], touched)
    /\ rst.left \subseteq {d \in Delivered : Owes(d)}
    /\ rst.pc = "idle" => rst = NoRestore
    /\ rst.pc \in {"building", "recording", "resuming"} => reading = NoReading
    /\ rst.pc = "recording" => rst.left = {d \in Delivered : Owes(d)}
    /\ rst.pc = "publishing" => Delivered = Places /\ reading # NoReading

\* What was read of a pane nobody touched is still so.
ReadsTrue ==
    reading # NoReading =>
        /\ \A p \in Panes :
              /\ Follows(reading.at[p], at[p], touched)
              /\ reading.found[p] # Nothing =>
                    /\ reading.at[p] \in Places
                    /\ reading.at[p] \notin touched => reading.found[p] = Bound[reading.at[p]]
        /\ \A d \in Places \ touched : promised[d] # Nothing => \E p \in Panes : reading.at[p] = d

\* A session that was delivered has its pane, until a person takes it away.
Stands == \A d \in Places \ touched : promised[d] # Nothing => \E p \in Panes : at[p] = d

\* What has not been back is bound nowhere but at its place, and nothing else is.
InPlace ==
    \A d \in Places \ touched : Bound[d] \notin back =>
        \A b \in newest.bound : b.conv = Bound[d] <=> b.place = d

\* A pane of this server's in the newest snapshot followed from where it says.
Known ==
    newest.ours =>
        \A b \in newest.bound : b.pane # Nothing =>
            /\ Follows(b.place, at[b.pane], touched)
            /\ reading # NoReading => Follows(b.place, reading.at[b.pane], touched)

\* The rows say what was promised.
Rows ==
    /\ \A d \in Places : promised[d] # Nothing /\ ~Expired(promised[d]) /\ Bound[d] \notin back =>
          debt[d] = promised[d]
    /\ ~mishap => \A d \in Places : debt[d] # Nothing => debt[d] = promised[d] /\ d \notin settled

Promises ==
    /\ \A d \in Places : promised[d] # Nothing => Owes(d)
    /\ rst.pc \in {"resuming", "publishing"} /\ ~mishap =>
          \A d \in Delivered : Owes(d) => promised[d] # Nothing

IInv == /\ Bare /\ Delivers /\ ReadsTrue /\ Stands /\ InPlace /\ Known /\ Rows /\ Promises
        /\ KeptUntilBack

-----------------------------------------------------------------------------
(* Types. *)

\* A set of numbers that is not empty has a least one.
LEMMA Least ==
    ASSUME NEW T \in SUBSET Nat, T # {}
    PROVE  \E b \in T : \A c \in T : b <= c
<1> DEFINE R == OpToRel(<, Nat)
<1>1. IsWellFoundedOn(R, Nat)
  BY NatLessThanWellFounded
<1>2. \A a, b \in T : a < b => <<a, b>> \in R
  BY DEF OpToRel
<1> HIDE DEF R
<1>3. PICK b \in T : \A a \in T : ~(<<a, b>> \in R)
  BY <1>1, WFMin, Zenon
<1>4. \A a \in T : ~(a < b)
  BY <1>2, <1>3
<1>5. T \subseteq Nat
  OBVIOUS
<1>6. \A a \in T : b <= a
  BY <1>4, <1>5
<1>7. QED  BY <1>6

LEMMA FirstPane ==
    ASSUME NEW S \in SUBSET Panes, S # {}
    PROVE  Min(S) \in S
<1>1. \E b \in S : \A c \in S : b <= c
  BY Least, AgentDebtAssumption DEF Panes
<1>2. QED  BY <1>1 DEF Min

LEMMA Constants ==
    /\ \A d \in Places : d # Nothing /\ d # "unborn" /\ d # "gone"
    /\ \A v \in Conversations : v # Nothing
    /\ \A p \in Panes : p # Nothing
    /\ \A n \in Clock : n # Nothing /\ n \in Nat
    /\ 0 \in Clock
    /\ \A d \in Places : Owes(d) => Bound[d] \in Conversations
    /\ \A d, e \in Places : Owes(d) /\ Bound[d] = Bound[e] => d = e
BY AgentDebtAssumption DEF Clock, Panes, Owes

LEMMA NoRestoreType == NoRestore \in Restore
BY DEF NoRestore, Restore, Steps

LEMMA InitType == Init => TypeOK
<1> SUFFICES ASSUME Init PROVE TypeOK
  OBVIOUS
<1>1. {[pane |-> CapturedAs[d], place |-> d, conv |-> Bound[d]] :
         d \in {e \in Places : Bound[e] # Nothing}} \in SUBSET Binding
  BY AgentDebtAssumption DEF Binding
<1>2. newest \in Newest
  BY <1>1 DEF Init, Newest
<1>3. 0 \in Clock
  BY Constants
<1>4. QED  BY <1>2, <1>3, NoRestoreType DEF Init, TypeOK

\* What a capture or a publication reads.
LEMMA DetectsType ==
    ASSUME TypeOK, NEW ran \in BOOLEAN, NEW unknown \in Unknowns, Detects(ran, unknown)
    PROVE  /\ reading' \in Readings /\ reading' # NoReading
           /\ reading'.ran = ran /\ reading'.at = at /\ reading'.unknown = unknown
           /\ \A p \in Panes : reading'.found[p] # Nothing => reading'.found[p] = runs[p]
<1>1. unknown \in SUBSET Panes
  BY DEF Unknowns
<1>2. [p \in Panes |-> IF ran /\ p \notin unknown THEN runs[p] ELSE Nothing]
         \in [Panes -> Conversations \union {Nothing}]
  BY DEF TypeOK
<1> DEFINE found == [p \in Panes |-> IF ran /\ p \notin unknown THEN runs[p] ELSE Nothing]
<1>3. reading' = [pc |-> "read", ran |-> ran, at |-> at, unknown |-> unknown, found |-> found]
  BY DEF Detects
<1>4. \A p \in Panes : found[p] # Nothing => found[p] = runs[p]
  OBVIOUS
<1> HIDE DEF found
<1>5. reading' \in Readings
  BY <1>1, <1>2, <1>3 DEF Readings, TypeOK, found
<1>6. reading'.pc = "read" /\ NoReading.pc = "none"
  BY <1>3 DEF NoReading
<1>7. QED  BY <1>3, <1>4, <1>5, <1>6

LEMMA ReadingType ==
    ASSUME TypeOK, reading # NoReading
    PROVE  /\ reading \in Readings
           /\ \A p \in Panes : /\ reading.found[p] \in Conversations \union {Nothing}
                                /\ reading.at[p] \in Places \union {"unborn", "gone"}
BY DEF TypeOK, Readings

\* The rows a capture leaves.
LEMMA RowsType ==
    ASSUME TypeOK, NEW r
    PROVE  RowsAfter(r) \in [Places -> Clock \union {Nothing}]
BY DEF RowsAfter, Discharge, Prune, TypeOK

\* The bindings a capture or a publication writes.
LEMMA WrittenBindings ==
    ASSUME TypeOK, reading # NoReading, NEW owed \in SUBSET Places, NEW b
    PROVE  b \in Written(reading, owed).bound <=>
              \/ \E p \in Panes :
                    /\ reading.at[p] \in Places /\ reading.found[p] # Nothing
                    /\ b = [pane |-> p, place |-> reading.at[p], conv |-> reading.found[p]]
              \/ \E p \in Panes, v \in Conversations :
                    /\ reading.at[p] \in Places /\ reading.found[p] = Nothing
                    /\ Carries(reading, Discharge(debt, Live(reading)), p, v)
                    /\ b = [pane |-> p, place |-> reading.at[p], conv |-> v]
              \/ \E d \in owed :
                    /\ Owes(d) /\ \A p \in Panes : reading.at[p] # d
                    /\ b = [pane |-> Nothing, place |-> d, conv |-> Bound[d]]
<1> DEFINE rows == Discharge(debt, Live(reading))
           Pairs == {x \in {q \in Seated(reading) : reading.found[q] = Nothing} \X Conversations :
                        Carries(reading, rows, x[1], x[2])}
           Bind(p, v) == [pane |-> p, place |-> reading.at[p], conv |-> v]
           seen == {Bind(p, reading.found[p]) : p \in {q \in Seated(reading) : reading.found[q] # Nothing}}
           carried == {Bind(x[1], x[2]) : x \in Pairs}
           copied == CopyPanes(reading, owed)
<1>1. Written(reading, owed).bound = (seen \union carried) \union copied
  BY DEF Written, Bindings
<1>2. b \in seen <=> \E p \in Panes :
                       /\ reading.at[p] \in Places /\ reading.found[p] # Nothing
                       /\ b = [pane |-> p, place |-> reading.at[p], conv |-> reading.found[p]]
  BY DEF Seated
<1>3. b \in carried <=> \E p \in Panes, v \in Conversations :
                          /\ reading.at[p] \in Places /\ reading.found[p] = Nothing
                          /\ Carries(reading, rows, p, v)
                          /\ b = [pane |-> p, place |-> reading.at[p], conv |-> v]
  <2>1. ASSUME b \in carried
        PROVE  \E p \in Panes, v \in Conversations :
                  /\ reading.at[p] \in Places /\ reading.found[p] = Nothing
                  /\ Carries(reading, rows, p, v)
                  /\ b = [pane |-> p, place |-> reading.at[p], conv |-> v]
    <3>1. PICK x \in Pairs : b = Bind(x[1], x[2])
      BY <2>1
    <3>2. /\ x[1] \in Panes /\ x[2] \in Conversations
          /\ reading.at[x[1]] \in Places /\ reading.found[x[1]] = Nothing
          /\ Carries(reading, rows, x[1], x[2])
      BY DEF Seated
    <3>3. QED  BY <3>1, <3>2
  <2>2. ASSUME NEW p \in Panes, NEW v \in Conversations,
               reading.at[p] \in Places, reading.found[p] = Nothing,
               Carries(reading, rows, p, v),
               b = [pane |-> p, place |-> reading.at[p], conv |-> v]
        PROVE  b \in carried
    <3>1. <<p, v>> \in Pairs /\ <<p, v>>[1] = p /\ <<p, v>>[2] = v
      BY <2>2 DEF Seated
    <3> HIDE DEF Pairs
    <3>2. QED  BY <2>2, <3>1
  <2>3. QED  BY <2>1, <2>2
<1>4. b \in copied <=> \E d \in owed :
                         /\ Owes(d) /\ \A p \in Panes : reading.at[p] # d
                         /\ b = [pane |-> Nothing, place |-> d, conv |-> Bound[d]]
  BY DEF CopyPanes
<1> HIDE DEF seen, carried, copied, rows
<1>5. QED  BY <1>1, <1>2, <1>3, <1>4 DEF rows

LEMMA WrittenType ==
    ASSUME TypeOK, reading # NoReading, NEW owed \in SUBSET Places
    PROVE  Written(reading, owed) \in Newest
<1>1. ASSUME NEW b \in Written(reading, owed).bound PROVE b \in Binding
  <2>1. CASE \E p \in Panes :
                /\ reading.at[p] \in Places /\ reading.found[p] # Nothing
                /\ b = [pane |-> p, place |-> reading.at[p], conv |-> reading.found[p]]
    BY <2>1, ReadingType DEF Binding
  <2>2. CASE \E p \in Panes, v \in Conversations :
                /\ reading.at[p] \in Places
                /\ b = [pane |-> p, place |-> reading.at[p], conv |-> v]
    BY <2>2 DEF Binding
  <2>3. CASE \E d \in owed : Owes(d) /\ b = [pane |-> Nothing, place |-> d, conv |-> Bound[d]]
    BY <2>3, Constants DEF Binding
  <2>4. QED  BY <1>1, <2>1, <2>2, <2>3, WrittenBindings
<1>2. PICK bound : Written(reading, owed) = [ours |-> TRUE, bound |-> bound]
  BY DEF Written
<1>3. bound \in SUBSET Binding
  BY <1>1, <1>2
<1>4. QED  BY <1>2, <1>3 DEF Newest

\* What building leaves: panes that were unborn, and a pane for each session.
LEMMA Built ==
    ASSUME TypeOK, NEW delivered \in SUBSET Places, Builds(delivered)
    PROVE  /\ \A p \in Panes : /\ at'[p] \in Places \union {"unborn", "gone"}
                               /\ at'[p] = at[p] \/ (at[p] = "unborn" /\ at'[p] \in Places)
           /\ rst' \in Restore
           /\ \/ rst' = NoRestore
              \/ /\ rst'.pc = "recording"
                 /\ rst'.left = {d \in delivered : Owes(d)}
                 /\ \A d \in delivered : rst'.map[d] \in Panes /\ at'[rst'.map[d]] = d
                 /\ \A d \in Places \ delivered : rst'.map[d] = Nothing
<1> DEFINE new == {d \in delivered : PaneAt(d) = {}}
<1>1. PICK how \in [new -> Unborn] :
         /\ \A d, e \in new : how[d] = how[e] => d = e
         /\ at' = [p \in Panes |-> IF \E d \in new : how[d] = p
                                  THEN CHOOSE d \in new : how[d] = p ELSE at[p]]
  BY DEF Builds
<1>2. \A d \in new : how[d] \in Panes /\ at[how[d]] = "unborn"
  BY <1>1 DEF Unborn
<1> HIDE DEF new
<1>3. ASSUME NEW p \in Panes
      PROVE  /\ at'[p] \in Places \union {"unborn", "gone"}
             /\ at'[p] = at[p] \/ (at[p] = "unborn" /\ at'[p] \in Places)
  <2>1. at[p] \in Places \union {"unborn", "gone"}
    BY DEF TypeOK
  <2>2. CASE \E d \in new : how[d] = p
    <3>1. PICK d \in new : how[d] = p
      BY <2>2
    <3>2. at'[p] \in new
      BY <1>1, <2>2
    <3>3. new \subseteq Places
      BY DEF new
    <3>4. QED  BY <1>2, <3>1, <3>2, <3>3
  <2>3. CASE ~\E d \in new : how[d] = p
    <3>1. at'[p] = at[p]
      BY <1>1, <2>3
    <3>2. QED  BY <2>1, <3>1
  <2>4. QED  BY <2>2, <2>3
<1>4. \A d \in delivered : \E p \in Panes : at'[p] = d
  <2>1. ASSUME NEW d \in new PROVE at'[how[d]] = d
    <3>1. at'[how[d]] = CHOOSE e \in new : how[e] = how[d]
      BY <1>1, <1>2
    <3>2. \A e \in new : how[e] = how[d] => e = d
      BY <1>1
    <3>3. QED  BY <3>1, <3>2
  <2>2. ASSUME NEW d \in delivered, d \notin new PROVE \E p \in Panes : at'[p] = d
    <3>1. PICK p \in Panes : at[p] = d
      BY <2>2 DEF new, PaneAt
    <3>2. at[p] # "unborn"
      BY <2>2, <3>1, Constants
    <3>3. ~\E e \in new : how[e] = p
      BY <1>2, <3>2
    <3>4. QED  BY <1>1, <3>1, <3>3
  <2>3. QED  BY <1>2, <2>1, <2>2
<1> DEFINE map == [d \in Places |-> IF d \in delivered THEN CHOOSE p \in Panes : at'[p] = d
                                                     ELSE Nothing]
           left == {d \in delivered : Owes(d)}
<1>5. rst' = IF delivered = {} THEN NoRestore
             ELSE [rst EXCEPT !.pc = "recording", !.map = map, !.left = left]
  BY DEF Builds
<1>6. /\ \A d \in delivered : map[d] \in Panes /\ at'[map[d]] = d
      /\ \A d \in Places \ delivered : map[d] = Nothing
      /\ map \in [Places -> Panes \union {Nothing}]
  BY <1>4
<1>7. left \in SUBSET Places /\ rst \in Restore
  BY DEF TypeOK
<1> HIDE DEF map, left
<1>8. rst' \in Restore
  BY <1>5, <1>6, <1>7, NoRestoreType DEF Restore, Steps
<1>9. rst' = NoRestore \/ (rst'.pc = "recording" /\ rst'.map = map /\ rst'.left = left)
  BY <1>5, <1>7 DEF Restore
<1>10. QED  BY <1>3, <1>6, <1>8, <1>9 DEF left

LEMMA TypeNext ==
    ASSUME TypeOK, Delivers, [Next]_vars
    PROVE  TypeOK'
<1> USE DEF panes, store, history
<1>0. /\ \A p \in Panes : /\ at[p] \in Places \union {"unborn", "gone"}
                          /\ runs[p] \in Conversations \union {Nothing}
      /\ rst \in Restore
  BY DEF TypeOK
<1>1. CASE Tick
  BY <1>1, AgentDebtAssumption DEF Tick, TypeOK, Clock
<1>2. ASSUME NEW places \in SUBSET Places, ByHand(places),
             at' \in [Panes -> Places \union {"unborn", "gone"}],
             runs' \in [Panes -> Conversations \union {Nothing}]
      PROVE  TypeOK'
  BY <1>2 DEF ByHand, TypeOK
<1>3. ASSUME NEW d \in Places, OpensPane(d) PROVE TypeOK'
  <2>1. Min(Unborn) \in Panes
    BY <1>3, FirstPane DEF OpensPane, Unborn
  <2>2. QED  BY <1>2, <1>3, <2>1 DEF OpensPane, TypeOK
<1>4. ASSUME NEW p \in Panes, ClosesPane(p) PROVE TypeOK'
  BY <1>2, <1>4 DEF ClosesPane, TypeOK
<1>5. ASSUME NEW p \in Panes, NEW d \in Places, MovesPane(p, d) PROVE TypeOK'
  BY <1>2, <1>5 DEF MovesPane, TypeOK
<1>6. ASSUME NEW p \in Panes, NEW v \in Conversations, Starts(p, v) PROVE TypeOK'
  BY <1>2, <1>6 DEF Starts, TypeOK
<1>7. ASSUME NEW p \in Panes, Ends(p) PROVE TypeOK'
  BY <1>2, <1>7 DEF Ends, TypeOK
<1>8. ASSUME NEW ran \in BOOLEAN, NEW unknown \in Unknowns, CaptureReads(ran, unknown)
      PROVE  TypeOK'
  <2>1. reading' \in Readings
    BY <1>8, DetectsType DEF CaptureReads
  <2>2. QED  BY <1>8, <2>1 DEF CaptureReads, TypeOK
<1>9. ASSUME NEW owed \in SUBSET Places, WriteTopology(owed), reading # NoReading
      PROVE  /\ newest' \in Newest /\ debt' \in [Places -> Clock \union {Nothing}]
             /\ back' \subseteq Conversations /\ settled' \subseteq Places
             /\ reading' = NoReading
  <2>1. Live(reading) \subseteq Conversations
    BY <1>9, ReadingType DEF Live
  <2>2. QED  BY <1>9, <2>1, WrittenType, RowsType DEF WriteTopology, TypeOK
<1>10. CASE CaptureCommits
  <2>1. due \in SUBSET Places
    BY DEF TypeOK
  <2>2. QED  BY <1>9, <1>10, <2>1 DEF CaptureCommits, TypeOK
<1>11. CASE CaptureFails
  BY <1>11 DEF CaptureFails, TypeOK
<1>12. CASE RestoreBegins
  BY <1>12, NoRestoreType DEF RestoreBegins, TypeOK, Restore, Steps
<1>13. ASSUME NEW delivered \in SUBSET Places, Builds(delivered) PROVE TypeOK'
  <2>1. at' \in [Panes -> Places \union {"unborn", "gone"}]
    <3>1. \A p \in Panes : at'[p] \in Places \union {"unborn", "gone"}
      BY <1>13, Built
    <3>2. at' = [p \in Panes |-> at'[p]]
      BY <1>13 DEF Builds
    <3>3. QED  BY <3>1, <3>2
  <2>2. rst' \in Restore
    BY <1>13, Built
  <2>3. QED  BY <1>13, <2>1, <2>2 DEF Builds, TypeOK
<1>14. CASE Records
  BY <1>0, <1>14 DEF Records, TypeOK, Restore, Steps, Prune
<1>15. CASE RecordFails
  BY <1>0, <1>15 DEF RecordFails, TypeOK, Restore, Steps
<1>16. ASSUME NEW d \in Places, Skips(d) PROVE TypeOK'
  BY <1>0, <1>16 DEF Skips, TypeOK, Restore, Steps
<1>17. ASSUME NEW d \in Places, ResumeFails(d) PROVE TypeOK'
  BY <1>0, <1>17 DEF ResumeFails, TypeOK, Restore, Steps
<1>18. ASSUME NEW d \in Places, Resumes(d) PROVE TypeOK'
  <2>1. rst.map[d] \in Panes /\ Bound[d] \in Conversations
    BY <1>0, <1>18, Constants DEF Resumes, Delivers, Delivered, Restore
  <2>2. rst' \in Restore
    BY <1>0, <1>18 DEF Resumes, Restore
  <2>3. QED  BY <1>18, <2>1, <2>2 DEF Resumes, TypeOK
<1>19. ASSUME NEW ran \in BOOLEAN, NEW unknown \in Unknowns, PublishReads(ran, unknown)
       PROVE  TypeOK'
  <2>1. reading' \in Readings
    BY <1>19, DetectsType DEF PublishReads
  <2>2. rst' \in Restore
    BY <1>0, <1>19 DEF PublishReads, Restore, Steps
  <2>3. QED  BY <1>19, <2>1, <2>2 DEF PublishReads, TypeOK
<1>20. CASE Publishes
  <2>1. due \ Delivered \in SUBSET Places
    BY DEF TypeOK
  <2>2. reading # NoReading
    BY <1>20 DEF Publishes, Delivers
  <2>3. QED  BY <1>9, <1>20, <2>1, <2>2, NoRestoreType DEF Publishes, TypeOK
<1>21. CASE PublishFails \/ EndsPartial \/ RestoreKilled
  BY <1>21, NoRestoreType DEF PublishFails, EndsPartial, RestoreKilled, TypeOK
<1>22. CASE UNCHANGED vars
  BY <1>22 DEF vars, TypeOK
<1>23. QED
  BY <1>1, <1>3, <1>4, <1>5, <1>6, <1>7, <1>8, <1>10, <1>11, <1>12, <1>13, <1>14, <1>15, <1>16,
     <1>17, <1>18, <1>19, <1>20, <1>21, <1>22 DEF Next

-----------------------------------------------------------------------------
(* The steps. *)

LEMMA First == Init => IInv
<1> SUFFICES ASSUME Init PROVE IInv
  OBVIOUS
<1>1. /\ \A p \in Panes : runs[p] = Nothing
      /\ \A d \in Places : promised[d] = Nothing /\ debt[d] = Nothing
      /\ rst = NoRestore /\ reading = NoReading /\ newest.ours = FALSE
  BY DEF Init
<1>2. rst.pc = "idle" /\ rst.left = {} /\ \A d \in Places : rst.map[d] = Nothing
  BY <1>1 DEF NoRestore
<1>3. Bare /\ Delivers /\ ReadsTrue /\ Stands /\ Known /\ Rows /\ Promises /\ KeptUntilBack
  BY <1>1, <1>2
  DEF Bare, Delivers, ReadsTrue, Stands, Known, Rows, Promises, KeptUntilBack, Delivered
<1>4. InPlace
  <2>1. ASSUME NEW b \in newest.bound
        PROVE  b.place \in Places /\ Owes(b.place) /\ b.conv = Bound[b.place]
    BY DEF Init, Owes
  <2>2. QED  BY <2>1, Constants DEF InPlace
<1>5. QED  BY <1>3, <1>4 DEF IInv

\* A pane a person has not had in hand stays where it is.
Hands(p) ==
    \/ at'[p] = at[p]
    \/ /\ at'[p] # "unborn"
       /\ at[p] \in Places => at[p] \in touched'
       /\ at'[p] \in Places => at'[p] \in touched'

LEMMA FollowsStep ==
    ASSUME NEW a, NEW p \in Panes, Follows(a, at[p], touched), touched \subseteq touched', Hands(p)
    PROVE  Follows(a, at'[p], touched')
BY DEF Follows, Hands

LEMMA WorldRest ==
    ASSUME TypeOK, IInv, Bare', touched \subseteq touched', \A p \in Panes : Hands(p),
           clock' \in Clock, clock <= clock',
           UNCHANGED <<store, rst, reading, promised, settled, back, hollow, mishap>>
    PROVE  IInv'
<1> USE DEF store
<1>1. /\ \A d \in Places : rst.map[d] \in Panes \union {Nothing}
      /\ \A b \in newest.bound : b.pane \in Panes \union {Nothing}
  BY DEF TypeOK, Restore, Newest, Binding
<1>2. Delivers'
  <2>1. \A d \in Places : rst.map[d] # Nothing => Follows(d, at'[rst.map[d]], touched')
    BY <1>1, FollowsStep DEF IInv, Delivers
  <2>2. QED  BY <2>1 DEF IInv, Delivers, Delivered
<1>3. ReadsTrue'
  <2>1. ASSUME reading # NoReading, NEW p \in Panes
        PROVE  Follows(reading.at[p], at'[p], touched')
    BY <2>1, FollowsStep DEF IInv, ReadsTrue
  <2>2. QED  BY <2>1 DEF IInv, ReadsTrue
<1>4. Stands'
  BY DEF IInv, Stands, Hands
<1>5. InPlace'
  BY DEF IInv, InPlace
<1>6. Known'
  <2>1. ASSUME newest.ours, NEW b \in newest.bound, b.pane # Nothing
        PROVE  /\ Follows(b.place, at'[b.pane], touched')
               /\ reading # NoReading => Follows(b.place, reading.at[b.pane], touched')
    <3>1. b.pane \in Panes
      BY <1>1, <2>1
    <3>2. Follows(b.place, at[b.pane], touched)
      BY <2>1 DEF IInv, Known
    <3>3. QED  BY <2>1, <3>1, <3>2, FollowsStep DEF IInv, Known, Follows
  <2>2. QED  BY <2>1 DEF Known
<1>7. ASSUME NEW d \in Places, ~Expired(promised[d])' PROVE ~Expired(promised[d])
  <2>1. promised[d] \in Clock \union {Nothing} /\ clock \in Clock
    BY DEF TypeOK
  <2>2. QED  BY <1>7, <2>1, Constants, AgentDebtAssumption DEF Expired
<1>8. Rows' /\ KeptUntilBack'
  BY <1>7 DEF IInv, Rows, KeptUntilBack, Holds
<1>9. Promises'
  BY DEF IInv, Promises, Delivered
<1>10. QED  BY <1>2, <1>3, <1>4, <1>5, <1>6, <1>8, <1>9 DEF IInv

World ==
    \/ Tick
    \/ \E d \in Places : OpensPane(d)
    \/ \E p \in Panes : ClosesPane(p) \/ Ends(p)
    \/ \E p \in Panes, d \in Places : MovesPane(p, d)
    \/ \E p \in Panes, v \in Conversations : Starts(p, v)

LEMMA WorldNext ==
    ASSUME TypeOK, IInv, World
    PROVE  IInv'
<1> USE DEF panes, store, history
<1>0. /\ at \in [Panes -> Places \union {"unborn", "gone"}]
      /\ runs \in [Panes -> Conversations \union {Nothing}]
      /\ clock \in Clock /\ Bare
  BY DEF TypeOK, IInv
<1>1. ASSUME NEW places, ByHand(places), Bare', \A p \in Panes : Hands(p) PROVE IInv'
  <2>1. clock' \in Clock /\ clock <= clock' /\ touched \subseteq touched'
    BY <1>0, <1>1, Constants DEF ByHand
  <2>2. QED  BY <1>1, <2>1, WorldRest DEF ByHand
<1>2. CASE Tick
  <2>1. clock' \in Clock /\ clock <= clock'
    BY <1>0, <1>2, AgentDebtAssumption DEF Tick, Clock
  <2>2. Bare' /\ \A p \in Panes : Hands(p)
    BY <1>0, <1>2 DEF Tick, Bare, Hands
  <2>3. QED  BY <1>2, <2>1, <2>2, WorldRest DEF Tick
<1>3. ASSUME NEW d \in Places, OpensPane(d) PROVE IInv'
  <2>1. PICK p \in Panes : /\ at[p] = "unborn" /\ at' = [at EXCEPT ![p] = d]
                            /\ runs' = runs /\ touched' = touched \union {d}
    BY <1>3, FirstPane DEF OpensPane, Unborn, ByHand
  <2>2. /\ \A q \in Panes \ {p} : at'[q] = at[q]
        /\ at'[p] = d /\ runs[p] = Nothing /\ d # "unborn"
    BY <1>0, <2>1, Constants DEF Bare
  <2>3. Bare'
    BY <1>0, <2>1, <2>2 DEF Bare
  <2>4. \A q \in Panes : Hands(q)
    BY <2>1, <2>2, Constants DEF Hands
  <2>5. QED  BY <1>1, <1>3, <2>3, <2>4 DEF OpensPane
<1>4. ASSUME NEW p \in Panes, ClosesPane(p) PROVE IInv'
  <2>1. /\ \A q \in Panes \ {p} : at'[q] = at[q] /\ runs'[q] = runs[q]
        /\ at'[p] = "gone" /\ runs'[p] = Nothing /\ touched' = touched \union {at[p]}
    BY <1>0, <1>4 DEF ClosesPane, ByHand
  <2>2. Bare'
    BY <1>0, <2>1 DEF Bare
  <2>3. \A q \in Panes : Hands(q)
    BY <2>1, Constants DEF Hands
  <2>4. QED  BY <1>1, <1>4, <2>2, <2>3 DEF ClosesPane
<1>5. ASSUME NEW p \in Panes, NEW d \in Places, MovesPane(p, d) PROVE IInv'
  <2>1. /\ \A q \in Panes \ {p} : at'[q] = at[q]
        /\ at'[p] = d /\ runs' = runs /\ touched' = touched \union {at[p], d}
    BY <1>0, <1>5 DEF MovesPane, ByHand
  <2>2. Bare'
    <3>1. ASSUME NEW q \in Panes, runs'[q] # Nothing
          PROVE  at'[q] \in Places /\ (at'[q] \notin touched' => runs'[q] = Bound[at'[q]])
      <4>1. CASE q = p
        BY <2>1, <4>1
      <4>2. CASE q # p
        BY <1>0, <2>1, <3>1, <4>2 DEF Bare
      <4>3. QED  BY <4>1, <4>2
    <3>2. QED  BY <3>1 DEF Bare
  <2>3. \A q \in Panes : Hands(q)
    BY <2>1, Constants DEF Hands
  <2>4. QED  BY <1>1, <1>5, <2>2, <2>3 DEF MovesPane
<1>6. ASSUME NEW p \in Panes, NEW v \in Conversations, Starts(p, v) PROVE IInv'
  <2>1. /\ \A q \in Panes \ {p} : runs'[q] = runs[q]
        /\ runs'[p] = v /\ at' = at /\ at[p] \in Places
        /\ touched \subseteq touched'
        /\ v # Bound[at[p]] => at[p] \in touched'
    BY <1>0, <1>6 DEF Starts, ByHand
  <2>2. Bare'
    BY <1>0, <2>1 DEF Bare
  <2>3. \A q \in Panes : Hands(q)
    BY <2>1 DEF Hands
  <2>4. QED  BY <1>1, <1>6, <2>2, <2>3 DEF Starts
<1>7. ASSUME NEW p \in Panes, Ends(p) PROVE IInv'
  <2>1. /\ \A q \in Panes : runs'[q] = runs[q] \/ runs'[q] = Nothing
        /\ at' = at /\ touched' = touched
    BY <1>0, <1>7 DEF Ends, ByHand
  <2>2. Bare'
    BY <1>0, <2>1 DEF Bare
  <2>3. \A q \in Panes : Hands(q)
    BY <2>1 DEF Hands
  <2>4. QED  BY <1>1, <1>7, <2>2, <2>3 DEF Ends
<1>8. QED  BY <1>2, <1>3, <1>4, <1>5, <1>6, <1>7 DEF World

\* Steps of the restore and of captures that read and write nothing.
LEMMA QuietRest ==
    ASSUME TypeOK, IInv,
           UNCHANGED <<at, runs, newest, debt, promised, settled, back, touched, hollow, clock>>,
           reading' \in {reading, NoReading}, mishap => mishap'
    PROVE  /\ Bare' /\ ReadsTrue' /\ Stands' /\ InPlace' /\ Known' /\ Rows' /\ KeptUntilBack'
           /\ \A d \in Places : promised'[d] # Nothing => Owes(d)
<1>1. Bare' /\ ReadsTrue' /\ Stands' /\ InPlace'
  BY DEF IInv, Bare, ReadsTrue, Stands, InPlace
<1>2. Known'
  BY DEF IInv, Known
<1>3. Rows' /\ KeptUntilBack'
  BY DEF IInv, Rows, KeptUntilBack, Holds, Expired
<1>4. QED  BY <1>1, <1>2, <1>3 DEF IInv, Promises

Quiet ==
    \/ CaptureFails \/ RestoreBegins \/ RecordFails
    \/ \E d \in Places : Skips(d) \/ ResumeFails(d)
    \/ PublishFails \/ EndsPartial \/ RestoreKilled

LEMMA QuietNext ==
    ASSUME TypeOK, IInv, Quiet
    PROVE  IInv'
<1> USE DEF panes, store, history
<1>0. rst \in Restore
  BY DEF TypeOK
<1>1. /\ UNCHANGED <<at, runs, newest, debt, promised, settled, back, touched, hollow, clock>>
      /\ reading' \in {reading, NoReading} /\ (mishap => mishap')
  <2>1. UNCHANGED <<at, runs, newest, debt, promised, settled, back, touched, hollow, clock>>
    BY DEF Quiet, CaptureFails, RestoreBegins, RecordFails, Skips, ResumeFails, PublishFails,
       EndsPartial, RestoreKilled
  <2>2. reading' = reading \/ reading' = NoReading
    BY DEF Quiet, CaptureFails, RestoreBegins, RecordFails, Skips, ResumeFails, PublishFails,
       EndsPartial, RestoreKilled
  <2>3. mishap => mishap'
    BY Zenon DEF Quiet, CaptureFails, RestoreBegins, RecordFails, Skips, ResumeFails, PublishFails,
       EndsPartial, RestoreKilled
  <2>4. QED  BY <2>1, <2>2, <2>3
<1>2. /\ Bare' /\ ReadsTrue' /\ Stands' /\ InPlace' /\ Known' /\ Rows' /\ KeptUntilBack'
      /\ \A d \in Places : promised'[d] # Nothing => Owes(d)
  BY <1>1, QuietRest
<1>3. ASSUME rst'.map = rst.map, rst'.left \subseteq rst.left,
             \/ rst'.pc = "building"
             \/ rst'.pc = "resuming" /\ (rst.pc = "resuming" \/ mishap'),
             reading' = NoReading, rst'.pc # "idle"
      PROVE  Delivers' /\ Promises'
  <2>1. Delivered' = Delivered
    BY <1>3 DEF Delivered
  <2>2. Delivers'
    BY <1>1, <1>3, <2>1 DEF IInv, Delivers
  <2>3. Promises'
    BY <1>1, <1>2, <1>3, <2>1 DEF IInv, Promises
  <2>4. QED  BY <2>2, <2>3
<1>4. ASSUME rst' = NoRestore PROVE Delivers' /\ Promises'
  <2>1. rst'.pc = "idle" /\ rst'.left = {} /\ \A d \in Places : rst'.map[d] = Nothing
    BY <1>4 DEF NoRestore
  <2>2. QED  BY <1>2, <1>4, <2>1 DEF Delivers, Promises, Delivered
<1>5. CASE CaptureFails
  <2>1. rst' = rst /\ rst.pc = "idle"
    BY <1>5 DEF CaptureFails
  <2>2. QED  BY <1>2, <1>4, <2>1 DEF IInv, Delivers
<1>6. CASE RestoreBegins
  <2>1. rst.pc = "idle" /\ rst' = [NoRestore EXCEPT !.pc = "building"] /\ reading' = NoReading
    BY <1>6 DEF RestoreBegins
  <2>2. rst = NoRestore
    BY <2>1 DEF IInv, Delivers
  <2>3. rst'.pc = "building" /\ rst'.map = rst.map /\ rst'.left = rst.left
    BY <2>1, <2>2 DEF NoRestore
  <2>4. QED  BY <1>2, <1>3, <2>1, <2>3 DEF IInv
<1>7. CASE RecordFails
  <2>1. rst.pc = "recording" /\ rst' = [rst EXCEPT !.pc = "resuming"] /\ mishap'
        /\ reading' = reading
    BY <1>7 DEF RecordFails
  <2>2. rst'.pc = "resuming" /\ rst'.map = rst.map /\ rst'.left = rst.left
    BY <1>0, <2>1 DEF Restore
  <2>3. reading' = NoReading
    BY <2>1 DEF IInv, Delivers
  <2>4. QED  BY <1>2, <1>3, <2>1, <2>2, <2>3 DEF IInv
<1>8. ASSUME NEW d \in Places, Skips(d) \/ ResumeFails(d) PROVE IInv'
  <2>1. /\ rst.pc = "resuming" /\ reading' = reading
        /\ \/ rst' = [rst EXCEPT !.left = @ \ {d}]
           \/ rst' = [rst EXCEPT !.left = @ \ {d}, !.degraded = TRUE]
    BY <1>8 DEF Skips, ResumeFails
  <2>2. rst'.pc = "resuming" /\ rst'.map = rst.map /\ rst'.left \subseteq rst.left
    BY <1>0, <2>1 DEF Restore
  <2>3. reading' = NoReading
    BY <2>1 DEF IInv, Delivers
  <2>4. QED  BY <1>2, <1>3, <2>1, <2>2, <2>3 DEF IInv
<1>9. CASE PublishFails \/ EndsPartial \/ RestoreKilled
  BY <1>2, <1>4, <1>9 DEF PublishFails, EndsPartial, RestoreKilled, IInv
<1>10. QED  BY <1>2, <1>5, <1>6, <1>7, <1>8, <1>9 DEF Quiet

\* Building gives panes that were unborn to sessions that had none.
LEMMA BuildsNext ==
    ASSUME TypeOK, IInv, NEW delivered \in SUBSET Places, Builds(delivered)
    PROVE  IInv'
<1> USE DEF panes, store, history
<1>0. /\ rst.pc = "building" /\ reading = NoReading
      /\ UNCHANGED <<clock, runs, restorable, due, newest, debt, reading, promised, settled, back,
                     touched, hollow, mishap>>
  BY DEF Builds, IInv, Delivers
<1>1. \A p \in Panes : at'[p] = at[p] \/ (at[p] = "unborn" /\ at'[p] \in Places)
  BY Built
<1>2. Bare'
  BY <1>0, <1>1, Constants DEF IInv, Bare
<1>3. Delivers' /\ Promises'
  <2>1. CASE rst' = NoRestore
    <3>1. rst'.pc = "idle" /\ rst'.left = {} /\ \A d \in Places : rst'.map[d] = Nothing
      BY <2>1 DEF NoRestore
    <3>2. QED  BY <1>0, <2>1, <3>1 DEF IInv, Delivers, Promises, Delivered
  <2>2. CASE /\ rst'.pc = "recording"
             /\ rst'.left = {d \in delivered : Owes(d)}
             /\ \A d \in delivered : rst'.map[d] \in Panes /\ at'[rst'.map[d]] = d
             /\ \A d \in Places \ delivered : rst'.map[d] = Nothing
    <3>1. Delivered' = delivered
      BY <2>2, Constants DEF Delivered
    <3>2. \A d \in Places : rst'.map[d] # Nothing => Follows(d, at'[rst'.map[d]], touched')
      BY <2>2, Constants DEF Follows
    <3>3. QED  BY <1>0, <2>2, <3>1, <3>2 DEF IInv, Delivers, Promises
  <2>3. QED  BY <2>1, <2>2, Built
<1>4. ReadsTrue'
  BY <1>0 DEF ReadsTrue
<1>5. Stands'
  BY <1>0, <1>1, Constants DEF IInv, Stands
<1>6. InPlace' /\ Rows' /\ KeptUntilBack'
  BY <1>0 DEF IInv, InPlace, Rows, KeptUntilBack, Holds, Expired
<1>7. Known'
  <2>1. ASSUME newest.ours, NEW b \in newest.bound, b.pane # Nothing
        PROVE  Follows(b.place, at'[b.pane], touched)
    <3>1. b.pane \in Panes /\ b.place \in Places
      BY <2>1 DEF TypeOK, Newest, Binding
    <3>2. Follows(b.place, at[b.pane], touched)
      BY <2>1 DEF IInv, Known
    <3>3. at[b.pane] # "unborn"
      BY <3>1, <3>2, Constants DEF Follows
    <3>4. QED  BY <1>1, <3>1, <3>2, <3>3
  <2>2. QED  BY <1>0, <2>1 DEF Known
<1>8. QED  BY <1>2, <1>3, <1>4, <1>5, <1>6, <1>7 DEF IInv

\* What a capture or a publication reads is where the panes are and what they run.
LEMMA ReadsNext ==
    ASSUME TypeOK, IInv, NEW ran \in BOOLEAN, NEW unknown \in Unknowns,
           CaptureReads(ran, unknown) \/ PublishReads(ran, unknown)
    PROVE  IInv'
<1> USE DEF panes, store, history
<1>0. /\ UNCHANGED <<clock, at, runs, restorable, due, newest, debt, promised, settled, back,
                     touched, hollow, mishap>>
      /\ Detects(ran, unknown) /\ rst \in Restore
  BY DEF CaptureReads, PublishReads, TypeOK
<1>1. /\ reading' # NoReading /\ reading'.at = at
      /\ \A p \in Panes : reading'.found[p] # Nothing => reading'.found[p] = runs[p]
  BY <1>0, DetectsType
<1>2. Bare' /\ Stands' /\ InPlace' /\ Rows' /\ KeptUntilBack'
  BY <1>0 DEF IInv, Bare, Stands, InPlace, Rows, KeptUntilBack, Holds, Expired
<1>3. ReadsTrue'
  <2>1. ASSUME NEW p \in Panes
        PROVE  /\ Follows(reading'.at[p], at'[p], touched')
               /\ reading'.found[p] # Nothing =>
                     /\ reading'.at[p] \in Places
                     /\ reading'.at[p] \notin touched' => reading'.found[p] = Bound[reading'.at[p]]
    BY <1>0, <1>1 DEF IInv, Bare, Follows
  <2>2. ASSUME NEW d \in Places \ touched', promised'[d] # Nothing
        PROVE  \E p \in Panes : reading'.at[p] = d
    BY <1>0, <1>1, <2>2 DEF IInv, Stands
  <2>3. QED  BY <2>1, <2>2 DEF ReadsTrue
<1>4. Known'
  BY <1>0, <1>1 DEF IInv, Known
<1>5. CASE CaptureReads(ran, unknown)
  <2>1. rst' = rst /\ rst.pc = "idle"
    BY <1>5 DEF CaptureReads
  <2>2. Delivers' /\ Promises'
    BY <1>0, <2>1 DEF IInv, Delivers, Promises, Delivered
  <2>3. QED  BY <1>2, <1>3, <1>4, <2>2 DEF IInv
<1>6. CASE PublishReads(ran, unknown)
  <2>1. /\ rst.pc = "resuming" /\ Delivered = Places
        /\ rst' = [rst EXCEPT !.pc = "publishing"]
    BY <1>6 DEF PublishReads, Whole
  <2>2. rst'.pc = "publishing" /\ rst'.map = rst.map /\ rst'.left = rst.left
    BY <1>0, <2>1 DEF Restore
  <2>3. Delivered' = Delivered
    BY <2>2 DEF Delivered
  <2>4. Delivers' /\ Promises'
    BY <1>0, <1>1, <2>1, <2>2, <2>3 DEF IInv, Delivers, Promises
  <2>5. QED  BY <1>2, <1>3, <1>4, <2>4 DEF IInv
<1>7. QED  BY <1>5, <1>6

\* The debt is written down before anything is delivered.
LEMMA RecordsNext ==
    ASSUME TypeOK, IInv, Records
    PROVE  IInv'
<1> USE DEF panes, store, history
<1>0. /\ rst \in Restore /\ clock \in Clock
      /\ debt \in [Places -> Clock \union {Nothing}]
      /\ promised \in [Places -> Clock \union {Nothing}]
  BY DEF TypeOK
<1>1. /\ rst.pc = "recording" /\ rst' = [rst EXCEPT !.pc = "resuming"]
      /\ settled' = settled \ rst.left
      /\ hollow' = (hollow \ rst.left) \union {d \in rst.left : ~Holds(newest, Bound[d])}
      /\ UNCHANGED <<clock, at, runs, newest, reading, back, touched, mishap>>
      /\ \A d \in Places : /\ debt'[d] = IF d \in rst.left THEN clock ELSE Prune(debt)[d]
                           /\ promised'[d] = IF d \in rst.left THEN clock ELSE promised[d]
  BY DEF Records
<1>2. rst'.pc = "resuming" /\ rst'.map = rst.map /\ rst'.left = rst.left
  BY <1>0, <1>1 DEF Restore
<1>3. reading = NoReading /\ rst.left = {d \in Delivered : Owes(d)} /\ Delivered' = Delivered
  BY <1>1, <1>2 DEF IInv, Delivers, Delivered
<1>4. Bare' /\ ReadsTrue' /\ InPlace' /\ Known'
  BY <1>1, <1>3 DEF IInv, Bare, ReadsTrue, InPlace, Known
<1>5. Delivers'
  BY <1>1, <1>2, <1>3 DEF IInv, Delivers
<1>6. Stands'
  <2>1. ASSUME NEW d \in Places \ touched, d \in rst.left PROVE \E p \in Panes : at[p] = d
    <3>1. rst.map[d] \in Panes /\ Follows(d, at[rst.map[d]], touched)
      BY <1>0, <1>3, <2>1 DEF IInv, Delivers, Delivered, Restore
    <3>2. QED  BY <3>1 DEF Follows
  <2>2. QED  BY <1>1, <2>1 DEF IInv, Stands
<1>7. \A d \in Places : Prune(debt)[d] = IF Expired(debt[d]) THEN Nothing ELSE debt[d]
  BY DEF Prune
<1>8. \A d \in Places : Expired(promised'[d]) <=> Expired(promised[d])'
  BY <1>1 DEF Expired
<1>9. Rows'
  <2>1. ASSUME NEW d \in Places, promised'[d] # Nothing, ~Expired(promised'[d]), Bound[d] \notin back
        PROVE  debt'[d] = promised'[d]
    <3>1. CASE d \in rst.left
      BY <1>1, <3>1
    <3>2. CASE d \notin rst.left
      BY <1>1, <1>7, <2>1, <3>2 DEF IInv, Rows
    <3>3. QED  BY <3>1, <3>2
  <2>2. ASSUME ~mishap, NEW d \in Places, debt'[d] # Nothing
        PROVE  debt'[d] = promised'[d] /\ d \notin settled'
    BY <1>1, <1>7, <2>2 DEF IInv, Rows
  <2>3. QED  BY <1>1, <1>8, <2>1, <2>2 DEF Rows
<1>10. Promises'
  <2>1. ASSUME NEW d \in Places, promised'[d] # Nothing PROVE Owes(d)
    BY <1>1, <1>3, <2>1 DEF IInv, Promises
  <2>2. ASSUME NEW d \in Delivered, Owes(d) PROVE promised'[d] # Nothing
    <3>1. d \in Places /\ clock # Nothing /\ d \in rst.left
      BY <1>0, <1>3, <2>2, Constants DEF Delivered
    <3>2. QED  BY <1>1, <3>1
  <2>3. QED  BY <1>3, <2>1, <2>2 DEF Promises
<1>11. KeptUntilBack'
  <2>1. ASSUME NEW d \in Places \ (touched \union hollow'),
               promised'[d] # Nothing, ~Expired(promised'[d]), Bound[d] \notin back
        PROVE  Holds(newest, Bound[d])
    <3>1. CASE d \in rst.left
      BY <1>1, <2>1, <3>1
    <3>2. CASE d \notin rst.left
      BY <1>1, <2>1, <3>2 DEF IInv, KeptUntilBack
    <3>3. QED  BY <3>1, <3>2
  <2>2. QED  BY <1>1, <1>8, <2>1 DEF KeptUntilBack, Holds
<1>12. QED  BY <1>4, <1>5, <1>6, <1>9, <1>10, <1>11 DEF IInv

\* A pane resumed in runs what is bound at its place, or was in a person's hands.
LEMMA ResumesNext ==
    ASSUME TypeOK, IInv, NEW d \in Places, Resumes(d)
    PROVE  IInv'
<1> USE DEF panes, store, history
<1>0. /\ rst \in Restore
      /\ debt \in [Places -> Clock \union {Nothing}]
      /\ runs \in [Panes -> Conversations \union {Nothing}]
  BY DEF TypeOK
<1>1. /\ rst.pc = "resuming" /\ d \in rst.left /\ at[rst.map[d]] \in Places
      /\ runs' = [runs EXCEPT ![rst.map[d]] = Bound[d]]
      /\ rst' = [rst EXCEPT !.left = @ \ {d}, !.confirmed = @ \union {d}]
      /\ back' = back \union {Bound[d]} /\ settled' = settled \union {d}
      /\ UNCHANGED <<clock, at, newest, reading, promised, touched, hollow>>
  BY DEF Resumes
<1>2. rst'.pc = "resuming" /\ rst'.map = rst.map /\ rst'.left \subseteq rst.left
  BY <1>0, <1>1 DEF Restore
<1>3. /\ reading = NoReading /\ Delivered' = Delivered /\ rst.map[d] \in Panes
      /\ Follows(d, at[rst.map[d]], touched)
  BY <1>0, <1>1, <1>2 DEF IInv, Delivers, Delivered, Restore
<1>4. Bare'
  <2>1. ASSUME NEW p \in Panes, runs'[p] # Nothing
        PROVE  at[p] \in Places /\ (at[p] \notin touched => runs'[p] = Bound[at[p]])
    <3>1. CASE p = rst.map[d]
      BY <1>0, <1>1, <1>3, <3>1 DEF Follows
    <3>2. CASE p # rst.map[d]
      BY <1>0, <1>1, <2>1, <3>2 DEF IInv, Bare
    <3>3. QED  BY <3>1, <3>2
  <2>2. QED  BY <1>1, <2>1 DEF Bare
<1>5. ReadsTrue' /\ Stands' /\ InPlace' /\ Known' /\ KeptUntilBack'
  BY <1>1, <1>3 DEF IInv, ReadsTrue, Stands, InPlace, Known, KeptUntilBack, Holds, Expired
<1>6. Delivers'
  BY <1>1, <1>2, <1>3 DEF IInv, Delivers
<1>7. (mishap' = mishap /\ debt' = [debt EXCEPT ![d] = Nothing]) \/ (mishap' = TRUE /\ debt' = debt)
  BY Zenon DEF Resumes
<1>8. CASE mishap' = mishap /\ debt' = [debt EXCEPT ![d] = Nothing]
  <2>1. debt'[d] = Nothing /\ \A e \in Places \ {d} : debt'[e] = debt[e]
    BY <1>0, <1>8
  <2>2. \A e \in Places : Bound[e] \notin back' => e # d /\ Bound[e] \notin back
    BY <1>1
  <2>3. Rows'
    BY <1>1, <1>8, <2>1, <2>2 DEF IInv, Rows, Expired
  <2>4. Promises'
    BY <1>1, <1>2, <1>3, <1>8 DEF IInv, Promises
  <2>5. QED  BY <1>4, <1>5, <1>6, <2>3, <2>4 DEF IInv
<1>9. CASE mishap' = TRUE /\ debt' = debt
  <2>1. Rows' /\ Promises'
    BY <1>1, <1>2, <1>3, <1>9 DEF IInv, Rows, Promises, Expired
  <2>2. QED  BY <1>4, <1>5, <1>6, <2>1 DEF IInv
<1>10. QED  BY <1>7, <1>8, <1>9

\* The rows a write leaves: what it has seen is paid, what has expired may go.
LEMMA RowsLeft ==
    ASSUME TypeOK, NEW d \in Places
    PROVE  /\ RowsAfter(reading)[d] \in {debt[d], Nothing}
           /\ RowsAfter(reading)[d] # Nothing => Bound[d] \notin Live(reading)
           /\ ~Expired(debt[d]) /\ Bound[d] \notin Live(reading) =>
                 /\ RowsAfter(reading)[d] = debt[d]
                 /\ debt[d] # Nothing => <<d, Bound[d]>> \in Pending(Discharge(debt, Live(reading)))
<1> DEFINE rows == Discharge(debt, Live(reading))
<1>1. rows[d] = IF Bound[d] \in Live(reading) THEN Nothing ELSE debt[d]
  BY DEF Discharge
<1>2. Prune(rows)[d] = IF Expired(rows[d]) THEN Nothing ELSE rows[d]
  BY DEF Prune
<1>3. RowsAfter(reading)[d] \in {rows[d], Prune(rows)[d]}
  BY DEF RowsAfter
<1>4. Prune(rows)[d] # Nothing => <<d, Bound[d]>> \in Pending(rows)
  BY DEF Pending
<1>5. ~Expired(Nothing)
  BY DEF Expired
<1> HIDE DEF rows
<1>6. QED  BY <1>1, <1>2, <1>3, <1>4, <1>5 DEF rows

\* What is carried into a pane was bound in it, or where it is.
LEMMA CarriedFrom ==
    ASSUME NEW p \in Panes, NEW v \in Previous(reading, p)
    PROVE  \E b \in newest.bound :
              b.conv = v /\ (b.place = reading.at[p] \/ (newest.ours /\ b.pane = p))
BY DEF Previous

\* A binding nobody has touched and that has not been back is carried nowhere but
\* to its place.
LEMMA CarriedInPlace ==
    ASSUME TypeOK, IInv, reading # NoReading, NEW d \in Places \ touched, Bound[d] \notin back,
           NEW p \in Panes, NEW v \in Previous(reading, p)
    PROVE  v = Bound[d] <=> reading.at[p] = d
<1>1. PICK b \in newest.bound :
         b.conv = v /\ (b.place = reading.at[p] \/ (newest.ours /\ b.pane = p))
  BY CarriedFrom
<1>2. b.conv = Bound[d] <=> b.place = d
  BY DEF IInv, InPlace
<1>3. CASE b.place = reading.at[p]
  BY <1>1, <1>2, <1>3
<1>4. CASE newest.ours /\ b.pane = p
  <2>1. Follows(b.place, reading.at[p], touched)
    BY <1>4, Constants DEF IInv, Known
  <2>2. b.place = d <=> reading.at[p] = d
    BY <2>1 DEF Follows
  <2>3. QED  BY <1>1, <1>2, <2>2
<1>5. QED  BY <1>1, <1>3, <1>4

\* A binding in place is the previous one of the pane that is there.
LEMMA PreviousInPlace ==
    ASSUME TypeOK, IInv, reading # NoReading, NEW d \in Places \ touched, Bound[d] \notin back,
           NEW p \in Panes, reading.at[p] = d, Holds(newest, Bound[d])
    PROVE  Bound[d] \in Previous(reading, p)
<1> DEFINE byPane == {b \in newest.bound : newest.ours /\ b.pane = p}
           byPlace == {b \in newest.bound : b.place = reading.at[p]}
<1>1. Previous(reading, p) = {b.conv : b \in IF byPane # {} THEN byPane ELSE byPlace}
  BY DEF Previous
<1>2. \E b \in byPlace : b.conv = Bound[d]
  <2>1. PICK b \in newest.bound : b.conv = Bound[d]
    BY DEF Holds
  <2>2. b.place = d
    BY <2>1 DEF IInv, InPlace
  <2>3. QED  BY <2>1, <2>2
<1>3. ASSUME NEW b \in byPane PROVE b.conv = Bound[d]
  <2>1. Follows(b.place, d, touched)
    BY Constants DEF IInv, Known
  <2>2. b.place = d
    BY <2>1 DEF Follows
  <2>3. QED  BY <2>2 DEF IInv, InPlace
<1>4. QED  BY <1>1, <1>2, <1>3

LEMMA Writes ==
    ASSUME TypeOK, IInv, reading # NoReading, NEW owed \in SUBSET Places, WriteTopology(owed),
           UNCHANGED <<clock, at, runs, promised, touched, hollow, mishap>>
    PROVE  /\ Bare' /\ ReadsTrue' /\ Stands' /\ InPlace' /\ Known' /\ Rows' /\ KeptUntilBack'
           /\ \A d \in Places : promised'[d] # Nothing => Owes(d)
<1>0. /\ newest' = Written(reading, owed) /\ newest'.ours = TRUE
      /\ debt' = RowsAfter(reading) /\ reading' = NoReading
      /\ back' = back \union Live(reading)
      /\ settled' = settled \union {d \in Places : Bound[d] \in Live(reading)}
  BY DEF WriteTopology, Written
<1>1. ASSUME NEW p \in Panes, reading.found[p] # Nothing PROVE reading.found[p] \in Live(reading)
  BY <1>1 DEF Live
<1>2. Bare' /\ ReadsTrue' /\ Stands'
  BY <1>0 DEF IInv, Bare, ReadsTrue, Stands
<1>3. \A d \in Places : promised'[d] # Nothing => Owes(d)
  BY DEF IInv, Promises
<1>4. InPlace'
  <2>1. ASSUME NEW d \in Places \ touched, Bound[d] \notin back', NEW b \in newest'.bound
        PROVE  b.conv = Bound[d] <=> b.place = d
    <3>0. Bound[d] \notin back /\ Bound[d] \notin Live(reading)
      BY <1>0, <2>1
    <3>1. ASSUME NEW p \in Panes, reading.at[p] \in Places, reading.found[p] # Nothing,
                 b = [pane |-> p, place |-> reading.at[p], conv |-> reading.found[p]]
          PROVE  b.conv = Bound[d] <=> b.place = d
      <4>1. reading.found[p] # Bound[d]
        BY <1>1, <3>0, <3>1
      <4>2. reading.at[p] # d
        BY <1>1, <3>1, <4>1 DEF IInv, ReadsTrue
      <4>3. QED  BY <3>1, <4>1, <4>2
    <3>2. ASSUME NEW p \in Panes, NEW v \in Conversations,
                 Carries(reading, Discharge(debt, Live(reading)), p, v),
                 b = [pane |-> p, place |-> reading.at[p], conv |-> v]
          PROVE  b.conv = Bound[d] <=> b.place = d
      <4>1. v \in Previous(reading, p)
        BY <3>2 DEF Carries
      <4>2. QED  BY <3>0, <3>2, <4>1, CarriedInPlace
    <3>3. ASSUME NEW e \in owed, Owes(e), b = [pane |-> Nothing, place |-> e, conv |-> Bound[e]]
          PROVE  b.conv = Bound[d] <=> b.place = d
      BY <3>3, Constants
    <3>4. QED  BY <1>0, <3>1, <3>2, <3>3, WrittenBindings
  <2>2. QED  BY <2>1 DEF InPlace
<1>5. Known'
  <2>1. ASSUME NEW b \in newest'.bound, b.pane # Nothing
        PROVE  Follows(b.place, at[b.pane], touched)
    <3>1. PICK p \in Panes : b.pane = p /\ b.place = reading.at[p]
      BY <1>0, <2>1, WrittenBindings
    <3>2. QED  BY <3>1 DEF IInv, ReadsTrue
  <2>2. QED  BY <1>0, <2>1 DEF Known
<1>6. Rows'
  <2>1. ASSUME NEW d \in Places, promised[d] # Nothing, ~Expired(promised[d]), Bound[d] \notin back'
        PROVE  debt'[d] = promised[d]
    <3>1. Bound[d] \notin back /\ Bound[d] \notin Live(reading)
      BY <1>0, <2>1
    <3>2. debt[d] = promised[d]
      BY <2>1, <3>1 DEF IInv, Rows
    <3>3. QED  BY <1>0, <2>1, <3>1, <3>2, RowsLeft
  <2>2. ASSUME ~mishap, NEW d \in Places, debt'[d] # Nothing
        PROVE  debt'[d] = promised[d] /\ d \notin settled'
    <3>1. debt'[d] = debt[d] /\ Bound[d] \notin Live(reading)
      BY <1>0, <2>2, RowsLeft
    <3>2. QED  BY <1>0, <2>2, <3>1 DEF IInv, Rows
  <2>3. QED  BY <2>1, <2>2 DEF Rows, Expired
<1>7. KeptUntilBack'
  <2>1. ASSUME NEW d \in Places \ (touched \union hollow),
               promised[d] # Nothing, ~Expired(promised[d]), Bound[d] \notin back'
        PROVE  Holds(newest', Bound[d])
    <3>1. Bound[d] \notin back /\ Bound[d] \notin Live(reading)
      BY <1>0, <2>1
    <3>2. Holds(newest, Bound[d]) /\ debt[d] = promised[d] /\ Bound[d] \in Conversations
      BY <2>1, <3>1, Constants DEF IInv, KeptUntilBack, Rows, Promises
    <3>3. PICK p \in Panes : reading.at[p] = d
      BY <2>1 DEF IInv, ReadsTrue
    <3>4. reading.found[p] = Nothing
      <4>1. CASE reading.found[p] # Nothing
        <5>1. reading.found[p] = Bound[d]
          BY <3>3, <4>1 DEF IInv, ReadsTrue
        <5>2. QED  BY <1>1, <3>1, <4>1, <5>1
      <4>2. QED  BY <4>1
    <3>5. Bound[d] \in Previous(reading, p)
      BY <3>1, <3>2, <3>3, PreviousInPlace
    <3>6. <<d, Bound[d]>> \in Pending(Discharge(debt, Live(reading)))
      BY <2>1, <3>1, <3>2, RowsLeft
    <3>7. Carries(reading, Discharge(debt, Live(reading)), p, Bound[d])
      BY <3>1, <3>3, <3>5, <3>6 DEF Carries
    <3>8. [pane |-> p, place |-> reading.at[p], conv |-> Bound[d]] \in newest'.bound
      BY <1>0, <3>2, <3>3, <3>4, <3>7, WrittenBindings
    <3>9. QED  BY <3>8 DEF Holds
  <2>2. QED  BY <2>1 DEF KeptUntilBack, Holds, Expired
<1>8. QED  BY <1>2, <1>3, <1>4, <1>5, <1>6, <1>7

LEMMA WritesNext ==
    ASSUME TypeOK, IInv, CaptureCommits \/ Publishes
    PROVE  IInv'
<1> USE DEF panes, store, history
<1>0. due \in SUBSET Places /\ due \ Delivered \in SUBSET Places
  BY DEF TypeOK
<1>1. CASE CaptureCommits
  <2>1. /\ rst.pc = "idle" /\ rst' = rst /\ reading # NoReading /\ WriteTopology(due)
        /\ UNCHANGED <<clock, at, runs, promised, touched, hollow, mishap>>
    BY <1>1 DEF CaptureCommits
  <2>2. /\ Bare' /\ ReadsTrue' /\ Stands' /\ InPlace' /\ Known' /\ Rows' /\ KeptUntilBack'
        /\ \A d \in Places : promised'[d] # Nothing => Owes(d)
    BY <1>0, <2>1, Writes
  <2>3. Delivers' /\ Promises'
    BY <2>1, <2>2 DEF IInv, Delivers, Promises, Delivered
  <2>4. QED  BY <2>2, <2>3 DEF IInv
<1>2. CASE Publishes
  <2>1. /\ rst.pc = "publishing" /\ rst' = NoRestore /\ WriteTopology(due \ Delivered)
        /\ UNCHANGED <<clock, at, runs, promised, touched, hollow, mishap>>
    BY <1>2 DEF Publishes
  <2>2. reading # NoReading
    BY <2>1 DEF IInv, Delivers
  <2>3. /\ Bare' /\ ReadsTrue' /\ Stands' /\ InPlace' /\ Known' /\ Rows' /\ KeptUntilBack'
        /\ \A d \in Places : promised'[d] # Nothing => Owes(d)
    BY <1>0, <2>1, <2>2, Writes
  <2>4. rst'.pc = "idle" /\ rst'.left = {} /\ \A d \in Places : rst'.map[d] = Nothing
    BY <2>1 DEF NoRestore
  <2>5. Delivers' /\ Promises'
    BY <2>1, <2>3, <2>4 DEF Delivers, Promises
  <2>6. QED  BY <2>3, <2>5 DEF IInv
<1>3. QED  BY <1>1, <1>2

LEMMA IInvNext ==
    ASSUME TypeOK, IInv, [Next]_vars
    PROVE  IInv'
<1>1. CASE World \/ Quiet
  BY <1>1, WorldNext, QuietNext
<1>2. ASSUME NEW ran \in BOOLEAN, NEW unknown \in Unknowns,
             CaptureReads(ran, unknown) \/ PublishReads(ran, unknown)
      PROVE  IInv'
  BY <1>2, ReadsNext
<1>3. ASSUME NEW delivered \in SUBSET Places, Builds(delivered) PROVE IInv'
  BY <1>3, BuildsNext
<1>4. CASE Records
  BY <1>4, RecordsNext
<1>5. ASSUME NEW d \in Places, Resumes(d) PROVE IInv'
  BY <1>5, ResumesNext
<1>6. CASE CaptureCommits \/ Publishes
  BY <1>6, WritesNext
<1>7. CASE UNCHANGED vars
  BY <1>7
  DEF vars, IInv, Bare, Delivers, Delivered, ReadsTrue, Stands, InPlace, Known, Rows, Promises,
      KeptUntilBack, Holds, Expired
<1>8. QED  BY <1>1, <1>2, <1>3, <1>4, <1>5, <1>6, <1>7 DEF Next, World, Quiet

LEMMA Invariant == Spec => [](TypeOK /\ IInv)
<1>1. Init => TypeOK /\ IInv
  BY InitType, First
<1>2. TypeOK /\ IInv /\ [Next]_vars => (TypeOK /\ IInv)'
  <2>1. IInv => Delivers
    BY DEF IInv
  <2>2. QED  BY <2>1, TypeNext, IInvNext
<1>3. QED  BY <1>1, <1>2, PTL DEF Spec

-----------------------------------------------------------------------------
(* What a snapshot binds, for how long, and when the source may go.        *)

\* Every variable keeps its type: what is bound is a conversation at a place, and
\* a row says when it was written.
THEOREM AgentDebtTypes == Spec => []TypeOK
BY Invariant, PTL

\* A conversation a restore undertook to put back stays in the newest snapshot
\* until it is back, the window has passed or a person has had a hand in it
\* (debt.rs; capture.rs carry_owed_bindings).
THEOREM KeptUntilBackHolds == Spec => []KeptUntilBack
<1>1. IInv => KeptUntilBack
  BY DEF IInv
<1>2. QED  BY <1>1, Invariant, PTL

\* The steps that write a snapshot.
LEMMA NewestMoves ==
    ASSUME TypeOK, IInv, [Next]_vars, newest' # newest
    PROVE  /\ (CaptureCommits \/ Publishes) /\ reading # NoReading
           /\ \E owed \in SUBSET Places : WriteTopology(owed)
<1>1. CaptureCommits \/ Publishes
  BY DEF Next, vars, panes, store, history, Tick, ByHand, OpensPane, ClosesPane, MovesPane, Starts,
     Ends, CaptureReads, CaptureFails, RestoreBegins, Builds, Records, RecordFails, Skips,
     ResumeFails, Resumes, PublishReads, PublishFails, EndsPartial, RestoreKilled
<1>2. reading # NoReading
  BY <1>1 DEF CaptureCommits, Publishes, IInv, Delivers
<1>3. due \in SUBSET Places /\ due \ Delivered \in SUBSET Places
  BY DEF TypeOK
<1>4. QED  BY <1>1, <1>2, <1>3 DEF CaptureCommits, Publishes

\* A capture that could read the agents carries a binding it did not see only
\* into the place a restore undertook it for, within the window, and not once it
\* has been back: nothing the user closed is resurrected (debt.rs).
THEOREM CarriedWherePromisedHolds == Spec => CarriedWherePromised
<1>1. ASSUME TypeOK, IInv, [Next]_vars, newest' # newest, reading.ran, ~mishap,
             NEW b \in newest'.bound
      PROVE  \/ b.pane = Nothing
             \/ b.pane \in reading.unknown
             \/ reading.found[b.pane] = b.conv
             \/ /\ b.conv = Bound[b.place]
                /\ b.place \notin settled'
                /\ promised[b.place] # Nothing
                /\ ~Expired(promised[b.place])
  <2>1. reading # NoReading
    BY <1>1, NewestMoves
  <2>2. PICK owed \in SUBSET Places : WriteTopology(owed)
    BY <1>1, NewestMoves
  <2>3. /\ b \in Written(reading, owed).bound
        /\ settled' = settled \union {d \in Places : Bound[d] \in Live(reading)}
    BY <2>2 DEF WriteTopology
  <2>4. ASSUME NEW p \in Panes, NEW v \in Conversations,
               Carries(reading, Discharge(debt, Live(reading)), p, v), p \notin reading.unknown,
               b = [pane |-> p, place |-> reading.at[p], conv |-> v]
        PROVE  /\ b.conv = Bound[b.place] /\ b.place \notin settled'
               /\ promised[b.place] # Nothing /\ ~Expired(promised[b.place])
    <3>1. <<reading.at[p], v>> \in Pending(Discharge(debt, Live(reading)))
      BY <1>1, <2>4 DEF Carries
    <3>2. PICK d \in Places : /\ <<reading.at[p], v>> = <<d, Bound[d]>>
                               /\ Prune(Discharge(debt, Live(reading)))[d] # Nothing
      BY <3>1 DEF Pending
    <3>3. reading.at[p] = d /\ v = Bound[d]
      BY <3>2
    <3>4. Bound[d] \notin Live(reading) /\ debt[d] # Nothing /\ ~Expired(debt[d])
      BY <3>2 DEF Prune, Discharge
    <3>5. debt[d] = promised[d] /\ d \notin settled
      BY <1>1, <3>4 DEF IInv, Rows
    <3>6. QED  BY <2>3, <2>4, <3>3, <3>4, <3>5
  <2>5. QED  BY <2>1, <2>3, <2>4, WrittenBindings, <1>1
<1>2. TypeOK /\ IInv /\ [Next]_vars =>
        [ newest' # newest /\ reading.ran /\ ~mishap =>
            \A b \in newest'.bound :
                \/ b.pane = Nothing
                \/ b.pane \in reading.unknown
                \/ reading.found[b.pane] = b.conv
                \/ /\ b.conv = Bound[b.place]
                   /\ b.place \notin settled'
                   /\ promised[b.place] # Nothing
                   /\ ~Expired(promised[b.place]) ]_vars
  BY <1>1
<1>3. QED  BY <1>2, Invariant, PTL DEF Spec, CarriedWherePromised

\* The source is retired only by a publication, and only into a snapshot that
\* binds what this attempt confirmed and all that has not been back (restore.rs,
\* publication).
THEOREM RetiredIntoBindingsHolds == Spec => RetiredIntoBindings
<1>1. ASSUME TypeOK, IInv, [Next]_vars, restorable, ~restorable', ~mishap,
             NEW d \in Places \ (touched \union hollow), Owes(d), ~Expired(promised[d]),
             ~(d \notin rst.confirmed /\ Bound[d] \in back)
      PROVE  Holds(newest', Bound[d])
  <2>1. Publishes
    <3>1. \/ Publishes \/ restorable' = restorable
      BY <1>1 DEF Next, vars, panes, store, history, Tick, ByHand, OpensPane, ClosesPane, MovesPane,
         Starts, Ends, CaptureReads, CaptureCommits, CaptureFails, RestoreBegins, Builds, Records,
         RecordFails, Skips, ResumeFails, Resumes, PublishReads, PublishFails, EndsPartial,
         RestoreKilled
    <3>2. QED  BY <1>1, <3>1
  <2>2. /\ rst.pc = "publishing" /\ WriteTopology(due \ Delivered)
        /\ UNCHANGED <<clock, promised, touched, hollow>>
        /\ restorable' = (Unobserved(newest') # {})
    BY <2>1 DEF Publishes
  <2>3. Unobserved(newest') = {}
    BY <1>1, <2>2
  <2>4. CASE d \in rst.confirmed
    BY <2>3, <2>4 DEF Unobserved, Holds
  <2>5. CASE Bound[d] \notin back
    <3>1. Delivered = Places /\ reading # NoReading
      BY <1>1, <2>2 DEF IInv, Delivers
    <3>2. promised[d] # Nothing
      BY <1>1, <2>2, <3>1 DEF IInv, Promises
    <3>3. CASE Bound[d] \in Live(reading)
      <4>1. PICK p \in Panes : reading.found[p] = Bound[d] /\ reading.found[p] # Nothing
        BY <3>3 DEF Live
      <4>2. reading.at[p] \in Places
        BY <1>1, <3>1, <4>1 DEF IInv, ReadsTrue
      <4>3. due \ Delivered \in SUBSET Places /\ newest' = Written(reading, due \ Delivered)
        BY <1>1, <2>2 DEF TypeOK, WriteTopology
      <4>4. [pane |-> p, place |-> reading.at[p], conv |-> reading.found[p]] \in newest'.bound
        BY <1>1, <3>1, <4>1, <4>2, <4>3, WrittenBindings
      <4>5. QED  BY <4>1, <4>4 DEF Holds
    <3>4. CASE Bound[d] \notin Live(reading)
      <4>1. Bound[d] \notin back'
        BY <2>2, <2>5, <3>4 DEF WriteTopology
      <4>2. KeptUntilBack'
        BY <1>1, <2>1, WritesNext DEF IInv
      <4>3. promised' = promised /\ touched' = touched /\ hollow' = hollow /\ clock' = clock
        BY <2>2
      <4>4. QED  BY <1>1, <3>2, <4>1, <4>2, <4>3 DEF KeptUntilBack, Holds, Expired
    <3>5. QED  BY <3>3, <3>4
  <2>6. QED  BY <1>1, <2>4, <2>5
<1>2. TypeOK /\ IInv /\ [Next]_vars =>
        [ restorable /\ ~restorable' /\ ~mishap =>
            \A d \in Places \ (touched \union hollow) :
                \/ ~Owes(d)
                \/ Expired(promised[d])
                \/ d \notin rst.confirmed /\ Bound[d] \in back
                \/ Holds(newest', Bound[d]) ]_vars
  BY <1>1
<1>3. QED  BY <1>2, Invariant, PTL DEF Spec, RetiredIntoBindings
=============================================================================
