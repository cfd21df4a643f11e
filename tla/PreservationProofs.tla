------------------------- MODULE PreservationProofs -------------------------
(***************************************************************************)
(* For any processes, databases, backup names, failures and kills: moving  *)
(* a newer database aside loses nothing, lets no database inherit another  *)
(* journal, preserves no empty one, and takes place in one step as Shelf   *)
(* has it.  (That an interrupted move is brought to an end rests on        *)
(* fairness and is left to TLC.)                                           *)
(***************************************************************************)
EXTENDS Preservation, FiniteSetTheorems, WellFoundedInduction, TLAPS

-----------------------------------------------------------------------------
(* The inductive invariant, in named parts.                                *)

Live == hot \union ({connected[p] : p \in Openers} \ {0})

\* While a manifest stands, the base name and the backup it names hold one
\* database between them.
Pair(b, c) == b = c \/ (manifest # 0 /\ {b, c} \subseteq {0, manifest})

\* A journal is with its database.
Beside ==
    \A b \in Bases, k \in Sidecars :
       files[b][k] # 0 => \E c \in Bases : Pair(b, c) /\ files[c][Db] = files[b][k]

\* Two names that lead to one database are the two of a move, and these lead to one.
Apart ==
    \A b, c \in Bases :
       files[b][Db] # 0 /\ files[c][Db] # 0 => (Pair(b, c) <=> files[c][Db] = files[b][Db])

\* No database is lost, and no journal that still matters.
Everything == \A d \in 1..created : \E b \in Bases : files[b][Db] = d
Journals == \A d \in Live : \E b \in Bases : files[b][Wal] = d

Together ==
    /\ Beside /\ Apart /\ Everything /\ Journals
    /\ manifest # 0 => files[0][Db] # 0 \/ files[manifest][Db] # 0

\* The names ran out: the manifest names a backup of another database, and stays.
Wedged ==
    /\ manifest # 0 /\ created > BackupNames
    /\ files[0][Db] # 0 /\ files[manifest][Db] # 0 /\ files[0][Db] # files[manifest][Db]
    /\ op.pc \in {"idle", "reconciling", "linking", "unwinding", "settling"}
    /\ op.pc = "linking" => Db \in op.moves /\ op.todo = op.moves
    /\ op.pc = "unwinding" => op.todo = {}
    /\ op.pc = "settling" => Db \in op.todo

\* What each step of a move has done and may rely on.
Moving ==
    /\ op.pc \in {"linking", "unwinding"} =>
          /\ files[0][Db] # 0
          /\ files[0][Db] \in Live => files[0][Wal] = files[0][Db]
    /\ op.pc = "linking" => Db \in op.moves /\ \A k \in Linked : files[manifest][k] # 0
    /\ op.pc = "unlinking" => \A k \in op.moves : files[manifest][k] # 0
    /\ op.pc = "unlinking" => Db \in op.moves
    /\ op.pc = "settling" =>
          files[manifest][Db] # 0
    /\ op.pc = "returning" =>
          /\ files[manifest][Db] = 0
          /\ \A k \in Sidecars \ op.todo : files[manifest][k] = 0
    /\ op.pc = "clearing" =>
          IF op.record = 0 THEN \A k \in Parts : files[manifest][k] = 0
                           ELSE op.record = manifest /\ files[manifest][Db] # 0

\* Who is at work, and on which database.
Busy ==
    /\ holder = Nobody <=> op.pc = "idle"
    /\ op.pc \in {"classifying", "closing", "recording"} =>
          connected[holder] # 0 /\ connected[holder] = files[0][Db]
    /\ op.pc \in {"reconciling", "settling", "returning", "clearing", "cleared", "connecting",
                  "intending", "linking", "unlinking", "renaming", "unwinding"} =>
          connected[holder] = 0

\* When a manifest stands, and over what the loops run.
Standing ==
    /\ op.pc \in {"settling", "returning", "clearing", "linking", "unlinking", "renaming",
                  "unwinding"} => manifest # 0
    /\ op.pc \in {"cleared", "connecting", "classifying", "closing", "intending",
                  "recording"} => manifest = 0
    /\ op.pc = "reconciling" /\ op.aside => manifest # 0
    /\ op.pc \in {"linking", "unlinking", "renaming", "unwinding"} => op.todo \subseteq op.moves
    /\ op.pc = "returning" => op.todo \subseteq Sidecars

\* Once a backup is complete, nothing lies under the base name.
Emptied ==
    /\ op.pc = "settling" => \A k \in Parts \ op.todo : files[0][k] = 0
    /\ op.pc \in {"clearing", "cleared", "connecting"} /\ op.record # 0 =>
          \A k \in Parts : files[0][k] = 0
    /\ op.pc = "connecting" /\ op.aside => op.record # 0
    /\ op.pc = "classifying" /\ op.record # 0 => version[files[0][Db]] = 0
    /\ op.pc \in {"reconciling", "settling", "returning", "closing", "intending", "linking",
                  "unlinking", "renaming", "unwinding"} => op.record = 0

\* Databases come into being one by one, empty.
Numbered ==
    /\ \A b \in Bases, k \in Parts : files[b][k] <= created
    /\ \A p \in Openers : connected[p] <= created
    /\ \A d \in Databases : d > created => version[d] = 0 /\ shape[d] = 0
    /\ hot \subseteq 1..created

\* A manifest is written for a database with tables.
Worthy ==
    /\ manifest # 0 /\ files[0][Db] # 0 => version[files[0][Db]] # 0
    /\ op.pc = "closing" => version[files[0][Db]] # 0
    /\ op.pc = "intending" => files[0][Db] # 0 /\ version[files[0][Db]] # 0
    /\ NothingEmptyPreserved

\* What a database about to be stamped has, as long as nothing has failed.
Stamped ==
    faults = 0 =>
        /\ \A d \in Databases : shape[d] = version[d]
        /\ op.pc = "recording" => version[connected[holder]] \in {0, op.build}

Safe == Wedged \/ (Together /\ Moving)

IInv == Busy /\ Standing /\ Emptied /\ Numbered /\ Worthy /\ Stamped /\ Safe

-----------------------------------------------------------------------------
(* Types. *)

LEMMA Bounds ==
    /\ Db \in Parts /\ Wal \in Parts /\ Shm \in Parts /\ Sidecars \subseteq Parts
    /\ 0 \in Bases /\ Backups \subseteq Bases /\ 0 \notin Backups
    /\ \A b \in Bases : b = 0 \/ b \in Backups
    /\ 1 \in Backups
    /\ Db \notin Sidecars /\ Wal \in Sidecars
    /\ \A k \in Parts : k = Db \/ k \in Sidecars
    /\ \A d \in Databases : d # 0
BY PreservationAssumption DEF Db, Wal, Shm, Sidecars, Parts, Bases, Backups, Databases

\* A loop over some of the three files has a next one.
LEMMA NextFile ==
    ASSUME op \in Operation, op.todo # {}
    PROVE  Foremost \in op.todo /\ DatabaseLast \in op.todo
<1>1. Foremost \in op.todo
  <2>1. \E k \in op.todo : \A j \in op.todo : k <= j
    BY DEF Operation, Parts, Db, Sidecars, Wal, Shm
  <2>2. QED  BY <2>1 DEF Foremost
<1>2. CASE op.todo \subseteq {Db}
  BY <1>1, <1>2 DEF DatabaseLast
<1>3. CASE ~(op.todo \subseteq {Db})
  <2>1. \E k \in op.todo \ {Db} : \A j \in op.todo \ {Db} : k <= j
    BY <1>3 DEF Operation, Parts, Db, Sidecars, Wal, Shm
  <2>2. QED  BY <2>1, <1>1, <1>3 DEF DatabaseLast
<1>4. QED  BY <1>1, <1>2, <1>3

\* A set of numbers that is not empty has a least one.
LEMMA Least ==
    ASSUME NEW T \in SUBSET Nat, T # {}
    PROVE  \E b \in T : \A c \in T : b <= c
<1> DEFINE R == OpToRel(<, Nat)
<1>1. IsWellFoundedOn(R, Nat)
  BY NatLessThanWellFounded
<1>2. \A a, b \in T : a < b => <<a, b>> \in R
  BY DEF OpToRel
<1> HIDE DEF R
<1>3. PICK b \in T : \A a \in T : ~(<<a, b>> \in R)
  BY <1>1, WFMin, Zenon
<1>4. \A a \in T : ~(a < b)
  BY <1>2, <1>3
<1>5. T \subseteq Nat
  OBVIOUS
<1>6. \A a \in T : b <= a
  BY <1>4, <1>5
<1>7. QED  BY <1>6

LEMMA FirstBackup ==
    ASSUME NEW free \in SUBSET Backups, free # {}
    PROVE  \E b \in free : \A c \in free : b <= c
BY Least, PreservationAssumption DEF Backups

LEMMA FreeBackupType == FreeBackup \in Backups
BY FirstBackup, Bounds DEF FreeBackup

Files == [Bases -> [Parts -> Databases \union {0}]]

LEMMA Put ==
    ASSUME NEW f \in Files, NEW b \in Bases, NEW k \in Parts, NEW d \in Databases \union {0}
    PROVE  /\ [f EXCEPT ![b][k] = d] \in Files
           /\ \A c \in Bases, j \in Parts :
                 [f EXCEPT ![b][k] = d][c][j] = IF c = b /\ j = k THEN d ELSE f[c][j]
BY DEF Files

\* A file moves, over one that lies at its destination if there is one.
LEMMA MovedFiles ==
    ASSUME files \in Files, NEW from \in Bases, NEW to \in Bases, from # to, NEW k \in Parts
    PROVE  /\ Moved(from, to, k) \in Files
           /\ \A c \in Bases, j \in Parts :
                 Moved(from, to, k)[c][j] =
                    IF j = k /\ files[from][k] # 0 /\ c \in {from, to}
                    THEN (IF c = to THEN files[from][k] ELSE 0) ELSE files[c][j]
<1>1. CASE files[from][k] = 0
  BY <1>1 DEF Moved, Files
<1>2. CASE files[from][k] # 0
  <2>1. files[from][k] \in Databases \union {0}
    BY DEF Files
  <2> DEFINE g == [files EXCEPT ![to][k] = files[from][k]]
  <2>2. Moved(from, to, k) = [g EXCEPT ![from][k] = 0]
    BY <1>2 DEF Moved, Files
  <2>3. /\ g \in Files
        /\ \A c \in Bases, j \in Parts :
              g[c][j] = IF c = to /\ j = k THEN files[from][k] ELSE files[c][j]
    BY <2>1, Put
  <2> HIDE DEF g
  <2>4. /\ Moved(from, to, k) \in Files
        /\ \A c \in Bases, j \in Parts :
              Moved(from, to, k)[c][j] = IF c = from /\ j = k THEN 0 ELSE g[c][j]
    BY <2>2, <2>3 DEF Files
  <2>5. QED  BY <1>2, <2>3, <2>4
<1>3. QED  BY <1>1, <1>2

\* What a connection that closes does to the files and the journals.
LEMMA Closed ==
    ASSUME TypeOK, NEW p \in Openers, Close(p)
    PROVE  /\ files' \in Files
           /\ hot' \in SUBSET Databases
           /\ connected' = [connected EXCEPT ![p] = 0]
           /\ connected' \in [Openers -> Databases \union {0}]
           /\ IF connected[p] # 0 /\ Folds(p)
              THEN /\ \A b \in Bases, k \in Parts :
                         files'[b][k] = IF b = 0 /\ k \in Sidecars THEN 0 ELSE files[b][k]
                   /\ hot' = hot \ {connected[p]}
              ELSE files' = files /\ hot' = hot
<1>1. connected' \in [Openers -> Databases \union {0}]
  BY DEF TypeOK, Close
<1>2. hot' \in SUBSET Databases
  BY DEF TypeOK, Close
<1>3. CASE connected[p] # 0 /\ Folds(p)
  <2>1. files' = [[files EXCEPT ![0][Wal] = 0] EXCEPT ![0][Shm] = 0]
    BY <1>3 DEF TypeOK, Close
  <2>2. [files EXCEPT ![0][Wal] = 0] \in Files
    BY Put, Bounds DEF TypeOK, Files
  <2>3. files' \in Files
    BY <2>1, <2>2, Put, Bounds
  <2>4. \A b \in Bases, k \in Parts :
           files'[b][k] = IF b = 0 /\ k \in {Wal, Shm} THEN 0 ELSE files[b][k]
    BY <2>1, <2>2, Put, Bounds DEF TypeOK, Files
  <2>5. QED  BY <1>1, <1>2, <1>3, <2>3, <2>4 DEF Close, Sidecars
<1>4. CASE ~(connected[p] # 0 /\ Folds(p))
  BY <1>1, <1>2, <1>4 DEF Close, TypeOK, Files
<1>5. QED  BY <1>3, <1>4

LEMMA MovedType ==
    ASSUME files \in Files, NEW from \in Bases, NEW to \in Bases, NEW k \in Parts
    PROVE  Moved(from, to, k) \in Files
<1> DEFINE g == [files EXCEPT ![to][k] = files[from][k]]
<1>1. g \in Files
  BY DEF Files
<1> HIDE DEF g
<1>2. Moved(from, to, k) = files \/ Moved(from, to, k) = [g EXCEPT ![from][k] = 0]
  BY DEF Moved, Files, g
<1>3. [g EXCEPT ![from][k] = 0] \in Files
  BY <1>1 DEF Files
<1>4. QED  BY <1>2, <1>3

LEMMA Goes ==
    ASSUME op \in Operation, NEW pc \in Steps
    PROVE  /\ Goto(pc) => op' \in Operation
           /\ \A todo \in SUBSET Parts : Loop(pc, todo) => op' \in Operation
BY DEF Operation, Goto, Loop

LEMMA NoOperationType == NoOperation \in Operation
BY DEF NoOperation, Operation, Steps, Builds

\* The process at work is a process.
LEMMA AtWork == ASSUME TypeOK, holder # Nobody PROVE holder \in Openers
BY DEF TypeOK

LEMMA OpenStepType ==
    ASSUME TypeOK, Busy, holder \in Openers, OpenStep
    PROVE  TypeOK'
<1> USE DEF TypeOK, data, schema, budgets
<1>1. CASE Reconcile
  BY <1>1, Goes, Bounds DEF Reconcile, Steps
<1>2. CASE SettleNext
  <2>1. /\ files' = Moved(0, manifest, DatabaseLast)
        /\ Loop("settling", op.todo \ {DatabaseLast})
        /\ DatabaseLast \in Parts
    BY <1>2, NextFile DEF SettleNext, Operation
  <2>2. files' \in Files
    BY <2>1, MovedType, Bounds DEF Files
  <2>3. op' \in Operation
    BY <2>1, Goes DEF Operation, Steps
  <2>4. QED  BY <1>2, <2>2, <2>3 DEF SettleNext, Files
<1>3. CASE ReturnNext
  <2>1. /\ files' = Moved(manifest, 0, DatabaseLast)
        /\ Loop("returning", op.todo \ {DatabaseLast})
        /\ DatabaseLast \in Parts
    BY <1>3, NextFile DEF ReturnNext, Operation
  <2>2. files' \in Files
    BY <2>1, MovedType, Bounds DEF Files
  <2>3. op' \in Operation
    BY <2>1, Goes DEF Operation, Steps
  <2>4. QED  BY <1>3, <2>2, <2>3 DEF ReturnNext, Files
<1>4. CASE Settled
  BY <1>4 DEF Settled, Operation, Steps
<1>5. CASE CannotSettle
  BY <1>5, Closed, NoOperationType DEF CannotSettle, Refuse, Files
<1>6. CASE ClearManifest
  BY <1>6, Goes DEF ClearManifest, Steps
<1>7. CASE GoOn
  BY <1>7, Goes DEF GoOn, Steps
<1>8. CASE GiveUp
  BY <1>8, Closed, NoOperationType DEF GiveUp, Refuse, Files
<1>9. CASE Connect
  <2> DEFINE d == IF files[0][Db] = 0 THEN created + 1 ELSE files[0][Db]
  <2>1. d \in Databases /\ created' \in 0..MaxDatabases
    BY <1>9, Bounds, PreservationAssumption DEF Connect, Databases
  <2>2. op' \in Operation
    BY <1>9, Goes DEF Connect, Steps
  <2> HIDE DEF d
  <2>3. files' \in Files /\ connected' \in [Openers -> Databases \union {0}]
    BY <1>9, <2>1, Bounds DEF Connect, Files, d
  <2>4. QED  BY <1>9, <2>1, <2>2, <2>3 DEF Connect, Files
<1>10. CASE Classify
  BY <1>10, Goes DEF Classify, Migrated, Steps, Operation
<1>11. CASE OpenReturns
  <2>1. /\ version' \in [Databases -> Builds \union {0}]
        /\ shape' \in [Databases -> Builds \union {0}]
        /\ recorded' \in [Databases -> Backups \union {0}]
    BY <1>11 DEF OpenReturns, Operation
  <2>2. hot' \subseteq Databases
    BY <1>11 DEF OpenReturns, Busy
  <2>3. QED  BY <1>11, <2>1, <2>2, NoOperationType DEF OpenReturns
<1>12. CASE CloseNewer
  BY <1>12, Closed, Goes DEF CloseNewer, Steps, Files
<1>13. CASE Intend
  BY <1>13, FreeBackupType DEF Intend, Steps, Operation, Present
<1>14. CASE LinkNext
  <2>1. op' \in Operation
    BY <1>14, Goes, NextFile DEF LinkNext, Steps, Operation, Linked
  <2>2. Foremost \in Parts
    BY <1>14, NextFile DEF LinkNext, Operation
  <2>3. files' \in Files
    BY <1>14, <2>2, Bounds DEF LinkNext, Files
  <2>4. QED  BY <1>14, <2>1, <2>3 DEF LinkNext, Files
<1>15. CASE LinksRefused
  BY <1>15, Goes DEF LinksRefused, Steps, Operation
<1>16. CASE AllLinked
  BY <1>16, Goes DEF AllLinked, Steps, Operation
<1>17. CASE UnlinkNext
  <2>1. op' \in Operation
    BY <1>17, Goes, NextFile DEF UnlinkNext, Steps, Operation
  <2>2. Foremost \in Parts
    BY <1>17, NextFile DEF UnlinkNext, Operation
  <2>3. files' \in Files
    BY <1>17, <2>2, Bounds DEF UnlinkNext, Files
  <2>4. QED  BY <1>17, <2>1, <2>3 DEF UnlinkNext, Files
<1>18. CASE RenameNext
  <2>1. op' \in Operation
    BY <1>18, Goes, NextFile DEF RenameNext, Steps, Operation
  <2>2. Foremost \in Parts
    BY <1>18, NextFile DEF RenameNext, Operation
  <2>3. files' \in Files
    BY <1>18, <2>2, MovedType, Bounds DEF RenameNext, Files
  <2>4. QED  BY <1>18, <2>1, <2>3 DEF RenameNext, Files
<1>19. CASE UnwindNext
  BY <1>19, Goes, NextFile, Bounds DEF UnwindNext, Steps, Operation
<1>20. CASE MovesEnd
  BY <1>20, Goes DEF MovesEnd, Steps
<1>21. QED
  BY <1>1, <1>2, <1>3, <1>4, <1>5, <1>6, <1>7, <1>8, <1>9, <1>10, <1>11, <1>12, <1>13,
     <1>14, <1>15, <1>16, <1>17, <1>18, <1>19, <1>20 DEF OpenStep

LEMMA FaultyType ==
    ASSUME TypeOK, holder \in Openers, Faulty
    PROVE  TypeOK'
<1> USE PreservationAssumption DEF TypeOK, data, schema, budgets
<1>1. CASE Misread
  BY <1>1, Goes DEF Misread, Steps
<1>2. CASE CheckpointFails
  <2>1. op' \in Operation
    BY <1>2 DEF CheckpointFails, Operation, Steps
  <2>2. /\ files' \in Files /\ hot' \subseteq Databases
        /\ connected' \in [Openers -> Databases \union {0}]
    BY <1>2, Closed DEF CheckpointFails, Files
  <2>3. QED  BY <1>2, <2>1, <2>2 DEF CheckpointFails, Files
<1>3. CASE OpenFails
  BY <1>3, Closed, NoOperationType DEF OpenFails, Refuse, Files
<1>4. CASE MoveFails
  BY <1>4, Goes DEF MoveFails, Operation, Steps, Linked
<1>5. QED
  BY <1>1, <1>2, <1>3, <1>4 DEF Faulty

LEMMA OthersType ==
    ASSUME TypeOK, NEW p \in Openers
    PROVE  /\ \A build \in Builds : Acquire(p, build) => TypeOK'
           /\ Write(p) \/ Disconnect(p) \/ Killed(p) => TypeOK'
<1> USE PreservationAssumption DEF TypeOK, data, schema, budgets
<1>1. ASSUME NEW build \in Builds, Acquire(p, build) PROVE TypeOK'
  BY <1>1 DEF Acquire, NoOperation, Operation, Steps
<1>2. CASE Write(p)
  BY <1>2 DEF Write
<1>3. CASE Disconnect(p)
  BY <1>3, Closed DEF Disconnect, Files
<1>4. CASE Killed(p)
  BY <1>4, NoOperationType DEF Killed
<1>5. QED
  BY <1>1, <1>2, <1>3, <1>4

-----------------------------------------------------------------------------
(* Busy: the process's own steps, the failures, and everybody else's steps. *)

LEMMA BusyOpen ==
    ASSUME TypeOK, TypeOK', Busy, holder \in Openers, OpenStep
    PROVE  Busy'
<1> USE DEF TypeOK, Operation, data, schema, budgets, Busy
<1>1. CASE Reconcile
  BY <1>1 DEF Reconcile, Goto, Loop
<1>2. CASE SettleNext
  BY <1>2, NextFile, MovedFiles DEF SettleNext, Goto, Loop
<1>3. CASE ReturnNext
  BY <1>3, NextFile, MovedFiles DEF ReturnNext, Goto, Loop
<1>4. CASE Settled
  BY <1>4 DEF Settled
<1>5. CASE CannotSettle
  BY <1>5, Closed DEF CannotSettle, Refuse, NoOperation
<1>6. CASE ClearManifest
  BY <1>6 DEF ClearManifest, Goto
<1>7. CASE GoOn
  BY <1>7 DEF GoOn, Goto
<1>8. CASE GiveUp
  BY <1>8, Closed DEF GiveUp, Refuse, NoOperation
<1>9. CASE Connect
  <2>1. /\ connected'[holder] = files'[0][Db] /\ files'[0][Db] # 0
        /\ op'.pc \in {"recording", "classifying"} /\ holder' = holder
    BY <1>9, Bounds DEF Connect, Goto, Databases
  <2>2. QED  BY <2>1, PreservationAssumption
<1>10. CASE Classify
  BY <1>10 DEF Classify, Goto, Migrated, Found
<1>11. CASE OpenReturns
  BY <1>11 DEF OpenReturns, NoOperation
<1>12. CASE CloseNewer
  BY <1>12, Closed DEF CloseNewer, Goto
<1>13. CASE Intend
  BY <1>13 DEF Intend, Present
<1>14. CASE LinkNext
  BY <1>14, NextFile DEF LinkNext, Goto, Loop, Linked
<1>15. CASE LinksRefused
  BY <1>15 DEF LinksRefused, Goto, Loop, Linked
<1>16. CASE AllLinked
  BY <1>16 DEF AllLinked, Goto, Loop
<1>17. CASE UnlinkNext
  BY <1>17, NextFile DEF UnlinkNext, Goto, Loop
<1>18. CASE RenameNext
  BY <1>18 DEF RenameNext, Goto, Loop
<1>19. CASE UnwindNext
  BY <1>19, NextFile DEF UnwindNext, Goto, Loop
<1>20. CASE MovesEnd
  BY <1>20 DEF MovesEnd, Goto
<1>21. QED
  BY <1>1, <1>2, <1>3, <1>4, <1>5, <1>6, <1>7, <1>8, <1>9, <1>10, <1>11, <1>12,
     <1>13, <1>14, <1>15, <1>16, <1>17, <1>18, <1>19, <1>20 DEF OpenStep

LEMMA BusyFaulty ==
    ASSUME TypeOK, TypeOK', Busy, holder \in Openers, Faulty
    PROVE  Busy'
<1> USE DEF TypeOK, Operation, data, schema, budgets, Busy
<1>1. CASE Misread
  BY <1>1 DEF Misread, Goto, Found
<1>2. CASE CheckpointFails
  BY <1>2, Closed DEF CheckpointFails
<1>3. CASE OpenFails
  BY <1>3, Closed DEF OpenFails, Refuse, NoOperation, Found
<1>4. CASE MoveFails
  BY <1>4, NextFile DEF MoveFails, Goto, Loop, Linked
<1>5. QED
  BY <1>1, <1>2, <1>3, <1>4 DEF Faulty

LEMMA BusyOthers ==
    ASSUME TypeOK, TypeOK', Busy, NEW p \in Openers,
           (\E build \in Builds : Acquire(p, build)) \/ Write(p) \/
     Disconnect(p) \/ Killed(p)
    PROVE  Busy'
<1> USE PreservationAssumption DEF TypeOK, Operation, data, schema, budgets,
     Busy
<1>1. ASSUME NEW build \in Builds, Acquire(p, build) PROVE Busy'
  BY <1>1 DEF Acquire, NoOperation
<1>2. CASE Write(p)
  BY <1>2 DEF Write
<1>3. CASE Disconnect(p)
  <2>1. /\ connected' = [connected EXCEPT ![p] = 0]
        /\ files'[0][Db] = files[0][Db]
        /\ p # holder /\ UNCHANGED <<holder, op>>
    BY <1>3, Closed, Bounds DEF Disconnect
  <2>2. QED  BY <2>1
<1>4. CASE Killed(p)
  BY <1>4 DEF Killed, NoOperation
<1>5. QED
  BY <1>1, <1>2, <1>3, <1>4

-----------------------------------------------------------------------------
(* Standing. *)

LEMMA StandingOpen ==
    ASSUME TypeOK, TypeOK', Busy, Standing, holder \in Openers, OpenStep
    PROVE  Standing'
<1> USE DEF TypeOK, Operation, data, schema, budgets, Standing
<1>1. CASE Reconcile
  BY <1>1 DEF Reconcile, Goto, Loop
<1>2. CASE SettleNext
  BY <1>2, NextFile, MovedFiles DEF SettleNext, Goto, Loop
<1>3. CASE ReturnNext
  BY <1>3, NextFile, MovedFiles DEF ReturnNext, Goto, Loop
<1>4. CASE Settled
  BY <1>4 DEF Settled
<1>5. CASE CannotSettle
  BY <1>5, Closed DEF CannotSettle, Refuse, NoOperation
<1>6. CASE ClearManifest
  BY <1>6 DEF ClearManifest, Goto
<1>7. CASE GoOn
  BY <1>7 DEF GoOn, Goto
<1>8. CASE GiveUp
  BY <1>8, Closed DEF GiveUp, Refuse, NoOperation
<1>9. CASE Connect
  BY <1>9 DEF Connect, Goto
<1>10. CASE Classify
  BY <1>10 DEF Classify, Goto, Migrated, Found
<1>11. CASE OpenReturns
  BY <1>11 DEF OpenReturns, NoOperation
<1>12. CASE CloseNewer
  BY <1>12, Closed DEF CloseNewer, Goto
<1>13. CASE Intend
  BY <1>13, FreeBackupType, Bounds DEF Intend
<1>14. CASE LinkNext
  <2>1. Loop("linking", op.todo \ {Foremost}) \/ Loop("unwinding", Linked)
    BY <1>14 DEF LinkNext
  <2>2. manifest # 0 /\ manifest' = manifest /\ op.todo \subseteq op.moves
    BY <1>14 DEF LinkNext
  <2>3. QED  BY ONLY op \in Operation, <2>1, <2>2 DEF Standing, Goto, Loop, Linked, Operation
<1>15. CASE LinksRefused
  BY <1>15 DEF LinksRefused, Goto, Loop, Linked
<1>16. CASE AllLinked
  BY <1>16 DEF AllLinked, Goto, Loop
<1>17. CASE UnlinkNext
  <2>1. Loop("unlinking", op.todo \ {Foremost}) \/ Goto("reconciling")
    BY <1>17 DEF UnlinkNext
  <2>2. manifest # 0 /\ manifest' = manifest /\ op.todo \subseteq op.moves
    BY <1>17 DEF UnlinkNext
  <2>3. QED  BY ONLY op \in Operation, <2>1, <2>2 DEF Standing, Goto, Loop, Linked, Operation
<1>18. CASE RenameNext
  <2>1. Loop("renaming", op.todo \ {Foremost}) \/ Goto("reconciling")
    BY <1>18 DEF RenameNext
  <2>2. manifest # 0 /\ manifest' = manifest /\ op.todo \subseteq op.moves
    BY <1>18 DEF RenameNext
  <2>3. QED  BY ONLY op \in Operation, <2>1, <2>2 DEF Standing, Goto, Loop, Linked, Operation
<1>19. CASE UnwindNext
  BY <1>19, NextFile DEF UnwindNext, Goto, Loop
<1>20. CASE MovesEnd
  BY <1>20 DEF MovesEnd, Goto
<1>21. QED
  BY <1>1, <1>2, <1>3, <1>4, <1>5, <1>6, <1>7, <1>8, <1>9, <1>10, <1>11, <1>12,
     <1>13, <1>14, <1>15, <1>16, <1>17, <1>18, <1>19, <1>20 DEF OpenStep

LEMMA StandingFaulty ==
    ASSUME TypeOK, TypeOK', Busy, Standing, holder \in Openers, Faulty
    PROVE  Standing'
<1> USE DEF TypeOK, Operation, data, schema, budgets, Standing
<1>1. CASE Misread
  BY <1>1 DEF Misread, Goto, Found
<1>2. CASE CheckpointFails
  BY <1>2, Closed DEF CheckpointFails
<1>3. CASE OpenFails
  BY <1>3, Closed DEF OpenFails, Refuse, NoOperation, Found
<1>4. CASE MoveFails
  BY <1>4, NextFile DEF MoveFails, Goto, Loop, Linked
<1>5. QED
  BY <1>1, <1>2, <1>3, <1>4 DEF Faulty

LEMMA StandingOthers ==
    ASSUME TypeOK, TypeOK', Busy, Standing, NEW p \in Openers,
           (\E build \in Builds : Acquire(p, build)) \/ Write(p) \/
     Disconnect(p) \/ Killed(p)
    PROVE  Standing'
<1> USE PreservationAssumption DEF TypeOK, Operation, data, schema, budgets,
     Standing
<1>1. ASSUME NEW build \in Builds, Acquire(p, build) PROVE Standing'
  BY <1>1 DEF Acquire, NoOperation
<1>2. CASE Write(p)
  BY <1>2 DEF Write
<1>3. CASE Disconnect(p)
  BY <1>3, Closed DEF Disconnect
<1>4. CASE Killed(p)
  BY <1>4 DEF Killed, NoOperation
<1>5. QED
  BY <1>1, <1>2, <1>3, <1>4

-----------------------------------------------------------------------------
(* What the steps that touch files do, file by file.                       *)

FilesMove(from, to, k) ==
    \A c \in Bases, j \in Parts :
       files'[c][j] = IF j = k /\ files[from][k] # 0 /\ c \in {from, to}
                      THEN (IF c = to THEN files[from][k] ELSE 0) ELSE files[c][j]

FileIs(b, k, d) ==
    \A c \in Bases, j \in Parts : files'[c][j] = IF c = b /\ j = k THEN d ELSE files[c][j]

Onward(pc, todo) ==
    /\ op'.pc = pc /\ op'.todo = todo /\ op'.moves = op.moves
    /\ op'.record = op.record /\ op'.aside = op.aside /\ op'.build = op.build

LEMMA OnwardShape ==
    ASSUME op \in Operation, NEW pc
    PROVE  /\ Goto(pc) => Onward(pc, op.todo)
           /\ \A todo : Loop(pc, todo) => Onward(pc, todo)
BY DEF Operation, Goto, Loop, Onward

\* The database goes first.
LEMMA DatabaseFirst ==
    ASSUME op \in Operation, Db \in op.todo
    PROVE  Foremost = Db
<1>1. Db \in op.todo /\ \A j \in op.todo : Db <= j
  BY DEF Operation, Parts, Db, Sidecars, Wal, Shm
<1>2. \A k \in op.todo : (\A j \in op.todo : k <= j) => k = Db
  BY DEF Operation, Parts, Db, Sidecars, Wal, Shm
<1>3. QED  BY <1>1, <1>2 DEF Foremost

LEMMA SettleShape ==
    ASSUME TypeOK, Standing, SettleNext
    PROVE  /\ op.pc = "settling"
           /\ \E k \in op.todo : /\ k \in Parts /\ ~Occupied(0, manifest, k)
                                 /\ FilesMove(0, manifest, k)
                                 /\ Onward("settling", op.todo \ {k})
<1>1. /\ op.pc = "settling" /\ manifest \in Bases /\ manifest # 0
      /\ ~Occupied(0, manifest, DatabaseLast)
      /\ files' = Moved(0, manifest, DatabaseLast)
      /\ Loop("settling", op.todo \ {DatabaseLast})
  BY Bounds DEF SettleNext, TypeOK, Standing
<1>2. DatabaseLast \in op.todo /\ DatabaseLast \in Parts
  BY NextFile DEF SettleNext, TypeOK, Operation
<1>3. FilesMove(0, manifest, DatabaseLast)
  BY <1>1, <1>2, MovedFiles, Bounds DEF TypeOK, Files, FilesMove
<1>4. QED  BY <1>1, <1>2, <1>3, OnwardShape DEF TypeOK

LEMMA ReturnShape ==
    ASSUME TypeOK, Standing, ReturnNext
    PROVE  /\ op.pc = "returning"
           /\ \E k \in op.todo : /\ k \in Parts
                                 /\ FilesMove(manifest, 0, k)
                                 /\ Onward("returning", op.todo \ {k})
<1>1. /\ op.pc = "returning" /\ manifest \in Bases /\ manifest # 0
      /\ files' = Moved(manifest, 0, DatabaseLast)
      /\ Loop("returning", op.todo \ {DatabaseLast})
  BY Bounds DEF ReturnNext, TypeOK, Standing
<1>2. DatabaseLast \in op.todo /\ DatabaseLast \in Parts
  BY NextFile DEF ReturnNext, TypeOK, Operation
<1>3. FilesMove(manifest, 0, DatabaseLast)
  BY <1>1, <1>2, MovedFiles, Bounds DEF TypeOK, Files, FilesMove
<1>4. QED  BY <1>1, <1>2, <1>3, OnwardShape DEF TypeOK

LEMMA LinkShape ==
    ASSUME TypeOK, Standing, LinkNext
    PROVE  /\ op.pc = "linking"
           /\ \E k \in op.todo :
                 /\ k \in Parts /\ (Db \in op.todo => k = Db)
                 /\ \/ /\ files[0][k] # 0 /\ files[manifest][k] = 0
                       /\ FileIs(manifest, k, files[0][k])
                       /\ Onward("linking", op.todo \ {k})
                    \/ /\ files[0][k] = 0 \/ files[manifest][k] # 0
                       /\ files' = files
                       /\ Onward("unwinding", op.moves \ op.todo)
<1>1. Foremost \in op.todo /\ Foremost \in Parts /\ (Db \in op.todo => Foremost = Db)
  BY NextFile, DatabaseFirst DEF LinkNext, TypeOK, Operation
<1>2. op.pc = "linking" /\ manifest \in Bases
  BY Bounds DEF LinkNext, TypeOK
<1>3. CASE files[0][Foremost] # 0 /\ files[manifest][Foremost] = 0
  <2>1. /\ files' = [files EXCEPT ![manifest][Foremost] = files[0][Foremost]]
        /\ Onward("linking", op.todo \ {Foremost})
    BY <1>3, OnwardShape DEF LinkNext, TypeOK
  <2>2. FileIs(manifest, Foremost, files[0][Foremost])
    BY <1>1, <1>2, <2>1, Bounds DEF TypeOK, FileIs
  <2>3. QED  BY <1>1, <1>2, <1>3, <2>1, <2>2
<1>4. CASE ~(files[0][Foremost] # 0 /\ files[manifest][Foremost] = 0)
  BY <1>1, <1>2, <1>4, OnwardShape DEF LinkNext, Linked, TypeOK
<1>5. QED  BY <1>3, <1>4

LEMMA UnlinkShape ==
    ASSUME TypeOK, Standing, UnlinkNext
    PROVE  /\ op.pc = "unlinking"
           /\ \/ \E k \in op.todo : /\ k \in Parts /\ files[0][k] # 0
                                    /\ FileIs(0, k, 0)
                                    /\ Onward("unlinking", op.todo \ {k})
              \/ files' = files /\ Onward("reconciling", op.todo)
<1>1. Foremost \in op.todo /\ Foremost \in Parts /\ op.pc = "unlinking"
  BY NextFile DEF UnlinkNext, TypeOK, Operation
<1>2. CASE files[0][Foremost] # 0
  <2>1. files' = [files EXCEPT ![0][Foremost] = 0] /\ Onward("unlinking", op.todo \ {Foremost})
    BY <1>2, OnwardShape DEF UnlinkNext, TypeOK
  <2>2. FileIs(0, Foremost, 0)
    BY <1>1, <2>1, Bounds DEF TypeOK, FileIs
  <2>3. QED  BY <1>1, <1>2, <2>1, <2>2
<1>3. CASE files[0][Foremost] = 0
  BY <1>1, <1>3, OnwardShape DEF UnlinkNext, TypeOK
<1>4. QED  BY <1>2, <1>3

LEMMA RenameShape ==
    ASSUME TypeOK, Standing, RenameNext
    PROVE  /\ op.pc = "renaming"
           /\ \/ \E k \in op.todo : /\ k \in Parts /\ files[0][k] # 0
                                    /\ FilesMove(0, manifest, k)
                                    /\ Onward("renaming", op.todo \ {k})
              \/ files' = files /\ Onward("reconciling", op.todo)
<1>1. Foremost \in op.todo /\ Foremost \in Parts /\ op.pc = "renaming"
  BY NextFile DEF RenameNext, TypeOK, Operation
<1>2. manifest \in Bases /\ manifest # 0
  BY <1>1, Bounds DEF TypeOK, Standing
<1>3. CASE files[0][Foremost] # 0
  <2>1. files' = Moved(0, manifest, Foremost) /\ Onward("renaming", op.todo \ {Foremost})
    BY <1>3, OnwardShape DEF RenameNext, TypeOK
  <2>2. FilesMove(0, manifest, Foremost)
    BY <1>1, <1>2, <2>1, MovedFiles, Bounds DEF TypeOK, Files, FilesMove
  <2>3. QED  BY <1>1, <1>3, <2>1, <2>2
<1>4. CASE files[0][Foremost] = 0
  BY <1>1, <1>4, OnwardShape DEF RenameNext, TypeOK
<1>5. QED  BY <1>3, <1>4

LEMMA UnwindShape ==
    ASSUME TypeOK, Standing, UnwindNext
    PROVE  /\ op.pc = "unwinding"
           /\ \E k \in op.todo : /\ k \in Parts
                                 /\ FileIs(manifest, k, 0)
                                 /\ Onward("unwinding", op.todo \ {k})
<1>1. Foremost \in op.todo /\ Foremost \in Parts /\ op.pc = "unwinding"
  BY NextFile DEF UnwindNext, TypeOK, Operation
<1>2. /\ files' = [files EXCEPT ![manifest][Foremost] = 0]
      /\ Onward("unwinding", op.todo \ {Foremost})
  BY OnwardShape DEF UnwindNext, TypeOK
<1>3. FileIs(manifest, Foremost, 0)
  BY <1>1, <1>2, Bounds DEF TypeOK, FileIs
<1>4. QED  BY <1>1, <1>2, <1>3

\* A connection finds the database under the base name, or starts the next one.
LEMMA ConnectShape ==
    ASSUME TypeOK, holder \in Openers, Connect
    PROVE  \E d \in Databases :
              /\ d = IF files[0][Db] = 0 THEN created + 1 ELSE files[0][Db]
              /\ created' = IF files[0][Db] = 0 THEN d ELSE created
              /\ \A c \in Bases, j \in Parts :
                    files'[c][j] = IF c = 0 /\ (j = Db \/ files[0][j] = 0) THEN d ELSE files[c][j]
              /\ connected' = [connected EXCEPT ![holder] = d]
<1> DEFINE d == IF files[0][Db] = 0 THEN created + 1 ELSE files[0][Db]
<1>1. d \in Databases
  BY Bounds, PreservationAssumption DEF Connect, TypeOK, Databases
<1>2. created' = IF files[0][Db] = 0 THEN d ELSE created
  BY DEF Connect
<1>3. /\ files' = [files EXCEPT ![0][Db] = d, ![0][Wal] = IF @ = 0 THEN d ELSE @,
                                ![0][Shm] = IF @ = 0 THEN d ELSE @]
      /\ connected' = [connected EXCEPT ![holder] = d]
  BY DEF Connect
<1>4. d = files[0][Db] \/ files[0][Db] = 0
  OBVIOUS
<1> HIDE DEF d
<1>5. \A c \in Bases, j \in Parts :
         files'[c][j] = IF c = 0 /\ (j = Db \/ files[0][j] = 0) THEN d ELSE files[c][j]
  BY <1>3, <1>4, Bounds DEF TypeOK, Parts, Sidecars, Db, Wal, Shm
<1>6. d = IF files[0][Db] = 0 THEN created + 1 ELSE files[0][Db]
  BY DEF d
<1>7. created' = IF files[0][Db] = 0 THEN d ELSE created
  BY <1>2
<1>8. WITNESS d \in Databases
<1>9. QED  BY <1>3, <1>5, <1>6, <1>7

\* A step of a move changes files and nothing else.
LEMMA MoveFrame ==
    SettleNext \/ ReturnNext \/ LinkNext \/ UnlinkNext \/ RenameNext \/ UnwindNext
       => UNCHANGED <<version, shape, recorded, hot, created, manifest, connected, holder,
                      faults, kills>>
BY DEF SettleNext, ReturnNext, LinkNext, UnlinkNext, RenameNext, UnwindNext, data, schema, budgets

LEMMA ConnectFrame ==
    ASSUME op \in Operation, Connect
    PROVE  /\ op.pc = "connecting"
           /\ Onward(IF op.aside THEN "recording" ELSE "classifying", op.todo)
           /\ UNCHANGED <<version, shape, recorded, hot, manifest, holder, faults, kills>>
BY OnwardShape DEF Connect, schema, budgets

-----------------------------------------------------------------------------
(* Numbered. *)

\* Files that only move or go keep their numbers.
LEMMA Renumbered ==
    ASSUME TypeOK, TypeOK', Numbered, UNCHANGED <<created, version, shape>>,
           \A b \in Bases, k \in Parts :
              files'[b][k] = 0 \/ \E c \in Bases, j \in Parts : files'[b][k] = files[c][j],
           \A p \in Openers : connected'[p] \in {0, connected[p]},
           hot' \subseteq hot
    PROVE  Numbered'
<1>1. created \in Nat /\ created' = created
  BY PreservationAssumption DEF TypeOK
<1>2. \A b \in Bases, k \in Parts : files'[b][k] <= created'
  BY <1>1 DEF Numbered
<1>3. \A p \in Openers : connected'[p] <= created'
  BY <1>1 DEF Numbered
<1>4. QED  BY <1>1, <1>2, <1>3 DEF Numbered

LEMMA ClosedNumbered ==
    ASSUME TypeOK, TypeOK', Numbered, UNCHANGED <<created, version, shape>>,
           NEW p \in Openers, Close(p)
    PROVE  Numbered'
<1>1. \A b \in Bases, k \in Parts : files'[b][k] = 0 \/ files'[b][k] = files[b][k]
  BY Closed
<1>2. \A q \in Openers : connected'[q] \in {0, connected[q]}
  BY Closed DEF TypeOK
<1>3. hot' \subseteq hot
  BY Closed
<1>4. QED  BY <1>1, <1>2, <1>3, Renumbered

LEMMA MovedNumbered ==
    ASSUME TypeOK, TypeOK', Numbered, Standing,
           SettleNext \/ ReturnNext \/ LinkNext \/ UnlinkNext \/ RenameNext \/ UnwindNext
    PROVE  Numbered'
<1>1. manifest \in Bases /\ 0 \in Bases
  BY Bounds DEF TypeOK
<1>2. UNCHANGED <<created, version, shape, hot, connected>>
  BY MoveFrame
<1>3. \A b \in Bases, k \in Parts :
         files'[b][k] = 0 \/ \E c \in Bases, j \in Parts : files'[b][k] = files[c][j]
  <2>1. CASE SettleNext \/ ReturnNext \/ RenameNext
    BY <1>1, <2>1, SettleShape, ReturnShape, RenameShape DEF FilesMove
  <2>2. CASE LinkNext \/ UnlinkNext \/ UnwindNext
    BY <1>1, <2>2, LinkShape, UnlinkShape, UnwindShape DEF FileIs
  <2>3. QED  BY <2>1, <2>2
<1>4. QED  BY <1>2, <1>3, Renumbered

LEMMA NumberedOpen ==
    ASSUME TypeOK, TypeOK', Busy, Standing, Numbered, holder \in Openers,
     OpenStep
    PROVE  Numbered'
<1> USE Bounds, PreservationAssumption DEF TypeOK, Operation, data, schema, budgets, Numbered,
            Databases
<1>1. CASE Reconcile
  BY <1>1 DEF Reconcile, Goto, Loop
<1>2. CASE SettleNext
  BY <1>2, MovedNumbered
<1>3. CASE ReturnNext
  BY <1>3, MovedNumbered
<1>4. CASE Settled
  BY <1>4 DEF Settled
<1>5. CASE CannotSettle
  BY <1>5, ClosedNumbered DEF CannotSettle, Refuse
<1>6. CASE ClearManifest
  BY <1>6 DEF ClearManifest, Goto
<1>7. CASE GoOn
  BY <1>7 DEF GoOn, Goto
<1>8. CASE GiveUp
  BY <1>8, ClosedNumbered DEF GiveUp, Refuse
<1>9. CASE Connect
  <2>1. PICK d \in Databases :
           /\ d = IF files[0][Db] = 0 THEN created + 1 ELSE files[0][Db]
           /\ created' = IF files[0][Db] = 0 THEN d ELSE created
           /\ \A c \in Bases, j \in Parts :
                 files'[c][j] = IF c = 0 /\ (j = Db \/ files[0][j] = 0) THEN d ELSE files[c][j]
           /\ connected' = [connected EXCEPT ![holder] = d]
    BY <1>9, ConnectShape
  <2>2. d <= created' /\ created <= created' /\ created \in Nat /\ created' \in Nat
    BY <2>1
  <2>3. \A b \in Bases, k \in Parts : files'[b][k] <= created'
    <3> SUFFICES ASSUME NEW b \in Bases, NEW k \in Parts PROVE files'[b][k] <= created'
      OBVIOUS
    <3>1. files'[b][k] = d \/ files'[b][k] = files[b][k]
      BY <2>1
    <3>2. files[b][k] <= created /\ files[b][k] \in Nat
      OBVIOUS
    <3>3. QED  BY <2>1, <2>2, <3>1, <3>2
  <2>4. \A p \in Openers : connected'[p] <= created'
    <3> SUFFICES ASSUME NEW p \in Openers PROVE connected'[p] <= created'
      OBVIOUS
    <3>1. connected'[p] = d \/ connected'[p] = connected[p]
      BY <2>1
    <3>2. connected[p] <= created /\ connected[p] \in Nat
      OBVIOUS
    <3>3. QED  BY <2>1, <2>2, <3>1, <3>2
  <2>5. UNCHANGED <<version, shape, hot>>
    BY <1>9, ConnectFrame
  <2>6. \A e \in Databases : e > created' => e > created
    BY <2>2
  <2>7. hot' \subseteq 1..created'
    BY <2>2, <2>5
  <2>8. QED  BY ONLY Numbered, <2>3, <2>4, <2>5, <2>6, <2>7 DEF Numbered
<1>10. CASE Classify
  BY <1>10 DEF Classify, Goto, Migrated, Found
<1>11. CASE OpenReturns
  BY <1>11 DEF OpenReturns, NoOperation
<1>12. CASE CloseNewer
  BY <1>12, ClosedNumbered DEF CloseNewer
<1>13. CASE Intend
  BY <1>13 DEF Intend, Present
<1>14. CASE LinkNext
  BY <1>14, MovedNumbered
<1>15. CASE LinksRefused
  BY <1>15 DEF LinksRefused, Goto, Loop, Linked
<1>16. CASE AllLinked
  BY <1>16 DEF AllLinked, Goto, Loop
<1>17. CASE UnlinkNext
  BY <1>17, MovedNumbered
<1>18. CASE RenameNext
  BY <1>18, MovedNumbered
<1>19. CASE UnwindNext
  BY <1>19, MovedNumbered
<1>20. CASE MovesEnd
  BY <1>20 DEF MovesEnd, Goto
<1>21. QED
  BY <1>1, <1>2, <1>3, <1>4, <1>5, <1>6, <1>7, <1>8, <1>9, <1>10, <1>11, <1>12,
     <1>13, <1>14, <1>15, <1>16, <1>17, <1>18, <1>19, <1>20 DEF OpenStep

LEMMA NumberedFaulty ==
    ASSUME TypeOK, TypeOK', Busy, Standing, Numbered, holder \in Openers, Faulty
    PROVE  Numbered'
<1> USE Bounds, PreservationAssumption DEF TypeOK, Operation, data, schema, budgets, Numbered,
            Databases
<1>1. CASE Misread
  BY <1>1 DEF Misread, Goto, Found
<1>2. CASE CheckpointFails
  <2>1. CASE Close(holder)
    BY <1>2, <2>1, ClosedNumbered DEF CheckpointFails
  <2>2. CASE connected' = [connected EXCEPT ![holder] = 0] /\ UNCHANGED <<files, hot>>
    BY <1>2, <2>2, Renumbered DEF CheckpointFails
  <2>3. QED  BY <1>2, <2>1, <2>2 DEF CheckpointFails
<1>3. CASE OpenFails
  BY <1>3, ClosedNumbered DEF OpenFails, Refuse
<1>4. CASE MoveFails
  BY <1>4 DEF MoveFails, Goto, Loop, Linked
<1>5. QED
  BY <1>1, <1>2, <1>3, <1>4 DEF Faulty

LEMMA NumberedOthers ==
    ASSUME TypeOK, TypeOK', Busy, Standing, Numbered, NEW p \in Openers,
           (\E build \in Builds : Acquire(p, build)) \/ Write(p) \/
     Disconnect(p) \/ Killed(p)
    PROVE  Numbered'
<1> USE Bounds, PreservationAssumption DEF TypeOK, Operation, data, schema, budgets,
     Numbered, Databases
<1>1. ASSUME NEW build \in Builds, Acquire(p, build) PROVE Numbered'
  BY <1>1 DEF Acquire, NoOperation
<1>2. CASE Write(p)
  BY <1>2 DEF Write
<1>3. CASE Disconnect(p)
  BY <1>3, ClosedNumbered DEF Disconnect
<1>4. CASE Killed(p)
  BY <1>4 DEF Killed, NoOperation
<1>5. QED
  BY <1>1, <1>2, <1>3, <1>4

-----------------------------------------------------------------------------
(* Emptied. *)

LEMMA EmptiedOpen ==
    ASSUME TypeOK, TypeOK', Busy, Standing, Numbered, Emptied, holder \in
     Openers, OpenStep
    PROVE  Emptied'
<1> USE Bounds, PreservationAssumption DEF TypeOK, Operation, data, schema, budgets, Emptied
<1>1. CASE Reconcile
  <2>1. /\ op.pc = "reconciling" /\ UNCHANGED <<files, version>>
        /\ \/ manifest = 0 /\ Onward("connecting", op.todo)
           \/ Onward("settling", Parts) \/ Onward("returning", Sidecars)
    BY <1>1, OnwardShape DEF Reconcile
  <2>2. QED  BY <2>1 DEF Onward, Standing
<1>2. CASE SettleNext
  <2>1. PICK k \in op.todo : /\ k \in Parts /\ FilesMove(0, manifest, k)
                              /\ Onward("settling", op.todo \ {k})
    BY <1>2, SettleShape
  <2>2. op.pc = "settling" /\ manifest # 0 /\ manifest \in Bases
    BY <1>2, SettleShape DEF Standing
  <2>3. \A j \in Parts \ op'.todo : files'[0][j] = 0
    BY <2>1, <2>2 DEF FilesMove, Onward
  <2>4. QED  BY <2>1, <2>2, <2>3 DEF Onward
<1>3. CASE ReturnNext
  BY <1>3, ReturnShape, MoveFrame DEF FilesMove, FileIs, Onward
<1>4. CASE Settled
  BY <1>4 DEF Settled
<1>5. CASE CannotSettle
  BY <1>5, Closed DEF CannotSettle, Refuse, NoOperation
<1>6. CASE ClearManifest
  BY <1>6 DEF ClearManifest, Goto
<1>7. CASE GoOn
  BY <1>7, OnwardShape DEF GoOn, Onward, Incomplete
<1>8. CASE GiveUp
  BY <1>8, Closed DEF GiveUp, Refuse, NoOperation
<1>9. CASE Connect
  <2>1. op.pc = "connecting" /\ op'.pc \in {"recording", "classifying"} /\ op'.record = op.record
    BY <1>9, ConnectFrame DEF Onward
  <2>2. ASSUME op.record # 0 PROVE version'[files'[0][Db]] = 0
    <3>1. files[0][Db] = 0
      BY <2>1, <2>2
    <3>2. \E d \in Databases : d = created + 1 /\ files'[0][Db] = d
      BY <1>9, <3>1, ConnectShape
    <3>3. version' = version
      BY <1>9, ConnectFrame
    <3>4. QED  BY <3>2, <3>3 DEF Numbered
  <2>3. QED  BY <2>1, <2>2
<1>10. CASE Classify
  <2>1. op.pc = "classifying" /\ version[files[0][Db]] = Found
    BY <1>10 DEF Classify, Found, Busy
  <2>2. Onward(IF Found <= op.build THEN "recording" ELSE "closing", op.todo)
    BY <1>10, OnwardShape DEF Classify
  <2>3. op.build \in Nat
    BY DEF Builds
  <2>4. QED  BY <2>1, <2>2, <2>3 DEF Onward
<1>11. CASE OpenReturns
  BY <1>11 DEF OpenReturns, NoOperation
<1>12. CASE CloseNewer
  BY <1>12, Closed DEF CloseNewer, Goto
<1>13. CASE Intend
  BY <1>13 DEF Intend, Present
<1>14. CASE LinkNext
  BY <1>14, LinkShape, MoveFrame DEF FilesMove, FileIs, Onward
<1>15. CASE LinksRefused
  BY <1>15 DEF LinksRefused, Goto, Loop, Linked
<1>16. CASE AllLinked
  BY <1>16 DEF AllLinked, Goto, Loop
<1>17. CASE UnlinkNext
  BY <1>17, UnlinkShape, MoveFrame DEF FilesMove, FileIs, Onward
<1>18. CASE RenameNext
  BY <1>18, RenameShape, MoveFrame DEF FilesMove, FileIs, Onward
<1>19. CASE UnwindNext
  BY <1>19, UnwindShape, MoveFrame DEF FilesMove, FileIs, Onward
<1>20. CASE MovesEnd
  BY <1>20 DEF MovesEnd, Goto
<1>21. QED
  BY <1>1, <1>2, <1>3, <1>4, <1>5, <1>6, <1>7, <1>8, <1>9, <1>10, <1>11, <1>12,
     <1>13, <1>14, <1>15, <1>16, <1>17, <1>18, <1>19, <1>20 DEF OpenStep

LEMMA EmptiedFaulty ==
    ASSUME TypeOK, TypeOK', Busy, Standing, Numbered, Emptied, holder \in
     Openers, Faulty
    PROVE  Emptied'
<1> USE Bounds, PreservationAssumption DEF TypeOK, Operation, data, schema, budgets, Emptied
<1>1. CASE Misread
  <2>1. op.pc = "classifying" /\ version[files[0][Db]] = Found
    BY <1>1 DEF Misread, Found, Busy
  <2>2. Onward("recording", op.todo) \/ (Found # 0 /\ Onward("closing", op.todo))
    BY <1>1, OnwardShape DEF Misread
  <2>3. QED  BY <2>1, <2>2 DEF Onward
<1>2. CASE CheckpointFails
  BY <1>2, Closed DEF CheckpointFails
<1>3. CASE OpenFails
  BY <1>3, Closed DEF OpenFails, Refuse, NoOperation, Found
<1>4. CASE MoveFails
  BY <1>4 DEF MoveFails, Goto, Loop, Linked
<1>5. QED
  BY <1>1, <1>2, <1>3, <1>4 DEF Faulty

LEMMA EmptiedOthers ==
    ASSUME TypeOK, TypeOK', Busy, Standing, Numbered, Emptied, NEW p \in
     Openers,
           (\E build \in Builds : Acquire(p, build)) \/ Write(p) \/
     Disconnect(p) \/ Killed(p)
    PROVE  Emptied'
<1> USE Bounds, PreservationAssumption DEF TypeOK, Operation, data, schema, budgets,
     Emptied
<1>1. ASSUME NEW build \in Builds, Acquire(p, build) PROVE Emptied'
  BY <1>1 DEF Acquire, NoOperation
<1>2. CASE Write(p)
  BY <1>2 DEF Write
<1>3. CASE Disconnect(p)
  BY <1>3, Closed DEF Disconnect
<1>4. CASE Killed(p)
  BY <1>4 DEF Killed, NoOperation
<1>5. QED
  BY <1>1, <1>2, <1>3, <1>4

-----------------------------------------------------------------------------
(* Worthy. *)

\* What is preserved stays as it is, and a version is never taken back.
LEMMA KeptWorthy ==
    ASSUME TypeOK, NothingEmptyPreserved,
           \A b \in Backups : files'[b][Db] = files[b][Db],
           \A d \in Databases : version[d] # 0 => version'[d] # 0
    PROVE  NothingEmptyPreserved'
BY Bounds DEF TypeOK, NothingEmptyPreserved

LEMMA WorthyOpen ==
    ASSUME TypeOK, TypeOK', Busy, Standing, Numbered, Worthy, holder \in
     Openers, OpenStep
    PROVE  Worthy'
<1> USE Bounds, PreservationAssumption DEF TypeOK, Operation, data, schema, budgets, Worthy,
     NothingEmptyPreserved
<1>1. CASE Reconcile
  BY <1>1 DEF Reconcile, Goto, Loop
<1>2. CASE SettleNext
  BY <1>2, SettleShape, MoveFrame DEF FilesMove, FileIs, Onward
<1>3. CASE ReturnNext
  BY <1>3, ReturnShape, MoveFrame DEF FilesMove, FileIs, Onward
<1>4. CASE Settled
  BY <1>4 DEF Settled
<1>5. CASE CannotSettle
  BY <1>5, Closed DEF CannotSettle, Refuse, NoOperation
<1>6. CASE ClearManifest
  BY <1>6 DEF ClearManifest, Goto
<1>7. CASE GoOn
  BY <1>7 DEF GoOn, Goto
<1>8. CASE GiveUp
  BY <1>8, Closed DEF GiveUp, Refuse, NoOperation
<1>9. CASE Connect
  <2>1. /\ op.pc = "connecting" /\ op'.pc \in {"recording", "classifying"}
        /\ UNCHANGED <<manifest, version>> /\ manifest = 0
    BY <1>9, ConnectFrame DEF Onward, Standing
  <2>2. \A b \in Backups : files'[b][Db] = files[b][Db]
    BY <1>9, ConnectShape
  <2>3. NothingEmptyPreserved'
    BY <2>1, <2>2, KeptWorthy
  <2>4. QED  BY ONLY <2>1, <2>3 DEF Worthy
<1>10. CASE Classify
  <2>1. op.pc = "classifying" /\ Found = version[files[0][Db]] /\ files[0][Db] \in Databases
    BY <1>10 DEF Classify, Found, Busy
  <2>2. UNCHANGED <<files, manifest>> /\ \A d \in Databases : version[d] # 0 => version'[d] # 0
    BY <1>10 DEF Classify, Migrated, Builds
  <2>3. NothingEmptyPreserved'
    BY <2>2, KeptWorthy
  <2>4. Onward(IF Found <= op.build THEN "recording" ELSE "closing", op.todo)
    BY <1>10, OnwardShape DEF Classify
  <2>5. op'.pc = "closing" => version'[files'[0][Db]] # 0
    BY <2>1, <2>2, <2>4 DEF Onward, Builds
  <2>6. op'.pc \in {"recording", "closing"} /\ manifest' = 0
    BY <2>1, <2>2, <2>4 DEF Onward, Standing
  <2>7. QED  BY ONLY <2>3, <2>5, <2>6 DEF Worthy
<1>11. CASE OpenReturns
  <2>1. UNCHANGED <<files, manifest>> /\ op'.pc = "idle" /\ manifest = 0
    BY <1>11 DEF OpenReturns, NoOperation, Standing
  <2>2. \A d \in Databases : version[d] # 0 => version'[d] # 0
    BY <1>11 DEF OpenReturns, Builds
  <2>3. NothingEmptyPreserved'
    BY <2>1, <2>2, KeptWorthy
  <2>4. QED  BY ONLY <2>1, <2>3 DEF Worthy
<1>12. CASE CloseNewer
  <2>1. /\ op.pc = "closing" /\ op'.pc = "intending"
        /\ UNCHANGED <<manifest, version>> /\ manifest = 0
    BY <1>12 DEF CloseNewer, Goto, Standing
  <2>2. \A b \in Bases : files'[b][Db] = files[b][Db]
    BY <1>12, Closed DEF CloseNewer, Files
  <2>3. NothingEmptyPreserved'
    BY <2>1, <2>2, KeptWorthy
  <2>4. files[0][Db] # 0 /\ version[files[0][Db]] # 0
    BY <2>1 DEF Busy
  <2>5. QED  BY ONLY <2>1, <2>2, <2>3, <2>4, 0 \in Bases DEF Worthy
<1>13. CASE Intend
  BY <1>13 DEF Intend, Present
<1>14. CASE LinkNext
  BY <1>14, LinkShape, MoveFrame DEF FilesMove, FileIs, Onward
<1>15. CASE LinksRefused
  BY <1>15 DEF LinksRefused, Goto, Loop, Linked
<1>16. CASE AllLinked
  BY <1>16 DEF AllLinked, Goto, Loop
<1>17. CASE UnlinkNext
  BY <1>17, UnlinkShape, MoveFrame DEF FilesMove, FileIs, Onward
<1>18. CASE RenameNext
  BY <1>18, RenameShape, MoveFrame DEF FilesMove, FileIs, Onward
<1>19. CASE UnwindNext
  BY <1>19, UnwindShape, MoveFrame DEF FilesMove, FileIs, Onward
<1>20. CASE MovesEnd
  BY <1>20 DEF MovesEnd, Goto
<1>21. QED
  BY <1>1, <1>2, <1>3, <1>4, <1>5, <1>6, <1>7, <1>8, <1>9, <1>10, <1>11, <1>12,
     <1>13, <1>14, <1>15, <1>16, <1>17, <1>18, <1>19, <1>20 DEF OpenStep

LEMMA WorthyFaulty ==
    ASSUME TypeOK, TypeOK', Busy, Standing, Numbered, Worthy, holder \in
     Openers, Faulty
    PROVE  Worthy'
<1> USE Bounds, PreservationAssumption DEF TypeOK, Operation, data, schema, budgets, Worthy,
     NothingEmptyPreserved
<1>1. CASE Misread
  <2>1. op.pc = "classifying" /\ version[files[0][Db]] = Found
    BY <1>1 DEF Misread, Found, Busy
  <2>2. Onward("recording", op.todo) \/ (Found # 0 /\ Onward("closing", op.todo))
    BY <1>1, OnwardShape DEF Misread
  <2>3. UNCHANGED <<files, version, manifest>> /\ manifest = 0
    BY <1>1, <2>1 DEF Misread, Standing
  <2>4. NothingEmptyPreserved'
    BY <2>3, KeptWorthy
  <2>5. QED  BY ONLY <2>1, <2>2, <2>3, <2>4 DEF Onward, Worthy
<1>2. CASE CheckpointFails
  <2>1. /\ op.pc = "closing" /\ op'.pc = "intending"
        /\ UNCHANGED <<manifest, version>> /\ manifest = 0
    BY <1>2 DEF CheckpointFails, Goto, Standing
  <2>2. \A b \in Bases : files'[b][Db] = files[b][Db]
    BY <1>2, Closed DEF CheckpointFails, Files
  <2>3. NothingEmptyPreserved'
    BY <2>1, <2>2, KeptWorthy
  <2>4. files[0][Db] # 0 /\ version[files[0][Db]] # 0
    BY <2>1 DEF Busy
  <2>5. QED  BY ONLY <2>1, <2>2, <2>3, <2>4, 0 \in Bases DEF Worthy
<1>3. CASE OpenFails
  BY <1>3, Closed DEF OpenFails, Refuse, NoOperation, Found
<1>4. CASE MoveFails
  BY <1>4 DEF MoveFails, Goto, Loop, Linked
<1>5. QED
  BY <1>1, <1>2, <1>3, <1>4 DEF Faulty

LEMMA WorthyOthers ==
    ASSUME TypeOK, TypeOK', Busy, Standing, Numbered, Worthy, NEW p \in Openers,
           (\E build \in Builds : Acquire(p, build)) \/ Write(p) \/
     Disconnect(p) \/ Killed(p)
    PROVE  Worthy'
<1> USE Bounds, PreservationAssumption DEF TypeOK, Operation, data, schema, budgets,
     Worthy, NothingEmptyPreserved
<1>1. ASSUME NEW build \in Builds, Acquire(p, build) PROVE Worthy'
  BY <1>1 DEF Acquire, NoOperation
<1>2. CASE Write(p)
  BY <1>2 DEF Write
<1>3. CASE Disconnect(p)
  BY <1>3, Closed DEF Disconnect
<1>4. CASE Killed(p)
  BY <1>4 DEF Killed, NoOperation
<1>5. QED
  BY <1>1, <1>2, <1>3, <1>4

-----------------------------------------------------------------------------
(* Stamped. *)

LEMMA StampedOpen ==
    ASSUME TypeOK, TypeOK', Busy, Standing, Numbered, Emptied, Stamped, holder
     \in Openers, OpenStep
    PROVE  Stamped'
<1> USE Bounds, PreservationAssumption DEF TypeOK, Operation, data, schema, budgets, Stamped
<1>1. CASE Reconcile
  BY <1>1 DEF Reconcile, Goto, Loop
<1>2. CASE SettleNext
  BY <1>2, SettleShape, MoveFrame DEF FilesMove, FileIs, Onward
<1>3. CASE ReturnNext
  BY <1>3, ReturnShape, MoveFrame DEF FilesMove, FileIs, Onward
<1>4. CASE Settled
  BY <1>4 DEF Settled
<1>5. CASE CannotSettle
  BY <1>5, Closed DEF CannotSettle, Refuse, NoOperation
<1>6. CASE ClearManifest
  BY <1>6 DEF ClearManifest, Goto
<1>7. CASE GoOn
  BY <1>7 DEF GoOn, Goto
<1>8. CASE GiveUp
  BY <1>8, Closed DEF GiveUp, Refuse, NoOperation
<1>9. CASE Connect
  <2>1. op.pc = "connecting" /\ UNCHANGED <<version, shape, holder, faults>>
        /\ Onward(IF op.aside THEN "recording" ELSE "classifying", op.todo)
    BY <1>9, ConnectFrame
  <2>2. ASSUME op'.pc = "recording" PROVE version'[connected'[holder']] = 0
    <3>1. files[0][Db] = 0
      BY <2>1, <2>2 DEF Onward, Emptied
    <3>2. \E d \in Databases : d = created + 1 /\ connected'[holder] = d
      BY <1>9, <3>1, ConnectShape
    <3>3. QED  BY <2>1, <3>2 DEF Numbered
  <2>3. QED  BY <2>1, <2>2
<1>10. CASE Classify
  <2>1. /\ op.pc = "classifying" /\ UNCHANGED <<faults, connected, holder>>
        /\ connected[holder] \in Databases
    BY <1>10 DEF Classify, Busy
  <2>2. Onward(IF Found <= op.build THEN "recording" ELSE "closing", op.todo)
    BY <1>10, OnwardShape DEF Classify
  <2>3. ASSUME faults = 0 PROVE \A d \in Databases : shape'[d] = version'[d]
    BY <1>10, <2>1, <2>3 DEF Classify, Migrated
  <2>4. op'.pc = "recording" => version'[connected[holder]] \in {0, op.build}
    BY <1>10, <2>1, <2>2 DEF Classify, Migrated, Found, Onward, Builds
  <2>5. QED  BY ONLY <2>1, <2>2, <2>3, <2>4 DEF Onward, Stamped
<1>11. CASE OpenReturns
  BY <1>11 DEF OpenReturns, NoOperation
<1>12. CASE CloseNewer
  BY <1>12, Closed DEF CloseNewer, Goto
<1>13. CASE Intend
  BY <1>13 DEF Intend, Present
<1>14. CASE LinkNext
  BY <1>14, LinkShape, MoveFrame DEF FilesMove, FileIs, Onward
<1>15. CASE LinksRefused
  BY <1>15 DEF LinksRefused, Goto, Loop, Linked
<1>16. CASE AllLinked
  BY <1>16 DEF AllLinked, Goto, Loop
<1>17. CASE UnlinkNext
  BY <1>17, UnlinkShape, MoveFrame DEF FilesMove, FileIs, Onward
<1>18. CASE RenameNext
  BY <1>18, RenameShape, MoveFrame DEF FilesMove, FileIs, Onward
<1>19. CASE UnwindNext
  BY <1>19, UnwindShape, MoveFrame DEF FilesMove, FileIs, Onward
<1>20. CASE MovesEnd
  BY <1>20 DEF MovesEnd, Goto
<1>21. QED
  BY <1>1, <1>2, <1>3, <1>4, <1>5, <1>6, <1>7, <1>8, <1>9, <1>10, <1>11, <1>12,
     <1>13, <1>14, <1>15, <1>16, <1>17, <1>18, <1>19, <1>20 DEF OpenStep

LEMMA StampedFaulty ==
    ASSUME TypeOK, TypeOK', Busy, Standing, Numbered, Emptied, Stamped, holder
     \in Openers, Faulty
    PROVE  Stamped'
<1> USE Bounds, PreservationAssumption DEF TypeOK, Operation, data, schema, budgets, Stamped
<1>1. CASE Misread
  BY <1>1 DEF Misread, Goto, Found
<1>2. CASE CheckpointFails
  BY <1>2, Closed DEF CheckpointFails
<1>3. CASE OpenFails
  BY <1>3, Closed DEF OpenFails, Refuse, NoOperation, Found
<1>4. CASE MoveFails
  BY <1>4 DEF MoveFails, Goto, Loop, Linked
<1>5. QED
  BY <1>1, <1>2, <1>3, <1>4 DEF Faulty

LEMMA StampedOthers ==
    ASSUME TypeOK, TypeOK', Busy, Standing, Numbered, Emptied, Stamped, NEW p
     \in Openers,
           (\E build \in Builds : Acquire(p, build)) \/ Write(p) \/
     Disconnect(p) \/ Killed(p)
    PROVE  Stamped'
<1> USE Bounds, PreservationAssumption DEF TypeOK, Operation, data, schema, budgets,
     Stamped
<1>1. ASSUME NEW build \in Builds, Acquire(p, build) PROVE Stamped'
  BY <1>1 DEF Acquire, NoOperation
<1>2. CASE Write(p)
  BY <1>2 DEF Write
<1>3. CASE Disconnect(p)
  <2>1. /\ connected' = [connected EXCEPT ![p] = 0] /\ p # holder
        /\ UNCHANGED <<version, shape, faults, holder, op>>
    BY <1>3 DEF Disconnect, Close
  <2>2. QED  BY <2>1
<1>4. CASE Killed(p)
  BY <1>4 DEF Killed, NoOperation
<1>5. QED
  BY <1>1, <1>2, <1>3, <1>4

-----------------------------------------------------------------------------
(* Nothing is lost: the two names of a move. *)

LEMMA LiveType == TypeOK => Live \subseteq Databases
BY DEF TypeOK, Live

\* While a manifest stands, one database and its journal share the two names.
LEMMA OnePair ==
    ASSUME TypeOK, Together, manifest # 0
    PROVE  \E e \in Databases :
              /\ files[0][Db] = e \/ files[manifest][Db] = e
              /\ \A b \in {0, manifest}, k \in Parts : files[b][k] \in {0, e}
<1>1. manifest \in Bases /\ 0 \in Bases /\ Db \in Parts
  BY Bounds DEF TypeOK
<1>2. PICK a \in {0, manifest} : files[a][Db] # 0
  BY DEF Together
<1>3. files[a][Db] \in Databases
  BY <1>1, <1>2 DEF TypeOK
<1>4. \A b \in {0, manifest} : files[b][Db] \in {0, files[a][Db]}
  BY <1>1, <1>2 DEF Together, Apart, Pair
<1>5. \A b \in {0, manifest}, k \in Sidecars : files[b][k] \in {0, files[a][Db]}
  <2> SUFFICES ASSUME NEW b \in {0, manifest}, NEW k \in Sidecars, files[b][k] # 0
               PROVE  files[b][k] = files[a][Db]
    OBVIOUS
  <2>1. PICK c \in Bases : Pair(b, c) /\ files[c][Db] = files[b][k]
    BY <1>1 DEF Together, Beside
  <2>2. c \in {0, manifest}
    BY <2>1 DEF Pair
  <2>3. QED  BY <1>4, <2>1, <2>2
<1>6. QED  BY <1>2, <1>3, <1>4, <1>5, Bounds

\* A step on the two names that leaves the database under one of them, and its
\* journal if it had one there, keeps everything together.
LEMMA PairStep ==
    ASSUME TypeOK, TypeOK', Together, manifest # 0, UNCHANGED <<manifest, created>>,
           Live' \subseteq Live,
           NEW e \in Databases,
           files[0][Db] = e \/ files[manifest][Db] = e,
           \A b \in {0, manifest}, k \in Parts : files[b][k] \in {0, e},
           files'[0][Db] = e \/ files'[manifest][Db] = e,
           \A b \in {0, manifest}, k \in Parts : files'[b][k] \in {0, e},
           \A b \in Bases \ {0, manifest}, k \in Parts : files'[b][k] = files[b][k],
           (files[0][Wal] = e \/ files[manifest][Wal] = e) /\ e \in Live'
              => files'[0][Wal] = e \/ files'[manifest][Wal] = e
    PROVE  Together'
<1> USE Bounds
<1>1. manifest \in Bases /\ manifest' = manifest
  BY DEF TypeOK
<1>2. \A b, c : Pair(b, c)' <=> b = c \/ {b, c} \subseteq {0, manifest}
  BY <1>1 DEF Pair
<1>3. \A b, c : Pair(b, c) <=> b = c \/ {b, c} \subseteq {0, manifest}
  BY DEF Pair
<1>4. Beside'
  <2> SUFFICES ASSUME NEW b \in Bases, NEW k \in Sidecars, files'[b][k] # 0
               PROVE  \E c \in Bases : Pair(b, c)' /\ files'[c][Db] = files'[b][k]
    BY DEF Beside, Pair
  <2>1. CASE b \in {0, manifest}
    BY <1>1, <1>2, <2>1
  <2>2. CASE b \notin {0, manifest}
    <3>1. PICK c \in Bases : Pair(b, c) /\ files[c][Db] = files[b][k]
      BY <2>2 DEF Together, Beside
    <3>2. c = b
      BY <1>3, <2>2, <3>1
    <3>3. QED  BY <1>2, <2>2, <3>1, <3>2
  <2>3. QED  BY <2>1, <2>2
<1>5. Apart'
  <2> SUFFICES ASSUME NEW b \in Bases, NEW c \in Bases, files'[b][Db] # 0, files'[c][Db] # 0
               PROVE  Pair(b, c)' <=> files'[c][Db] = files'[b][Db]
    BY DEF Apart, Pair
  <2>1. PICK a \in {0, manifest} : files[a][Db] = e
    OBVIOUS
  <2>2. \A x \in Bases \ {0, manifest} : files[x][Db] # 0 => files[x][Db] # e
    BY <1>1, <1>3, <2>1 DEF Together, Apart
  <2>3. CASE b \in {0, manifest} /\ c \in {0, manifest}
    BY <1>2, <2>3
  <2>4. CASE b \in {0, manifest} /\ c \notin {0, manifest}
    BY <1>2, <2>2, <2>4
  <2>5. CASE b \notin {0, manifest} /\ c \in {0, manifest}
    BY <1>2, <2>2, <2>5
  <2>6. CASE b \notin {0, manifest} /\ c \notin {0, manifest}
    BY <1>2, <1>3, <2>6 DEF Together, Apart
  <2>7. QED  BY <2>3, <2>4, <2>5, <2>6
<1>6. Everything'
  <2> SUFFICES ASSUME NEW d \in 1..created PROVE \E b \in Bases : files'[b][Db] = d
    BY DEF Everything
  <2>1. PICK b \in Bases : files[b][Db] = d
    BY DEF Together, Everything
  <2>2. d # 0
    BY PreservationAssumption DEF TypeOK
  <2>3. QED  BY <1>1, <2>1, <2>2
<1>7. Journals'
  <2> SUFFICES ASSUME NEW d \in Live' PROVE \E b \in Bases : files'[b][Wal] = d
    BY DEF Journals
  <2>1. PICK b \in Bases : files[b][Wal] = d
    BY DEF Together, Journals
  <2>2. d # 0
    BY LiveType
  <2>3. CASE b \in {0, manifest}
    BY <1>1, <2>1, <2>2, <2>3
  <2>4. CASE b \notin {0, manifest}
    BY <2>1, <2>4
  <2>5. QED  BY <2>3, <2>4
<1>8. QED  BY <1>1, <1>4, <1>5, <1>6, <1>7 DEF Together

\* Nothing that a step leaves alone comes apart.
LEMMA TogetherKept ==
    ASSUME Together, UNCHANGED <<files, manifest, created>>, Live' \subseteq Live
    PROVE  Together'
<1>1. \A b, c : Pair(b, c)' <=> Pair(b, c)
  BY DEF Pair
<1>2. QED  BY <1>1 DEF Together, Beside, Apart, Everything, Journals

\* Closing leaves fewer live; a journal that is folded leaves its database not live.
LEMMA ClosedLive ==
    ASSUME TypeOK, NEW p \in Openers, Close(p)
    PROVE  /\ Live' \subseteq Live
           /\ connected[p] # 0 /\ Folds(p) => Live' \subseteq Live \ {connected[p]}
<1>1. connected' = [connected EXCEPT ![p] = 0] /\ hot' \subseteq hot
  BY Closed
<1>2. Live' \subseteq Live
  BY <1>1 DEF Live, TypeOK
<1>3. ASSUME connected[p] # 0, Folds(p) PROVE connected[p] \notin Live'
  <2>1. hot' = hot \ {connected[p]}
    BY <1>3, Closed
  <2>2. \A q \in Openers : connected'[q] # connected[p]
    BY <1>1, <1>3 DEF Folds, TypeOK
  <2>3. QED  BY <2>1, <2>2 DEF Live
<1>4. QED  BY <1>2, <1>3

LEMMA ClosedTogether ==
    ASSUME TypeOK, TypeOK', Together, UNCHANGED <<manifest, created>>,
           NEW p \in Openers, Close(p)
    PROVE  Together'
<1>1. CASE ~(connected[p] # 0 /\ Folds(p))
  BY <1>1, Closed, ClosedLive, TogetherKept
<1>2. CASE connected[p] # 0 /\ Folds(p)
  <2> DEFINE d0 == connected[p]
  <2>1. files[0][Db] = d0 /\ d0 # 0 /\ Live' \subseteq Live \ {d0}
    BY <1>2, ClosedLive DEF Folds
  <2>2. \A b \in Bases, k \in Parts :
           files'[b][k] = IF b = 0 /\ k \in Sidecars THEN 0 ELSE files[b][k]
    BY <1>2, Closed
  <2>3. \A b, c : Pair(b, c)' <=> Pair(b, c)
    BY DEF Pair
  <2>4. \A b \in Bases : files'[b][Db] = files[b][Db]
    BY <2>2, Bounds
  <2> HIDE DEF d0
  <2>5. Beside'
    BY <2>2, <2>3, <2>4, Bounds DEF Together, Beside
  <2>6. Apart' /\ Everything'
    BY <2>3, <2>4 DEF Together, Apart, Everything
  <2>7. Journals'
    <3> SUFFICES ASSUME NEW d \in Live' PROVE \E b \in Bases : files'[b][Wal] = d
      BY DEF Journals
    <3>1. PICK b \in Bases : files[b][Wal] = d
      BY <2>1 DEF Together, Journals
    <3>2. d # d0 /\ d # 0
      BY <2>1, LiveType, Bounds
    <3>3. PICK c \in Bases : Pair(b, c) /\ files[c][Db] = d
      BY <3>1, <3>2, Bounds DEF Together, Beside
    <3>4. b # 0
      BY <2>1, <3>2, <3>3, Bounds DEF Together, Apart
    <3>5. QED  BY <2>2, <3>1, <3>4, Bounds
  <2>8. QED  BY <2>4, <2>5, <2>6, <2>7, Bounds DEF Together, TypeOK
<1>3. QED  BY <1>1, <1>2

\* A file moves from one of the two names to the other.
LEMMA MovedTogether ==
    ASSUME TypeOK, TypeOK', Together, manifest # 0,
           UNCHANGED <<manifest, created, hot, connected>>,
           NEW from \in {0, manifest}, NEW to \in {0, manifest}, from # to,
           NEW k \in Parts, FilesMove(from, to, k)
    PROVE  Together'
<1>1. PICK e \in Databases :
         /\ files[0][Db] = e \/ files[manifest][Db] = e
         /\ \A b \in {0, manifest}, j \in Parts : files[b][j] \in {0, e}
  BY OnePair
<1>2. Live' \subseteq Live
  BY DEF Live
<1>3. manifest \in Bases /\ 0 \in Bases /\ e # 0
  BY Bounds DEF TypeOK
<1>4. files'[0][Db] = e \/ files'[manifest][Db] = e
  BY <1>1, <1>3, Bounds DEF FilesMove
<1>5. \A b \in {0, manifest}, j \in Parts : files'[b][j] \in {0, e}
  BY <1>1, <1>3 DEF FilesMove
<1>6. \A b \in Bases \ {0, manifest}, j \in Parts : files'[b][j] = files[b][j]
  BY DEF FilesMove
<1>7. files[0][Wal] = e \/ files[manifest][Wal] = e
         => files'[0][Wal] = e \/ files'[manifest][Wal] = e
  BY <1>1, <1>3, Bounds DEF FilesMove
<1>8. QED  BY <1>1, <1>2, <1>4, <1>5, <1>6, <1>7, PairStep

\* A file is linked at, or unlinked from, one of the two names.
LEMMA SetTogether ==
    ASSUME TypeOK, TypeOK', Together, manifest # 0,
           UNCHANGED <<manifest, created, hot, connected>>,
           NEW a \in {0, manifest}, NEW o \in {0, manifest}, a # o,
           NEW k \in Parts, NEW d, FileIs(a, k, d),
           \/ files[o][k] # 0 /\ d \in {0, files[o][k]}
           \/ /\ d = 0 /\ files[o][Db] # 0
              /\ files[o][Db] \in Live => files[o][Wal] = files[o][Db]
    PROVE  Together'
<1>1. PICK e \in Databases :
         /\ files[0][Db] = e \/ files[manifest][Db] = e
         /\ \A b \in {0, manifest}, j \in Parts : files[b][j] \in {0, e}
  BY OnePair
<1>2. Live' = Live
  BY DEF Live
<1>3. manifest \in Bases /\ 0 \in Bases /\ e # 0
  BY Bounds DEF TypeOK
<1>4. \A b \in {0, manifest} :
         files[b][k] \in {0, e} /\ files[b][Db] \in {0, e} /\ files[b][Wal] \in {0, e}
  BY <1>1, Bounds
<1>5. /\ \A b \in Bases \ {a}, j \in Parts : files'[b][j] = files[b][j]
      /\ \A j \in Parts : files'[a][j] = IF j = k THEN d ELSE files[a][j]
  BY <1>3 DEF FileIs
<1>6. d \in {0, e}
  BY <1>4
<1>7. files'[0][Db] = e \/ files'[manifest][Db] = e
  BY <1>1, <1>3, <1>4, <1>5, Bounds
<1>8. \A b \in {0, manifest}, j \in Parts : files'[b][j] \in {0, e}
  BY <1>1, <1>3, <1>5, <1>6
<1>9. \A b \in Bases \ {0, manifest}, j \in Parts : files'[b][j] = files[b][j]
  BY <1>5
<1>10. (files[0][Wal] = e \/ files[manifest][Wal] = e) /\ e \in Live'
         => files'[0][Wal] = e \/ files'[manifest][Wal] = e
  BY <1>2, <1>3, <1>4, <1>5, Bounds
<1>11. QED  BY <1>1, <1>2, <1>7, <1>8, <1>9, <1>10, PairStep

\* Without a manifest every file lies with its own database.
LEMMA Settled0 ==
    ASSUME TypeOK, Together, manifest = 0
    PROVE  /\ \A b \in Bases, k \in Sidecars : files[b][k] # 0 => files[b][Db] = files[b][k]
           /\ \A b, c \in Bases : files[b][Db] # 0 /\ files[c][Db] = files[b][Db] => b = c
           /\ \A d \in Live : \E b \in Bases : files[b][Wal] = d /\ files[b][Db] = d
<1>1. \A b, c : Pair(b, c) <=> b = c
  BY DEF Pair
<1>2. \A b \in Bases, k \in Sidecars : files[b][k] # 0 => files[b][Db] = files[b][k]
  BY <1>1 DEF Together, Beside
<1>3. \A b, c \in Bases : files[b][Db] # 0 /\ files[c][Db] = files[b][Db] => b = c
  BY <1>1 DEF Together, Apart
<1>4. \A d \in Live : \E b \in Bases : files[b][Wal] = d /\ files[b][Db] = d
  BY <1>2, LiveType, Bounds DEF Together, Journals
<1>5. QED  BY <1>2, <1>3, <1>4

LEMMA ConnectTogether ==
    ASSUME TypeOK, TypeOK', Together, Numbered, manifest = 0, holder \in Openers, Connect
    PROVE  Together'
<1>1. PICK d \in Databases :
         /\ d = IF files[0][Db] = 0 THEN created + 1 ELSE files[0][Db]
         /\ created' = IF files[0][Db] = 0 THEN d ELSE created
         /\ \A c \in Bases, j \in Parts :
               files'[c][j] = IF c = 0 /\ (j = Db \/ files[0][j] = 0) THEN d ELSE files[c][j]
         /\ connected' = [connected EXCEPT ![holder] = d]
  BY ConnectShape
<1>2. manifest' = 0 /\ hot' = hot
  BY ConnectFrame DEF TypeOK
<1>3. \A k \in Sidecars : files[0][k] \in {0, d}
  BY <1>1, Settled0, Bounds
<1>4. /\ \A k \in Parts : files'[0][k] = d
      /\ \A b \in Bases \ {0}, k \in Parts : files'[b][k] = files[b][k]
  BY <1>1, <1>3, Bounds
<1>5. \A b \in Bases \ {0} : files[b][Db] # d
  <2>1. CASE files[0][Db] = 0
    BY <1>1, <2>1, Bounds DEF Numbered, TypeOK, Databases
  <2>2. CASE files[0][Db] # 0
    BY <1>1, <2>2, Settled0, Bounds
  <2>3. QED  BY <2>1, <2>2
<1>6. \A b \in Bases, k \in Sidecars : files'[b][k] # 0 => files'[b][Db] = files'[b][k]
  BY <1>4, Settled0, Bounds
<1>7. \A b, c \in Bases : files'[b][Db] # 0 /\ files'[c][Db] = files'[b][Db] => b = c
  BY <1>4, <1>5, Settled0, Bounds
<1>8. Everything'
  <2> SUFFICES ASSUME NEW x \in 1..created' PROVE \E b \in Bases : files'[b][Db] = x
    BY DEF Everything
  <2>1. CASE x = d
    BY <1>4, <2>1, Bounds
  <2>2. CASE x # d
    <3>1. x \in 1..created
      BY <1>1, <2>2, PreservationAssumption DEF TypeOK
    <3>2. PICK b \in Bases : files[b][Db] = x
      BY <3>1 DEF Together, Everything
    <3>3. x # 0
      BY <3>1
    <3>4. b # 0
      BY <1>1, <2>2, <3>2, <3>3
    <3>5. QED  BY <1>4, <3>2, <3>4, Bounds
  <2>3. QED  BY <2>1, <2>2
<1>9. Journals'
  <2> SUFFICES ASSUME NEW x \in Live' PROVE \E b \in Bases : files'[b][Wal] = x
    BY DEF Journals
  <2>1. CASE x = d
    BY <1>4, <2>1, Bounds
  <2>2. CASE x # d
    <3>1. x \in Live
      BY <1>1, <1>2, <2>2 DEF Live, TypeOK
    <3>2. PICK b \in Bases : files[b][Wal] = x
      BY <3>1 DEF Together, Journals
    <3>3. x # 0
      BY <3>1, LiveType, Bounds
    <3>4. b # 0
      BY <1>3, <2>2, <3>2, <3>3, Bounds
    <3>5. QED  BY <1>4, <3>2, <3>4, Bounds
  <2>3. QED  BY <2>1, <2>2
<1>10. \A b, c : Pair(b, c)' <=> b = c
  BY <1>2 DEF Pair
<1>11. QED
  BY ONLY <1>2, <1>6, <1>7, <1>8, <1>9, <1>10 DEF Together, Beside, Apart

\* The manifest goes when one of the two names has everything.
LEMMA ClearTogether ==
    ASSUME TypeOK, TypeOK', Together, Moving, Emptied, Standing, ClearManifest
    PROVE  Together'
<1>1. /\ op.pc = "clearing" /\ manifest # 0 /\ manifest' = 0
      /\ UNCHANGED <<files, created, hot, connected>>
  BY DEF ClearManifest, Standing, data
<1>2. PICK e \in Databases :
         /\ files[0][Db] = e \/ files[manifest][Db] = e
         /\ \A b \in {0, manifest}, k \in Parts : files[b][k] \in {0, e}
  BY <1>1, OnePair
<1>3. (\A k \in Parts : files[manifest][k] = 0) \/ (\A k \in Parts : files[0][k] = 0)
  BY <1>1 DEF Moving, Emptied
<1>4. \A b, c : Pair(b, c) <=> b = c \/ {b, c} \subseteq {0, manifest}
  BY <1>1 DEF Pair
<1>5. \A b \in Bases, k \in Sidecars : files'[b][k] # 0 => files'[b][Db] = files'[b][k]
  <2> SUFFICES ASSUME NEW b \in Bases, NEW k \in Sidecars, files[b][k] # 0
               PROVE  files[b][Db] = files[b][k]
    BY <1>1
  <2>1. CASE b \in {0, manifest}
    BY <1>2, <1>3, <2>1, Bounds
  <2>2. CASE b \notin {0, manifest}
    BY <1>4, <2>2 DEF Together, Beside
  <2>3. QED  BY <2>1, <2>2
<1>6. \A b, c \in Bases : files'[b][Db] # 0 /\ files'[c][Db] = files'[b][Db] => b = c
  BY <1>1, <1>3, <1>4, Bounds DEF Together, Apart
<1>7. Everything' /\ Journals'
  BY <1>1 DEF Together, Everything, Journals, Live
<1>8. \A b, c : Pair(b, c)' <=> b = c
  BY <1>1 DEF Pair
<1>9. QED
  BY ONLY <1>1, <1>5, <1>6, <1>7, <1>8 DEF Together, Beside, Apart

\* If no name is free, there are more databases than names of backups.
LEMMA NamesRunOut ==
    ASSUME TypeOK, Together, Numbered, manifest = 0, files[0][Db] # 0,
           \A b \in Backups : \E k \in Parts : files[b][k] # 0
    PROVE  created > BackupNames
<1>1. \A b \in Bases : files[b][Db] # 0
  BY Settled0, Bounds
<1>2. created \in Nat /\ BackupNames \in Nat
  BY PreservationAssumption DEF TypeOK
<1>3. \A b \in Bases : files[b][Db] \in 1..created
  BY <1>1, <1>2, Bounds DEF TypeOK, Numbered, Databases
<1>4. SUFFICES ASSUME created <= BackupNames PROVE FALSE
  BY <1>2
<1>5. IsFiniteSet(0..BackupNames) /\ Cardinality(0..BackupNames) = BackupNames + 1
  BY <1>2, FS_Interval
<1>6. IsFiniteSet(1..created) /\ Cardinality(1..created) = created
  BY <1>2, FS_Interval
<1>7. Cardinality(1..created) < Cardinality(Bases) /\ IsFiniteSet(Bases)
  BY <1>2, <1>4, <1>5, <1>6 DEF Bases
<1> DEFINE f == [b \in Bases |-> files[b][Db]]
<1>8. f \in [Bases -> 1..created]
  BY <1>3
<1> HIDE DEF f
<1>9. \E b, c \in Bases : b # c /\ f[b] = f[c]
  BY ONLY <1>6, <1>7, <1>8, FS_PigeonHole, Zenon
<1>10. QED  BY <1>1, <1>9, Settled0 DEF f

\* The manifest is written: a free name joins the base name, or none is left.
LEMMA IntendSafe ==
    ASSUME TypeOK, TypeOK', Together, Numbered, Standing, Worthy, Intend
    PROVE  Wedged' \/ (Together' /\ Moving')
<1>1. /\ op.pc = "intending" /\ manifest = 0 /\ manifest' = FreeBackup
      /\ files[0][Db] # 0
      /\ op'.pc = "linking" /\ op'.moves = Present /\ op'.todo = Present
      /\ UNCHANGED <<files, created, hot, connected>>
  BY DEF Intend, Standing, Worthy, data, TypeOK, Operation
<1>2. FreeBackup \in Backups /\ FreeBackup # 0 /\ FreeBackup \in Bases
  BY FreeBackupType, Bounds
<1>3. Db \in Present
  BY <1>1, Bounds DEF Present
<1> DEFINE free == {b \in Backups : \A k \in Parts : files[b][k] = 0}
<1>4. CASE free = {}
  <2>1. created > BackupNames
    BY <1>1, <1>4, NamesRunOut
  <2>2. files[FreeBackup][Db] # 0
    BY <1>1, <1>2, <1>4, Settled0, Bounds
  <2>3. files[FreeBackup][Db] # files[0][Db]
    BY <1>1, <1>2, Settled0, Bounds
  <2>4. QED  BY ONLY <1>1, <1>2, <1>3, <2>1, <2>2, <2>3 DEF Wedged
<1>5. CASE free # {}
  <2> DEFINE f == FreeBackup
  <2>1. \A k \in Parts : files[f][k] = 0
    BY <1>5, FirstBackup DEF FreeBackup
  <2> HIDE DEF f
  <2>2. \A b, c : Pair(b, c)' <=> b = c \/ {b, c} \subseteq {0, f}
    BY <1>1, <1>2 DEF Pair, f
  <2>3. \A b, c : Pair(b, c) <=> b = c
    BY <1>1 DEF Pair
  <2>4. Beside'
    BY <1>1, <2>2, <2>3 DEF Together, Beside
  <2>5. Apart'
    BY <1>1, <2>1, <2>2, <2>3, Bounds DEF Together, Apart
  <2>6. Everything' /\ Journals'
    BY <1>1 DEF Together, Everything, Journals, Live
  <2>7. Together'
    BY ONLY <1>1, <2>4, <2>5, <2>6 DEF Together
  <2>8. files[0][Db] \in Live => files[0][Wal] = files[0][Db]
    BY <1>1, Settled0, Bounds
  <2>9. Live' = Live
    BY <1>1 DEF Live
  <2>10. Moving'
    BY ONLY <1>1, <1>3, <2>8, <2>9 DEF Moving, Linked
  <2>11. QED  BY <2>7, <2>10
<1>6. QED  BY <1>4, <1>5

-----------------------------------------------------------------------------
(* Nothing is lost: every step. *)

\* A step that leaves the files alone and comes to a point without a claim.
LEMMA MovingElsewhere ==
    op'.pc \notin {"linking", "unwinding", "unlinking", "settling", "returning", "clearing"}
       => Moving'
BY DEF Moving

LEMMA SafeOpen ==
    ASSUME TypeOK, TypeOK', Busy, Standing, Emptied, Numbered, Worthy, Together, Moving,
           holder \in Openers, OpenStep
    PROVE  Wedged' \/ (Together' /\ Moving')
<1>0. op \in Operation /\ files \in Files
  BY DEF TypeOK, Files
<1>1. CASE Reconcile
  <2>1. Together'
    BY <1>1, TogetherKept DEF Reconcile, data, Live
  <2>2. Moving'
    <3>1. /\ UNCHANGED <<files, manifest>>
          /\ \/ Onward("connecting", op.todo)
             \/ Onward("settling", Parts) /\ files[manifest][Db] # 0
             \/ Onward("returning", Sidecars) /\ files[manifest][Db] = 0
      BY <1>0, <1>1, OnwardShape DEF Reconcile
    <3>2. QED  BY ONLY <3>1 DEF Moving, Onward
  <2>3. QED  BY <2>1, <2>2
<1>2. CASE SettleNext
  <2>1. Together'
    <3>1. PICK k \in Parts : FilesMove(0, manifest, k)
      BY <1>2, SettleShape
    <3>2. manifest # 0 /\ UNCHANGED <<manifest, created, hot, connected>>
      BY <1>2, SettleShape, MoveFrame DEF Standing
    <3>3. QED  BY <3>1, <3>2, MovedTogether
  <2>2. Moving'
    <3>1. PICK k \in Parts : /\ FilesMove(0, manifest, k)
                             /\ Onward("settling", op.todo \ {k})
      BY <1>2, SettleShape
    <3>2. op.pc = "settling" /\ manifest # 0 /\ manifest' = manifest /\ manifest \in Bases
      BY <1>2, SettleShape, MoveFrame DEF Standing, TypeOK, Bases, Backups
    <3>3. files[manifest][Db] # 0 => files'[manifest][Db] # 0
      BY <3>1, <3>2, Bounds DEF FilesMove
    <3>4. QED  BY ONLY Moving, <3>1, <3>2, <3>3 DEF Moving, Onward
  <2>3. QED  BY <2>1, <2>2
<1>3. CASE ReturnNext
  <2>1. Together'
    <3>1. PICK k \in Parts : FilesMove(manifest, 0, k)
      BY <1>3, ReturnShape
    <3>2. manifest # 0 /\ UNCHANGED <<manifest, created, hot, connected>>
      BY <1>3, ReturnShape, MoveFrame DEF Standing
    <3>3. QED  BY <3>1, <3>2, MovedTogether
  <2>2. Moving'
    <3>1. PICK k \in op.todo : /\ k \in Parts /\ FilesMove(manifest, 0, k)
                               /\ Onward("returning", op.todo \ {k})
      BY <1>3, ReturnShape
    <3>2. /\ op.pc = "returning" /\ manifest # 0 /\ manifest' = manifest /\ manifest \in Bases
          /\ op.todo \subseteq Sidecars
      BY <1>3, ReturnShape, MoveFrame DEF Standing, TypeOK, Bases, Backups
    <3>3. k # Db
      BY <3>1, <3>2, Bounds
    <3>4. /\ \A j \in Parts : j # k => files'[manifest][j] = files[manifest][j]
          /\ files'[manifest][k] = 0
      BY <3>1, <3>2 DEF FilesMove
    <3>5. files'[manifest][Db] = 0 /\ \A j \in Sidecars \ op'.todo : files'[manifest][j] = 0
      BY <3>1, <3>2, <3>3, <3>4, Bounds DEF Moving, Onward
    <3>6. QED  BY ONLY <3>1, <3>2, <3>5 DEF Moving, Onward
  <2>3. QED  BY <2>1, <2>2
<1>4. CASE Settled
  <2>1. Together'
    BY <1>4, TogetherKept DEF Settled, data, Live
  <2>2. Moving'
    <3>1. /\ op.pc \in {"settling", "returning"} /\ op.todo = {} /\ manifest # 0
          /\ UNCHANGED <<files, manifest>> /\ op'.pc = "clearing"
          /\ op'.record = IF op.pc = "settling" THEN manifest ELSE 0
      BY <1>0, <1>4 DEF Settled, Operation, Standing
    <3>2. QED  BY ONLY Moving, <3>1, Bounds DEF Moving
  <2>3. QED  BY <2>1, <2>2
<1>5. CASE CannotSettle
  <2>1. Together'
    BY <1>5, ClosedTogether DEF CannotSettle, Refuse
  <2>2. Moving'
    BY <1>5, MovingElsewhere DEF CannotSettle, Refuse, NoOperation
  <2>3. QED  BY <2>1, <2>2
<1>6. CASE ClearManifest
  <2>1. Together'
    BY <1>6, ClearTogether
  <2>2. Moving'
    BY <1>0, <1>6, OnwardShape, MovingElsewhere DEF ClearManifest, Onward
  <2>3. QED  BY <2>1, <2>2
<1>7. CASE GoOn
  <2>1. Together'
    BY <1>7, TogetherKept DEF GoOn, data, Live
  <2>2. Moving'
    BY <1>0, <1>7, OnwardShape, MovingElsewhere DEF GoOn, Onward
  <2>3. QED  BY <2>1, <2>2
<1>8. CASE GiveUp
  <2>1. Together'
    BY <1>8, ClosedTogether DEF GiveUp, Refuse
  <2>2. Moving'
    BY <1>8, MovingElsewhere DEF GiveUp, Refuse, NoOperation
  <2>3. QED  BY <2>1, <2>2
<1>9. CASE Connect
  <2>1. Together'
    BY <1>0, <1>9, ConnectFrame, ConnectTogether DEF Standing
  <2>2. Moving'
    BY <1>0, <1>9, ConnectFrame, MovingElsewhere DEF Onward
  <2>3. QED  BY <2>1, <2>2
<1>10. CASE Classify
  <2>1. Together'
    BY <1>10, TogetherKept DEF Classify, Live
  <2>2. Moving'
    BY <1>0, <1>10, OnwardShape, MovingElsewhere DEF Classify, Onward
  <2>3. QED  BY <2>1, <2>2
<1>11. CASE OpenReturns
  <2>1. Together'
    <3>1. connected[holder] # 0
      BY <1>11 DEF OpenReturns, Busy
    <3>2. UNCHANGED <<files, manifest, created>> /\ Live' \subseteq Live
      BY <1>11, <3>1 DEF OpenReturns, Live
    <3>3. QED  BY <3>2, TogetherKept
  <2>2. Moving'
    BY <1>11, MovingElsewhere DEF OpenReturns, NoOperation
  <2>3. QED  BY <2>1, <2>2
<1>12. CASE CloseNewer
  <2>1. Together'
    BY <1>12, ClosedTogether DEF CloseNewer
  <2>2. Moving'
    BY <1>0, <1>12, OnwardShape, MovingElsewhere DEF CloseNewer, Onward
  <2>3. QED  BY <2>1, <2>2
<1>13. CASE Intend
  BY <1>13, IntendSafe
<1>14. CASE LinkNext
  <2>1. Together'
    <3>1. manifest # 0 /\ UNCHANGED <<manifest, created, hot, connected>> /\ Live' = Live
      BY <1>14, LinkShape, MoveFrame DEF Standing, Live
    <3>2. CASE files' = files
      BY <3>1, <3>2, TogetherKept
    <3>3. CASE files' # files
      <4>1. PICK k \in Parts : files[0][k] # 0 /\ FileIs(manifest, k, files[0][k])
        BY <1>14, <3>3, LinkShape
      <4>2. QED  BY <3>1, <4>1, SetTogether
    <3>4. QED  BY <3>2, <3>3
  <2>2. Moving'
    <3>1. /\ op.pc = "linking" /\ manifest # 0 /\ manifest' = manifest /\ manifest \in Bases
          /\ Live' = Live
      BY <1>14, LinkShape, MoveFrame DEF Standing, TypeOK, Bases, Backups, Live
    <3>2. PICK k \in op.todo :
             /\ k \in Parts
             /\ \/ /\ files[0][k] # 0
                   /\ FileIs(manifest, k, files[0][k])
                   /\ Onward("linking", op.todo \ {k})
                \/ files' = files /\ Onward("unwinding", op.moves \ op.todo)
      BY <1>14, LinkShape
    <3>3. \A j \in Parts : files'[0][j] = files[0][j]
      BY <3>1, <3>2, Bounds DEF FileIs
    <3>4. files'[0][Db] # 0 /\ (files'[0][Db] \in Live' => files'[0][Wal] = files'[0][Db])
      BY <3>1, <3>3, Bounds DEF Moving
    <3>5. ASSUME op'.pc = "linking"
          PROVE  Db \in op'.moves /\ \A j \in Linked' : files'[manifest][j] # 0
      <4>1. FileIs(manifest, k, files[0][k]) /\ files[0][k] # 0 /\ Onward("linking", op.todo \ {k})
        BY <3>2, <3>5 DEF Onward
      <4>2. Linked' \subseteq Linked \union {k} /\ Linked' \subseteq Parts
        BY <4>1 DEF Linked, Onward, TypeOK, Operation
      <4>3. QED  BY <3>1, <4>1, <4>2 DEF Moving, FileIs, Onward
    <3>6. QED  BY ONLY <3>1, <3>2, <3>4, <3>5 DEF Moving, Onward
  <2>3. QED  BY <2>1, <2>2
<1>15. CASE LinksRefused
  <2>1. Together'
    BY <1>15, TogetherKept DEF LinksRefused, data, Live
  <2>2. Moving'
    <3>1. Onward("reconciling", op.moves) \/ Onward("renaming", op.moves)
      BY <1>0, <1>15, OnwardShape DEF LinksRefused
    <3>2. QED  BY <3>1, MovingElsewhere DEF Onward
  <2>3. QED  BY <2>1, <2>2
<1>16. CASE AllLinked
  <2>1. Together'
    BY <1>16, TogetherKept DEF AllLinked, data, Live
  <2>2. Moving'
    <3>1. /\ op.pc = "linking" /\ op.todo = {} /\ Onward("unlinking", op.moves)
          /\ UNCHANGED <<files, manifest>>
      BY <1>0, <1>16, OnwardShape DEF AllLinked
    <3>2. QED  BY ONLY Moving, <3>1 DEF Moving, Onward, Linked
  <2>3. QED  BY <2>1, <2>2
<1>17. CASE UnlinkNext
  <2>1. Together'
    <3>1. manifest # 0 /\ UNCHANGED <<manifest, created, hot, connected>> /\ Live' = Live
      BY <1>17, UnlinkShape, MoveFrame DEF Standing, Live
    <3>2. CASE files' = files
      BY <3>1, <3>2, TogetherKept
    <3>3. CASE files' # files
      <4>1. PICK k \in op.todo : k \in Parts /\ FileIs(0, k, 0)
        BY <1>17, <3>3, UnlinkShape
      <4>2. files[manifest][k] # 0
        BY <1>17, <4>1, UnlinkShape DEF Moving, Standing
      <4>3. QED  BY <3>1, <4>1, <4>2, SetTogether
    <3>4. QED  BY <3>2, <3>3
  <2>2. Moving'
    <3>1. /\ op.pc = "unlinking" /\ manifest # 0 /\ manifest' = manifest /\ manifest \in Bases
          /\ op.moves \subseteq Parts
      BY <1>17, UnlinkShape, MoveFrame DEF Standing, TypeOK, Bases, Backups, Operation
    <3>2. \A j \in Parts : files'[manifest][j] = files[manifest][j]
      BY <1>17, <3>1, UnlinkShape DEF FileIs
    <3>3. (op'.pc = "unlinking" \/ op'.pc = "reconciling") /\ op'.moves = op.moves
      BY <1>17, UnlinkShape DEF Onward
    <3>4. QED  BY ONLY Moving, <3>1, <3>2, <3>3 DEF Moving
  <2>3. QED  BY <2>1, <2>2
<1>18. CASE RenameNext
  <2>1. Together'
    <3>1. manifest # 0 /\ UNCHANGED <<manifest, created, hot, connected>> /\ Live' = Live
      BY <1>18, RenameShape, MoveFrame DEF Standing, Live
    <3>2. CASE files' = files
      BY <3>1, <3>2, TogetherKept
    <3>3. CASE files' # files
      <4>1. PICK k \in Parts : FilesMove(0, manifest, k)
        BY <1>18, <3>3, RenameShape
      <4>2. QED  BY <3>1, <4>1, MovedTogether
    <3>4. QED  BY <3>2, <3>3
  <2>2. Moving'
    BY <1>18, RenameShape, MovingElsewhere DEF Onward
  <2>3. QED  BY <2>1, <2>2
<1>19. CASE UnwindNext
  <2>1. Together'
    <3>1. manifest # 0 /\ UNCHANGED <<manifest, created, hot, connected>>
      BY <1>19, UnwindShape, MoveFrame DEF Standing
    <3>2. PICK k \in Parts : FileIs(manifest, k, 0)
      BY <1>19, UnwindShape
    <3>3. files[0][Db] # 0 /\ (files[0][Db] \in Live => files[0][Wal] = files[0][Db])
      BY <1>19, UnwindShape DEF Moving
    <3>4. QED  BY <3>1, <3>2, <3>3, SetTogether
  <2>2. Moving'
    <3>1. /\ op.pc = "unwinding" /\ manifest # 0 /\ manifest' = manifest /\ Live' = Live
          /\ op'.pc = "unwinding"
      BY <1>19, UnwindShape, MoveFrame DEF Standing, Live, Onward
    <3>2. \A j \in Parts : files'[0][j] = files[0][j]
      BY <1>19, <3>1, UnwindShape, Bounds DEF FileIs
    <3>3. QED  BY <3>1, <3>2, Bounds DEF Moving
  <2>3. QED  BY <2>1, <2>2
<1>20. CASE MovesEnd
  <2>1. Together'
    BY <1>20, TogetherKept DEF MovesEnd, data, Live
  <2>2. Moving'
    BY <1>0, <1>20, OnwardShape, MovingElsewhere DEF MovesEnd, Onward
  <2>3. QED  BY <2>1, <2>2
<1>21. QED
  BY <1>1, <1>2, <1>3, <1>4, <1>5, <1>6, <1>7, <1>8, <1>9, <1>10, <1>11, <1>12, <1>13,
     <1>14, <1>15, <1>16, <1>17, <1>18, <1>19, <1>20 DEF OpenStep

LEMMA SafeFaulty ==
    ASSUME TypeOK, TypeOK', Busy, Standing, Together, Moving, holder \in Openers, Faulty
    PROVE  Together' /\ Moving'
<1>0. op \in Operation
  BY DEF TypeOK
<1>1. CASE Misread
  <2>1. Together'
    BY <1>1, TogetherKept DEF Misread, data, Live
  <2>2. Moving'
    BY <1>0, <1>1, OnwardShape, MovingElsewhere DEF Misread, Onward
  <2>3. QED  BY <2>1, <2>2
<1>2. CASE CheckpointFails
  <2>1. Together'
    <3>1. CASE Close(holder)
      BY <1>2, <3>1, ClosedTogether DEF CheckpointFails
    <3>2. CASE connected' = [connected EXCEPT ![holder] = 0] /\ UNCHANGED <<files, hot>>
      <4>1. Live' \subseteq Live
        BY <3>2 DEF Live, TypeOK
      <4>2. QED  BY <1>2, <3>2, <4>1, TogetherKept DEF CheckpointFails
    <3>3. QED  BY <1>2, <3>1, <3>2 DEF CheckpointFails
  <2>2. Moving'
    BY <1>0, <1>2, MovingElsewhere DEF CheckpointFails, Operation
  <2>3. QED  BY <2>1, <2>2
<1>3. CASE OpenFails
  <2>1. Together'
    BY <1>3, ClosedTogether DEF OpenFails, Refuse
  <2>2. Moving'
    BY <1>3, MovingElsewhere DEF OpenFails, Refuse, NoOperation
  <2>3. QED  BY <2>1, <2>2
<1>4. CASE MoveFails
  <2>1. Together'
    BY <1>4, TogetherKept DEF MoveFails, data, Live
  <2>2. Moving'
    <3>1. UNCHANGED <<files, manifest>> /\ Live' = Live
      BY <1>4 DEF MoveFails, Live, data
    <3>2. (op.pc = "linking" /\ Onward("unwinding", Linked)) \/ Onward("reconciling", op.todo)
      BY <1>0, <1>4, OnwardShape DEF MoveFails
    <3>3. QED  BY ONLY Moving, <3>1, <3>2 DEF Moving, Onward
  <2>3. QED  BY <2>1, <2>2
<1>5. QED
  BY <1>1, <1>2, <1>3, <1>4 DEF Faulty

LEMMA SafeOthers ==
    ASSUME TypeOK, TypeOK', Busy, Standing, Together, Moving, NEW p \in Openers,
           (\E build \in Builds : Acquire(p, build)) \/ Write(p) \/ Disconnect(p) \/ Killed(p)
    PROVE  Together' /\ Moving'
<1>1. ASSUME NEW build \in Builds, Acquire(p, build) PROVE Together' /\ Moving'
  BY <1>1, TogetherKept, MovingElsewhere DEF Acquire, NoOperation, data, Live
<1>2. CASE Write(p)
  <2>1. Together'
    <3>1. Live' \subseteq Live
      BY <1>2 DEF Write, Live
    <3>2. QED  BY <1>2, <3>1, TogetherKept DEF Write, data
  <2>2. Moving'
    <3>1. Live' = Live /\ UNCHANGED <<files, manifest, op>>
      BY <1>2 DEF Write, Live
    <3>2. QED  BY ONLY Moving, <3>1 DEF Moving, Linked
  <2>3. QED  BY <2>1, <2>2
<1>3. CASE Disconnect(p)
  <2>1. Together'
    BY <1>3, ClosedTogether DEF Disconnect
  <2>2. Moving'
    <3>1. /\ UNCHANGED <<manifest, op>> /\ Live' \subseteq Live
          /\ \A b \in Backups, k \in Parts : files'[b][k] = files[b][k]
          /\ files'[0][Db] = files[0][Db]
      BY <1>3, Closed, ClosedLive, Bounds DEF Disconnect
    <3>2. files[0][Db] \in Live' => files'[0][Wal] = files[0][Wal]
      BY <1>3, Closed, ClosedLive, Bounds DEF Disconnect, Folds
    <3>3. op.moves \subseteq Parts /\ manifest \in Backups \union {0}
      BY DEF TypeOK, Operation
    <3>4. op.pc \in {"linking", "unlinking", "settling", "returning", "clearing"} => manifest # 0
      BY DEF Standing
    <3>5. QED  BY <3>1, <3>2, <3>3, <3>4, Bounds DEF Moving, Linked
  <2>3. QED  BY <2>1, <2>2
<1>4. CASE Killed(p)
  <2>1. Together'
    <3>1. Live' \subseteq Live
      BY <1>4 DEF Killed, Live, TypeOK, data
    <3>2. QED  BY <1>4, <3>1, TogetherKept DEF Killed, data
  <2>2. Moving'
    <3>1. CASE p = holder
      BY <1>4, <3>1, MovingElsewhere DEF Killed, NoOperation
    <3>2. CASE p # holder
      <4>1. Live' \subseteq Live /\ UNCHANGED <<files, manifest, op>>
        BY <1>4, <3>2 DEF Killed, Live, TypeOK, data
      <4>2. QED  BY ONLY Moving, <4>1 DEF Moving, Linked
    <3>3. QED  BY <3>1, <3>2
  <2>3. QED  BY <2>1, <2>2
<1>5. QED
  BY <1>1, <1>2, <1>3, <1>4

-----------------------------------------------------------------------------
(* Out of names: the manifest stays, and nothing moves. *)

\* A step that moves no database and comes to one of the points of a refusal.
LEMMA WedgedKept ==
    ASSUME Wedged, UNCHANGED <<manifest, created>>,
           files'[0][Db] = files[0][Db], files'[manifest][Db] = files[manifest][Db],
           \/ op'.pc \in {"idle", "reconciling"}
           \/ op'.pc = "settling" /\ Db \in op'.todo
           \/ op'.pc = "unwinding" /\ op'.todo = {}
           \/ op' = op
    PROVE  Wedged'
BY DEF Wedged

LEMMA WedgedNext ==
    ASSUME TypeOK, Busy, Standing, Wedged, Next
    PROVE  Wedged'
<1>0. op \in Operation /\ manifest \in Bases /\ 0 \in Bases /\ Db \in Parts /\ Db \notin Sidecars
  BY Bounds DEF TypeOK
<1>1. op.pc \in {"idle", "reconciling", "linking", "unwinding", "settling"} /\ manifest # 0
  BY DEF Wedged
<1>2. ASSUME NEW p \in Openers, NEW build \in Builds, Acquire(p, build) PROVE Wedged'
  BY <1>2, WedgedKept DEF Acquire, NoOperation, data
<1>3. ASSUME NEW p \in Openers, Write(p) PROVE Wedged'
  BY <1>3, WedgedKept DEF Write
<1>4. ASSUME NEW p \in Openers, Close(p), UNCHANGED <<manifest, created>>,
             op'.pc = "idle" \/ op' = op
      PROVE  Wedged'
  BY <1>0, <1>4, Closed, WedgedKept
<1>5. ASSUME NEW p \in Openers, Disconnect(p) PROVE Wedged'
  BY <1>4, <1>5 DEF Disconnect
<1>6. ASSUME NEW p \in Openers, Killed(p) PROVE Wedged'
  BY <1>6, WedgedKept DEF Killed, NoOperation, data
<1>7. ASSUME op.pc # "idle", Refuse PROVE Wedged'
  BY <1>4, <1>7 DEF Refuse, NoOperation, Busy, TypeOK
<1>8. CASE OpenStep
  <2>1. CASE Reconcile
    <3>1. Onward("settling", Parts) /\ UNCHANGED <<files, manifest, created>>
      BY <1>0, <1>1, <2>1, OnwardShape DEF Reconcile, Wedged, data
    <3>2. QED  BY <1>0, <3>1, WedgedKept DEF Onward
  <2>2. CASE SettleNext
    <3>1. PICK k \in op.todo : /\ k \in Parts /\ ~Occupied(0, manifest, k)
                               /\ FilesMove(0, manifest, k)
                               /\ Onward("settling", op.todo \ {k})
      BY <2>2, SettleShape
    <3>2. op.pc = "settling" /\ UNCHANGED <<manifest, created>>
      BY <2>2, SettleShape, MoveFrame
    <3>3. k # Db
      BY <3>1 DEF Wedged, Occupied
    <3>4. files'[0][Db] = files[0][Db] /\ files'[manifest][Db] = files[manifest][Db]
      BY <1>0, <3>1, <3>3 DEF FilesMove
    <3>5. op'.pc = "settling" /\ Db \in op'.todo
      BY <3>1, <3>2, <3>3 DEF Wedged, Onward
    <3>6. QED  BY <3>2, <3>4, <3>5, WedgedKept
  <2>3. CASE CannotSettle \/ GiveUp
    BY <1>1, <1>7, <2>3 DEF CannotSettle, GiveUp
  <2>4. CASE LinkNext
    <3>1. op.pc = "linking" /\ Db \in op.todo /\ op.todo = op.moves /\ files[manifest][Db] # 0
      BY <2>4 DEF LinkNext, Wedged
    <3>2. files' = files /\ Onward("unwinding", op.moves \ op.todo)
      BY <2>4, <3>1, LinkShape
    <3>3. QED  BY <3>1, <3>2, <2>4, MoveFrame, WedgedKept DEF Onward
  <2>5. CASE LinksRefused
    <3>1. \E k \in op.moves : files[manifest][k] # 0
      BY <2>5 DEF LinksRefused, Wedged
    <3>2. Onward("reconciling", op.moves) /\ UNCHANGED <<files, manifest, created>>
      BY <1>0, <2>5, <3>1, OnwardShape DEF LinksRefused, data
    <3>3. QED  BY <3>2, WedgedKept DEF Onward
  <2>6. CASE MovesEnd
    <3>1. Onward("reconciling", op.todo) /\ UNCHANGED <<files, manifest, created>>
      BY <1>0, <2>6, OnwardShape DEF MovesEnd, data
    <3>2. QED  BY <3>1, WedgedKept DEF Onward
  <2>7. CASE ReturnNext \/ ClearManifest \/ GoOn \/ Connect \/ Classify \/ OpenReturns \/ CloseNewer
    BY <1>1, <2>7 DEF ReturnNext, ClearManifest, GoOn, Connect, Classify, OpenReturns, CloseNewer
  <2>8. CASE Intend \/ UnlinkNext \/ RenameNext
    BY <1>1, <2>8 DEF Intend, UnlinkNext, RenameNext
  <2>9. CASE Settled \/ AllLinked \/ UnwindNext
    BY <1>1, <2>9 DEF Settled, AllLinked, UnwindNext, Wedged
  <2>10. QED
    BY <1>8, <2>1, <2>2, <2>3, <2>4, <2>5, <2>6, <2>7, <2>8, <2>9 DEF OpenStep
<1>9. CASE Faulty
  <2>1. CASE OpenFails
    BY <1>7, <2>1 DEF OpenFails
  <2>2. CASE MoveFails
    <3>1. Onward("reconciling", op.todo)
      BY <1>0, <2>2, OnwardShape DEF MoveFails, Wedged, Linked
    <3>2. QED  BY <2>2, <3>1, WedgedKept DEF MoveFails, Onward, data
  <2>3. CASE Misread \/ CheckpointFails
    BY <1>1, <2>3 DEF Misread, CheckpointFails
  <2>4. QED  BY <1>9, <2>1, <2>2, <2>3 DEF Faulty
<1>10. QED
  BY <1>2, <1>3, <1>5, <1>6, <1>8, <1>9 DEF Next

-----------------------------------------------------------------------------
(* The invariant. *)

LEMMA InitInvariant == Init => TypeOK /\ IInv
<1> SUFFICES ASSUME Init PROVE TypeOK /\ IInv
  OBVIOUS
<1> USE Bounds, PreservationAssumption
<1>1. TypeOK
  BY NoOperationType DEF Init, TypeOK
<1>2. op.pc = "idle" /\ Live = {} /\ op.aside = FALSE /\ op.record = 0
  BY DEF Init, NoOperation, Live
<1>3. \A b \in Bases, k \in Parts : files[b][k] = 0
  BY DEF Init
<1>4. Busy /\ Standing /\ Emptied
  BY <1>2 DEF Init, Busy, Standing, Emptied
<1>5. Numbered
  BY <1>3 DEF Init, Numbered
<1>6. Worthy /\ Stamped
  BY <1>2, <1>3 DEF Init, Worthy, Stamped, NothingEmptyPreserved
<1>7. Together /\ Moving
  BY <1>2, <1>3 DEF Init, Together, Beside, Apart, Everything, Journals, Moving
<1>8. QED  BY <1>1, <1>4, <1>5, <1>6, <1>7 DEF IInv, Safe

\* Whoever is at work is a process.
LEMMA SomebodyAtWork ==
    ASSUME TypeOK, Busy, OpenStep \/ Faulty
    PROVE  holder \in Openers
<1>1. op.pc # "idle"
  BY DEF OpenStep, Reconcile, SettleNext, ReturnNext, Settled, CannotSettle, ClearManifest,
     GoOn, GiveUp, Connect, Classify, OpenReturns, CloseNewer, Intend, LinkNext, LinksRefused,
     AllLinked, UnlinkNext, RenameNext, UnwindNext, MovesEnd, Faulty, Misread,
     CheckpointFails, OpenFails, MoveFails
<1>2. QED  BY <1>1 DEF TypeOK, Busy

LEMMA TypeNext == TypeOK /\ Busy /\ Next => TypeOK'
BY OpenStepType, FaultyType, OthersType, SomebodyAtWork DEF Next

LEMMA IInvNext ==
    ASSUME TypeOK, IInv, Next
    PROVE  IInv'
<1>1. TypeOK'
  BY TypeNext DEF IInv
<1>2. CASE \E p \in Openers : \/ \E build \in Builds : Acquire(p, build)
                              \/ Write(p) \/ Disconnect(p) \/ Killed(p)
  <2>1. PICK p \in Openers : \/ \E build \in Builds : Acquire(p, build)
                             \/ Write(p) \/ Disconnect(p) \/ Killed(p)
    BY <1>2
  <2>2. Busy' /\ Standing' /\ Emptied' /\ Numbered' /\ Worthy' /\ Stamped'
    BY <1>1, <2>1, BusyOthers, StandingOthers, EmptiedOthers, NumberedOthers, WorthyOthers,
       StampedOthers DEF IInv
  <2>3. Safe'
    BY <1>1, <2>1, SafeOthers, WedgedNext DEF IInv, Safe
  <2>4. QED  BY <2>2, <2>3 DEF IInv
<1>3. CASE OpenStep
  <2>1. holder \in Openers
    BY <1>3, SomebodyAtWork DEF IInv
  <2>2. Busy' /\ Standing' /\ Emptied' /\ Numbered' /\ Worthy' /\ Stamped'
    BY <1>1, <1>3, <2>1, BusyOpen, StandingOpen, EmptiedOpen, NumberedOpen, WorthyOpen,
       StampedOpen DEF IInv
  <2>3. Safe'
    BY <1>1, <1>3, <2>1, SafeOpen, WedgedNext DEF IInv, Safe
  <2>4. QED  BY <2>2, <2>3 DEF IInv
<1>4. CASE Faulty
  <2>1. holder \in Openers
    BY <1>4, SomebodyAtWork DEF IInv
  <2>2. Busy' /\ Standing' /\ Emptied' /\ Numbered' /\ Worthy' /\ Stamped'
    BY <1>1, <1>4, <2>1, BusyFaulty, StandingFaulty, EmptiedFaulty, NumberedFaulty,
       WorthyFaulty, StampedFaulty DEF IInv
  <2>3. Safe'
    BY <1>1, <1>4, <2>1, SafeFaulty, WedgedNext DEF IInv, Safe
  <2>4. QED  BY <2>2, <2>3 DEF IInv
<1>5. QED  BY <1>2, <1>3, <1>4 DEF Next

LEMMA Stutter ==
    ASSUME TypeOK, IInv, UNCHANGED vars
    PROVE  TypeOK' /\ IInv'
<1> USE DEF vars
<1>1. TypeOK'
  BY DEF TypeOK
<1>2. Busy' /\ Standing' /\ Emptied' /\ Numbered'
  BY DEF IInv, Busy, Standing, Emptied, Numbered
<1>3. Worthy' /\ Stamped'
  BY DEF IInv, Worthy, NothingEmptyPreserved, Stamped
<1>4. Live' = Live /\ Linked' = Linked
  BY DEF Live, Linked
<1>5. Together => Together'
  BY <1>4, TogetherKept
<1>6. Moving => Moving'
  BY <1>4 DEF Moving
<1>7. Wedged => Wedged'
  BY DEF Wedged
<1>8. QED  BY <1>1, <1>2, <1>3, <1>5, <1>6, <1>7 DEF IInv, Safe

LEMMA Invariant == Spec => [](TypeOK /\ IInv)
<1>1. TypeOK /\ IInv /\ [Next]_vars => (TypeOK /\ IInv)'
  BY TypeNext, IInvNext, Stutter DEF IInv
<1>2. QED  BY InitInvariant, <1>1, PTL DEF Spec

\* Every variable keeps to its set.
THEOREM PreservationTypes == Spec => []TypeOK
BY Invariant, PTL

\* While there are names for the backups, no database inherits the journal of
\* another, wherever a move stops (preserve_aside, reconcile_pending_preserve).
THEOREM NothingInheritedHolds == Spec => []NothingInherited
<1>1. TypeOK /\ IInv => NothingInherited
  <2> SUFFICES ASSUME TypeOK, IInv, created <= BackupNames,
                      NEW b \in Bases, NEW k \in Sidecars, files[b][k] # 0, files[b][Db] # 0
               PROVE  files[b][k] = files[b][Db]
    BY DEF NothingInherited, NamesLeft
  <2>1. Together
    BY PreservationAssumption DEF IInv, Safe, Wedged, TypeOK
  <2>2. PICK c \in Bases : Pair(b, c) /\ files[c][Db] = files[b][k]
    BY <2>1 DEF Together, Beside
  <2>3. QED  BY <2>1, <2>2 DEF Together, Apart
<1>2. QED  BY Invariant, <1>1, PTL

\* Between moves every database that was ever written lies under one name, with
\* the transactions that only its journal holds.
THEOREM WholeHolds == Spec => []Whole
<1>1. TypeOK /\ IInv => Whole
  <2> SUFFICES ASSUME TypeOK, IInv, manifest = 0, NEW d \in Databases, version[d] # 0
               PROVE  \E b \in Bases :
                         /\ files[b][Db] = d
                         /\ d \in hot => files[b][Wal] = d
                         /\ \A c \in Bases \ {b}, k \in {Db, Wal} : files[c][k] # d
    BY DEF Whole
  <2>1. Together
    BY DEF IInv, Safe, Wedged
  <2>2. d \in 1..created
    BY PreservationAssumption DEF IInv, Numbered, TypeOK, Databases
  <2>3. PICK b \in Bases : files[b][Db] = d
    BY <2>1, <2>2 DEF Together, Everything
  <2>4. d # 0
    BY Bounds
  <2>5. d \in hot => files[b][Wal] = d
    BY <2>1, <2>3, <2>4, Settled0 DEF Live
  <2>6. \A c \in Bases \ {b} : files[c][Db] # d
    BY <2>1, <2>3, <2>4, Settled0
  <2>7. \A c \in Bases \ {b} : files[c][Wal] # d
    BY <2>1, <2>4, <2>6, Settled0, Bounds
  <2>8. QED  BY <2>3, <2>5, <2>6, <2>7
<1>2. QED  BY Invariant, <1>1, PTL

\* What is moved aside has tables: it is nobody's fresh database.
THEOREM NothingEmptyPreservedHolds == Spec => []NothingEmptyPreserved
BY Invariant, PTL DEF IInv, Worthy

\* As long as nothing has failed, a database has the tables of its version.
THEOREM ShapeKeptHolds == Spec => []ShapeKept
<1>1. IInv => ShapeKept
  BY DEF IInv, Stamped, ShapeKept
<1>2. QED  BY Invariant, <1>1, PTL

-----------------------------------------------------------------------------
(* Shelf: what a step does to the databases under their names. *)

\* A step that leaves the databases under their names does nothing to the shelf.
LEMMA ShelfKept ==
    (\A b \in Bases : files'[b][Db] = files[b][Db]) => UNCHANGED <<files[0][Db], OnShelf>>
BY Bounds DEF OnShelf

\* The database goes to the manifest's name.
LEMMA ShelfMove ==
    ASSUME TypeOK, Together, manifest # 0, FilesMove(0, manifest, Db)
    PROVE  Promise!Shelve \/ UNCHANGED <<files[0][Db], OnShelf>>
<1>1. manifest \in Backups /\ manifest \in Bases /\ 0 \in Bases
  BY Bounds DEF TypeOK
<1>2. CASE files[0][Db] = 0
  BY <1>2, ShelfKept, Bounds DEF FilesMove
<1>3. CASE files[0][Db] # 0
  <2>1. /\ files'[0][Db] = 0 /\ files'[manifest][Db] = files[0][Db]
        /\ \A b \in Backups \ {manifest} : files'[b][Db] = files[b][Db]
    BY <1>1, <1>3, Bounds DEF FilesMove
  <2>2. files[manifest][Db] \in {0, files[0][Db]}
    BY <1>1, <1>3 DEF Together, Apart, Pair
  <2>3. OnShelf' = OnShelf \union {files[0][Db]}
    BY <1>1, <1>3, <2>1, <2>2 DEF OnShelf
  <2>4. QED  BY <1>3, <2>1, <2>3 DEF Promise!Shelve
<1>4. QED  BY <1>2, <1>3

LEMMA ShelfConnect ==
    ASSUME TypeOK, Numbered, holder \in Openers, Connect
    PROVE  (\E d \in Databases : Promise!Start(d)) \/ UNCHANGED <<files[0][Db], OnShelf>>
<1>1. PICK d \in Databases :
         /\ d = IF files[0][Db] = 0 THEN created + 1 ELSE files[0][Db]
         /\ \A c \in Bases, j \in Parts :
               files'[c][j] = IF c = 0 /\ (j = Db \/ files[0][j] = 0) THEN d ELSE files[c][j]
  BY ConnectShape
<1>2. CASE files[0][Db] # 0
  BY <1>1, <1>2, ShelfKept, Bounds
<1>3. CASE files[0][Db] = 0
  <2>1. \A b \in Backups : files'[b][Db] = files[b][Db] /\ files[b][Db] # d
    BY <1>1, <1>3, Bounds, PreservationAssumption DEF Numbered, TypeOK, Databases
  <2>2. files'[0][Db] = d
    BY <1>1, Bounds
  <2>3. OnShelf' = OnShelf /\ d \notin OnShelf
    BY <1>3, <2>1, <2>2 DEF OnShelf
  <2>4. QED  BY <1>3, <2>2, <2>3 DEF Promise!Start
<1>4. QED  BY <1>2, <1>3

LEMMA ShelfLink ==
    ASSUME TypeOK, Standing, Together \/ Wedged, LinkNext
    PROVE  UNCHANGED <<files[0][Db], OnShelf>>
<1>1. PICK k \in op.todo :
         /\ k \in Parts
         /\ \/ /\ files[manifest][k] = 0
               /\ FileIs(manifest, k, files[0][k])
            \/ files' = files
  BY LinkShape
<1>2. manifest \in Backups /\ manifest \in Bases /\ manifest # 0
  BY LinkShape, Bounds DEF Standing, TypeOK
<1>3. CASE files' = files \/ k # Db
  BY <1>1, <1>3, ShelfKept, Bounds DEF FileIs
<1>4. CASE files[manifest][Db] = 0 /\ FileIs(manifest, Db, files[0][Db])
  <2>1. /\ files'[0][Db] = files[0][Db] /\ files'[manifest][Db] = files[0][Db]
        /\ \A b \in Backups \ {manifest} : files'[b][Db] = files[b][Db]
    BY <1>2, <1>4, Bounds DEF FileIs
  <2>2. QED  BY <1>2, <1>4, <2>1 DEF OnShelf
<1>5. QED  BY <1>1, <1>3, <1>4

LEMMA ShelfUnwind ==
    ASSUME TypeOK, Standing, Together, Moving, UnwindNext
    PROVE  UNCHANGED <<files[0][Db], OnShelf>>
<1>1. PICK k \in Parts : FileIs(manifest, k, 0)
  BY UnwindShape
<1>2. manifest \in Backups /\ manifest \in Bases /\ 0 \in Bases /\ manifest # 0 /\ files[0][Db] # 0
  BY UnwindShape, Bounds DEF Standing, TypeOK, Moving
<1>3. CASE k # Db
  BY <1>1, <1>3, ShelfKept, Bounds DEF FileIs
<1>4. CASE k = Db
  <2>1. files[manifest][Db] \in {0, files[0][Db]}
    BY <1>2 DEF Together, Apart, Pair
  <2>2. /\ files'[0][Db] = files[0][Db] /\ files'[manifest][Db] = 0
        /\ \A b \in Backups \ {manifest} : files'[b][Db] = files[b][Db]
    BY <1>1, <1>2, <1>4, Bounds DEF FileIs
  <2>3. QED  BY <1>2, <2>1, <2>2 DEF OnShelf
<1>5. QED  BY <1>3, <1>4

LEMMA ShelfUnlink ==
    ASSUME TypeOK, Standing, Together, Moving, UnlinkNext
    PROVE  Promise!Shelve \/ UNCHANGED <<files[0][Db], OnShelf>>
<1>1. CASE files' = files
  BY <1>1, ShelfKept
<1>2. CASE files' # files
  <2>1. PICK k \in op.todo : k \in Parts /\ files[0][k] # 0 /\ FileIs(0, k, 0)
    BY <1>2, UnlinkShape
  <2>2. manifest \in Backups /\ manifest \in Bases /\ 0 \in Bases /\ manifest # 0
    BY UnlinkShape, Bounds DEF Standing, TypeOK
  <2>3. CASE k # Db
    BY <2>1, <2>3, ShelfKept, Bounds DEF FileIs
  <2>4. CASE k = Db
    <3>1. files[manifest][Db] # 0
      BY UnlinkShape, <2>2 DEF Moving
    <3>2. files[manifest][Db] = files[0][Db]
      BY <2>1, <2>2, <2>4, <3>1 DEF Together, Apart, Pair
    <3>3. files'[0][Db] = 0 /\ \A b \in Backups : files'[b][Db] = files[b][Db]
      BY <2>1, <2>4, Bounds DEF FileIs
    <3>4. OnShelf' = OnShelf \union {files[0][Db]}
      BY <2>1, <2>2, <2>4, <3>2, <3>3 DEF OnShelf
    <3>5. QED  BY <2>1, <2>4, <3>3, <3>4 DEF Promise!Shelve
  <2>5. QED  BY <2>3, <2>4
<1>3. QED  BY <1>1, <1>2

\* Every step is one of Shelf's, or none.
LEMMA ShelfNext ==
    ASSUME TypeOK, IInv, Next
    PROVE  Promise!Next \/ UNCHANGED <<files[0][Db], OnShelf>>
<1> USE DEF IInv
<1>1. ASSUME NEW p \in Openers, Close(p) PROVE UNCHANGED <<files[0][Db], OnShelf>>
  BY <1>1, Closed, ShelfKept, Bounds
<1>2. CASE \E p \in Openers : \/ \E build \in Builds : Acquire(p, build)
                              \/ Write(p) \/ Disconnect(p) \/ Killed(p)
  BY <1>1, <1>2, ShelfKept DEF Acquire, Write, Disconnect, Killed
<1>3. CASE OpenStep \/ Faulty
  <2>0. holder \in Openers
    BY <1>3, SomebodyAtWork
  <2>1. CASE SettleNext
    <3>1. PICK k \in op.todo : /\ k \in Parts /\ ~Occupied(0, manifest, k)
                               /\ FilesMove(0, manifest, k)
      BY <2>1, SettleShape
    <3>2. op.pc = "settling" /\ manifest # 0
      BY <2>1, SettleShape DEF Standing
    <3>3. CASE k # Db
      BY <3>1, <3>3, ShelfKept, Bounds DEF FilesMove
    <3>4. CASE k = Db
      <4>1. Together
        BY <3>1, <3>4 DEF Safe, Wedged, Occupied
      <4>2. QED  BY <3>1, <3>2, <3>4, <4>1, ShelfMove DEF Promise!Next
    <3>5. QED  BY <3>3, <3>4
  <2>2. CASE ReturnNext
    <3>1. PICK k \in op.todo : k \in Parts /\ FilesMove(manifest, 0, k)
      BY <2>2, ReturnShape
    <3>2. k # Db
      BY <2>2, <3>1, ReturnShape, Bounds DEF Standing
    <3>3. QED  BY <3>1, <3>2, ShelfKept, Bounds DEF FilesMove
  <2>3. CASE RenameNext
    <3>1. Together /\ manifest # 0
      BY <2>3, RenameShape DEF Safe, Wedged, Standing
    <3>2. CASE files' = files
      BY <3>2, ShelfKept
    <3>3. CASE files' # files
      <4>1. PICK k \in Parts : FilesMove(0, manifest, k)
        BY <2>3, <3>3, RenameShape
      <4>2. CASE k # Db
        BY <4>1, <4>2, ShelfKept, Bounds DEF FilesMove
      <4>3. CASE k = Db
        BY <3>1, <4>1, <4>3, ShelfMove DEF Promise!Next
      <4>4. QED  BY <4>2, <4>3
    <3>4. QED  BY <3>2, <3>3
  <2>4. CASE Connect
    BY <2>0, <2>4, ShelfConnect DEF Promise!Next
  <2>5. CASE LinkNext
    BY <2>5, ShelfLink DEF Safe
  <2>6. CASE UnlinkNext
    BY <2>6, UnlinkShape, ShelfUnlink DEF Safe, Wedged, Promise!Next
  <2>7. CASE UnwindNext
    <3>1. op.todo # {} /\ op.pc = "unwinding"
      BY <2>7 DEF UnwindNext
    <3>2. QED  BY <2>7, <3>1, ShelfUnwind DEF Safe, Wedged
  <2>8. CASE CannotSettle \/ GiveUp \/ CloseNewer \/ OpenFails
    BY <1>1, <2>0, <2>8 DEF CannotSettle, GiveUp, CloseNewer, OpenFails, Refuse
  <2>9. CASE CheckpointFails
    <3>1. CASE Close(holder)
      BY <1>1, <2>0, <3>1
    <3>2. CASE files' = files
      BY <3>2, ShelfKept
    <3>3. QED  BY <2>9, <3>1, <3>2 DEF CheckpointFails
  <2>10. CASE Reconcile \/ Settled \/ ClearManifest \/ GoOn \/ Classify \/ OpenReturns
    <3>1. files' = files
      BY <2>10 DEF Reconcile, Settled, ClearManifest, GoOn, Classify, OpenReturns
    <3>2. QED  BY <3>1, ShelfKept
  <2>11. CASE Intend \/ LinksRefused \/ AllLinked \/ MovesEnd \/ Misread \/ MoveFails
    <3>1. files' = files
      BY <2>11 DEF Intend, LinksRefused, AllLinked, MovesEnd, Misread, MoveFails
    <3>2. QED  BY <3>1, ShelfKept
  <2>12. QED
    BY <1>3, <2>1, <2>2, <2>3, <2>4, <2>5, <2>6, <2>7, <2>8, <2>9, <2>10, <2>11
       DEF OpenStep, Faulty
<1>4. QED  BY <1>2, <1>3 DEF Next

\* Whatever fails and whoever is killed, a database leaves its name in one step
\* and is on the shelf from then on: preserve_aside implements Shelf.
THEOREM MovesInOneStepHolds == Spec => MovesInOneStep
<1>1. Init => Promise!Init
  BY Bounds DEF Init, Promise!Init, OnShelf
<1>2. TypeOK /\ IInv /\ [Next]_vars => [Promise!Next]_<<files[0][Db], OnShelf>>
  <2>1. UNCHANGED vars => UNCHANGED <<files[0][Db], OnShelf>>
    BY DEF vars, OnShelf
  <2>2. QED  BY <2>1, ShelfNext
<1>3. QED
  BY <1>1, <1>2, Invariant, PTL DEF Spec, MovesInOneStep, Promise!Spec
=============================================================================
