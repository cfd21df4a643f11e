---------------------------- MODULE Preservation ----------------------------
(***************************************************************************)
(* db::open on a state directory that processes of two builds share: a     *)
(* database newer than the opener's schema is moved aside, with the two    *)
(* files SQLite keeps beside it, and a fresh one takes its name.  The move *)
(* is several file operations; a manifest is written before the first, and *)
(* every open finishes or undoes what a manifest describes before it looks *)
(* at anything else.  Any operation may fail and any process may be killed *)
(* between two of them.                                                    *)
(*                                                                         *)
(* File operations take effect in order: a power loss leaves what a kill   *)
(* at some earlier point would have left.                                  *)
(***************************************************************************)
EXTENDS Integers, FiniteSets

CONSTANTS
    Openers,        \* processes that open the database
    Nobody,         \* holder of a free schema lock
    MaxDatabases,   \* bound: databases ever created
    BackupNames,    \* free_backup_path's number of names (1000 in the code)
    MaxFaults,      \* bound: operations that fail
    MaxKills        \* bound: processes killed

ASSUME PreservationAssumption ==
    /\ Nobody \notin Openers
    /\ MaxDatabases \in Nat
    /\ BackupNames \in Nat \ {0}
    /\ MaxFaults \in Nat
    /\ MaxKills \in Nat

Databases == 1..MaxDatabases

Backups == 1..BackupNames

\* The base names: 0 is state.db, the others its backups.
Bases == 0..BackupNames

\* What lies under a base name, in the order it travels: the database, its
\* journal `-wal` and its index `-shm`.
Db == 0
Wal == 1
Shm == 2
Sidecars == {Wal, Shm}
Parts == {Db} \union Sidecars

\* SCHEMA_VERSION of the two builds; 0 is a database without tables.
Builds == 1..2

VARIABLES
    files,       \* which database's file each name leads to, 0 if none
    version,     \* schema_version of each database
    shape,       \* the build whose tables each database has
    recorded,    \* meta.preserved_db_path of each database, 0 if none
    hot,         \* databases whose journal holds committed transactions
    manifest,    \* the backup a manifest names, 0 without a manifest
    created,     \* databases created so far
    connected,   \* the database each process has open, 0 if none
    holder,      \* the process inside `open`
    op,          \* how far it is
    faults, kills

vars == <<files, version, shape, recorded, hot, manifest, created, connected,
          holder, op, faults, kills>>

Steps == {"idle", "reconciling", "settling", "returning", "clearing", "cleared",
          "connecting", "classifying", "closing", "intending", "linking",
          "unlinking", "renaming", "unwinding", "recording"}

Operation ==
    [ pc     : Steps,
      build  : Builds,
      aside  : BOOLEAN,            \* inside preserve_aside
      moves  : SUBSET Parts,       \* the files it found to move
      todo   : SUBSET Parts,       \* files the loop under way has left
      record : Backups \union {0}, \* preserved backup still to be recorded
      unsure : BOOLEAN ]           \* the checkpoint failed

NoOperation ==
    [ pc |-> "idle", build |-> 1, aside |-> FALSE, moves |-> {}, todo |-> {},
      record |-> 0, unsure |-> FALSE ]

TypeOK ==
    /\ files \in [Bases -> [Parts -> Databases \union {0}]]
    /\ version \in [Databases -> Builds \union {0}]
    /\ shape \in [Databases -> Builds \union {0}]
    /\ recorded \in [Databases -> Backups \union {0}]
    /\ hot \subseteq Databases
    /\ manifest \in Backups \union {0}
    /\ created \in 0..MaxDatabases
    /\ connected \in [Openers -> Databases \union {0}]
    /\ holder \in Openers \union {Nobody}
    /\ op \in Operation
    /\ faults \in 0..MaxFaults
    /\ kills \in 0..MaxKills

Init ==
    /\ files = [b \in Bases |-> [k \in Parts |-> 0]]
    /\ version = [d \in Databases |-> 0]
    /\ shape = [d \in Databases |-> 0]
    /\ recorded = [d \in Databases |-> 0]
    /\ hot = {}
    /\ manifest = 0
    /\ created = 0
    /\ connected = [p \in Openers |-> 0]
    /\ holder = Nobody
    /\ op = NoOperation
    /\ faults = 0
    /\ kills = 0

schema == <<version, shape>>
data == <<schema, recorded, hot, created>>
budgets == <<faults, kills>>

Goto(pc) == op' = [op EXCEPT !.pc = pc]

Loop(pc, todo) == op' = [op EXCEPT !.pc = pc, !.todo = todo]

\* The next file of a loop that takes the database first, or last.
Foremost == CHOOSE k \in op.todo : \A j \in op.todo : k <= j

DatabaseLast ==
    IF op.todo \subseteq {Db} THEN Db
    ELSE CHOOSE k \in op.todo \ {Db} : \A j \in op.todo \ {Db} : k <= j

-----------------------------------------------------------------------------
(* SQLite.  The last connection to close folds the journal back into the   *)
(* database and removes the sidecars, unless the database has been moved.  *)

Folds(p) ==
    /\ files[0][Db] = connected[p]
    /\ \A q \in Openers \ {p} : connected[q] # connected[p]

Close(p) ==
    /\ connected' = [connected EXCEPT ![p] = 0]
    /\ IF connected[p] # 0 /\ Folds(p)
       THEN /\ files' = [files EXCEPT ![0][Wal] = 0, ![0][Shm] = 0]
            /\ hot' = hot \ {connected[p]}
       ELSE UNCHANGED <<files, hot>>

\* A process that has the database open commits a transaction to it.
Write(p) ==
    /\ p # holder
    /\ connected[p] # 0
    /\ hot' = hot \union {connected[p]}
    /\ UNCHANGED <<files, schema, recorded, manifest, created, connected, holder,
                   op, budgets>>

Disconnect(p) ==
    /\ p # holder
    /\ connected[p] # 0
    /\ Close(p)
    /\ UNCHANGED <<schema, recorded, manifest, created, holder, op, budgets>>

-----------------------------------------------------------------------------
(* open, and its end in success or in an error.                            *)

Acquire(p, build) ==
    /\ holder = Nobody
    /\ connected[p] = 0
    /\ holder' = p
    /\ op' = [NoOperation EXCEPT !.pc = "reconciling", !.build = build]
    /\ UNCHANGED <<files, data, manifest, connected, budgets>>

\* An error is returned; its connection, if it has one, is closed.
Refuse ==
    /\ Close(holder)
    /\ holder' = Nobody
    /\ op' = NoOperation
    /\ UNCHANGED <<schema, recorded, manifest, created>>

\* Mutant of Reconcile: what was moved is always brought back.
ReconcileReturns ==
    /\ op.pc = "reconciling"
    /\ IF manifest = 0 THEN Goto("connecting") ELSE Loop("returning", Parts)
    /\ UNCHANGED <<files, data, manifest, connected, holder, budgets>>

\* Mutant of Reconcile: the sidecars are left where they are.
ReconcileDatabaseOnly ==
    /\ op.pc = "reconciling"
    /\ IF manifest = 0 THEN Goto("connecting")
       ELSE IF files[manifest][Db] # 0 THEN Loop("settling", {Db})
       ELSE Loop("returning", Sidecars)
    /\ UNCHANGED <<files, data, manifest, connected, holder, budgets>>

Reconcile ==
    /\ op.pc = "reconciling"
    /\ IF manifest = 0 THEN Goto("connecting")
       ELSE IF files[manifest][Db] # 0 THEN Loop("settling", Parts)
       ELSE Loop("returning", Sidecars)
    /\ UNCHANGED <<files, data, manifest, connected, holder, budgets>>

Moved(from, to, k) ==
    IF files[from][k] = 0 THEN files
    ELSE [files EXCEPT ![to][k] = files[from][k], ![from][k] = 0]

\* Mutant of Occupied: a second name of the same file counts as another file.
OccupiedBySame(from, to, k) == files[from][k] # 0 /\ files[to][k] # 0

\* The destination is another file; the same file under both names is no obstacle.
Occupied(from, to, k) == files[from][k] # 0 /\ files[to][k] \notin {0, files[from][k]}

SettleNext ==
    /\ op.pc = "settling"
    /\ op.todo # {}
    /\ LET k == DatabaseLast
       IN  /\ ~Occupied(0, manifest, k)
           /\ files' = Moved(0, manifest, k)
           /\ Loop("settling", op.todo \ {k})
    /\ UNCHANGED <<data, manifest, connected, holder, budgets>>

ReturnNext ==
    /\ op.pc = "returning"
    /\ op.todo # {}
    /\ LET k == DatabaseLast
       IN  /\ ~Occupied(manifest, 0, k)
           /\ files' = Moved(manifest, 0, k)
           /\ Loop("returning", op.todo \ {k})
    /\ UNCHANGED <<data, manifest, connected, holder, budgets>>

Settled ==
    /\ op.pc \in {"settling", "returning"}
    /\ op.todo = {}
    /\ op.pc = "returning" => files[0][Db] # 0
    /\ op' = [op EXCEPT !.pc = "clearing",
                        !.record = IF op.pc = "settling" THEN manifest ELSE 0]
    /\ UNCHANGED <<files, data, manifest, connected, holder, budgets>>

\* A destination is another file, or neither name holds a database.
CannotSettle ==
    /\ \/ op.pc = "settling" /\ op.todo # {} /\ Occupied(0, manifest, DatabaseLast)
       \/ op.pc = "returning" /\ op.todo # {} /\ Occupied(manifest, 0, DatabaseLast)
       \/ op.pc = "returning" /\ op.todo = {} /\ files[0][Db] = 0
    /\ Refuse
    /\ UNCHANGED budgets

ClearManifest ==
    /\ op.pc = "clearing"
    /\ manifest' = 0
    /\ Goto("cleared")
    /\ UNCHANGED <<files, data, connected, holder, budgets>>

\* preserve_aside returns an error, or open finds the journal missing.
Incomplete ==
    /\ op.aside
    /\ op.record = 0 \/ (op.unsure /\ files[op.record][Wal] = 0)

GoOn ==
    /\ op.pc = "cleared"
    /\ ~Incomplete
    /\ Goto("connecting")
    /\ UNCHANGED <<files, data, manifest, connected, holder, budgets>>

GiveUp ==
    /\ op.pc = "cleared"
    /\ Incomplete
    /\ Refuse
    /\ UNCHANGED budgets

-----------------------------------------------------------------------------
(* A connection, and what is found.                                        *)

\* Connecting creates the database if there is none, and its sidecars.
Connect ==
    /\ op.pc = "connecting"
    /\ files[0][Db] = 0 => created < MaxDatabases
    /\ LET d == IF files[0][Db] = 0 THEN created + 1 ELSE files[0][Db]
       IN  /\ created' = IF files[0][Db] = 0 THEN created + 1 ELSE created
           /\ files' = [files EXCEPT ![0][Db] = d,
                                     ![0][Wal] = IF @ = 0 THEN d ELSE @,
                                     ![0][Shm] = IF @ = 0 THEN d ELSE @]
           /\ connected' = [connected EXCEPT ![holder] = d]
    /\ Goto(IF op.aside THEN "recording" ELSE "classifying")
    /\ UNCHANGED <<schema, recorded, hot, manifest, holder, budgets>>

Found == version[connected[holder]]

Migrated(to) ==
    /\ version' = IF Found \in 1..op.build
                  THEN [version EXCEPT ![connected[holder]] = to] ELSE version
    /\ shape' = IF Found \in 1..op.build
                THEN [shape EXCEPT ![connected[holder]] = op.build] ELSE shape

\* Mutant of Classify: a database without tables is taken for a foreign one.
ClassifyEmptyAsForeign ==
    /\ op.pc = "classifying"
    /\ Goto(IF Found \in 1..op.build THEN "recording" ELSE "closing")
    /\ Migrated(op.build)
    /\ UNCHANGED <<files, recorded, hot, manifest, created, connected, holder, budgets>>

\* Mutant of Classify: an older database is stamped and not migrated.
ClassifyUnmigrated ==
    /\ op.pc = "classifying"
    /\ Goto(IF Found <= op.build THEN "recording" ELSE "closing")
    /\ UNCHANGED <<files, data, manifest, connected, holder, budgets>>

\* Empty or current; older, and migrated in one transaction; or newer.
Classify ==
    /\ op.pc = "classifying"
    /\ Goto(IF Found <= op.build THEN "recording" ELSE "closing")
    /\ Migrated(op.build)
    /\ UNCHANGED <<files, recorded, hot, manifest, created, connected, holder, budgets>>

\* on_disk_schema takes a failed read for an answer: no version and no tables,
\* or no version beside the tables that are there.
Misread ==
    /\ op.pc = "classifying"
    /\ faults < MaxFaults
    /\ faults' = faults + 1
    /\ \/ Goto("recording")
       \/ Found # 0 /\ Goto("closing")
    /\ UNCHANGED <<files, data, manifest, connected, holder, kills>>

\* create_schema, in one transaction, if there is anything to write: tables that
\* exist are left as they are.
OpenReturns ==
    /\ op.pc = "recording"
    /\ version' = [version EXCEPT ![connected[holder]] = op.build]
    /\ shape' = [shape EXCEPT ![connected[holder]] = IF @ = 0 THEN op.build ELSE @]
    /\ recorded' = [recorded EXCEPT ![connected[holder]] =
                       IF op.record # 0 THEN op.record ELSE @]
    /\ hot' = IF version' # version \/ op.record # 0
              THEN hot \union {connected[holder]} ELSE hot
    /\ holder' = Nobody
    /\ op' = NoOperation
    /\ UNCHANGED <<files, manifest, created, connected, budgets>>

-----------------------------------------------------------------------------
(* preserve_aside.                                                         *)

\* The checkpoint and the end of the connection.  A checkpoint that other
\* connections keep from finishing is no error, and what it left is hot.
CloseNewer ==
    /\ op.pc = "closing"
    /\ Close(holder)
    /\ Goto("intending")
    /\ UNCHANGED <<schema, recorded, manifest, created, holder, budgets>>

\* The checkpoint fails; closing may still fold the journal, or fail as well.
CheckpointFails ==
    /\ op.pc = "closing"
    /\ faults < MaxFaults
    /\ faults' = faults + 1
    /\ \/ Close(holder)
       \/ connected' = [connected EXCEPT ![holder] = 0] /\ UNCHANGED <<files, hot>>
    /\ op' = [op EXCEPT !.pc = "intending", !.unsure = TRUE]
    /\ UNCHANGED <<schema, recorded, manifest, created, holder, kills>>

\* The first name under which nothing lies; the base name if all are taken.
FreeBackup ==
    LET free == {b \in Backups : \A k \in Parts : files[b][k] = 0}
    IN  IF free = {} THEN 1 ELSE CHOOSE b \in free : \A c \in free : b <= c

Present == {k \in Parts : files[0][k] # 0}

Intend ==
    /\ op.pc = "intending"
    /\ manifest' = FreeBackup
    /\ op' = [op EXCEPT !.pc = "linking", !.aside = TRUE, !.moves = Present,
                        !.todo = Present]
    /\ UNCHANGED <<files, data, connected, holder, budgets>>

Linked == op.moves \ op.todo

LinkNext ==
    /\ op.pc = "linking"
    /\ op.todo # {}
    /\ LET k == Foremost
       IN  IF files[0][k] # 0 /\ files[manifest][k] = 0
           THEN /\ files' = [files EXCEPT ![manifest][k] = files[0][k]]
                /\ Loop("linking", op.todo \ {k})
           ELSE Loop("unwinding", Linked) /\ UNCHANGED files
    /\ UNCHANGED <<data, manifest, connected, holder, budgets>>

\* No hard links on this filesystem: rename instead, if nothing is in the way.
LinksRefused ==
    /\ op.pc = "linking"
    /\ op.todo # {}
    /\ Linked = {}
    /\ Loop(IF \E k \in op.moves : files[manifest][k] # 0 THEN "reconciling"
                                                          ELSE "renaming", op.moves)
    /\ UNCHANGED <<files, data, manifest, connected, holder, budgets>>

AllLinked ==
    /\ op.pc = "linking"
    /\ op.todo = {}
    /\ Loop("unlinking", op.moves)
    /\ UNCHANGED <<files, data, manifest, connected, holder, budgets>>

\* A file that is no longer there ends the loop with an error.
UnlinkNext ==
    /\ op.pc = "unlinking"
    /\ op.todo # {}
    /\ LET k == Foremost
       IN  IF files[0][k] # 0
           THEN files' = [files EXCEPT ![0][k] = 0] /\ Loop("unlinking", op.todo \ {k})
           ELSE Goto("reconciling") /\ UNCHANGED files
    /\ UNCHANGED <<data, manifest, connected, holder, budgets>>

RenameNext ==
    /\ op.pc = "renaming"
    /\ op.todo # {}
    /\ LET k == Foremost
       IN  IF files[0][k] # 0
           THEN files' = Moved(0, manifest, k) /\ Loop("renaming", op.todo \ {k})
           ELSE Goto("reconciling") /\ UNCHANGED files
    /\ UNCHANGED <<data, manifest, connected, holder, budgets>>

UnwindNext ==
    /\ op.pc = "unwinding"
    /\ op.todo # {}
    /\ LET k == Foremost
       IN  files' = [files EXCEPT ![manifest][k] = 0] /\ Loop("unwinding", op.todo \ {k})
    /\ UNCHANGED <<data, manifest, connected, holder, budgets>>

MovesEnd ==
    /\ op.pc \in {"unlinking", "renaming", "unwinding"}
    /\ op.todo = {}
    /\ Goto("reconciling")
    /\ UNCHANGED <<files, data, manifest, connected, holder, budgets>>

-----------------------------------------------------------------------------
(* Failures. *)

\* Everything but a move and a classification: the error ends the open.
OpenFails ==
    /\ op.pc \in {"reconciling", "settling", "returning", "clearing", "connecting",
                  "classifying", "intending", "recording", "cleared"}
    /\ op.pc = "classifying" => Found \in 1..(op.build - 1)
    /\ faults < MaxFaults
    /\ faults' = faults + 1
    /\ Refuse
    /\ UNCHANGED kills

\* A move: what was linked is unlinked again, and the rest is reconciled.
MoveFails ==
    /\ op.todo # {}
    /\ faults < MaxFaults
    /\ faults' = faults + 1
    /\ \/ op.pc = "linking" /\ Linked # {} /\ Loop("unwinding", Linked)
       \/ op.pc \in {"unlinking", "renaming", "unwinding"} /\ Goto("reconciling")
    /\ UNCHANGED <<files, data, manifest, connected, holder, kills>>

\* Its locks and its connection go; its files stay.
Killed(p) ==
    /\ kills < MaxKills
    /\ kills' = kills + 1
    /\ p = holder \/ connected[p] # 0
    /\ connected' = [connected EXCEPT ![p] = 0]
    /\ holder' = IF p = holder THEN Nobody ELSE holder
    /\ op' = IF p = holder THEN NoOperation ELSE op
    /\ UNCHANGED <<files, data, manifest, faults>>

-----------------------------------------------------------------------------
OpenStep ==
    \/ Reconcile \/ SettleNext \/ ReturnNext \/ Settled \/ CannotSettle
    \/ ClearManifest \/ GoOn \/ GiveUp
    \/ Connect \/ Classify \/ OpenReturns
    \/ CloseNewer \/ Intend \/ LinkNext \/ LinksRefused \/ AllLinked \/ UnlinkNext
    \/ RenameNext \/ UnwindNext \/ MovesEnd

Faulty == Misread \/ CheckpointFails \/ OpenFails \/ MoveFails

Next ==
    \/ \E p \in Openers, build \in Builds : Acquire(p, build)
    \/ \E p \in Openers : Write(p) \/ Disconnect(p) \/ Killed(p)
    \/ OpenStep
    \/ Faulty

\* The daemon, the hooks and the panel keep opening the database, and none of
\* them keeps it open.
Fairness ==
    /\ WF_vars(\E p \in Openers, build \in Builds : Acquire(p, build))
    /\ \A p \in Openers : WF_vars(Disconnect(p))
    /\ WF_vars(OpenStep)

Spec == Init /\ [][Next]_vars

FairSpec == Spec /\ Fairness

-----------------------------------------------------------------------------
(* Properties. *)

\* free_backup_path can find a free name for every database there is.  When it
\* cannot, it returns an occupied one, and the next two properties fail.
NamesLeft == created <= BackupNames

\* A journal never lies beside a database it does not belong to: SQLite finds
\* it by name, so that database would inherit it.
NothingInherited ==
    NamesLeft =>
        \A b \in Bases, k \in Sidecars :
            files[b][k] # 0 /\ files[b][Db] # 0 => files[b][k] = files[b][Db]

\* Without a manifest every database that was ever written lies under one base
\* name, together with the transactions that are only in its journal.
Whole ==
    manifest = 0 =>
        \A d \in {e \in Databases : version[e] # 0} :
            \E b \in Bases :
                /\ files[b][Db] = d
                /\ d \in hot => files[b][Wal] = d
                /\ \A c \in Bases \ {b}, k \in {Db, Wal} : files[c][k] # d

\* What is preserved is a user's database, never one that another process was
\* about to create.
NothingEmptyPreserved ==
    \A b \in Backups : files[b][Db] # 0 => version[files[b][Db]] # 0

\* Not kept by the code.  A database that was moved aside is named by a database the engine wrote, or
\* by the process still at work on it: a user can be told where it is.
PreservedIsRecorded ==
    \A b \in Backups :
        files[b][Db] # 0 /\ manifest = 0 =>
            \/ \E d \in Databases : recorded[d] = b
            \/ op.record = b

\* As long as no operation has failed, a database has the tables of the version
\* it is stamped with, whichever builds have opened it.  (A failed read of the
\* version suffices: see Misread and OpenReturns.)
ShapeKept == faults = 0 => \A d \in Databases : shape[d] = version[d]

\* An interrupted preservation is finished or undone in the end.
Reconciled == (manifest # 0 /\ NamesLeft) ~> manifest = 0

OnShelf == {files[b][Db] : b \in Backups} \ {0, files[0][Db]}

Promise == INSTANCE Shelf WITH current <- files[0][Db], shelf <- OnShelf

\* Whatever fails and whoever is killed, moving aside takes place in one step.
MovesInOneStep == Promise!Spec
=============================================================================
