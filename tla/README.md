# Omarchy Session Memory in TLA+

Omarchy Session Memory (`osm`) records the tmux sessions of a desktop in an
SQLite database and rebuilds them after a reboot. What makes it hard is not any
one function but what happens *between* them: captures fired by tmux hooks, a
daemon's timer and the user; one restore at login; a tmux server and a user that
change under all of them; and a machine that may lose power between any two SQL
statements. The promise is that a session, once captured, is not lost until it
is back, and that a session the user closed does not come back.

The modules here are written from the Rust sources (paths below are relative to
the Rust crate's `src/`; `PROJECT.json` maps every definition to its lines).

## 1. Inventory

| Part | State it keeps | Operations | Where |
|---|---|---|---|
| snapshot store | `snapshots`, `session_rows` (state, `unresolved` per snapshot and per session, `placement_state`) | select the restore source, set a state, owe, resolve, refresh, reclaim, prune | `snapshots.rs` |
| capture | none of its own; reads tmux twice, writes one transaction | `collect`, `write_topology`, `carry_forward`, prune | `capture.rs` |
| capture scheduling | restore lock, capture lock, dirty flag, last-capture file | `snapshot_maybe_debounced`, `snapshot_guarded` | `capture.rs`, `lock.rs` |
| restore | `restore_attempts`, `RestoreOutcome`, `ServerWatch` | reclaim, select, mark, build or adopt each session, resume, place, publish, terminal writes | `restore.rs` |
| agent debt | `agent_resume_debt` | record, pending, discharge, prune | `debt.rs` |
| agents | none | detect a conversation in a pane, deliver a resume, confirm it | `agent/` |
| database | the file, `-wal`, `-shm`, a manifest, the schema lock | open, migrate, repair, preserve aside, reconcile | `db.rs` |
| desktop | `terminal_windows` | collect placements, choose a layout, spawn and place terminals | `desktop.rs`, `hypr.rs`, `terminal.rs` |
| equivalence | none | order panes, compare and pair sessions | `equiv.rs`, `layout.rs` |
| hooks, daemon, CLI | the server last hooked, the next capture's deadline, the failure streak | register hooks, capture on a timer, give up after three failures | `hooks.rs`, `main.rs`, `health.rs` |
| status | none | report state as JSON | `ipc.rs`, `health.rs` |
| installer | units, binary, hooks | install, replace, uninstall | `install.rs`, `main.rs` |
| bar widget, menu | presentation | poll status, run commands | `BarWidget.qml`, `Menu.qml` |

How they interact. Hooks, the daemon and the CLI all call
`snapshot_maybe_debounced`; it takes the restore lock *shared*, then the capture
lock, and writes a snapshot. `osm restore` takes the restore lock *exclusively*
for its whole run. Both write the same tables, and a capture carries forward
what an earlier restore left owed. A restore ends by publishing a snapshot of
its own in the transaction that retires its source. Everything reads tmux, which
nobody locks.

What is hard, and what each part must guarantee:

* **snapshot store, capture, restore** (crashes between statements, a stale
  reading committed later, a replaced server, retention at its limit, a clock
  that is set back): debt is never invisible to retention; there is always
  something to restore from; the last restorable snapshot is not deleted; a
  debt disappears only when its session is back; a source retires only into a
  snapshot that holds it.
* **capture scheduling** (interleavings, a burst at the edge of the debounce
  window, a holder that fails after taking work over, a process killed with
  locks held, a restore in between): deferred work is always somebody's;
  snapshots are committed in the order tmux went through their states; the
  last state is recorded in the end.
* **windows shared by sessions** (one sharer back and one carried, numbers that
  a replaced server hands out again): a carried window is linked to the window
  it became or to none; a debt is paid only by a session that shares what it
  shared.
* **agent debt** (bindings carried over panes the user has reused, a resume that
  is confirmed and then not observed): what was bound stays bound somewhere
  until it is back.
* **resume** (two resumes of one conversation, a pane or a server that changes
  before the keystrokes, an agent that never comes up): keys reach only the pane
  that was checked; a success is a conversation that runs.
* **database** (power loss between renames, several processes that find the
  same damaged database).
* **desktop** (a terminal that appears after its timeout, an address that is
  reused, a compositor that stops answering): the source retires only once its
  own terminals were where they belong, and only into windows there.
* **daemon, hooks, installer** (a server replaced between two ticks, two writers
  of the same hooks and of the same health file, a tmux call that is refused, a
  `systemctl` that cannot say): one hook per event, none without a binary, none
  against the user; failing captures become visible.
* **equivalence** (pure: order independence, symmetry, pairing is a bijection).

## 2. Modules

| Module | Models |
|---|---|
| `Snapshots` | the tables and their statements, as operators from table to table |
| `SessionMemory` | captures, restores, tmux, its user, kills, reboots and the clock acting on one table |
| `MCSessionMemory` | TLC instance of it |
| `SessionMemoryProofs` | theorems: types, debt is cached, what retention never deletes |
| `SessionMemoryRetire` | theorems: a retired source is held by the snapshot that replaced it; a debt is discharged only when recovered |
| `Recorder` | abstract: what capturing promises |
| `Captures` | `snapshot_maybe_debounced` run by many processes, with a restore |
| `MCCaptures` | TLC instance of it |
| `CapturesProofs` | theorems: types; `Captures` implements the safety of `Recorder`; deferred work is pending |
| `Shelf` | abstract: what moving a database aside promises |
| `Preservation` | `db::open` by processes of two builds, one file operation at a time |
| `MCPreservation` | TLC instance of it |
| `PreservationProofs` | theorems: types; nothing lost or inherited; `Preservation` implements `Shelf` |
| `Links`, `MCLinks` | windows shared by sessions, through restores and the captures after them |
| `AgentDebt`, `MCAgentDebt` | which conversation belongs in which pane, from the snapshot a boot inherits to the one that replaces it |
| `AgentDebtProofs` | theorems: types; bindings kept, carried and retired as promised |
| `Detection` | operators: which conversation a pane is bound to and who holds one, read off a process table |
| `Resume`, `MCResume` | several callers of `resume_into` on panes that a user works in |
| `ResumeProofs` | theorems: types; typed where verified, reported as running, one client |
| `Placement`, `MCPlacement` | terminals put back on the desktop |
| `PlacementProofs` | theorems: types; nothing invented, no shown terminal taken back, retired once its own terminals landed and with its windows |
| `Engine`, `MCEngine` | units, daemon, hooks and the commands that change them |
| `EngineProofs` | theorems: types; one hook per event and none without a binary unless a removal failed, the binary not changed underneath, the user's decision kept by the daemon that hooked the server |

`SessionMemory` and `Captures` cut the system at the lock. `Captures` shows that
at most one process at a time is between reading tmux and committing, and that a
restore excludes captures; `SessionMemory` takes that from it (one `cap`, one
`rst`, never both) and models what is read and written. The pass loop of one
call is several captures of `SessionMemory`.

`Links`, `AgentDebt` and `Placement` each take the same protocol (restore,
retry, capture, publication) and open up what `SessionMemory` leaves as one
value: the windows of a session, the conversation of a pane, the terminal of a
session. They take from `Captures` that captures and restores exclude each
other, and from `SessionMemory` when a source goes back or retires. `Resume` is
inside the one step `Resumes` of `AgentDebt`; both bind a pane as `Detection`
says. `Engine` is where the callers of `Captures` come from.

### Snapshots and SessionMemory

`snaps` is a function from ids to rows; a row that was never inserted or was
deleted has state `absent` (ids are AUTOINCREMENT, so none is used twice). A row
has the time, the boot, the state, the cached `unresolved` column, whether the
layout of windows is known, the content per session name, the names owed
(`session_rows.unresolved = 1`) and the names carried. A session's content is
one member of `Shapes`; `equiv::difference` is inequality of shapes, so a session
that came back degraded has another shape. `ORDER BY taken_at DESC, id DESC` is
`Newer`, ties included.

| Variable | In the program |
|---|---|
| `boot`, `clock` | boot id, `boot::now_epoch` |
| `server`, `live` | incarnation of the running tmux server, its sessions |
| `snaps`, `nextId` | `snapshots` + `session_rows`, AUTOINCREMENT |
| `running` | `restore_attempts` in state `running` |
| `cap` | a capture between its reading of tmux and its prune |
| `rst` | a restore: where it is, its source, the sessions left, names read once, `ServerWatch::anchor`, created/adopted, degraded, the topology to publish |
| `edits` | bound only |
| `parted` | history: owed contents that were live and that the user closed or changed |

Every step of a restore is one committed statement or one reading of tmux, in
the order of `run_restore_with`: reclaim (one transaction), select, mark, the
*two* updates of `set_unresolved`, the attempt row, the live names, then per
session adopt / create / collide followed by the `ServerWatch` check, the passes
(`ResumeAndPlace`), the collection and the transaction of
`publish_current_boot`, and the terminal writes one by one. `RestoreStops` and
`CaptureStops` may happen between any two of them (kill, error), `Reboot`
anywhere. `CreateSession` may produce the session, a degraded one, or fail
leaving nothing or a part of it. What the user does is interleaved everywhere.

A tmux server may die at any step; `DeathWindows` names the windows of a restore
in which an instance allows it (before the restore knows the identity, between
checks, after the last one), so that a property that is false in one window is
still checked in the others, and the false case is a run of its own.

### Recorder and Captures

`Recorder` has two variables: the version of tmux's state and the version the
newest snapshot holds. Recording moves the second forward to some version tmux
has been in, and is fair. `Captures` has one `call` record per process, the two
locks, the flag, the stamp, and the restorer; each action is one file operation
or one reading of `snapshot_maybe_debounced`, in its order: the restore lock
(shared, not blocking), the flag, the stamp, raising the flag, the capture lock
(a bounded wait that gives up), then per pass clearing the flag, reading tmux,
committing, stamping and reading the flag again. `CaptureFails` and
`CallerKilled` drop both locks, as `Drop` and the kernel do, and leave the flag
as it is. `deferred` and `debounced` are history.

### Shelf and Preservation

`Shelf` knows the database under the engine's own name and those moved aside;
one leaves its name and reaches the shelf in one step, and stays there.
`Preservation` is `db::open` under the schema lock. `files` says which
database's file each name leads to, for each base name (0 is `state.db`, the
others its backups) and each of the three files that travel together, so a hard
link is a file under two names. `hot` holds the databases whose journal has
committed transactions, `manifest` the backup that an intent on disk names,
`version` and `shape` the stamped version of a database and the build whose
tables it has.

`holder` is the process inside `open` and `op` how far it is: reconcile, connect,
classify, migrate, or close, write the manifest, link every file and unlink it
(or rename each, where there are no hard links), reconcile again, record.
`MoveFails`, `CheckpointFails`, `Misread` and `OpenFails` are the failures of
one operation, each continuing as the code does; `Killed` ends any process and
leaves the files. A power loss is a kill of everybody: file operations are
assumed to reach the disk in order. SQLite is external: connecting creates the
sidecars, and the last connection to close folds the journal back and removes
them *by name*, unless its database is no longer under that name. Connections
outlive `open`, so a process of the newer build may be writing to a database
while one of the older build moves it.

### Links

Windows are numbers handed out by a server, `Ids` are pairs: `<<0, n>>` is the
live `@n`, `<<k, n>>` is `carried:k:@n`. `snaps` holds, per snapshot, the rows
of its sessions (index to window id, owed), its windows with what
`same_window` compares (`look`) and what it does not (`rest`), the server it was
read from, and `map`, the rows of `restore_window_map`. `server` is the tmux
server with what each session holds and, as history, `known`: which windows of
the source each live window was made for. `firm` is history too: the windows
that were there when a restore finished recording, which is all that later
captures can know of.

`Begins`, `Adopts`, `Creates`, `Checks` and `Records` are a restore session by
session, `Creates` stopping at any window (`restore_session`, with the windows
seeded from those live and those already made); `Broken` is `validate_links`;
`Capture` and `Publishes` are `write_topology` with `carry_forward`:
`MapOf`, `Candidates` and `Target` are `restore_window_map` and
`resolve_window`, `LinkBreak` is `shared_link_break`, `Written` inserts the
rows and is refused where the schema refuses it.

### AgentDebt

A place stands for a session, window and pane index; `at` and `runs` say where
each pane is and what it runs, `newest` is what the newest snapshot binds, `due`
what the source still owes as sessions, `debt` the rows of `agent_resume_debt`
with the tick they were recorded, `rst` the restore, `reading` a capture (or the
publication) that has read the panes. `Bindings` is what a capture writes, in
the order of the code: what it detects, then what the newest snapshot of this
server said of a pane it cannot read, then what the debt promises for the place
(`Carries`), then the panes of sessions copied whole (`CopyPanes`). `Prune` and
`Discharge` are `debt.rs`; `Resumes`, `ResumeFails` and `Skips` are
`resume_bindings` for one place; `Unobserved` is
`unobserved_conversations`. Before it is `restorable = FALSE`, a failed or killed
restore is begun again. The rest is history: when a place was last `promised`,
whether it is `settled`, which conversations have been `back`, at which places
the user `touched` a pane, which the newest snapshot had already let go
(`hollow`), and whether a statement on the debt failed (`mishap`).

### Detection and Resume

`Detection` has no state: `Bind` gives the conversation a pane is bound to
(lineage under the pane, descriptors, command line, the one candidate),
`Liveness` who holds a conversation. `Resume` applies them to the processes that
panes run. A `call` walks through `resume_into` and `deliver`: `ListPanes`,
`TakeLock`, `CheckIdle`, `CheckMode`, `CheckOwner`, `VerifyServer`, `SetBuffer`,
`PlaceWitness`, `RereadIdentity`, `GuardedPaste` (one tmux command, that checks
the server's own pid, start and witness option), then the waits for the agent
(`AgentSeen`) and for its conversation (`HoldFirst`, `HoldAgain`), each of which
may fail or time out. `buffer` and `witness` are what a caller leaves on the
server, removed by `Tidy`. The user runs programs and agents in any pane, closes
panes and kills the server; a new one reissues pane ids, the id option and the
pid, so that only its start tells it apart.

### Placement

`layout` is what `placement_for_restore` answers when a source is read behind up
to `Depth` older snapshots (`PlacementForRestore`, a pure operator in `Init`),
`owed` what the desktop of that boot last showed. `att` is `place_windows` and,
inside it, `spawn_and_place`: a terminal is spawned, its window found by the
process (`OwnedWindow`), moved by the dispatches of `place_lua`, read back
(`ReadsBack`), and asked whether it shows the session (`Polls`, `AsksAgain`);
then the windows are read for the publication (`ReadsWindows`, `MapsWindows`)
and compared with the claims (`UnplacedWindows`). What is claimed is the address
the window had when it was read back, although the wait for the attach lies in
between (`Placed`). `landed` are the sessions whose own terminal was in place at
that reading. `Deadline` is the time of the
current wait running out, at any moment; what each wait does then is a step of
its own. Around it terminals map, attach, move to another address, die, and the
user opens and moves them.

### Engine

`units` is systemd's view of the two units, the start of `osm.service` queued
until `osm-restore.service` has ended; `daemon` is the process with the server it
believes hooked and the identity it read before registering. `mutator` is one
`hooks::install` or `uninstall`, by the daemon or by a command: it waits for the
lock of hooks, removes one marked hook at a time and appends one event at a time,
and may be killed in between. `remove_marked` ends where none is listed
(`Removed`), or where tmux refuses the listing or a removal (`CutShort`), which
its caller cannot tell apart; `server.removal` remembers which it was. The lock
may be held too long (`Fails`), its directory or tmux may refuse (`Refused`), and
an uninstall deletes the files all the same, with a problem to report
(`UserRegistered`, `RemovesFiles`). `command` is `osm install`, `uninstall`,
`install-hooks` or `uninstall-hooks` step by step: probe, stop, confirm, copy,
register, reload, enable, remove. `systemctl` may refuse, or be killed at its
budget with its command taken or not; a probe may be unanswerable.

`health` is the streak in `capture-health.json`. The daemon's timer and the
captures of hooks and of `ExecStop` each read it (`Loads`) and write it back later
(`Stores`) with no lock between them: a count may be lost, a file that another is
just rewriting, or that is out of order (`FileBreaks`), counts as none, a write
may fail or be killed with the file emptied. `GivesUp` is the daemon's own test of
the count it could write. `faults` is the budget of such failures. `declined`
remembers, per server, what the user did with the hooks a daemon had put there.

## 3. Runs

| Run | Shows |
|---|---|
| `sm_retention` | `TypeOK`, `LatestSurvives`, `LayoutSurvives` (both while the clock is not set back: `SteadyClock`), `RetireOnlyWhenHeld`: two boots after the first, two sessions, three snapshots, retention of one row, compositors that answer or not, kills everywhere, a server that may die after a restore's last check |
| `sm_debt` | `DebtIsCached`, `AlwaysRestorable`, `DischargeOnlyRecovered`: the same two boots with a clock that stands still and no placement, but two contents per session, so that one can come back in part, and a server that may die wherever the restore can notice |
| `cap_promise` | `Captures` implements `Recorder!Spec`, liveness (`RecordsEveryChange`) and order (`CommittedInOrder`), with two hooks, the timer, a failure, a kill and a restore; `DeferredIsPending` until the first failure or kill |
| `pres_whole` | a database is never parted from its journal nor given another's (`Whole`, `NothingInherited`), an empty one is never preserved, a database has the tables of its version (`ShapeKept`), `Preservation` implements `Shelf` (`MovesInOneStep`), an interrupted preservation is finished or undone (`Reconciled`): two processes of two builds, three databases, two backup names, a failure and two kills anywhere |
| `resume_delivery` | keys reach only what was verified, a success is a conversation its pane held, osm alone never makes two clients, every lock comes free (`LockComesFree`): two callers for one conversation, two panes, a second conversation of the user's, two servers |
| `agent_debt` | what the source bound stays bound until it is back (`KeptUntilBack`), a conversation that is not observed is carried only to a pane of the place it is promised to (`CarriedWherePromised`), a source retires into its bindings (`RetiredIntoBindings`): two sessions, one bound, two pane ids, restores that fail and are begun again, captures that see or do not see each pane |
| `placement_retire` | no window is invented, no terminal that shows its session is taken back, the source retires only once its own terminals were read back in place (`RetiredOnceLanded`) and only into windows on the captured workspace and panel (`RetiredWithWindows`), the pass ends: two sessions, one of them held, two addresses, two panels |
| `links_kept` | a carried window is linked only to what it became, a pair of which one is back stays linked, a debt is paid only by sharing, and then it is paid, a success has its shares: two sessions sharing a window, two servers, two restores, a capture |
| `links_identity`, `links_refused` | violations, below |
| `engine_hooks` | one hook per event and none without a binary unless a removal was refused or cut short, the user's decision kept while the daemon that hooked the server runs, hooks back on a new server, the binary not changed under a daemon that was seen: two commands, two servers, two events, a refused call; captures that keep failing end in a daemon that gave up, unless the health file is out of order or misread again and again (`FailureIsSeen`): apart from commands (`Apart`), two spells of failures, hooks and the timer counting |
| `engine_versions` | violation, below |

Bounds. Three snapshots are a source, a snapshot that carries its debt and the
published or captured one that settles it, and with `Keep = 1` each of them is
a candidate for deletion; every finding below needs at most that. Two reboots
let a debt cross a whole boot. Two sessions are the least in which one is
delivered and one is not; two contents the least in which a session is back but
not as captured. `MaxEdits = 2` opens both sessions, or opens one and closes it.
`Keep` is `capture.keep_snapshots`, which the configuration demands positive.
For the captures: two hooks and the timer give a holder, a waiter that gives up
and a third that is debounced; two changes fall into both passes of a call that
the timer began. Deadlock is checked in the runs of both models, and of `Resume` and `AgentDebt`.
For the database: two processes are an opener and one that has the database
open, or one that finds what the other left; three databases let a second
preservation meet the first one's backup, and a third one find no free name; two
kills let a reconciliation be interrupted as well. There is no deadlock check: a
model that may create no further database stops, as do `Links`, `Placement` and
`Engine` when their environment has nothing left to do.

For `Resume`, two callers of one conversation are a restore and a person; two
panes are one for each, and a second conversation is what makes a pane's agent
the wrong one. `agent_debt` has one tick and a window of zero, so that a debt
expires between any two steps. `Links`: two restores are a failure and its
retry, and three windows let a server reissue each number the source used;
`links_refused` needs three names, two that share and one that keeps the server
up. In `placement_retire` two terminals are the one osm spawns and the user's,
with two addresses one of which is reused. Two commands in `engine_hooks` are an
install or uninstall that begins while the first has left its trace; longer
sequences repeat these. `MaxFaults` is one there: a refused call meets every
step of a mutation, and a second one after it is one more cut in the same list.
Captures begin to fail there only in behaviours without a command and with one
server (the action constraint `Apart`; none of the steps it cuts is a fair one):
neither touches the health file, and what they do to failing captures is to stop
the daemon, which ends the promise. One hook's capture counts at a time beside
the timer: two may lose each other's count as these two do. Streaks are told
apart up to one past the limit. `AgentDebt_promise` ends a behaviour where a statement on
the debt has failed (`NothingMissed`): the code reports that and goes on, and no
promise is made of what follows.

Symmetry is used in the two runs of `SessionMemory` only, over session names and
contents, which neither the code nor the properties tell apart; the runs that
check liveness use none.

Fairness is assumed only where a property says "in the end". In `cap_promise`:
the daemon's loop calls again (an endless loop, restarted by its unit on
failure), a caller's next step is taken (its waits are bounded by
`CAPTURE_LOCK_WAIT`, its subprocesses are assumed to end), and a restore in
progress ends. Nothing is assumed of hooks: tmux may change without one (a
server the daemon has not yet hooked), and a change that fires one may be
debounced. Without the timer's fairness the promise is false.

In `resume_delivery` a caller's steps are taken and its waits end at their
deadlines; nothing is assumed of agents, tmux or the user. In `placement_retire`
the calls of the pass return and its deadlines come; nothing of the compositor.
In `engine_hooks` the daemon's timer fires and its capture ends, a mutation
that holds the hooks' lock goes on and its call returns (or its command is
killed), and the daemon looks at the server again and again: `EnsureHooks` is
strongly fair, since the loop calls `ensure_hooks` before every capture of its
timer (`main.rs:1632`), so that captures alone never keep it from looking.
Nothing is assumed of systemd, of servers, of hooks or of the user, and captures
may fail for ever.

In `pres_whole` some process keeps opening the database (the daemon's timer
does), a process that has it open ends, and the steps of an `open` are taken;
failures and kills are bounded by their budgets, as an environment that kills
every `open` would never let one finish.

Every property has a mutant of the code that breaks it (`PROJECT.json`,
`mutants`); the mutated operators stand next to the originals, marked as such.

### Disagreements between the code and what is said of it

| Run | Says | Does |
|---|---|---|
| `links_identity` | carried ids never collide, and an unverifiable link is copied, not guessed at (`capture.rs:1073`, `capture.rs:1319`, `docs/design.md:515`) | `resolve_window` strips the prefix and, from the second capture on, takes the live window of the same number, name and pane count for the carried one; the map that knows better is stored under the prefixed id (`restore.rs:1205`) and looked up without it |
| `links_refused` | every capture is a superset (`capture.rs:1246`); an insert refused for ever is a permanent wedge (`db.rs:104`) | two sharers carried by two captures are owed by two snapshots, and both insert `carried:k:@n`: every capture is refused until one of them is live |
| `engine_versions` | an install never leaves two versions of the engine on one database (`README.md:347`, `main.rs:1317`) | only an `osm.service` found not inactive is stopped; one queued behind its running restore is inactive, and the binary is replaced under that restore |

#### Further windows

Behaviour that the models have, that no property of a run claims away, and that
a reader of the code should know of. Where a condition in a module names it, the
properties are stated and checked under that condition; where a definition states
what the code does not keep, it is named here and is marked so in its module.
Of the sessions and snapshots:

* `DeathWindows` without `"unanchored"`: when no server runs at the start, a
  restore anchors on whichever server answers its first check
  (`restore.rs:200`). If the one that made the first session has died and been
  replaced by then, the session counts as created, and `RetireOnlyWhenHeld` is
  false.
* `SteadyClock`: `prune` and the choice of a source order by `taken_at`, the wall
  clock. After the clock is set back the snapshot written last sorts behind older
  ones and is deleted (`snapshots.rs:240`), which loses `LatestSurvives`,
  `LayoutSurvives` and `AlwaysRestorable`.
* `DeathWindows` without `"after"` in `sm_debt`: a partial attempt discharges what
  it delivered without a last look at the server (`restore.rs:2097`), so one that
  died after the last check takes sessions with it that nothing owes.
* `OwedOnlyByRestore` is false: reclaiming owes every session of every unresolved
  snapshot, also one of the running boot that only carried another session
  (`snapshots.rs:130`); closing one of its live sessions then brings it back.
* `NeverDropped` is false: the holder clears the flag, then may fail
  (`capture.rs:2074`). `DebouncedIsPending` is false: a debounced call leaves
  nothing behind, and the last change of a burst waits for the 120 s timer
  (`capture.rs:2055`; `docs/design.md:428` says 5 s).
* `PreservedIsRecorded` is false: the manifest is removed before the fresh
  database that records the backup is written (`db.rs:1009`); a kill in between
  leaves a backup that nothing names.
* `NamesLeft`: with every backup name taken, `free_backup_path` returns an
  occupied one (`db.rs:791`). The moves are refused, but the manifest already
  names it, so the reconciliation carries the sidecars beside that backup and
  then refuses, then and at every later open: `NothingInherited` and
  `Reconciled` are false. No backup is replaced (`MovesInOneStep` holds).
* `faults = 0` in `ShapeKept`: `on_disk_schema` (`db.rs:495`) takes a failed read
  for a database without tables, over which `open` creates this build's schema
  and stamps its version.

Of agents:

* `ActiveIsRefused` is false: `Liveness` looks at open descriptors, so a client
  that keeps its transcript closed between writes and was started by hand is not
  seen, and a second one is started beside it.
* `KeptWheneverCaptured` is false: a restore that is killed after it has built a
  session and before `debt::record` lets a capture write the session's panes
  unbound. Its retry records the debt, but a capture carries only what its newest
  predecessor binds, so the binding is in no new snapshot until the conversation
  is back (`hollow` in `KeptUntilBack`).
* A pane the user opens at a promised place within the debt's window gets the
  binding; a capture that can read nothing may bind one conversation twice; a
  pane that cannot be read keeps its old binding; a retry records the debt anew
  for conversations closed since.

Of the desktop:

* `OneWindowPerSession` is false: a retry of a partial restore spawns a terminal
  for a session whose terminal is already there, against "retrying is safe
  because restore is idempotent" (`restore.rs:1336`).
* Dispatches name an address, so a stranger that inherits it in between is moved.
  It does not pass for osm's at the reading back, which goes by the process
  (`RetiredOnceLanded`).
* `FoundAgainIsOwn` is false. "Retiring the source against somebody else's window
  loses the only record of where osm's window belonged" (`desktop.rs:1019`), but
  the claim is the address read before the wait for the attach
  (`desktop.rs:1471`), and `unplaced_windows` looks for that address. The window
  is read back, then re-created under another address; the user opens a terminal
  for the same session, which takes the old one over; the attach is seen, the
  user's window is claimed, found again, and the source retires on it.

Of windows:

* `Known`: a server that dies between the first session of a restore and its
  first check is taken for the one that made it, as in `"unanchored"` above.
* A window linked twice into one session is left out; the schema refuses its
  second row.

Of the engine:

* A removal that tmux cuts short is taken for a whole one, and `install` then
  appends: an event is hooked twice, until the next whole removal
  (`server.removal` in `OneHookEach`). An uninstall whose removal is refused
  outright reports it and deletes the binary all the same (`NoHookWithoutBinary`).
* `GoneAsReported` is false. An uninstall "must not pretend the hooks are gone, and
  it must not report success" (`main.rs:1554`), but `remove_marked` ends at the
  first call tmux refuses and returns what it removed so far (`hooks.rs:308`,
  `hooks.rs:324`): the binary is deleted, success is reported, hooks are left.
* `DecisionStands` is false. A user who unhooks a server that stays up "keeps their
  decision", and "only a *new* server gets hooks it never had" (`main.rs:145`), but
  the server last hooked is a variable of the process (`main.rs:1625`): a daemon
  that starts, also the one its unit restarts after it gave up, hooks the server
  again. `DecisionKept` says what is kept.
* A user's hook command killed half way, on a server the daemon holds for
  hooked, is repaired by nobody.
* An install that fails after its stop leaves the engine stopped.
* A failed capture whose streak cannot be stored counts as none
  (`main.rs:1669`), so a daemon that cannot write its health file never gives up;
  nor does one whose file is for ever read in the middle of a hook's rewriting
  it: the conditions in `FailureIsSeen`. The streak outlives the daemon, so a
  restarted one ends at its first failure.
* `osm-restore.service` states no `Restart`, against the comment at
  `restore.rs:2066`: a restore that fails is retried by hand or at the next boot.

## 4. Theorems

Every theorem holds for all sessions, processes, names and bounds. It rests on
the named assumption on the constants of its module and on nothing else, but for
the three whose statement has a premise of its own (`RetiredIsHeld`,
`DischargeOnlyRecoveredHolds`, `AlwaysRestorableHolds`). Besides types and bounds the assumptions say:

* `ResumeAssumption`: no kind of agent both keeps its transcript open and names
  its conversation on the command line (Codex does the one, Claude and OpenCode
  the other), and an agent is not called `shell` or `program`.
* `AgentDebtAssumption`: a conversation is bound at one place of the source, as
  the source is one capture that found each agent in one pane.
* `PlacementAssumption`: each session has one spot, which the row of its window
  names.
* That values standing for "nothing" and "nobody" are none of the others.

A safety property is proved from an inductive invariant: `Init` gives it, each
action keeps each of its parts, and it implies the property. What the invariants
add to the properties is the reason why the code is right:

**SessionMemory** (`SessionMemoryProofs`, `SessionMemoryRetire`)

* `TypeCorrect`, `DebtAlwaysCached`. `DebtIsCached` is not inductive alone:
  between the two updates of `set_unresolved`, and between a resolve and its
  refresh, it holds because the flag was raised before the rows and is lowered
  after them. `DebtInv` adds what is known of the source at those points.
* `LatestSurvivesHolds`, `LayoutSurvivesHolds`. Only `prune` deletes, and only
  after a capture or a publication wrote a row of this boot, which it does not
  rank. `RetentionInv` adds that ids and boots are in order, that every row of
  this boot is complete (`OwnBoot`) and that a restore's source is of an earlier
  boot (`Elsewhere`): so with a clock that agrees with the ids, what was written
  last sorts first, and `prune` always keeps the first.
* `AlwaysRestorableHolds`: `NeverSetBack /\ Spec => []AlwaysRestorable`. A source
  is retired only by the statement that inserts its replacement, and the last
  restorable row is one that retention keeps. `NeverSetBack` cannot be dropped: a
  row written at an earlier time than a retired one sorts behind it and may be
  deleted (`SteadyClock`, above), which TLC shows as soon as an instance of
  `sm_debt` has a clock that moves.
* `RetiredIsHeld`: `NoUnanchoredDeath /\ Spec => RetireOnlyWhenHeld`. `RetireInv`
  says that as long as the server is the one the restore anchored on, each
  session it counts as delivered is live as captured or in the history of what
  the user closed (`Kept`); that with no anchor nothing else can be counted
  (`UnanchoredParted`); that only a whole delivery reaches publication
  (`PublishesWhole`); and that what was collected still says so at the commit
  (`PublishesKept`). The premise is the negation of the first window listed
  above: the theorem says that it is the only one.
* `DischargeOnlyRecoveredHolds`: `NoUnanchoredDeath /\ NoLateDeath /\ Spec =>
  DischargeOnlyRecovered`; the second premise is the negation of the third window
  listed above. `DischargeInv` adds to `RetireInv` that an attempt owes all of its
  source until it ends (`OwesAll`), that from the last check on every session it
  counts is back whatever the server's identity (`Back`), and that an attempt that
  ended has discharged, and will discharge, only such sessions (`Paid`), with the
  source marked until it is returned (`Marked`). While it is marked it is owed
  whole, so only returning it, a publication and a capture can discharge anything;
  for the capture, that there is one newest carrier of a session (`OneCarrier`)
  makes what it carries the content it discharges.

**Captures** (`CapturesProofs`)

* `CapturesTyped`, `CommitsInOrder`: every step of `Captures` is a step of
  `Recorder` or a stutter. `OrderInv` says that a caller inside a pass holds the
  capture lock, that one past its first step shares the restore lock, that a
  restore excludes sharers, and that what has been read and not yet committed is
  not older than what has been.
* `DeferredWorkIsPending`. The invariant adds that the work of a call is pending
  from the moment it queues (`Queued`), as it raised the flag before that: the
  flag is cleared only by a holder that reads tmux afterwards.

**Preservation** (`PreservationProofs`)

* `NothingInheritedHolds`, `WholeHolds`, `NothingEmptyPreservedHolds`,
  `ShapeKeptHolds`, and `MovesInOneStepHolds`, the refinement of `Shelf`. While a
  manifest stands, the base name and the backup it names hold one database
  between them (`Pair`); `Together` says that names of different pairs lead to
  different databases and that a journal lies in the pair of its database,
  `Moving` how far each step of a move has come. That a free name exists is not
  assumed: a pigeonhole argument gives it while databases are no more than
  names. Once they are more, the invariant goes on as `Wedged`: a move that
  took an occupied name is stuck for good with its manifest, so that nothing moves
  any more (the refinement holds, `Whole` speaks only of states without a
  manifest, and `NothingInherited` states its bound).

**AgentDebt** (`AgentDebtProofs`)

* `AgentDebtTypes` and a theorem for each property of the run. Panes move under the restore's feet,
  so what it read is related to what is there by `Follows`: a pane is where it was
  read or the user had a hand in both places. From it, what a reading found in an
  untouched place is what is there (`ReadsTrue`); a binding of the newest snapshot
  that is not back, and whose place nobody touched, names the place it was bound at
  (`InPlace`); each row
  of the debt is what was promised, and everything promised and not settled has
  its row (`Rows`, `Promises`). `KeptUntilBack` is part of the invariant, as a
  capture carries only what its predecessor binds.

**Resume** (`ResumeProofs`)

* `ResumeTypes` and a theorem for each safety property of the run. `Witnessed`
  says that a witness found at the paste is on the server that was verified.
  `OneClient` rests on the lock of the conversation, held from before the check
  until the transcript is open: an agent that has not opened it yet is still
  attended by the caller that typed it (`Attended`), checked means no client, and
  there is never more than one (`AloneWith`).

**Placement** (`PlacementProofs`)

* `PlacementTypes` and a theorem for each safety property of the run. The layout
  is what its boot's desktop last answered (`Answered`, over any number of
  snapshots behind the source); windows have one address each (`Distinct`); each
  session of the layout is left or claimed at its spot unless the attempt is
  degraded (`Claimed`), and the publication needs each claim to be found again.
  Likewise each is left or has landed, as a window read back without a gap is the
  one window of the process that was started for it (`Arrived`, from `Distinct`).

**Engine** (`EngineProofs`)

* `EngineTypes` and a theorem for each safety property of `engine_hooks`. The
  hooks' lock admits one mutation, which appends only where nothing is marked, or
  where its removal was cut short, and which leaves nothing marked when it only
  removes, unless that was cut short (`LockHeld`); a command's step says what it
  has stopped and confirmed before it touches the binary (`CommandStands`);
  without a binary there is no daemon, and no hook but what a failed removal left
  (`NoBinary`), also on a server that starts later. `DecisionKept` needs only that
  the daemon registers with no server it takes for hooked (`DaemonKnows`); it says
  nothing of a later daemon, whose `hooked` is empty, and cannot
  (`DecisionStands`, above).

Only model-checked: all liveness (`RecordsEveryChange`, `Reconciled`,
`LockComesFree`, `PassEnds`, `HooksComeBack`, `FailureIsSeen`), since fairness and
`ENABLED` are out of the prover's reach; and the properties of `Links`. `TypeOK` is a property of a run where
a theorem of the core builds on it; in the other modules it is a theorem alone.

## 5. What is left out

Of captures and restores: the panes inside `restore_session` (splits, layouts,
directories come out whole or degraded), a failure to *write* the dirty flag, a
restore that times out waiting for the lock. A `--dry-run` ends after the
selection. In `AgentDebt` the server does not die (that is `SessionMemory`'s and
`Resume`'s), there is one source, and a capture does not overlap another
(`Captures`). In `Links` a session's own restore is one step.

Of agents: finding transcripts, their titles and formats, the text of a command
line. Of the desktop: the text of commands and of Lua, desktop entries, the
parsing of the compositor's answers; a terminal is one process with one window,
though the code's map from processes to windows keeps the last of several.
Of the engine: a prefix systemd does not search (the `NotOnSearchPath` branches of
`install` and `uninstall`, which skip every unit and leave a running engine to the
user), a capture that is kept out or debounced, which counts neither as a success
nor as a failure. Of the installer: `uninstall_database` (which opens the database before it takes
the restore lock), dry runs, the normalisation of paths.

Of the database: the statements of the schema, of each migration step and of
`repair` (a migration is one transaction that succeeds or fails), the labels in
backup names, forgetting a backup its owner has deleted, the time-out of the
schema lock, and files that reach the disk out of order.

Not modelled at all: structural equivalence (`equiv.rs` compares two trees and
keeps nothing; its bijection of panes is a pure search, and every other module
sees it as equality), `ipc.rs` (renders state), configuration, paths; tmux's own
behaviour beyond what is named above; text formats, QML, tests and tools.

## 6. Plan

Done: every part with state of its own, model-checked; proofs of the safety
properties of every module but `Links`, and of both refinements' safety. Next, in
order:

1. Proofs about `Links`: that a carried window is linked only to what it became,
   from the identities over generations.
2. `Equivalence`: pane order, difference and pairing against a reference.
3. A single abstract specification of the memory (sessions owed, live and
   recorded) that `SessionMemory` implements.
