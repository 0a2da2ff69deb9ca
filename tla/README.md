# PrvAptMirror in TLA+

A verification development for `prvaptmirror`, a private apt repository served
by one Python process: FastAPI handlers on a thread pool, one scheduler thread,
one SQLite database, one directory tree that a web server publishes.
Paths such as `publish.py:84` are lines of `src/prvaptmirror/`; `DESIGN.md` is
`src/DESIGN.md`.

## 1. The system

| Component | State | Operations | Talks to |
|---|---|---|---|
| Repository (`publish.py`, `storage.py`) | table `packages`, `repo/pool`, `repo/dists`, `repo/dists.next`, `settings.publish_dirty`, table `publish_runs`, `publish.lock` | `upload_commit`, `delete_commit`, `publish_unlocked`, `retry_pending_publish`, `startup_reconcile` | called by request handlers, by the scheduler and by imports of sources; calls indexer, by-hash and signing |
| Readiness (`routes/health.py`) | none | `readyz` | reads the flags and the index without the lock |
| Settings (`settings.py`, `routes/admin.py:867-897`, `main.py:56-61`) | the `app.*` keys of table `settings`, the pending key | save, publish under a candidate, roll back, recovery at start | publishes under `publish.lock`; every request works on a snapshot |
| Sources and scheduler (`source_sync.py`, `sources.py`) | `package_sources`, `source_artifacts`, wake-up event | claim, download, import, finish, queue, edit, delete, recover | uploads into the repository; retries pending publishes |
| By-hash (`byhash.py`) | `by-hash/` directories, the history of the live index | `prepare_by_hash` | one step of a publish |
| Indexer (`indexer.py`), signing (`signing.py`) | staging tree, gpg home | render `Packages`/`Release`, sign | called by a publish |
| Authentication (`auth.py`, `ratelimit.py`, `csrf.py`, `admin_cli.py`) | `admin`, `sessions`, `login_attempts` | bootstrap, login, session, password change, reset | request handlers, a command line beside the service |
| Database (`db.py`) | schema version, connections | `init_db`, `migrate`, `transaction` | everything |
| Backup and restore (`maintenance.py`) | an archive | backup, verify, restore | takes `publish.lock`; restore replaces a data directory |
| Parsing and upload (`debparse.py`, `uploads.py`) | `incoming/` files | stream, hash, parse | gives an upload its items |
| Configuration, events, snippets (`config.py`, `events.py`, `snippets.py`) | none | | |

What makes it hard is that one publish is a dozen commits in two stores, the
database and the disk. Each SQL statement outside a `transaction` commits on
its own, a tree is exchanged by one `renameat2`, a file is linked, unlinked or
moved by one call, and the process may die between any two. `publish.lock`
keeps the other threads out of that sequence; it does not keep out `readyz`,
apt clients, or whatever a handler read before it took the lock. Around it, the
scheduler is a task on the event loop that hands its work to one more thread, and
a backup, a restore and the command line are processes of their own on the same
directory.

`PROJECT.json` lists each hazard at its line with the property that covers it.

## 2. Modules

| Module | What it is |
|---|---|
| `Repository` | every operation under `publish.lock`, step by step |
| `Catalogue` | what the repository promises its apt clients, with no locks, flags, runs or requests |
| `MCRepository` | symmetry for TLC |
| `Repository_proofs`, `Catalogue_proofs` | the inductive invariant of `Repository` and the theorems; that it implements `Catalogue` |
| `Settings` | the repository settings as stored and as published: the change, its roll-back and its recovery, and every publish that overlaps it |
| `PublishedSettings` | what the service promises about these settings, with no threads, runs or roll-backs |
| `MCSettings`, `Settings_proofs` | symmetry for TLC; the inductive invariants and the theorems |
| `SourceSync` | package sources: administration, the scheduler's runs, the ledger of assets |
| `MCSourceSync`, `SourceSync_proofs` | symmetry for TLC; the inductive invariant and the theorems |
| `Scheduler`, `Scheduler_proofs` | the task that runs the sources: its events, its bounded cycles, shutdown; its inductive invariant |
| `SourceTable`, `SourceTable_proofs` | the contract on the rows of `package_sources` that `SourceSync` and `Scheduler` both keep to; what it is worth |
| `ByHash`, `MCByHash`, `ByHash_proofs` | which indexes stay reachable under the names of their digests; symmetry; the inductive invariant |
| `DataDirectory`, `DataDirectory_proofs` | one data directory under the service, a backup and a restore: start-up, migration, first account, signing key, locks; its inductive invariant |
| `Control`, `MCControl` | the fields of a package from the control file to the index; the constants of its run |

`Repository` is the centre. `Settings` and `SourceSync` each look at one publish, or
one `upload_commit`, from outside; what happens inside is `Repository`. `Scheduler`
looks at one run of `SourceSync` from outside; that the two agree on what may happen to
a source is `SourceTable`, which both implement. `ByHash` is one step of a publish,
seen over many of them. `DataDirectory` keeps of the handlers the steps that a
copy of the directory can tell apart, and adds the programs beside the service.

### Repository

State. `rows` is table `packages`, by its UNIQUE key (name, version, architecture),
with id, hash, state and the component its `filename` lies under; `pool` the file at
each path; `live` and `next` the trees `repo/dists` and `repo/dists.next`, reduced to
the hash and the path that each package's stanza carries, `None` where there is no
stanza and `Skipped` where the index does not have the package's architecture; `dirty`
is `settings.publish_dirty`; `lastRun` the status of the newest row of `publish_runs`.
`up` says whether the process is down, in its start-up sequence or serving. `lock` is
the holder of `publish.lock`, `pc` and `loc` its program point and locals, and
`job[t]` what thread `t` was asked to do: the values a handler computed before it took
the lock, with the settings it runs under.

A path (`Path`) is a package and a component, because `pool_path` puts the component,
which is a web setting, into it: an upload after a change of component puts the file
elsewhere and moves the row's `filename` there (`storage.py:196-202`). A setting
(`Setting`) is a component and the packages whose architecture it names; a publish
skips the others and succeeds (`indexer.py:186-189`, `DESIGN.md:258`).

Four variables are history. `lost` holds the paths whose file disappeared from the pool
by a hand outside the program. `forgotten`, until the next publish, holds a listed
package whose delete was marked when the process died, with nothing on disk to announce
it (`Unannounced`). `moved`, until the next publish, holds a package whose listed file a
start has put into quarantine, because its row names another path by then. `stray`
holds, until the next start, the files that a running service gave up without removing
them: at the former path of a row that moved, or linked by an upload that failed and
could not be undone.

Actions, in the order of the module.

- `Request*`: everything a handler does before the lock. An upload's files are
  parsed and hashed. A delete has read its row and compared `confirm_name`; it
  keeps only the id, as the handler does.
- `Acquire` / `Release`: `publish_lock` (`publish.py:42`). Waiters are blocked
  in `flock`, which promises no order. `Acquire` also chooses which files an upload
  brings, among those that `parse_deb` lets through under its settings (`Accepted`), and
  these settings; nothing reads them earlier.
- `RefuseItem`, `LinkItem`, `CommitItem`, `PlaceFails`: one file of an upload in
  `exclusive_link_or_revive` (`storage.py:126-216`): every refusal, `os.link`
  or adoption of a file that is there, the transaction with the row and the
  dirty flag, and the undo, which can itself fail (`UndoFails`, `storage.py:209-211`).
  `PublishPlaced` / `NothingPlaced` end the loop.
- `MarkDelete`, `NotFound`, `FlagDelete`, then, after a publish that succeeded,
  `Unlink`, `DropRow`, `DeleteDone`: `delete_commit` statement by statement.
- `StartRun`, `ScanRow`, `ScanDone`, `FlagMissing`, `Stage`, `Install`, `Swap`,
  `Cleanup`, `Succeed`, `ClearDirty`: `publish_unlocked`. `PublishFails` is any
  exception its `except` catches, at any point inside the `try`;
  `RecordFailure` and `FlagFailure` are the two statements of the handler.
- `StartPurge`, `SkipPurge`, `PurgeBlob`, `PurgeRow`, `PurgeDone`:
  `_finish_orphaned_pending_deletes`. `UnlinkFails`: an `unlink` that raises.
- `Restart`, `FlagOrphan`, `MoveOrphan`, `DiscardNext`, `DecidePublish`,
  `ServeAsIs`: `startup_reconcile`.
- `Crash`: the process dies at any point. `LoseBlob`: a pool file disappears.

Abstractions, each on purpose:

- What SQLite and the file system acknowledged survives the death of the
  process; power loss below `fsync` is outside the model. SQL statements do not
  fail.
- A request may run under any setting, whether it is in force, was replaced or is
  the candidate of a change: more than the code allows, and enough to need no second copy
  of `Settings`, which models how they change. A delete, a publish and a retry choose
  theirs where the index is built, an upload at its first file, and keeps it.
- `incoming/` and `staging/` are private to one call and are emptied at start;
  they do not appear. The tree a publish has built is `loc.staged`.
- `rmtree` followed by a move is one step (`Install`): neither tree is visible
  to a client nor read by the code before the exchange.
- An exception in the start-up sequence ends the process: it is `Crash`.
- Workers stand for request threads and for the import of a source, which calls
  the same `upload_commit`. The scheduler thread only retries here; `run_due_sources`
  reaches `retry_pending_publish` in every cycle.
- `readyz` is `Ready`, its one transaction over the flags. That it looks for
  `InRelease` afterwards, without the lock (`health.py:37`), can only turn a 200 into a 503.

A crash may fall anywhere. Two of the places matter to a client. Between
`publish.py:267` and `:271` the row is marked for deletion and the dirty flag is not
set. A crash there breaks the promise of the index, K13 (`NeverDangling`), which run
`repo_crash_window` shows. Between `publish.py:77` and `:81` at start-up a row is
marked missing and the flag is not set; the index goes on listing a package whose
file was lost from outside. A third place needs no crash: a change of component, an upload of
the same package whose publish fails, and a start, which takes the file at the old path
for an orphan although the index still lists it. It sets the dirty flag first, so that
`readyz` does not answer 200 before the next publish. `IndexServable` and the other
properties except exactly these packages and paths, `forgotten`, `lost` and `moved`, one by
one: what the program promises about every other package holds after such a crash as
before it, and the next publish makes good what is forgotten or moved, and resets the
two variables.

### Catalogue

Five variables: what is offered and from which path, the published index, the stored
files, what vanished from outside, and which listed packages were abandoned. The index
switches as a whole to what is offered, for any selection of packages (`Publish(carried)`);
a package may come to be offered from another path, but never with other bytes while
it is offered or promised; bytes may be stored only where there are none and never other
than a promised stanza's; a file is removed only when it is neither offered nor promised,
where a stanza of the index promises its file unless it was abandoned (`Promised`): only a
package that is not offered from where it is listed can be (`Abandon`).
`Repository!ImplementsCatalogue` maps `offered` to the active rows, `index` to `live`,
`files` to `pool`, `abandoned` to `forgotten` and `moved`; every step of an upload, of a
publish, of a delete, of recovery and of a crash is one step of the catalogue or none.

### Settings

State. `stored` is what the `app.*` keys of table `settings` say, `pending` the key
`app.settings_pending`, `dirty` and `lastRun` as in `Repository`, and `indexed`
the settings that `repo/dists` was built under. A configuration is a suite, for
which `readyz` looks, and the rest. `accepted` is history: what was ever in
force. `job[t].seen` is what a thread has read of the stored settings, `loc` the
publish under way and on whose behalf.

Actions.

- `RequestPublish`: the middleware loads the settings once per request
  (`main.py:82-89`); an upload, a delete or a manual publish later builds the
  index under that snapshot (`CommitChange`, `PublishRequest`). An import loads
  them before it downloads.
- `RequestSettings`, `ReadBefore`, `SavePlain`: a validated form; the handler
  reads the previous settings before the lock, and if no repository setting
  changed it saves all of them without the lock (`admin.py:867-875`).
- `MarkPending`, `Save`, `SaveFails`, `Settle`: the change under the lock
  (`admin.py:877-894`): pending key, publish under the candidate, the transaction
  that saves it and clears the key; if either fails, a publish under what the
  thread had read, and the key cleared only if that one succeeded.
- `StartRun`, `Exchange`, `Record`, `ClearDirty`, `PublishFails`,
  `RecordFailure`, `FlagFailure`: `publish_unlocked` as far as settings matter;
  `FlagFailure` is also what the caller does with the failure.
- `RetryPublish`, `NothingToRetry`: `retry_pending_publish`, under the settings
  then stored.
- `Restart`, `Recover`, `NothingPending`, `Reconcile`: the start-up sequence
  (`main.py:44-63`), which ends the process if the recovery cannot publish.

Abstractions: packages are left to `Repository`, so `Reconcile` may or may not
find a reason of its own to publish (`found`). Settings that do not reach the
index (limits, session length, public address) are left out. Requests and changes
may overlap a change anywhere; the history variable `overlapped` says that one has,
for the properties that hold otherwise.

### SourceSync

State. `source` is table `package_sources` (location, enabled, status, due,
validators), `artifact` table `source_artifacts`, `repo` the hash of every
package in the repository, `run` the thread that synchronises with all its
locals, `deleting` the ids that a delete request has checked. `lost` marks
sources whose end of run the database refused; `run.cut` that the source was
deleted under its run.

Three kinds of location differ in how an asset is known (`Key`): a release asset
by the release's id and time, a directory's file by its address, a fixed file
by its digest. The last is downloaded before the ledger is asked, and has
validators.

Actions: `create_source`, `update_source`, `queue_source`, `CheckDelete` and
`delete_source` (the handler's check and its statement are apart,
`admin.py:793-795`); `UploadPackage`, `DeletePackage`; `TimePasses`. One run is
`_claim_source`, `Published` (the retried publish), then for a listing
`ListAssets`, `SkipFinal` or `_begin_artifact` per asset, `_download` or
`DownloadFails`, one `upload_commit` of the batch, `RecordResult` per asset,
and for a fixed file `NotModified` or `FetchFile`, the same import, and
`SaveValidator`; then `_finish_source`. `RunFails`, `UploadFails` and
`FinishFails` are the exceptions at each point, `SourceGone` the foreign key that
refuses an artifact of a deleted source, `Crash` and
`recover_interrupted_source_runs` the death of the process and its next start.

Abstractions:

- Time is whether a source is due. How long the back-off delays it
  (`source_sync.py:221-227`) is left out.
- The order of claims, the bound of a cycle and the wake-up event are module
  `Scheduler`; here the thread may claim any due source at any time.
- An ETag, or a date, identifies the content of the address it came from. Sent
  to another address, the date is answered 304 by any file that is older.
- The version order by which a directory's latest file is chosen is abstracted
  to "at most one per package" (`Offers`); the package a file name announces is
  the one inside.
- An outcome is recorded by the artifact's row id, whatever the row says by then
  (`source_sync.py:691`). That SQLite may give the id of a row which went with its
  source to another artifact of the same run is left out.
- Tokens, previews, regular expressions, the table `source_runs` and the counters
  in it are left out.

### Scheduler

State. `source` is again table `package_sources`, of which only the status and
`enabled` matter; `due` and `earlier` stand for `next_check_at`: which have come,
and in which order. `pc` is where `SourceScheduler._run` stands, `active` the
source its worker thread has claimed, `served` the count of the cycle, `wake` and
`stop` the two `asyncio.Event`s. `cut` (the cycle ended before it found nothing to
do) and `lost` (the database refused an end of run) are history.

Actions: `create_source`, `update_source`, `queue_source`, `CheckDelete` and
`delete_source` as the handlers' statements with their `wake()`; `BeginCycle`,
`_claim_source` and `_finish_source` per source, `EndCycle`, `AfterCycle`, `Wakes`,
`LeaveLoop`; `CycleFails` and `FinishFails`, the exceptions that `_run` catches;
`Shutdown` (`stop()`), `Crash`, `Start` with `recover_interrupted_source_runs`.

Abstractions: a handler does not await between its statement and `wake()`, so the
two are one step of the event loop, and `OnLoop` keeps the task from running in
the middle of a handler. Timestamps are distinct, except within one statement,
where the id decides. What a run does, and how it ends, is `SourceSync`.

### ByHash

State. `live` is `repo/dists` and `staged` the tree a publish has prepared: per
index file its current digest, the history file's three newest versions, and the
time stamps of the files in `by-hash/`; `at` is when the tree was prepared. `retired`
and `past` are history, kept by the exchange alone and not by the code under test:
when a hashed file ceased to be current, and the two versions before the current.

Actions: `prepare_by_hash` for any newly rendered indexes; `rename_exchange`;
`PublishFails`, which throws the staged tree away; `Tick`.

Abstractions: a hashed file is known by its index and its digest, since no two
indexes of one directory ever have the same bytes. An index may also disappear (an
architecture without packages, a suite that is renamed) and come back.

### DataDirectory

State. `disk` is the directory at the configured path: schema version and whether a
script broke off half way, fingerprint, account and whether its password is the generated
one, `app.settings_pending`, rows, pool, key ring, `secret-key`, dirty flag, whether the
last publish run succeeded, `admin-bootstrap.txt`, exported key,
index with the key that signed it, and the inode of its lock files. `archive` is the
latest backup. `publishing` holds each `publish.lock` by inode; who shares or
excludes `service.lock` follows from the program points of `svc`, `bak` and `res` and
the descriptor each has open. Two variables are history. `raced`: a restore came between
the running service's reading its secret and its taking the lock. `inherited`: the account
came with an archive, with the password that had been generated for it, and has it still.

Actions, in the order of the programs. The service: `Launch`, `WriteSecret`,
`OpenServiceLock`, `LockService`, `Initialize`, `RunScript`, `SetVersion`,
`ScriptFails`, `WriteBootstrap`, `InsertUser`, `ensure_key`, `RecordKey`, `ExportKey`; a
pending change of settings is settled by `RecoverSettings` and `SettleSettings`, and the
start ends with `RecoveryFails` (`main.py:56-61`); `startup_reconcile`, whose publish may
fail without ending the start. Then `BeginUpload`, `InsertRow`, `BeginDelete`,
`BeginPublish`, `retry_pending_publish`, `BeginChange`, `Publish`, `Retry`, `SaveSettings`,
`PublishFails`, `Unlink`, `DropRow`, `change_password`; `Crash` at any point.
Backup: `BeginBackup`, `ShareService`, `LockPublish`, `Snapshot`, `ArchiveFiles`,
`CheckFiles`, `BackupDies`. Restore: `LockAll`, `Extract`, `LinkLocks`,
`rename_exchange`, `RestoreDone`, `RestoreDies`. Opening a lock file and locking it are
apart for the service and for backup, because the directory can be exchanged in between;
`LinkLocks` (`maintenance.py:170`) is what makes both ends of the exchange share one inode.

Abstractions:

- A publish, and the reconciliation at start, are one step; their inside is
  `Repository`, of which the crash windows (finding 1) are not repeated here: the
  mark of a delete and its flag are one step.
- Keys and secrets are made by chance, so they differ from those in the archive.
- The archive's rename to its destination is part of `CheckFiles`. A backup copies
  table `users` as it is and leaves `admin-bootstrap.txt` out.
- There is one restore at a time, and nothing else exchanges the directory: its
  opening of the two lock files and its locking them, which does not wait, are one step.
- A password change, in the database, is one step, and the command line's
  `reset-password` runs on a migrated database. `docker stop` is `Crash`.
- `PRVAPT_SECRET_KEY`, a configured password and a configured fingerprint are left
  out: then nothing is generated.

### Control

State: the control file's lines, the stored row, the stanza. A line is a key or none,
the spaces it begins with, and the rest, of which it matters only whether it is empty
or a dot. Actions: `parse_deb` with `_parse_control_text` as a fold over lines, and
`render_packages` with `_format_field`. Missing required fields and lines that do not
parse refuse the file; fields that are not in the whitelist are dropped.

## 3. Runs

| Run | Instance | States | Result |
|---|---|---|---|
| `repo_safety` | 1 package, 2 contents, 2 components, settings that carry it or not, 2 workers + scheduler, uploads of 1 or 2 files, 1 file lost at a time | 1.5 M | holds |
| `repo_liveness` | 1 package, 1 content, 1 component, settings that carry it or not, 1 worker + scheduler | 42 k | holds |
| `repo_crash_window` | 2 packages, 1 content, 1 component | | `NeverDangling` violated |
| `settings` | 2 suites, 1 rest, 2 workers, everything overlaps, with fairness | 57 k | holds |
| `settings_snapshot` | 1 suite, 2 rests, 2 workers, requests and changes overlap | | `DescribedWhenReady` violated |
| `source_listing` | a release source and a directory to choose from, 1 package, 2 contents | 468 k | holds |
| `source_liveness` | a release source and a fixed file, 1 package, 1 content, with fairness | 70 k | holds |
| `source_file` | two fixed files, 1 package, 2 contents | | `FileFetched` violated |
| `scheduler` | 2 sources, 1 per cycle, with fairness | 25 k | holds |
| `byhash` | 1 index, 4 digests, retention 2, clock to 8 | 117 k | holds |
| `data` | 1 package, 2 keys, 2 secrets, 2 lock inodes, with fairness | 619 k | holds |
| `control` | 2 copied fields and 1 other, 3 lines, up to 2 leading spaces | | `FieldsCopied` violated |

Why the bounds are enough. What the operations on one package can do to each other is
where the cases multiply: two contents give a refused upload of other bytes, and a lost
file replaced by other bytes; two components a file at each of two paths, of which the row
names one and the index perhaps the other; a setting that carries the package and one that
does not, an index that has it, lacks it or skips it. Two files in one upload are the
same package twice, the second of which meets the first or fails. Packages share nothing
but the flags, the run, the lock and the exchange of the whole index: a second package adds
a delete beside another's publish, which is the run `repo_crash_window` (two packages and
two ids), and beyond it the theorems hold for any number of packages, threads and
settings. `FreshId` is SQLite's rule for `INTEGER PRIMARY KEY`, one more than the highest
in use, so that no more ids than packages occur. Because the operations are serialised by
the lock, a further worker adds only what a thread brings from before the lock, which is
the id of a delete and the settings: two workers bring two of each. `MaxLost` bounds the
paths whose file is missing at one time. Nothing counts crashes, failures or retries: they
may happen at any point, any number of times.

`Settings`: two configurations suffice for a stored and a candidate one, and two
workers for a change that overlaps a request or another change; the scheduler
and the start-up sequence are there in every instance. The two differ in the suite,
so that readiness is affected as well; in `settings_snapshot` they differ in the
rest, where `readyz` cannot tell them apart.

`SourceSync`: one source. Two of them share only the one thread, which runs one
at a time, and the repository, where `UploadPackage` and `DeletePackage` already
stand for everybody else; the theorems hold for any number. An edited source can
move between the locations of its instance, also under a run, and a new source
may get the id of a deleted one. Two contents of one package give a conflict, an
asset that changed, and two assets of one release that compete for a package.
That a source is served among others rests on the order of claims, which is
`Scheduler`'s.

`Scheduler`: two sources and one per cycle, so that a source which keeps coming due
competes with another and every cycle is cut by its bound. `ByHash`: four digests
are the current version, the two that history protects and one that only its age
does; eight ticks let a version be replaced, outlive the retention period and come
back. Indexes do not interact. `DataDirectory`: one package is in every state a
package can be in while a backup passes; two keys, secrets and inodes are those in
the directory and those in the archive, or in the staged one. It begins with an empty
directory, with no archive or with one of an older release. Deaths and restores are
not counted.

What the properties of `Repository` say.

- `IndexServable` (decision K13): every file that the live index lists is in
  the pool at its path with the listed bytes, lost files, forgotten deletes and files in
  quarantine aside.
- `ActiveStored`: every active row has its own bytes at its path, whichever mix of
  adopted files, undone links and changes of component came before; this is what `backup`
  verifies.
- `ReadyMeansPublished`: whenever the flags let `readyz` answer 200, all accepted
  packages are in the index with the bytes and the path of their rows, unless the index
  does not have their architecture, even while a thread is inside the lock; and when none
  is, the index lists nothing else, but for lost files and forgotten deletes. A listed
  file in quarantine is no excuse here.
- `NoOrphanFile`: while the service runs and the lock is free every pool file
  belongs to a row, except what was given up since the last start (`stray`).
- `RowDeletedLast`: a row goes only after its file went and the index stopped
  listing it, or the delete was forgotten.
- `DirtyCleared`, `RequestsEnd`: a committed change is published in the end; no
  request holds the lock or waits for it for ever.

Of `Settings`:

- `QuietMeansDescribed` (unless something overlapped a change): if neither flag is set
  and the last publish succeeded, the index was built under the settings in force.
  This is what readiness, the retry and the next start conclude from these three
  values.
- `OnlySavedPublished` (any overlap): an index under settings that never were in
  force carries the pending key.
- `ImplementsRegister`: seen from outside, settings come into force only when the index
  was built under them, the index changes only while something is flagged, and the flags
  are lowered only when the index follows the settings. A request that overlaps a change
  gives up two of these: a form may restore what it had read (`Overwrite`) and the flags
  may be lowered over an older index (`Lower`); the rest holds under any overlap.
- `Converges`, `PendingCleared`, `RequestsEnd`: the index comes to follow the
  settings; an interrupted change is settled; nobody waits for ever.

Of `SourceSync`:

- `RunningHasRunner`: a source that says "running" is being worked on, or no
  claim and no delete would touch it again before a restart. `lost` is excepted:
  if the database refuses the end of a run the code has no other way to release
  the source.
- `NoStrayArtifact`: no artifact without its source, although a source can be
  deleted between the handler's check and a claim.
- `ListingComplete`: a run of a listing that ends well leaves no selected asset
  unsettled. `ManualListingRetries`: and, if it was queued by hand, none rejected
  or in conflict.
- `LedgerSettled`: imported and skipped are for ever, rejected and conflict change
  only in a manual run.
- `ImplementsTable`: what a run, an administrator, a failure, a crash and a start do to
  the rows obeys the contract `SourceTable`: one source at a time, claimed only while
  enabled and due, put off when it ends, released whatever happens.
- `QueuedServed`, `RunningEnds`: a queued source is claimed and a run ends.

Of `Scheduler`:

- `NoLostWake`: the task does not sleep over a request. The event is cleared before
  the cycle and waited for after it, so that a request made after the cycle's last
  look is still seen; unless the cycle was cut short, nothing asked for is left.
- `CleanStop`: a task that ended by a shutdown leaves no source claimed, whatever was
  queued or deleted meanwhile.
- `ImplementsTable`: the same contract, seen from the task's side, with stops in order.
- `QueuedServed`: a queued source is served however often the other comes due; the
  only excuses are edits, repeated queueing and shutdowns, for ever.
- `ShutdownEnds`: because a cycle is bounded, a shutdown ends.

Of `ByHash`:

- `Fetchable`: what was current when a client read its Release stays for the
  retention period after the publish that replaced it began, whatever fails in
  between and however old it was.
- `TwoPreviousKept`: and the two versions before the current one stay at any age.
- `Collected`: nothing else does; `by-hash/` does not grow for ever.

Of `DataDirectory`:

- `ServesWhole`: a service that answers stands on a whole schema, an account, one key
  that is recorded, exported and signed the index, and the index lists what is on
  offer or is due for a rebuild, whichever starts died half way and wherever the
  directory came from.
- `BackupWhole`: what an archive holds fits together: every row on offer has its file,
  and the recorded key is the one in the key ring.
- `FirstPasswordKnown`: a generated password that still is the account's can be read, if
  the account was made in this directory.
- `OfflineExchange`: the directory is never exchanged under a service or a backup that
  holds it.
- `KeyKept`: a signing key, once made, is replaced by a restore only; a start that
  died after making it takes it up again.
- `ServiceReturns`: a service that went down serves again, unless a migration broke off.
  Keys half made, locks of a backup, an index that cannot be rebuilt do not keep it down; a
  pending change of settings does as long as the publish at the start fails.
- `BackupEnds`: a backup gets its locks.

`FieldsCopied` of `Control`: a reader of the index finds in each copied field what a
reader of the package finds.

Fairness. The lock holder is one thread that keeps running (`WF` of `Section`).
A process that died is started again by its supervisor (`WF` of `Restart`). The
scheduler asks for a retry in every cycle (`WF` of `RequestRetry`). A thread
blocked in `flock` gets the lock if it becomes free over and over (`SF` of
`Acquire`; weak fairness would not do, as another thread may hold it at any
time). Faults stop at some point: with an unlink or a signature that fails for
ever, nothing is published, and nothing should be. This is written
`<>[][Fault => Section]_vars`, and not `~Fault`, so that a step which a fault and normal
work have in common is not ruled out along with the fault.
`Settings` assumes the same, and that a thread on its way to the lock keeps
running. In `SourceSync` the synchronising thread keeps running (`WF` of `Sync`),
the service is started again, time passes, and a source that is claimable again
and again is claimed (`SF` of `_claim_source`): `_claim_source` takes the one
with the oldest `next_check_at`, and an end of run moves that forward, so a
waiting source gets its turn. It has to be strong: an edit, or another source's
run, may make the claim impossible for a while. `Scheduler` does not assume this but
shows it (`QueuedServed`), from the order of claims and the event loop: the task is
strongly fair, since the loop's ready queue is first in, first out and handlers that
come again and again stand behind it; the worker thread runs; a wait ends with the poll
interval. In `DataDirectory` the supervisor starts a service that is down
(`docker-compose.yml:5`), every program goes on, and a lock that is free again and again
is obtained (`SF` of the steps that block on `publish.lock`); deaths, restores and starts
whose first publish fails do not go on for ever: with a pending change of settings and a
signature that always fails the service does not come up (`main.py:59-60`).

### Disagreements between documents and code

Each is a run whose property states the document; `PROJECT.json` quotes it.

1. `delete_commit` marks the row before it sets the dirty flag. After a crash in
   between, recovery sees a clean repository, unlinks the file, and does not
   publish: the index lists a file that the service deleted. `_quarantine_missing`
   at start-up has the same order. (`repo_crash_window`)
2. A settings form that read the settings before somebody else's change, and leaves the
   repository settings as it read them, writes all of them back without the lock and
   without a publish (`admin.py:871-875`). The change is overwritten in the database and
   stays in the index; nothing is flagged and `readyz` answers 200. (`settings_snapshot`)
   The same property is violated, by a longer trace, by a request that began before a
   settings change and publishes its snapshot of the old settings after it (`main.py:86`).
3. Editing the address of a fixed file keeps the validators of the old one: an
   older file at the new address answers 304 and is never fetched. (`source_file`)
4. A continuation line that begins with two spaces, which is text to be shown
   verbatim, reaches the index with one, as text to be reflowed: parsing strips one
   space and formatting puts none back where another is left. (`control`)

Seen while reading, with no run:

- `startup_reconcile` finishes pending deletes before its own publish and not after
  (`publish.py:305`), and a retry does nothing once the flag is down (`publish.py:182`):
  a delete whose publish failed stays `pending_delete` after a start-up that
  published successfully.
- A delete is confirmed by name before the lock and applied by id under it
  (`publish.py:264`). The id may belong to another package by then.
- A fixed file in conflict is skipped by the next scheduled check, which stores its
  validators (`source_sync.py:810`). From then on a manual run is answered 304 and
  does not retry it.
- An asset of a directory is known by its address, so a file replaced there is
  never seen again.
- A full disk during a download is recorded as `rejected`, which scheduled checks
  take for final (`source_sync.py:734`).
- A package deleted between the import and the look-up is recorded as `conflict`.
- An edit during a run is due at once, until the end of the run puts
  `next_check_at` off (`source_sync.py:239-245`): the new location waits for its
  interval. Queueing a source again moves it behind those that became due since.
- `DESIGN.md:107` says that the exit waits for the synchronisation under way;
  `run_due_sources` does not look at the stop event and goes on with up to ten sources.
- `DESIGN.md:528` says a file that fails leaves its siblings alone and the publish
  still indexes them, whereas an `OSError` in `exclusive_link_or_revive` abandons
  the rest of the upload unpublished (the dirty flag stays set, so the scheduler
  publishes what was placed).
- `DESIGN.md:514-518` says that a missing row is revived by a new upload with new
  checksums; the code refuses other bytes (`storage.py:152-155`).
- An index that is not rendered for one publish (the last package of an architecture
  is deleted) loses its by-hash history; when it returns, only age protects the old
  versions. Retention counts from when a publish was prepared, not from the exchange.
- `text.splitlines()` in the control parser also splits at Unicode separators.
- A kill between creating `secret-key` and writing it (`config.py:118`) leaves an empty
  file that every later start uses as the secret. A backup of such a directory
  succeeds, and `restore` refuses it. With `PRVAPT_SECRET_KEY` set and no file, a backup
  fails.
- The secret is read before `service.lock` is taken: a start that overlaps a restore
  serves the restored directory with the old secret, and cannot read its tokens
  (variable `raced`; the README asks the operator not to start an instance then).
- A migration that dies between its script and its version number makes every later
  start fail at `CREATE TABLE` (`db.py:160`); nothing is served on it (`ServesWhole`),
  and `ServiceReturns` excludes it.
- Backups lack `admin-bootstrap.txt`: a restored directory whose first password was
  never changed can only be entered by `reset-password` (`FirstPasswordKnown` excepts it by
  `inherited`). That command takes no lock.

## 4. Proofs

`Repository_proofs` proves, for every set of packages, contents and threads and
all bounds:

| Theorem | Statement |
|---|---|
| `TypeCorrect` | `Spec => []TypeOK` |
| `InvAlways` | `Spec => []Inv` |
| `IndexAlwaysServable` | `Spec => []IndexServable` |
| `ActiveAlwaysStored` | `Spec => []ActiveStored` |
| `ReadyAlwaysPublished` | `Spec => []ReadyMeansPublished` |
| `RowAlwaysDeletedLast` | `Spec => RowDeletedLast` |
| `NeverOrphanFile` | `Spec => []NoOrphanFile` |
| `CatalogueImplemented` (in `Catalogue_proofs`) | `Spec => ImplementsCatalogue` |
| `CatalogueServes` (there) | `Abstract!Spec => []Abstract!Servable` |
| `ClientsServed` (there) | `Spec => []Abstract!Servable` |

None has a hypothesis about crashes: they fall wherever they like. The assumptions on
constants are those of `Repository`: positive bounds, a boot thread that is no client,
settings that name a component and packages, and `None` and `Skipped` unlike everything they
stand beside.

The argument. `IndexServable` is not inductive: what keeps a purge from
unlinking a listed file is that a clean flag and a successful last run mean that
the live index lists nothing but active rows, except for what the holder is
about to do. `Inv` says this point by point:

- `StagedInv`: from `Stage` to the end of the publish the tree in hand
  (`loc.staged`, then `next`, then `live`) is what the active rows offer, for the
  architectures it has.
- `HolderInv`, `RunInv`: which operations stand at which points; the last run is
  running while a publish is under way, and it succeeded, with nothing dirty,
  when a file is unlinked or a row purged.
- `WorklistInv`, `TargetInv`: purges see only rows that are pending, quarantine
  only files without a row; the row a delete has marked stays marked.
- `PlaceInv`: at the transaction of an upload the file has the item's bytes, the
  row if there is one has them too, and a file this call created is at no path that an
  active row or the index names, so that undoing it harms nobody.
- `ListedInv`: a listed package has a row with the bytes the index names, or its
  delete was forgotten: then the row may be gone, or be another upload's.
- `MissingInv`: only the row of a lost file is marked missing.
- `MovedInv`: a listed file is in quarantine only under the dirty flag.
- `CleanInv`: no dirty flag and a successful last run imply that the index names
  every active row whose architecture it has, at the path of the row. What else it
  names it names for a reason: a row marked missing, a
  delete that has marked its row and is about to set the flag, or one that died in
  between. This is the inference that the code makes before it purges, and the last
  reason is where it is wrong.

`GoneInv` is added for `RowDeletedLast`: when a row is dropped its file is gone.
`OrphanInv` is added for `NoOrphanFile`: outside start-up, a file without a row was given
up (`stray`) or is one that the holder has just linked and has not yet committed or undone;
at start-up, one that recovery still has on its list. `CatalogueImplemented` maps every action to one step
of `Catalogue` or to none: linking a file is `Store`, committing it `Offer`, marking a row
`Withdraw`, the exchange `Publish`, an unlink or an undo `Remove`, a file lost from outside
`Lose`, a crash between a mark and its flag or the quarantine of a listed file `Abandon`;
the invariant supplies each abstract guard, above all that what is exchanged is
what is offered and that what is removed is neither offered nor promised.
`CatalogueServes` shows that the catalogue is worth its name: from its own steps, with
nothing of the repository, every file in the index is stored with the listed bytes unless
it was lost or its promise abandoned (`PromiseInv` adds that only stored bytes are
offered). So K13 follows a second time, from the refinement alone (`ClientsServed`).
Each lemma takes one part of the invariant through the groups of actions
(`UploadStep`, `DeleteStep`, `ScanStep`, `PublishStep`, `FinishStep`,
`StartupStep`, faults); the last step of each theorem is temporal reasoning.

### Settings_proofs

| Theorem | Statement | Assumption |
|---|---|---|
| `InvAlways` | `Spec => []Inv` | none |
| `TypeCorrect` | `Spec => []TypeOK` | none |
| `OnlySavedAlwaysPublished` | `Spec => []OnlySavedPublished` | none |
| `QuietAlwaysDescribed` | `Spec => []QuietMeansDescribed` | none |
| `RegisterImplemented` | `Spec => ImplementsRegister` | none |
| `RegisterDescribes` | `Register!Spec => []Register!Described` | none |

`OnlySavedPublished` follows from who may put what into the index. `JobInv`,
`HolderInv` and `EntryInv` say which job the holder has at which point;
`PublishInv` that a publish leaves in the index what it was called with, and that
a candidate is published with the key set; `SavedInv` that everything else a
thread has read, or publishes, has been in force. For `QuietMeansDescribed` this
is not enough: `CurrentInv` adds that as long as nothing overlapped, nobody holds
settings that were replaced; finding 2 shows that the condition is needed.
`RegisterImplemented` maps `Exchange` to `Build`, `Save` to `Enforce`, an overlapped
`SavePlain` to `Overwrite`, the first overlap to `Contend` and everything that raises or
lowers the flags to `Raise` or `Lower`; besides `Inv` and `CurrentInv` it needs that a
publish is seen as running until its exchange (`RunInv`), so that the index never changes
unflagged. `RegisterDescribes` gets the described index from the register's steps alone.

### SourceSync_proofs

| Theorem | Statement |
|---|---|
| `InvAlways` | `Spec => []Inv` |
| `TypeCorrect` | `Spec => []TypeOK` |
| `RunningAlwaysHasRunner` | `Spec => []RunningHasRunner` |
| `NeverStrayArtifact` | `Spec => []NoStrayArtifact` |
| `ListingAlwaysComplete` | `Spec => ListingComplete` |
| `ManualListingAlwaysRetries` | `Spec => ManualListingRetries` |
| `LedgerAlwaysSettled` | `Spec => LedgerSettled` |
| `TableImplemented` | `Spec => ImplementsTable` |

They assume a positive bound on ids, disjoint kinds of location and a `None`
unlike a row, a run, an asset or an outcome. `RunningHasRunner` and
`NoStrayArtifact` are inductive with the types. What a run achieves needs
`WorkInv`: every asset of its listing is still to be begun, being downloaded or
in the batch with its artifact `pending`, or final for this run, unless the run
already has an error; and assets of one listing have different external ids
(`OffersKeys`), so that the outcome of one does not overwrite another's. At the
end nothing is left to be begun or recorded (`OpenInv`: what is still to be recorded is
`pending`, or its row went with the source), and `Final` is what the two
properties ask for (`EndStep`). `RowStep` and `ArtifactStep` reduce what the other
steps can do to a row and to the ledger to a few cases. `TableImplemented` maps each
change of a row to one step of `SourceTable`, and everything else a run does to none: the
rows are seen by their columns (`StatusOf`, `EnabledOnes`, `DueOnes`), of which a write to
one row changes one entry each (`RowColumns`).

### Scheduler_proofs

| Theorem | Statement |
|---|---|
| `InvAlways` | `Spec => []Inv` |
| `TypeCorrect` | `Spec => []TypeOK` |
| `NeverLostWake` | `Spec => []NoLostWake` |
| `StopAlwaysClean` | `Spec => []CleanStop` |
| `TableImplemented` | `Spec => ImplementsTable` |

For any number of sources and any positive bound on a cycle. Neither property is
inductive: `NoLostWake` needs that it holds already when the thread has returned and the
task has not looked at the event yet (`SleepInv`), and that whoever asks for a source makes
it due (`DueInv`), so that a cycle which found nothing due left nothing asked for.
`CleanStop` needs that outside a crash every running source is the thread's or was refused
its end (`RunningInv`), and that the thread has one exactly where it is at one (`RunInv`).
`TableImplemented` needs `RunInv` too, so that the stop of the task is one without a claim,
and that a delete handler between its two statements keeps the task from ending
(`DeleteInv`).

### SourceTable_proofs

`ContractHolds`: `Spec => []RunningClaimed`. Short of a crash, only the thread's own source
says that it is running, unless the database refused its end. It is inductive once the
status is known to be a function on the sources, and it is proved of the contract, not of a
program: `SourceSync` and `Scheduler`, which obey it, inherit it.

### ByHash_proofs

| Theorem | Statement |
|---|---|
| `InvAlways` | `Spec => []Inv` |
| `AlwaysFetchable` | `Spec => []Fetchable` |
| `TwoPreviousAlwaysKept` | `Spec => []TwoPreviousKept` |
| `AlwaysCollected` | `Spec => []Collected` |
| `TypeCorrect` | `Spec => []TypeOK` |

For any indexes, contents, retention and clock. The code knows only time stamps and
three digests; `HistoryInv` says that these digests are the current version and `past`,
`StampInv` that the stamp of a kept file that is not current is the time at which it
retired, and `StagedInv` that a staged tree was made of the tree that is still live, which
is what `publish.lock` is for.

### DataDirectory_proofs

| Theorem | Statement |
|---|---|
| `InvAlways` | `Spec => []Inv` |
| `TypeCorrect` | `Spec => []TypeOK` |
| `AlwaysServesWhole` | `Spec => []ServesWhole` |
| `BackupAlwaysWhole` | `Spec => []BackupWhole` |
| `FirstPasswordAlwaysKnown` | `Spec => []FirstPasswordKnown` |
| `ExchangeAlwaysOffline` | `Spec => OfflineExchange` |
| `KeyAlwaysKept` | `Spec => KeyKept` |

For any packages, keys, secrets and inodes, from `NoneAssumption` (`None` and `Empty` are
none of the values they stand beside) and `ChanceAssumption` (chance can make another key,
secret or inode than the present one). `InodeInv` says that whoever holds a lock holds the
one in the directory, which is why `LinkLocks` is needed; `LockInv` who holds what at which
point. `BackupInv` says that what a backup has staged is what the directory still says,
because nobody else can change it under these locks; `RestoreInv` that a staged directory is
consistent; `StartInv` what the start has got done by each point; `HandlerInv` and
`SecretInv` what a handler and the service remember. `FirstPasswordKnown` is inductive with
`StartInv`: the file is there before the account is.

### Left to TLC

Liveness under fairness is beyond this prover and stays with TLC: the `Converges`, `Ends`,
`Served`, `Returns` and `Cleared` properties. `Control` is a fold over sequences, checked
over all control files of its bound, and its one property is violated. All other
properties of the passing runs are theorems.

## 5. What is left

Not modelled, and why:

- Sessions, rate limit and CSRF (`auth.py`, `ratelimit.py`, `csrf.py`): each is one statement
  or one comparison. Login attempts are counted and recorded in separate statements
  (`ratelimit.py:59`), but the login handler is `async` and does not await between them, so
  that on one event loop nothing comes in between.
- Events, snippets, templates: no state of their own.
- The text of `Packages` and `Release`, compression, ar and tar members, the streaming of
  form data: bytes without shared state. Their result is the item that an upload carries.
- gpg, SQLite, the file system and the web server: external; their promises are the
  abstractions named above.

Worth adding, in this order: the composition of `Scheduler` with `SourceSync` as one
specification, so that fairness of claims is derived there too (today both are shown to
obey `SourceTable`, which says nothing of liveness); a restorable archive as part of
`BackupWhole`; the pure operators over bounded inputs, such as back-off and its bound, the
version order of a directory's latest file and the selection of architectures.
