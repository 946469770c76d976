# Verification of backitup

backitup is a self-hosted backup service. Clients push snapshots over SSH into
one directory each (the *hot* store); a Go server keeps settings and records in
SQLite, tiers snapshots to rclone remotes (the *cold* store) and prunes both on
independent horizons. This directory holds TLA+ models of its core logic, the
TLC configurations that check them and proofs that TLAPS checks.

## Inventory

| Component | State | Operations | Hard behaviour | Correct when |
|---|---|---|---|---|
| Lifecycle worker (`internal/lifecycle`) | none but its pass: listing, offsited set | `RunOnce`, `processClient`: `pruneOffsite`, `pruneHot`, `verifyOffsiteObjects`, `verifyLatest`, stale alert, run pruning | decides on what it read at the start of the pass; an error ends the pass | nothing leaves a tier before its horizon; the newest stays; retention is enforced in the end |
| Offsite worker and "Backup now" (`RunOffsiteOnce`, `OffsiteClient`) | none but its pass | list, hash, skip duplicates, upload, record | two of them and the pruner run without a lock | every snapshot gets offsite; a row means an object and an object a row |
| Offsite records (`internal/store`) | `offsite_objects`, `offsite_runs` | upsert, delete, list, latest | text timestamps; upsert over a row being deleted | they agree with the remote |
| Hot store and ingest (`internal/mode`, `docker/sshd`) | client directories | `backitup-recv`, rsync and `latest`, `List`, `PrepareOffsite`, `DeleteSnapshot` | rsync directories are listed while partial; truncated archives | only complete snapshots are listed |
| Administration (`server/snapshots.go`, `clients.go`) | clients row | delete snapshots and objects singly and in bulk, forget, change remote, directory, retention | runs beside all of the above; works on the client's present remote | rows and objects still agree; offsite first still holds |
| Run reporting (`client/run.go`, `client_api.go`) | `runs` rows, lock file | config fetch, running row, final report, overlap row, stale sweeps | lost replies, clients without a common lock, late reports | the latest run shown is the truth; no row stays running |
| Credentials (`server/clients.go`, `authkeys`) | version, token and key in the row; `authorized_keys` | create, rotate by compare-and-swap, delete, rewrite the file | list-then-write of concurrent handlers | the file ends up equal to the rows |
| Remotes (`server/remotes.go`) | `remotes` rows, `rclone.conf` | create, edit, delete, rewrite the file | as above, and a write that is not atomic | the file ends up equal to the rows |
| Users and sessions | users, session map, limiter map | login, create, delete, expiry | count-then-delete; sessions outlive users | someone can always log in |
| Health, Slug, schedules | none | `DeriveHealth`, `Slug`, `offsiteDue`, `nextAlignedTick` | boundaries | equal to a reference definition |
| Schema migration (`store.Open`) | the tables, the CHECK of `runs` | `schema.sql`, added columns, swap of `runs` at every start | a kill or an error between two statements, then a restart | no run is destroyed; a store that opens is migrated; the server can open it |
| Views, alerts, entry points | cached sizes | rendering | none worth a model | not modelled |

**How they interact.** Clients talk to the server over HTTP (settings, reports)
and to sshd over SSH (data). sshd knows clients only through
`authorized_keys`, which the server writes. The workers and the handlers share
the SQLite database (one connection, so one statement at a time), the client
directories and the remotes, and nothing else: there is no lock between the
lifecycle worker, the offsite worker, "Backup now" goroutines and handlers.

## Modules

### OffsiteTiering

The tiers of one client. Clients share no state in this part of the code, and
the workers take them one after the other, so one client stands for each; that
other clients are processed between reading the client and its pass is an
interleaving like any other.

| Variable | Code |
|---|---|
| `now` | the clock, in days: `cutoff` of both pruners, `uploaded_at` |
| `cfg` | the `clients` row: remote, directory, schedule, retentions, upload mode |
| `taken`, `hot` | snapshots ever completed (history), files or directories in the client's directory |
| `rows` | `offsite_objects` |
| `cold` | objects on the remotes |
| `lw` | locals of `processClient`: `snaps`, `offsited`, what remains of the loops of `pruneOffsite` and `pruneHot` |
| `up` | locals of `uploadClient` / `OffsiteClient` for the worker and for every "Backup now" |

A store call, an rclone call and a file system call are one step each. Between
two of them anything else can happen. The steps of a lifecycle pass are
`PassStart` to `PassEnd`, those of an upload `UploadStart` to `UploadEnd`.
Failures are of two kinds, because they differ in what they can break:

- `PassFails`, `PassSkipsHot`, `UploadFails` fail with nothing done;
- `PassTorn`, `UploadTorn` and `Crash` leave one half of a pair of effects done:
  an object deleted whose row stays, or an object stored that no row names.

`UploadStatFails` is not one of them: the code reads the source again after the
transfer, and finds it gone because the pruner took it, with nothing failing.

Modelled from their use, since they are not part of the repository: rclone's
`copyto` (the object is there afterwards), and `deletefile` (it fails when there
is no such object).

Abstractions, and why they are sound for what is checked:

- A snapshot is the day it was completed on, one per day: retention counts days.
  The creation time that `List` reports for an rsync snapshot is that of its
  start; that difference and partial directories belong to the ingest module.
- `uploaded_at` is a day. It is stored as text from which trailing zeros are
  dropped, so the order inside one second is not the order of time; rows of one
  day are therefore taken in any order, by the pruner and when the newest is
  chosen.
- A schedule of every n days ticks on the multiples of n.
- A pass works on the copy of the settings it read.
- `DeleteSnapshot` of an rsync snapshot refuses the one `latest` points at. That
  refusal is logged and skipped like any other failure of a hot deletion,
  `PassSkipsHot`.
- Verification writes only `remote_missing` and `remote_verified_at`, which
  neither pruner nor uploader reads; `OffsiteVerification` adds it.
- Settings change in `OffsiteAdmin`, which adds the operator.

### OffsiteVerification

`OffsiteTiering` composed with `verifyOffsiteObjects`, which follows each pass.

| Variable | Code |
|---|---|
| `missing`, `fresh` | `remote_missing` and a `remote_verified_at` of the last hour, by row |
| `verify` | locals of `verifyOffsiteObjects`: the listed rows, then the files `lsf` found |
| `faults` | what may fail in this behaviour: clean failures, torn effects and crashes, or losses at the provider |
| `lost` | history: objects the provider lost since they were last listed |

Every step of `OffsiteTiering` is taken together with what it does to the notes:
a deleted row takes them along, the upsert of a row keeps them, a day is longer
than the hour for which a note is fresh. Verification is part of the pass, so
the pruner stands still meanwhile and only uploaders interleave with it.

### OffsiteAdmin

`OffsiteTiering` composed with the operator's pages about a client. `eras`
(every settings the client has had), `byHand` and `forgets` are history; `op` is
the deletion of an offsite object, whose two halves (`rclone`, then the row) are
steps that anything can come between. `ObjectDeleteFails` keeps the row in a
single deletion and drops it in a bulk one, as the code does. What is done to an
object is done on the client's present remote and directory. Remote and horizons
are changed on different pages, so `Config` must contain their mixtures
(`PagesAssumption`).

### TieredStore and TieringRefinement

`TieredStore` is the abstract specification: two stores, two horizons, and the
terms on which a copy may leave either. It knows no passes, rows, listings or
goroutines. `TieringRefinement` maps `OffsiteTiering` to it: the cold store is
the set of snapshots with an object where the client's settings say.

### SnapshotIngest

What is *in* the archives and directories that `OffsiteTiering` takes for
complete.

| Variable | Code |
|---|---|
| `files` | the client's directory: name, `.part` suffix, content, modification time, inode |
| `latest` | the rsync link `latest` |
| `upload` | an upload from its name to the client's outcome: `backitup-recv` for tar.gz, `Run`, `flipLatest` and the client's checks for rsync |
| `pass` | `prunePartOrphans` and `pruneHot`, with the listing they decide on |
| `sender`, `cold` | an offsite uploader, which reads a file at one moment, and its copies |
| `excused` | history: names that two uploads had to share, and directories sent offsite while they were written |

Names have a resolution of one tick, which is where two uploads share one. An
upload may end short of its source (read error, full disk, killed client) or be
cut off (killed `backitup-recv`, lost connection). `MaxUpload` says how long an
upload takes at most; it is no longer than the retention, since an rsync
directory older than that could be pruned between the end of its transfer and
the flip of `latest`.

### RunReporting

The reports of one client's runs. Cron starts a process per run (`Proc`), each
at a place (`Home`) that decides which lock file it opens.

| Variable | Code |
|---|---|
| `now` | the clock, in ticks of which the timeouts are small multiples |
| `rows`, `last` | table `runs` and its AUTOINCREMENT; `by` is history |
| `net` | HTTP requests sent and neither handled nor lost |
| `run` | locals of `client.Run`: what it waits for, run id, start, outcome; `since` and `acked` are history |

`StartRun` to `BackupEnds` are the client's steps, each with the request it
sends; `GetConfig` and `PostStatus` are the handlers when the reply is lost, the
actions ending in `Reply` the handlers together with the client's next step. An
insert, an update or a clearing of rows is one SQL statement, so a handler is
one step. `GiveUp` is any error in place of a reply; the HTTP client times out
after 30 seconds and nothing recalls the request, so under `Spec` a handler may
run after its client has given up or died, and after a later run has begun.
`PromptSpec` excludes that and a failing store.

Abstractions: client and server share one clock; a wrong token, a full disk and a
timeout are all `Lost`; rows of one instant have no order; the log tail and the
sizes are left out. `MaxRun` bounds how long a run holds the lock: it states how
long backups take, and is as large as the clock except in `runs_prompt` and
`RunsFetchFails.cfg`, whose runs are as long as the stale timeout at most.

### ClientCredentials and RcloneConfig

Two tables that are mirrored in a file which another program reads.

| Variable | `ClientCredentials` | `RcloneConfig` |
|---|---|---|
| the table | `clients`: id, name, credential, `credential_version` | `remotes`: name and fields |
| `file` | `authorized_keys`, put in place by a rename | `rclone.conf`, written by `os.WriteFile`: truncation, then bytes |
| `req` | the handlers and what each has read: a row, then a listing | the same, with the form of an edit |
| `listing` | history: whose listing is the latest, and what became of it | the same |
| other history | `issued` | `typed` (the last value entered per field), `raced` |

A handler is a few steps: read a row, change it in one statement, list the
table, write the file. Handlers overlap at will. The error of the rewriting is
logged and the handler reports success; a restart rewrites both files before
anything is served. In `ClientCredentials` the rotation is the compare-and-swap
on the version; names, ids and credentials are numbers, and `Slug` is a map from
names to directories that need not be one-to-one. In `RcloneConfig` an edit
merges its form into what it read, by name, whatever has happened since; bytes
written over another handler's leave a mixture if they differ.

### AdminAccess

The table `users`, the session map and the failures of one address, with the
handlers for login, logout, creation and deletion of users. `postDeleteUser`
counts, then deletes, and anything can come between. `fails` is the limiter's
slice, kept as ages; it is pruned in two places, by a blocked attempt and by
`gc`. `failed` and `raced` are history, as is `sure` in a handler: that no
deletion has made its count of users wrong.

### SchemaMigration

`Open` of `store.go`, statement by statement. Each is a transaction of its own:
`Stop` (a kill) and a failing statement can come between any two, and the
container is restarted (`docker-compose.yml:17`). The initial states are a new
installation and every database an earlier release can have left, with any
subset of tables and columns and with or without the status `running` in the
CHECK of `runs`. While the store is open, runs are recorded.

The `MC` modules give the constants values; the `Proofs` modules hold theorems.

## Properties and runs

| Run | Specification | Instance | Properties |
|---|---|---|---|
| `tiering_concurrent` | `Spec` | 3 days, both uploaders, equal horizons, a longer offsite one or no remote, tar.gz | `TypeOK`, `KeptWithinHorizons`, `NewestStaysHot`, `OffsiteNeverEmptied`, `ImplementsTieredStore` |
| `tiering_recovers` | `FairSpec` | 3 days, worker only, every kind of settings, the second day repeats the content of the first | `EveryHotContentOffsited`, `HotRetentionUnlessStuck` |
| `verification` | `BooksSpec` | 3 days, worker only, rsync; offsite horizon equal, longer and shorter, latest only, schedule, pruning disabled, no remote; repeated content; each kind of fault | `BooksTypeOK`, `VouchedForIsThere`, `InStepWithoutTears`, `KeptUnlessLost` |
| `admin` | `AdminSpec` | 3 days, two remotes or none, two settings one after the other, one deletion by hand | `AdminTypeOK`, `NothingLostBehindTheOperator` |
| `ingest` | `Spec` | 2 uploads, 5 ticks, both modes | `TypeOK`, `OkMeansKept`, `LatestIsComplete` |
| `runs_unreliable` | `FairSpec` | 2 runs on one host, 3 ticks, sweep after 0 and pruning after 1 | `TypeOK`, `ConfirmedOutcomesStay`, `LiveRunIsLatest`, `RunningRowsEnd` |
| `runs_prompt` | `PromptSpec` | 3 runs on one host, 3 ticks, runs as long as the stale timeout | `OneRunningRow`, `LiveRunNotFailed` |
| `credentials` | `Spec` | 3 names, two of one slug, 2 handlers, 4 credentials | `TypeOK`, `FileFollowsLatestListing`, `NoBlindRotation`, `ForgottenForGood` |
| `remotes` | `Spec` | 2 remotes, 2 fields, 2 handlers | `TypeOK`, `ConfigFollowsLatestListing`, `LastTypedInForce` |
| `access` | `FairSpec` | 2 names, 3 ids, 2 handlers, limit 2, window 2 | `TypeOK`, `LastUserStaysUnlessRaced`, `FailuresBounded`, `LimiterReleases` |
| `migration` | `FairSpec` | 3 tables, 3 columns, 2 runs, 3 faults | `TypeOK`, `NothingDestroyed`, `OpenMeansMigrated`, `OpensUnlessSwapTorn` |
| `two_uploaders` | `CleanSpec` | 3 days, both uploaders | `RecordsBacked`, violated |

- `KeptWithinHorizons`: a snapshot that is not in the hot store any more is past
  the hot horizon, and if the client is offsited its object is on the remote
  unless it is past the offsite horizon too. The code does not decide on the
  state at the time of the deletion but on an offsited set that may name rows
  `pruneOffsite` has deleted since; the property holds because what it deletes
  was uploaded no earlier than it was taken.
- `NewestStaysHot`: the newest of a listing is protected, and what is completed
  later is newer still.
- `OffsiteNeverEmptied`: the row `pruneOffsite` protects is that of its own
  listing, while uploaders add and replace rows.
- `ImplementsTieredStore`: every step of the workers, on however old a listing,
  and every failure and crash is a step of `TieredStore` or none.
- `EveryHotContentOffsited`: if failures stop at some point, the content of every
  hot snapshot of an offsited client gets a record, its own or that of a snapshot
  with the same content, or the snapshot is pruned.
- `HotRetentionUnlessStuck`: if they do, every expired hot snapshot that is not
  the newest goes, with two exceptions, which are lasting: a row has lost its
  object, or the snapshot repeats a recorded content and is skipped without a row
  of its own (`SkippedAsDuplicate`; see the next section for both).

  Both properties also let a client on a schedule wait for its next tick
  (`AwaitsTick`); for good only where the model's clock ends before it.

- `InStepWithoutTears` (`RecordsBacked` and `ObjectsRecorded`): rows and the
  remote agree, except for the one the pruner or an uploader is at. This needs
  that there is one uploader and no half-done effect, and that the source of an
  upload cannot be pruned during it, which rsync mode has because it uploads a
  temporary archive.
- `VouchedForIsThere`: a row verified within the hour and not noted as missing
  has its object. Verification lists, and notes later; meanwhile uploaders
  store, replace and record.
- `KeptUnlessLost`: `KeptWithinHorizons` survives the verification, every kind of
  settings and every failure but a loss at the provider. After one, the row of
  a lost object still counts as offsited, though it is noted as missing.
- `NothingLostBehindTheOperator`: passes and uploads use settings they read
  before the operator changed them, on listings from before a deletion. A
  snapshot the operator did not delete leaves the server only on terms that
  *some* settings of the client allowed; those in force now are too much to ask.

- `OkMeansKept`: an upload the client was told is ok is kept whole, although the
  sweep removes `.part` files by age while an upload may still hold them,
  uploads overlap and retention goes by age.
- `LatestIsComplete`: the base of the next rsync transfer is never a directory
  that retention has removed, or one that another upload left half done.

- `ConfirmedOutcomesStay`: sweeps, configuration fetches of other runs and late
  requests never take back an outcome that its client saw confirmed.
- `LiveRunIsLatest`: rows are ordered by the start the client stamped, not by
  their arrival; that is why a late row of an older run does not hide the live
  one. Overlap rows do, see the next section.
- `OneRunningRow`, `LiveRunNotFailed`: the lock, the clearing of rows by the
  configuration fetch and the stale timeout fit together when runs share the
  lock file, are no longer than the timeout and no request is late.
- `RunningRowsEnd`: the sweep ends every running row once the clock has passed
  its timeout.

- `FileFollowsLatestListing`, `ConfigFollowsLatestListing`: once nobody is
  rewriting, the file is that of the rows, whoever overlapped with whom, provided
  the latest listing was written and nothing older after it. They say exactly
  what the missing lock costs.
- `NoBlindRotation`: a rotation that succeeds replaced the credential its handler
  had read, although rows are deleted and names taken again in between.
- `ForgottenForGood`: what the race of two rewritings can bring back is bounded. A
  retired credential returns only out of a listing from before its retirement;
  once no handler holds one and the file is without it, sshd never admits it again.
- `LastTypedInForce`: an edit that leaves a field empty keeps what was last typed
  into it, unless the edit worked on an older reading of the remote.
- `LastUserStaysUnlessRaced`: only two deletions that counted the same users can
  take the last one.
- `FailuresBounded`, `LimiterReleases`: the two places that prune the limiter's
  slice neither let too many failures into one window nor block for ever.
- `NothingDestroyed`, `OpenMeansMigrated`, `OpensUnlessSwapTorn`: wherever `Open`
  is cut off, runs survive; what opens is migrated; and it opens again, unless
  a swap was torn between its first and third statement.

**Bounds.** `MaxDay` bounds the clock and with it the number of snapshots. With a
retention of one day, the snapshot of day 1 is past its horizon on day 3, when
two newer ones can exist: 3 days give a pass that prunes both tiers, or fails
between the two, while a newer snapshot arrives. Only one snapshot can expire in
3 days, so loops of the pruners with two elements need 4. `TieringFourDays.cfg`
(module `MCOffsiteTiering`) is that instance, to run by hand: worker only, every
kind of settings, repeated content, the safety properties of
`tiering_concurrent`; it passes with 1.7 million states. With verification, 4
days are out of reach. The theorems about the tiers hold for any number of days
and of "Backup now" goroutines; one of these beside the worker already gives two
concurrent uploads of one snapshot.

Two runs are enough for each to disturb the other; the three of `runs_prompt` for
a dead one, a live one and one that overlaps. Timeouts of one tick with a clock
of three have every row pass the sweep and the pruning, and a run end exactly at
its timeout. Two handlers are enough for every overlap of two rewritings; the
theorems hold for any number. Four credentials let a name be created, rotated,
deleted and created again under a handler that read the first row. Five ticks in
`ingest` let an upload last two, be swept at one and expire at two. Two settings
of a client are the old and the new one of every race; one deletion by hand
spares the model a second operator. Three faults cut `Open` off on the way, on
the retry and on the retry of that.

`CHECK_DEADLOCK FALSE` is set where the system stops: the bounded clock, faults
and settings run out and every upload ends.

**Fairness.** Both workers are timers that are re-armed after every pass for as
long as the process runs (`worker.go`), so their steps are weakly fair. A "Backup
now" goroutine ends once begun, but nobody has to press the button: it is fair
only while it is not idle. Nothing is assumed of the clock or of clients.
In `RunReporting` the clock goes on and the worker's timer sweeps; clients,
requests and replies are owed nothing. In `AdminAccess` only the clock goes on.
In `SchemaMigration` `Open` takes its steps, and the container is restarted each
time (`restart: unless-stopped`); the faults are bounded instead.
That failures stop is the premise of both liveness properties of the tiers, not
an assumption of fairness. No liveness is claimed while rclone keeps failing.

### Disagreements between the code and what it says of itself

The run `two_uploaders` shows the one that loses data: the worker and "Backup
now" both send a snapshot; one records it, it expires, the pruner deletes object
and row, the other records it. The row has no object and counts as offsited.
`OffsiteClient` is said to be safe to call concurrently
(`lifecycle.go:549-550`).

The following have a configuration to run by hand, which TLC refutes:

| Configuration (module) | Violated | What happens |
|---|---|---|
| `TieringTornPrune.cfg` (`MCOffsiteTiering`) | `HotRetentionEnforced` | A crash after an object's deletion and before its row's: from then on `deletefile` fails in every pass, and the pass returns before `pruneHot`. |
| `TieringLatest.cfg` (`MCOffsiteTiering`) | `LatestOnlyMovesForward` | Upload mode "latest" uploads the newest snapshot *without a row*, hence every older one, a pass at a time. |
| `AdminRemoteChanged.cfg` (`MCOffsiteAdmin`) | `HotRetentionEnforced` | After a change of remote, `deletefile` fails for every expired row of the old one, with the same effect as above. |
| `IngestTruncated.cfg` (`MCSnapshotIngest`) | `ListedMeansWhole` | A read error ends the archive's stream as usual (`targz.go:67`), so `backitup-recv`, which promises that a partial upload is never mistaken for a snapshot (`:22-23`), renames a truncated archive. The client does report the run as failed. |
| `RunsFetchFails.cfg` (`MCRunReporting`) | `LiveRunNotFailed` | Each `docker run --rm` has a `/tmp`, and so a lock file, of its own. The configuration fetch of a second run marks the row of the one that is going on as failed. |
| `RunsLong.cfg` (`MCRunReporting`) | `LiveRunNotFailed` | A run longer than the stale timeout is marked failed while it goes on. |
| `RunsOverlap.cfg` (`MCRunReporting`) | `OkMeansRecentSuccess` | The latest row is that of a skipped run, which `DeriveHealth` takes for ok. |

Statements that are defined next to the properties, without a configuration;
put in place of the properties in the configuration of their module's run, TLC
refutes each:

| Definition | What the code says | What happens |
|---|---|---|
| `ClientCredentials!NoCredentialReturns` | rotation invalidates the old credentials atomically (`clients.go:291`) | An older listing written after a newer one brings a rotated or deleted key back until the next rewriting. |
| `ClientCredentials!DirectoriesApart` | each client has a directory of its own (`README.md:67`) | Two names of one slug share it. |
| `RcloneConfig!ConfigWhole` | the file is regenerated from all remotes of the table (`remotes.go:16-17`) | Two handlers writing at once can leave a mixture. |
| `AdminAccess!LastUserStays` | the last user cannot be deleted (`users.go:77`) | Two deletions that both counted two users delete both. |
| `SnapshotIngest!OkMeansKeptAlways` | the suffix avoids same-second collisions (`backitup-recv:14`) | Two uploads of one second share a name: the `.part` file of one does not stop the other, and an rsync directory has no suffix. |
| `SchemaMigration!HistoryShown` | the recommended swap pattern (`store.go:79-80`) | Cut off between DROP and RENAME, the next start makes an empty `runs` and the history stays in `runs_new`. Cut off after CREATE TABLE `runs_new`, every later start fails. |

More were met while modelling:

- `Upload` looks at its source once more after the transfer. If a tar.gz archive
  has been pruned meanwhile, it reports a failure for an object that is stored
  and that nothing ever prunes (`UploadStatFails`). This is why
  `InStepWithoutTears` is checked in rsync mode.
- A snapshot whose content is recorded already is skipped without a row, in every
  pass (`lifecycle.go:292-294`), and `pruneHot` keeps what has no row of its own
  (`:406-408`): it stays in the hot store, however old, for as long as the content
  is recorded for another snapshot. `HotRetentionUnlessStuck` allows it.
- The row of an object that verification found missing counts as offsited, so
  `pruneHot` may delete the only copy. `KeptUnlessLost` excludes it.
- `verifyLatest` warns for every rsync snapshot, whose `Bytes` is 0.
- A session outlives the user it was made for (`session.go:43`).
- An offsite uploader takes an rsync directory as it is while it is being written
  and records it, so the whole of it never gets offsite. `OkMeansKept` excludes
  it.
- Runs in separate containers back up at the same time, since no lock file is
  shared.

## What is proved

Every safety property that a passing run checks is a theorem, for every value of
the constants that satisfies the assumptions of its module: any number of days,
snapshots, uploaders, runs, uploads, handlers, names and so on. None of the
invariants is inductive by itself; TLC checked what strengthens them on the
instances above before it was proved. Where a theorem has hypotheses of its own,
they are those under which the run checks the property; what the code does
without them is described here or in the section before.

### The tiers: `OffsiteTieringProofs`

| Theorem | Statement | Hypotheses |
|---|---|---|
| `TypeCorrect` | `Spec => []TypeOK` | |
| `OffsiteFirst` | `Spec => []KeptWithinHorizons` | |
| `NewestKept` | `Spec => []NewestStaysHot` | |
| `RecordsRemain` | `Spec => OffsiteNeverEmptied` | |
| `NoRecordWithoutObject` | `CleanSpec => []RecordsBacked` | one uploader |
| `NoObjectWithoutRecord` | `CleanSpec => []ObjectsRecorded` | one uploader, rsync mode |
| `Implements` | `Spec => ImplementsTieredStore` | |

The assumptions are those a real instance meets: `NoRemote` is not a remote,
there is at least one day, `Config` is a set of settings, the mode is one of two
and every snapshot has a checksum.

- `Typed` adds to `TypeOK` that a pass which is not idle holds the settings of
  the row, that these name a remote wherever one is used, and that an uploader
  about to store or record holds a snapshot.
- `Promise` says what the pruner's memory promises: a listed snapshot that is in
  the offsited set, and each planned victim, is *safe* (on the remote, or past
  the offsite horizon for good), each victim has a newer snapshot and is past
  the hot horizon, and each row names a snapshot that is on the remote or past
  the horizon. Ageing makes promises truer (`ExpiryIsForGood`), and the only
  step that takes an object away does so for a row that is past the horizon,
  whose snapshot is at least as old. So the offsited set may be stale, and
  `pruneHot` is right to trust it.
- `RowsInv` says that as long as expired rows wait to be deleted, some row has a
  snapshot that is neither doomed nor waiting. It names a snapshot rather than a
  row, because an uploader may replace the row meanwhile.
- `InStep` says what keeps rows and objects together between the two halves of
  an upload and of a deletion: the uploader works on snapshots without a row, the
  pruner on rows that exist. The second uploader of `two_uploaders`, and the
  archive pruned during its upload, break exactly that.
- `Implements` uses `Promise`: only with it is the deletion of a planned victim a
  `DropHot`, and only with the type of an expired row is that of its object a
  `DropCold`. Every other step is an `Archive`, a `Take`, an `Age` or a stutter.

`WhoWrites` collects once which action writes which variable.

### The tiers with verification and the operator: `OffsiteCompositionProofs`

| Theorem | Statement | Hypotheses |
|---|---|---|
| `BooksTypeCorrect` | `BooksSpec => []BooksTypeOK` | |
| `KeptWithVerification` | `BooksSpec => []KeptUnlessLost` | |
| `VerificationImplements` | `BooksSpec /\ []("loss" \notin faults) => Spec /\ ImplementsTieredStore` | |
| `RecordsRemainVerified` | `BooksSpec => OffsiteNeverEmptied` | |
| `BooksInStep` | `BooksSpec => []InStepWithoutTears` | one uploader, rsync mode |
| `VouchedFor` | `BooksSpec => []VouchedForIsThere` | no behaviour has both losses and clean failures |
| `AdminTypeCorrect` | `AdminSpec => []AdminTypeOK` | |
| `NothingLost` | `AdminSpec => []NothingLostBehindTheOperator` | |

- A step of the composition is one of the tiering that takes the notes along, a
  step of the verification, or a loss (`BooksCases`), so what is known of a step
  of the tiering carries over.
- `VouchedFor` rests on `NotesRight`. Its hypothesis is a finding: TLC refutes
  the property for a fault set with both kinds. Verification lists the remote,
  finds an object missing, and the statement that should note it fails, which is
  logged and skipped (`VerifySkips`). The row keeps its last note, verified within
  the hour, until the next verification.
- Under the operator, goroutines may hold settings that the client no longer has,
  so `Typed` and `Promise` are too strong. `AdminPromise` restates the promise
  for *some* settings the client has had (`eras`), and counts an object on any
  remote (`Owes`).

### Snapshot ingest: `SnapshotIngestProofs`

| Theorem | Statement | Hypotheses |
|---|---|---|
| `TypeCorrect` | `Spec => []TypeOK` | |
| `OkIsKept` | `Spec => []OkMeansKept` | |
| `LatestIsThere` | `Spec => []LatestIsComplete` | `MaxUpload <= Retention` |

- `Named` and `Apart`: a file has the name of the upload that made it, and two
  uploads share a name only if it is excused.
- `Owned` follows one upload, whatever the others do: until its move nothing of
  it is taken for a snapshot (`Hidden`); at the move its file holds what was
  sent; from then on it is whole wherever it is listed or copied, and kept
  (`Settled`). `Effect` says what any step of an upload may do, so that each is
  looked at once for its own upload and once for all others.
- `Young` and `Linked`: an rsync directory that is being written or linked is
  younger than the horizon, which is what `MaxUpload <= Retention` is for, and
  one that retention removes is not `latest`.

Names that two uploads share are excused; see
`OkMeansKeptAlways` in the section before.

### Run reporting: `RunReportingProofs`

| Theorem | Statement | Hypotheses |
|---|---|---|
| `RunTypeCorrect` | `Spec => []TypeOK` | |
| `ConfirmedStay` | `Spec => []ConfirmedOutcomesStay` | |
| `LiveIsLatest` | `Spec => []LiveRunIsLatest` | one host |
| `OneRunning` | `PromptSpec => []OneRunningRow` | one host |
| `LiveNotFailed` | `PromptSpec => []LiveRunNotFailed` | one host, `MaxRun <= StaleTimeout` |

The assumptions are that each process has a place and that times are natural
numbers. `RunsFetchFails.cfg` and `RunsLong.cfg` show what happens without the
last two hypotheses.

- `Origins` says that rows, requests and run ids with one id come from one
  process, that ids are never reused, and that rows and requests are no older than
  the run they are about (so that a row is pruned only when the run is old enough);
  `OneOutcome` that a process never reports two outcomes. Two lemmas,
  `OriginsOfStep` and `OriginsOfInsert`, do the work for all actions.
- `LatestInv` adds what the lock file serializes: while a run holds it, whatever
  other runs reported, or still have on the network, started before (`Serial`);
  and what a run can have reported by the time it is at a step (`Reported`).
- `PromptInv` adds that a process waits for its one request (`Waits`) and that no
  row is running when a run reports itself (`Cleared`), because the configuration
  fetch it had to wait for has cleared them.

### Users and the limiter: `AdminAccessProofs`

| Theorem | Statement |
|---|---|
| `AccessTypeCorrect` | `Spec => []TypeOK` |
| `LastUser` | `Spec => []LastUserStaysUnlessRaced` |
| `FailuresLimited` | `Spec => []FailuresBounded` |

- `LastUser` rests on `Sure`: a handler whose count was not overtaken by a
  deletion still sees a second user. Proving it corrected the model, whose
  history variable let a later deletion of nobody restore an overtaken count,
  which takes three requests where the run has two.
- `FailuresLimited` rests on `Limited`, that the failures of the present window
  (history) are exactly those the limiter counts, although a blocked attempt and
  the collection prune its slice at different times; and on `Few`, that failures
  and attempts under way stay together below the bound. `Limited` needs laws of
  the window: what it drops is a first part of the slice (`WindowIs`), dropping
  twice is dropping once (`WindowAgain`), and it does not matter whether time
  passes before or after (`AgedWindow`, `OlderWindow`).

### The other modules

| Theorem | Statement |
|---|---|
| `ClientCredentialsProofs!TypeCorrect` | `Spec => []TypeOK` |
| `ClientCredentialsProofs!FileFollows` | `Spec => []FileFollowsLatestListing` |
| `ClientCredentialsProofs!RotationsSee` | `Spec => NoBlindRotation` |
| `ClientCredentialsProofs!StaysForgotten` | `Spec => ForgottenForGood` |
| `RcloneConfigProofs!TypeCorrect` | `Spec => []TypeOK` |
| `RcloneConfigProofs!ConfigFollows` | `Spec => []ConfigFollowsLatestListing` |
| `RcloneConfigProofs!TypedInForce` | `Spec => []LastTypedInForce` |
| `SchemaMigrationProofs!TypeCorrect` | `Spec => []TypeOK` |
| `SchemaMigrationProofs!NothingIsDestroyed` | `Spec => []NothingDestroyed` |
| `SchemaMigrationProofs!OpenIsMigrated` | `Spec => []OpenMeansMigrated` |

- `FileFollows` and `ConfigFollows` rest on `Followed`: as long as nobody is
  about to list, the latest listing is the table, in the hands of the request
  that `listing` names or in the file. `RotationsSee` needs `ReadsPast`: what a
  handler has read is a row of the table or one whose id is never used again or
  whose version is past, because ids and versions only grow (`Counted`).
  `StaysForgotten` needs the types only: a step of a handler hands out a credential
  that was never issued (`HandlerForgets`), a restart the table's (`RestartForgets`).
- `LastTypedInForce` is inductive together with the types.
- The invariants of `SchemaMigrationProofs` say at each statement of `Open` which
  statements before it have done their work (`Made`), and where the runs are
  during the swap (`Swapping`).

### Only model-checked

The liveness properties, which are beyond TLAPS: `EveryHotContentOffsited`,
`HotRetentionUnlessStuck`, `RunningRowsEnd`, `LimiterReleases` and
`OpensUnlessSwapTorn`. What the disagreements above violate is refuted by TLC on
a small instance, which is all that a refutation needs.

What is left to prove: that the newest snapshot stays hot also with verification
and losses at the provider, and the invariants that would show how far the
liveness properties depend on fairness (that a pass or an upload that is not idle
can always take a step).

## Not modelled

- `offsite_runs` rows, alerts, logging and `PruneRunLogs`: written and displayed,
  no decision reads them. (A `FinishOffsiteRun` that fails leaves an ad-hoc row
  running, `lifecycle.go:588`.)
- Views, routing, downloads, connection tests: they change no state that another
  component reads; the cached size of the hot store is display only.
- Formatting and parsing: archives, timestamps, the forms of the individual
  rclone providers, which characters `Slug` replaces.
- Libraries: password hashing, key generation, SSH transport, rclone and rsync
  themselves, which are modelled from how they are used.

`PROJECT.json` lists every component with its status, and every hazard with the
properties that cover it; where what the code does is the hazard itself, a note
says which configuration or definition shows it.
