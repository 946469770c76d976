--------------------------- MODULE OffsiteTiering ---------------------------
(***************************************************************************)
(* The hot and cold tiers of one client: the snapshots in its directory,   *)
(* the rows of offsite_objects that say what was uploaded, the objects on  *)
(* the rclone remotes, and the three kinds of goroutine that work on them  *)
(* without a lock between them: the lifecycle worker (prunes), the offsite *)
(* worker (uploads on a schedule) and the "Backup now" goroutines (upload  *)
(* at once).  A store call is one step (SQLite runs on one connection); a  *)
(* call to rclone or to the file system is another, and everything else    *)
(* may happen in between.                                                  *)
(*                                                                         *)
(* Clients share no row, directory or goroutine-local state here, so one   *)
(* client stands for each of them.  Its settings do not change in this     *)
(* module; the goroutines nevertheless work on the copy they read when     *)
(* their pass began, as the code does.                                     *)
(***************************************************************************)
EXTENDS Naturals

CONSTANTS
    Remote,    \* rclone remotes a client can be pointed at
    NoRemote,  \* OffsiteRemote = "": the client is not offsited
    Dir,       \* values of offsiteDir(c)
    MaxDay,    \* bound on the clock
    Config,    \* settings an operator may give the client
    NoConfig,  \* the local copy of a goroutine that is between two passes
    Checksum,  \* SHA-256 of the archive made of each snapshot
    Mode,      \* client mode: "targz" or "rsync"
    Worker,    \* the offsite worker
    Adhoc      \* goroutines started by "Backup now"

Snapshot == 1..MaxDay  \* the snapshot of a day carries the number of the day
NoSnapshot == 0
Uploader == {Worker} \cup Adhoc

Settings ==
    [remote: Remote \cup {NoRemote}, dir: Dir, cron: Nat,
     retention: Nat, offsiteRetention: Nat,
     disableOffsitePruning: BOOLEAN, latestOnly: BOOLEAN]

\* offsite_objects, UNIQUE (client_id, snapshot_id, remote); at is uploaded_at.
Row == [remote: Remote, snap: Snapshot, at: 1..MaxDay]
Object == [remote: Remote, dir: Dir, snap: Snapshot]

ASSUME RemotesAssumption == NoRemote \notin Remote
ASSUME MaxDayAssumption == MaxDay \in Nat \ {0}
ASSUME ConfigAssumption == Config \subseteq Settings /\ NoConfig \notin Config
ASSUME ModeAssumption == Mode \in {"targz", "rsync"}
ASSUME ChecksumAssumption == DOMAIN Checksum = Snapshot

VARIABLES
    now,    \* the day
    cfg,    \* the clients row: mode-independent settings
    taken,  \* every snapshot the client ever completed (history)
    hot,    \* snapshots in the client's directory
    rows,   \* offsite_objects
    cold,   \* objects on the remotes
    lw,     \* the lifecycle worker's pass over this client
    up      \* the upload pass of each uploader

vars == <<now, cfg, taken, hot, rows, cold, lw, up>>

IdlePass ==
    [pc |-> "idle", cfg |-> NoConfig, snaps |-> {}, offsited |-> {},
     expired |-> {}, doomed |-> NoSnapshot, victims |-> {}]

IdleUpload ==
    [pc |-> "idle", cfg |-> NoConfig, todo |-> {}, snap |-> NoSnapshot,
     uploaded |-> FALSE]

Init ==
    /\ now = 1
    /\ cfg \in Config
    /\ taken = {} /\ hot = {} /\ rows = {} /\ cold = {}
    /\ lw = IdlePass
    /\ up = [u \in Uploader |-> IdleUpload]

-----------------------------------------------------------------------------
(* What the settings mean.                                                 *)

OffsiteOn(c) == c.remote # NoRemote

PrunesOffsite(c) == ~c.disableOffsitePruning /\ c.offsiteRetention > 0

\* CreatedAt.Before(now - RetentionDays)
HotExpired(c, s) == c.retention > 0 /\ s + c.retention < now

\* UploadedAt.Before(now - OffsiteRetentionDays), for an upload made on day d.
ColdExpired(c, d) == PrunesOffsite(c) /\ d + c.offsiteRetention < now

ObjectOf(c, s) == [remote |-> c.remote, dir |-> c.dir, snap |-> s]

\* offsitedSet: any row of the client counts, whatever its remote.
OffsitedSet == {x.snap : x \in rows}

\* Mutant: the upsert conflicts on the remote alone.
RowsWithOnePerRemote(c, s) ==
    {x \in rows : x.remote # c.remote}
        \cup {[remote |-> c.remote, snap |-> s, at |-> now]}

\* RecordOffsiteObject: an upsert on (snapshot, remote).
RowsWith(c, s) ==
    {x \in rows : ~(x.remote = c.remote /\ x.snap = s)}
        \cup {[remote |-> c.remote, snap |-> s, at |-> now]}

\* DeleteOffsiteObject: by snapshot and the remote the caller names.
RowsWithout(c, s) == {x \in rows : ~(x.remote = c.remote /\ x.snap = s)}

NewestIn(s, S) == s \in S /\ \A t \in S : t <= s

-----------------------------------------------------------------------------
(* The environment: time, and clients that complete snapshots.             *)

Tick ==
    /\ now < MaxDay
    /\ now' = now + 1
    /\ UNCHANGED <<cfg, taken, hot, rows, cold, lw, up>>

\* The rename that ends a tar.gz upload, or the end of an rsync transfer.
TakeSnapshot ==
    /\ now \notin taken
    /\ taken' = taken \cup {now}
    /\ hot' = hot \cup {now}
    /\ UNCHANGED <<now, cfg, rows, cold, lw, up>>

-----------------------------------------------------------------------------
(* The lifecycle worker: processClient, pruneOffsite, pruneHot.            *)

\* RunOnce reads the client from the database once, before everything else.
PassStart ==
    /\ lw.pc = "idle"
    /\ lw' = [IdlePass EXCEPT !.pc = "list", !.cfg = cfg]
    /\ UNCHANGED <<now, cfg, taken, hot, rows, cold, up>>

PassList ==
    /\ lw.pc = "list"
    /\ lw' = [lw EXCEPT !.pc = "offsited", !.snaps = hot]
    /\ UNCHANGED <<now, cfg, taken, hot, rows, cold, up>>

PassReadOffsited ==
    /\ lw.pc = "offsited"
    /\ lw' = [lw EXCEPT
                !.pc = IF OffsiteOn(lw.cfg) /\ PrunesOffsite(lw.cfg)
                       THEN "objects" ELSE "plan",
                !.offsited = OffsitedSet]
    /\ UNCHANGED <<now, cfg, taken, hot, rows, cold, up>>

\* Mutant: the newest row is not protected.
ExpiredRowsNewestToo(c, newest) == {x \in rows : ColdExpired(c, x.at)}

\* Mutant: the hot horizon is applied to the remote.
ExpiredRowsByHotHorizon(c, newest) ==
    {x \in rows : x # newest /\ HotExpired(c, x.at)}

\* pruneOffsite keeps objs[0].  uploaded_at is text in which trailing zeros
\* are dropped, so among rows of one day any can come first.
ExpiredRows(c, newest) ==
    {x \in rows : x # newest /\ ColdExpired(c, x.at)}

PassListObjects ==
    /\ lw.pc = "objects"
    /\ \/ /\ rows = {}
          /\ lw' = [lw EXCEPT !.pc = "cold"]
       \/ \E newest \in rows :
            /\ \A x \in rows : x.at <= newest.at
            /\ lw' = [lw EXCEPT !.pc = "cold",
                                !.expired = ExpiredRows(lw.cfg, newest)]
    /\ UNCHANGED <<now, cfg, taken, hot, rows, cold, up>>

\* The next object to delete: the listing is newest first.
NextExpired(x) ==
    /\ x \in lw.expired
    /\ \A y \in lw.expired : y.at <= x.at

\* rclone deletefile on the remote of the client, not of the row.
PassDeleteObject ==
    /\ lw.pc = "cold"
    /\ \E x \in lw.expired :
        /\ NextExpired(x)
        /\ ObjectOf(lw.cfg, x.snap) \in cold
        /\ cold' = cold \ {ObjectOf(lw.cfg, x.snap)}
        /\ lw' = [lw EXCEPT !.pc = "unrecord", !.doomed = x.snap,
                            !.expired = lw.expired \ {x}]
    /\ UNCHANGED <<now, cfg, taken, hot, rows, up>>

\* rclone deletefile fails when there is no such object: the pass over this
\* client ends here, before pruneHot.
PassDeleteAbsent ==
    /\ lw.pc = "cold"
    /\ \E x \in lw.expired :
        /\ NextExpired(x)
        /\ ObjectOf(lw.cfg, x.snap) \notin cold
    /\ lw' = IdlePass
    /\ UNCHANGED <<now, cfg, taken, hot, rows, cold, up>>

PassDeleteRow ==
    /\ lw.pc = "unrecord"
    /\ rows' = RowsWithout(lw.cfg, lw.doomed)
    /\ lw' = [lw EXCEPT !.pc = "cold", !.doomed = NoSnapshot]
    /\ UNCHANGED <<now, cfg, taken, hot, cold, up>>

\* Mutant: age alone decides, not offsite first.
HotVictimsByAge(pass) ==
    {s \in pass.snaps :
        /\ \E t \in pass.snaps : t > s
        /\ HotExpired(pass.cfg, s)}

\* Mutant: it is enough that something of the listing is offsited.
HotVictimsSomeOffsited(pass) ==
    {s \in pass.snaps :
        /\ \E t \in pass.snaps : t > s
        /\ HotExpired(pass.cfg, s)
        /\ OffsiteOn(pass.cfg) => pass.snaps \cap pass.offsited # {}}

\* Mutant: the newest snapshot is not protected.
HotVictimsNewestToo(pass) ==
    {s \in pass.snaps :
        /\ HotExpired(pass.cfg, s)
        /\ OffsiteOn(pass.cfg) => s \in pass.offsited}

\* Mutant: the two newest snapshots are protected.
HotVictimsSparingTwo(pass) ==
    {s \in pass.snaps :
        /\ \E t, v \in pass.snaps : s < t /\ t < v
        /\ HotExpired(pass.cfg, s)
        /\ OffsiteOn(pass.cfg) => s \in pass.offsited}

\* pruneHot decides on what the pass read at its start, never the newest of
\* that listing, and offsite first.
HotVictims(pass) ==
    {s \in pass.snaps :
        /\ \E t \in pass.snaps : t > s
        /\ HotExpired(pass.cfg, s)
        /\ OffsiteOn(pass.cfg) => s \in pass.offsited}

PassPlanHot ==
    /\ \/ lw.pc = "plan"
       \/ lw.pc = "cold" /\ lw.expired = {}
    /\ lw' = [lw EXCEPT !.pc = "hot", !.victims = HotVictims(lw),
                        !.snaps = {}, !.offsited = {}]
    /\ UNCHANGED <<now, cfg, taken, hot, rows, cold, up>>

\* DeleteSnapshot of a snapshot that is already gone changes nothing.
PassDeleteHot ==
    /\ lw.pc = "hot"
    /\ \E s \in lw.victims :
        /\ NewestIn(s, lw.victims)
        /\ hot' = hot \ {s}
        /\ lw' = [lw EXCEPT !.victims = lw.victims \ {s}]
    /\ UNCHANGED <<now, cfg, taken, rows, cold, up>>

PassEnd ==
    /\ lw.pc = "hot"
    /\ lw.victims = {}
    /\ lw' = IdlePass
    /\ UNCHANGED <<now, cfg, taken, hot, rows, cold, up>>

PassStep ==
    \/ PassStart \/ PassList \/ PassReadOffsited \/ PassListObjects
    \/ PassDeleteObject \/ PassDeleteAbsent \/ PassDeleteRow
    \/ PassPlanHot \/ PassDeleteHot \/ PassEnd

\* A listing, a query or an rclone call fails with nothing done: processClient
\* returns the error.
PassFails ==
    /\ \/ lw.pc \in {"list", "offsited", "objects"}
       \/ lw.pc = "cold" /\ lw.expired # {}
    /\ lw' = IdlePass
    /\ UNCHANGED <<now, cfg, taken, hot, rows, cold, up>>

\* A hot deletion fails: pruneHot logs it and goes on.
PassSkipsHot ==
    /\ lw.pc = "hot"
    /\ \E s \in lw.victims :
        /\ NewestIn(s, lw.victims)
        /\ lw' = [lw EXCEPT !.victims = lw.victims \ {s}]
    /\ UNCHANGED <<now, cfg, taken, hot, rows, cold, up>>

\* The object is gone and its row stays: DeleteOffsiteObject fails, or rclone
\* reports an error for a deletion that took effect.
PassTorn ==
    /\ lw.pc = "unrecord"
    /\ lw' = IdlePass
    /\ UNCHANGED <<now, cfg, taken, hot, rows, cold, up>>

-----------------------------------------------------------------------------
(* The uploaders: uploadClient and OffsiteClient around                    *)
(* offsiteNewSnapshots.                                                    *)

Goto(u, state) == up' = [up EXCEPT ![u] = state]

\* Mutant: a client without a schedule is not due once it has a record.
OffsiteDueOnSchedule(c) ==
    \/ rows = {}
    \/ \E x \in rows :
        /\ \A y \in rows : y.at <= x.at
        /\ \E k \in 1..now : x.at < k * c.cron /\ k * c.cron <= now

\* The schedule has a tick after the latest upload that is not in the future.
\* A schedule of every c.cron days ticks on their multiples.
OffsiteDue(c) ==
    \/ c.cron = 0
    \/ rows = {}
    \/ \E x \in rows :
        /\ \A y \in rows : y.at <= x.at
        /\ \E k \in 1..now : x.at < k * c.cron /\ k * c.cron <= now

\* Mutant: a client without a remote is uploaded too.
UploadStartAlways(u) ==
    /\ up[u].pc = "idle"
    /\ u = Worker => OffsiteDue(cfg)
    /\ Goto(u, [IdleUpload EXCEPT !.pc = "list", !.cfg = cfg])
    /\ UNCHANGED <<now, cfg, taken, hot, rows, cold, lw>>

UploadStart(u) ==
    /\ up[u].pc = "idle"
    /\ OffsiteOn(cfg)
    /\ u = Worker => OffsiteDue(cfg)
    /\ Goto(u, [IdleUpload EXCEPT !.pc = "list", !.cfg = cfg])
    /\ UNCHANGED <<now, cfg, taken, hot, rows, cold, lw>>

UploadList(u) ==
    /\ up[u].pc = "list"
    /\ Goto(u, [up[u] EXCEPT !.pc = "offsited", !.todo = hot])
    /\ UNCHANGED <<now, cfg, taken, hot, rows, cold, lw>>

UploadReadOffsited(u) ==
    /\ up[u].pc = "offsited"
    /\ Goto(u, [up[u] EXCEPT !.pc = "next", !.todo = up[u].todo \ OffsitedSet])
    /\ UNCHANGED <<now, cfg, taken, hot, rows, cold, lw>>

\* Newest first; with upload mode "latest" one upload ends the pass.
UploadNext(u, s) ==
    /\ up[u].pc = "next"
    /\ ~(up[u].cfg.latestOnly /\ up[u].uploaded)
    /\ NewestIn(s, up[u].todo)

\* OffsiteChecksumExists on the remote of the client.
Duplicate(c, s) ==
    \E x \in rows : x.remote = c.remote /\ Checksum[x.snap] = Checksum[s]

\* PrepareOffsite and the checksum read the hot snapshot.  Identical content
\* on the remote: the snapshot is skipped and nothing is recorded for it.
UploadSkipsDuplicate(u) ==
    /\ \E s \in hot :
        /\ UploadNext(u, s)
        /\ Duplicate(up[u].cfg, s)
        /\ Goto(u, [up[u] EXCEPT !.todo = up[u].todo \ {s}])
    /\ UNCHANGED <<now, cfg, taken, hot, rows, cold, lw>>

\* Mutant: the record is written before the object is sent.
UploadPrepareRecords(u) ==
    /\ \E s \in hot :
        /\ UploadNext(u, s)
        /\ ~Duplicate(up[u].cfg, s)
        /\ rows' = RowsWith(up[u].cfg, s)
        /\ Goto(u, [up[u] EXCEPT !.pc = "upload", !.snap = s,
                                !.todo = up[u].todo \ {s}])
    /\ UNCHANGED <<now, cfg, taken, hot, cold, lw>>

UploadPrepare(u) ==
    /\ \E s \in hot :
        /\ UploadNext(u, s)
        /\ ~Duplicate(up[u].cfg, s)
        /\ Goto(u, [up[u] EXCEPT !.pc = "upload", !.snap = s,
                                !.todo = up[u].todo \ {s}])
    /\ UNCHANGED <<now, cfg, taken, hot, rows, cold, lw>>

\* rclone copyto.  A tar.gz archive is sent from where it lies, an rsync
\* snapshot from the temporary archive PrepareOffsite made of it.
SourceReadable(s) == Mode = "targz" => s \in hot

UploadObject(u) ==
    /\ up[u].pc = "upload"
    /\ SourceReadable(up[u].snap)
    /\ cold' = cold \cup {ObjectOf(up[u].cfg, up[u].snap)}
    /\ Goto(u, [up[u] EXCEPT !.pc = "record"])
    /\ UNCHANGED <<now, cfg, taken, hot, rows, lw>>

\* The snapshot was pruned since the listing: the whole upload pass ends.
UploadSourceGone(u) ==
    /\ \/ \E s \in Snapshot \ hot : UploadNext(u, s)
       \/ up[u].pc = "upload" /\ ~SourceReadable(up[u].snap)
    /\ Goto(u, IdleUpload)
    /\ UNCHANGED <<now, cfg, taken, hot, rows, cold, lw>>

\* Upload stats the source after the transfer.  An archive pruned during the
\* transfer makes it report a failure: the object is stored and not recorded.
UploadStatFails(u) ==
    /\ up[u].pc = "record"
    /\ ~SourceReadable(up[u].snap)
    /\ Goto(u, IdleUpload)
    /\ UNCHANGED <<now, cfg, taken, hot, rows, cold, lw>>

\* The row is stamped with the time of the recording.
UploadRecord(u) ==
    /\ up[u].pc = "record"
    /\ rows' = RowsWith(up[u].cfg, up[u].snap)
    /\ Goto(u, [up[u] EXCEPT !.pc = "next", !.snap = NoSnapshot,
                            !.uploaded = TRUE])
    /\ UNCHANGED <<now, cfg, taken, hot, cold, lw>>

UploadEnd(u) ==
    /\ up[u].pc = "next"
    /\ \/ up[u].todo = {}
       \/ up[u].cfg.latestOnly /\ up[u].uploaded
    /\ Goto(u, IdleUpload)
    /\ UNCHANGED <<now, cfg, taken, hot, rows, cold, lw>>

UploadStep(u) ==
    \/ UploadStart(u) \/ UploadList(u) \/ UploadReadOffsited(u)
    \/ UploadSkipsDuplicate(u) \/ UploadPrepare(u) \/ UploadObject(u)
    \/ UploadSourceGone(u) \/ UploadStatFails(u) \/ UploadRecord(u)
    \/ UploadEnd(u)

\* A read, the temporary archive or the transfer fails; nothing was stored.
UploadFails(u) ==
    /\ \/ up[u].pc \in {"list", "offsited", "upload"}
       \/ up[u].pc = "next" /\ up[u].todo # {}
    /\ Goto(u, IdleUpload)
    /\ UNCHANGED <<now, cfg, taken, hot, rows, cold, lw>>

\* The object is stored and not recorded: RecordOffsiteObject fails, or
\* Upload reports an error for a transfer that took effect.
UploadTorn(u) ==
    /\ up[u].pc = "record"
    /\ Goto(u, IdleUpload)
    /\ UNCHANGED <<now, cfg, taken, hot, rows, cold, lw>>

-----------------------------------------------------------------------------
(* The server process dies and is started again: goroutines begin anew,    *)
(* the database, the directory and the remotes are as they were.           *)

Crash ==
    /\ lw' = IdlePass
    /\ up' = [u \in Uploader |-> IdleUpload]
    /\ UNCHANGED <<now, cfg, taken, hot, rows, cold>>

Progress ==
    \/ Tick \/ TakeSnapshot \/ PassStep
    \/ \E u \in Uploader : UploadStep(u)

\* Failures that leave rows and objects in step.
CleanFailure ==
    \/ PassFails \/ PassSkipsHot
    \/ \E u \in Uploader : UploadFails(u)

\* Failures between the two halves of an upload or of a deletion.
TornFailure ==
    \/ PassTorn \/ Crash
    \/ \E u \in Uploader : UploadTorn(u)

Next == Progress \/ CleanFailure \/ TornFailure

Spec == Init /\ [][Next]_vars

\* Neither crashes nor half-done effects.
CleanSpec == Init /\ [][Progress \/ CleanFailure]_vars

\* Both workers are timers that fire for as long as the server runs, and
\* "Backup now" ends once it was begun.
Fairness ==
    /\ WF_vars(PassStep)
    /\ WF_vars(UploadStep(Worker))
    /\ \A u \in Adhoc : WF_vars(UploadStep(u) /\ up[u].pc # "idle")

FairSpec == Spec /\ Fairness

-----------------------------------------------------------------------------
(* Properties.                                                             *)

\* Every variable holds a value the code can store in it; what a goroutine
\* remembers between two steps of a pass is typed by the step it is at.
PassStates ==
    [pc: {"idle", "list", "offsited", "objects", "cold", "unrecord", "plan", "hot"},
     cfg: Config \cup {NoConfig}, snaps: SUBSET Snapshot,
     offsited: SUBSET Snapshot, expired: SUBSET Row,
     doomed: Snapshot \cup {NoSnapshot}, victims: SUBSET Snapshot]

UploadStates ==
    [pc: {"idle", "list", "offsited", "next", "upload", "record"},
     cfg: Config \cup {NoConfig}, todo: SUBSET Snapshot,
     snap: Snapshot \cup {NoSnapshot}, uploaded: BOOLEAN]

TypeOK ==
    /\ now \in 1..MaxDay
    /\ cfg \in Config
    /\ taken \subseteq Snapshot
    /\ hot \subseteq taken
    /\ rows \subseteq Row
    /\ cold \subseteq Object
    /\ lw \in PassStates
    /\ up \in [Uploader -> UploadStates]

\* Offsite first, for as long as it matters: a snapshot that left the hot
\* store is past the hot horizon, and when the client is offsited it has its
\* object on the remote until it is past the offsite horizon as well.
KeptWithinHorizons ==
    \A s \in taken \ hot :
        /\ HotExpired(cfg, s)
        /\ OffsiteOn(cfg) => ObjectOf(cfg, s) \in cold \/ ColdExpired(cfg, s)

\* The newest snapshot is never pruned, however old the listing a pass
\* decides on has become.
NewestStaysHot == \A s \in taken : NewestIn(s, taken) => s \in hot

\* Offsite pruning never removes the last record: what it keeps of its own
\* listing survives every concurrent upload and every restart.
OffsiteNeverEmptied == [][rows # {} => rows' # {}]_vars

\* A record means an object: without half-done effects and with one uploader,
\* the only record without its object is the one the pruner is about to
\* delete.
RecordsBacked ==
    \A x \in rows :
        \/ ObjectOf(cfg, x.snap) \in cold
        \/ lw.pc = "unrecord" /\ lw.doomed = x.snap

\* An object means a record: no object is left that nobody will ever prune,
\* except while its uploader is about to record it.
ObjectsRecorded ==
    \A o \in cold :
        \/ o.snap \in OffsitedSet
        \/ \E u \in Uploader : up[u].pc = "record" /\ up[u].snap = o.snap

\* From some point on nothing fails and the server keeps running.
FailuresStop == <>[][Progress]_vars

\* A client on a schedule has a record since its latest tick.  The clock goes
\* on and another tick comes, unless it stands at its bound.
AwaitsTick ==
    /\ cfg.cron > 0
    /\ \E x \in rows : \A d \in (x.at + 1)..now : d % cfg.cron # 0

\* The content of every local snapshot gets a record offsite, its own or that
\* of a snapshot with the same content, unless the snapshot is pruned before or
\* the clock stops before the next tick; and if that record is pruned, it gets
\* another one.
EveryHotContentOffsited ==
    FailuresStop =>
        \A s \in Snapshot :
            (s \in hot /\ OffsiteOn(cfg))
                ~> (s \notin hot \/ Duplicate(cfg, s) \/ []AwaitsTick)

\* Hot retention is enforced: an expired snapshot that is not the newest one
\* does not stay.
HotRetentionEnforced ==
    FailuresStop =>
        \A s \in Snapshot :
            (s \in hot /\ HotExpired(cfg, s) /\ \E t \in hot : t > s)
                ~> s \notin hot

\* Its content is recorded for another snapshot: the uploader skips it for as
\* long as that is so, and pruneHot keeps what has no record of its own.
SkippedAsDuplicate(s) ==
    OffsiteOn(cfg) /\ s \notin OffsitedSet /\ Duplicate(cfg, s)

\* Two things stop hot retention for good, and nothing but the end of the clock
\* does otherwise: a row whose object is gone, which stops it for every
\* snapshot, and repeated content, which stops it for the snapshot that repeats
\* it.
HotRetentionUnlessStuck ==
    FailuresStop =>
        \A s \in Snapshot :
            (s \in hot /\ HotExpired(cfg, s) /\ \E t \in hot : t > s)
                ~> \/ s \notin hot
                   \/ []~RecordsBacked
                   \/ []SkippedAsDuplicate(s)
                   \/ []AwaitsTick

\* In mode "latest" no object is stored for a snapshot older than one that
\* is offsited already.
LatestOnlyMovesForward ==
    [][cfg.latestOnly =>
        \A o \in cold' \ cold : \A x \in rows : x.snap <= o.snap]_vars
=============================================================================
