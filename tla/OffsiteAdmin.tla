---------------------------- MODULE OffsiteAdmin ----------------------------
(***************************************************************************)
(* The operator's pages about one client, next to the goroutines of        *)
(* OffsiteTiering: changing where and for how long snapshots are kept,     *)
(* deleting snapshots and offsite objects, forgetting a record.            *)
(*                                                                         *)
(* No handler looks whether a pass or an upload is going on, and a pass    *)
(* does not look again at the settings and listings it read.  A bulk       *)
(* deletion treats its identifiers one after the other, each as op does.   *)
(***************************************************************************)
EXTENDS OffsiteTiering, FiniteSets

CONSTANTS
    Start,    \* settings a client is created with
    MaxEras,  \* bound on the settings a client has, one after the other
    MaxHand   \* bound on the operator's deletions

ASSUME StartAssumption == Start \subseteq Config
ASSUME BoundsAssumption == MaxEras \in Nat \ {0} /\ MaxHand \in Nat

\* The horizons are on a page of their own, and go with anything on the other.
ASSUME PagesAssumption ==
    \A c, d \in Config :
        [c EXCEPT !.retention = d.retention, !.offsiteRetention = d.offsiteRetention]
            \in Config

VARIABLES
    op,       \* a deletion of an offsite object that is under way
    eras,     \* history: every settings the client has had
    byHand,   \* history: snapshots the operator has deleted a copy of
    forgets   \* history: how many records the operator has forgotten

adminVars == <<op, eras, byHand, forgets>>

allVars == <<vars, adminVars>>

IdleOp == [pc |-> "idle", cfg |-> NoConfig, snap |-> NoSnapshot, bulk |-> FALSE]

AdminInit ==
    /\ Init /\ cfg \in Start
    /\ op = IdleOp /\ eras = {cfg} /\ byHand = {} /\ forgets = 0

Asks == Cardinality(byHand) + forgets < MaxHand

-----------------------------------------------------------------------------
(* Settings.                                                               *)

\* The client with what one page shows taken from c.
WithRetention(c) ==
    [cfg EXCEPT !.retention = c.retention, !.offsiteRetention = c.offsiteRetention]

\* Mutant: the page of the remote resets the horizons it does not show.
WithOffsiteErasing(c) == [c EXCEPT !.retention = 0, !.offsiteRetention = 0]

WithOffsite(c) ==
    [c EXCEPT !.retention = cfg.retention, !.offsiteRetention = cfg.offsiteRetention]

\* postUpdateClientRetention and postUpdateClientOffsite: one UPDATE each.
ChangeSettings(new) ==
    /\ Cardinality(eras) < MaxEras /\ new \notin eras
    /\ cfg' = new
    /\ eras' = eras \cup {new}
    /\ UNCHANGED <<now, taken, hot, rows, cold, lw, up, op, byHand, forgets>>

UpdateRetention == \E c \in Config : ChangeSettings(WithRetention(c))

UpdateOffsite == \E c \in Config : ChangeSettings(WithOffsite(c))

-----------------------------------------------------------------------------
(* Deletions.                                                              *)

\* DeleteSnapshot of mode rsync refuses the snapshot that latest names.
Refused(s) == Mode = "rsync" /\ NewestIn(s, taken)

PostSnapshotDelete(s) ==
    /\ Asks
    /\ s \in hot /\ ~Refused(s)
    /\ hot' = hot \ {s}
    /\ byHand' = byHand \cup {s}
    /\ UNCHANGED <<now, cfg, taken, rows, cold, lw, up, op, eras, forgets>>

\* postBulkDeleteSnapshots: one identifier after the other; a refusal is noted
\* and the rest goes on.
BulkDeleteSnapshots == \E s \in Snapshot : PostSnapshotDelete(s)

\* postOffsiteObjectDelete, postBulkDeleteOffsiteObjects: the page shows every
\* row; the remote and the directory are those of the client.
PostObjectDelete(s, bulk) ==
    /\ Asks
    /\ op = IdleOp /\ OffsiteOn(cfg) /\ s \in OffsitedSet
    /\ op' = [pc |-> "delete", cfg |-> cfg, snap |-> s, bulk |-> bulk]
    /\ byHand' = byHand \cup {s}
    /\ UNCHANGED <<vars, eras, forgets>>

ObjectDelete ==
    /\ op.pc = "delete"
    /\ ObjectOf(op.cfg, op.snap) \in cold
    /\ cold' = cold \ {ObjectOf(op.cfg, op.snap)}
    /\ op' = [op EXCEPT !.pc = "unrecord"]
    /\ UNCHANGED <<now, cfg, taken, hot, rows, lw, up, eras, byHand, forgets>>

\* rclone fails, at least when there is no such object.  Only the bulk
\* deletion drops the row all the same.
ObjectDeleteFails ==
    /\ op.pc = "delete"
    /\ op' = IF op.bulk THEN [op EXCEPT !.pc = "unrecord"] ELSE IdleOp
    /\ UNCHANGED <<vars, eras, byHand, forgets>>

ObjectUnrecord ==
    /\ op.pc = "unrecord"
    /\ rows' = RowsWithout(op.cfg, op.snap)
    /\ op' = IdleOp
    /\ UNCHANGED <<now, cfg, taken, hot, cold, lw, up, eras, byHand, forgets>>

\* DeleteOffsiteObject fails, which is logged.
ObjectStaysRecorded ==
    /\ op.pc = "unrecord"
    /\ op' = IdleOp
    /\ UNCHANGED <<vars, eras, byHand, forgets>>

\* Mutant: the object is deleted with its record.
PostForgetDeletes(s) ==
    /\ Asks
    /\ \E x \in rows : x.snap = s /\ x.remote = cfg.remote
    /\ rows' = RowsWithout(cfg, s)
    /\ cold' = cold \ {ObjectOf(cfg, s)}
    /\ forgets' = forgets + 1
    /\ UNCHANGED <<now, cfg, taken, hot, lw, up, op, eras, byHand>>

\* postForgetOffsiteObject: the record goes, the object stays.
PostForget(s) ==
    /\ Asks
    /\ \E x \in rows : x.snap = s /\ x.remote = cfg.remote
    /\ rows' = RowsWithout(cfg, s)
    /\ forgets' = forgets + 1
    /\ UNCHANGED <<now, cfg, taken, hot, cold, lw, up, op, eras, byHand>>

OpStep ==
    \/ ObjectDelete \/ ObjectDeleteFails
    \/ ObjectUnrecord \/ ObjectStaysRecorded

AdminStep ==
    \/ UpdateRetention \/ UpdateOffsite \/ BulkDeleteSnapshots \/ OpStep
    \/ \E s \in Snapshot :
        \/ PostForget(s)
        \/ \E bulk \in BOOLEAN : PostObjectDelete(s, bulk)

\* Failures and crashes are OffsiteTiering's matter.
TieringStep == Progress /\ UNCHANGED adminVars

AdminNext == TieringStep \/ AdminStep

AdminSpec == AdminInit /\ [][AdminNext]_allVars

\* Both workers are timers, and a handler ends.
FairAdminSpec ==
    /\ AdminSpec
    /\ WF_allVars(PassStep /\ UNCHANGED adminVars)
    /\ WF_allVars(UploadStep(Worker) /\ UNCHANGED adminVars)
    /\ WF_allVars(OpStep)

-----------------------------------------------------------------------------
(* Properties.                                                             *)

AdminTypeOK ==
    /\ TypeOK
    /\ op \in [pc: {"idle", "delete", "unrecord"}, cfg: Config \cup {NoConfig},
               snap: Snapshot \cup {NoSnapshot}, bulk: BOOLEAN]
    /\ cfg \in eras /\ eras \subseteq Config
    /\ byHand \subseteq taken

HasObject(s) == \E o \in cold : o.snap = s

\* Whatever settings are changed to while a pass or an upload goes on with
\* older ones, and whatever records are forgotten: a snapshot of which the
\* operator deleted no copy leaves the directory only past the hot horizon of
\* settings the client has had, and with an object on some remote, unless
\* those settings, or the offsite horizon of some others, do without it.
NothingLostBehindTheOperator ==
    \A s \in taken \ (hot \cup byHand) :
        \E c \in eras :
            /\ HotExpired(c, s)
            /\ \/ ~OffsiteOn(c)
               \/ HasObject(s)
               \/ \E d \in eras : ColdExpired(d, s)

=============================================================================
