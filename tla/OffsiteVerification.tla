------------------------- MODULE OffsiteVerification -------------------------
(***************************************************************************)
(* What the lifecycle worker does after it has pruned a client: it lists   *)
(* the client's directory on the remote and notes on every row whether its *)
(* object is still there.  The provider may lose an object at any time.    *)
(*                                                                         *)
(* The faults of a behaviour are chosen at its beginning, so that what     *)
(* holds without some of them is stated next to what holds with all.       *)
(***************************************************************************)
EXTENDS OffsiteTiering

CONSTANT Faults  \* the sets of faults to choose from

ASSUME FaultsAssumption == Faults \subseteq SUBSET {"clean", "torn", "loss"}

VARIABLES
    faults,   \* what may fail
    missing,  \* rows with remote_missing
    fresh,    \* rows with a remote_verified_at of the last hour
    verify,   \* the verification of the client by the lifecycle worker
    lost      \* history: objects the provider lost since they were last listed

verifyVars == <<faults, missing, fresh, verify, lost>>
bookVars == <<vars, verifyVars>>

\* A row without its time: the upsert of a row keeps what was noted on it.
Key(x) == [remote |-> x.remote, snap |-> x.snap]
Keys(S) == {Key(x) : x \in S}
Keyed == [remote: Remote, snap: Snapshot]

IdleVerify == [pc |-> "idle", cfg |-> NoConfig, objs |-> {}, files |-> {}]

BooksInit ==
    /\ Init
    /\ faults \in Faults
    /\ missing = {} /\ fresh = {} /\ lost = {}
    /\ verify = IdleVerify

-----------------------------------------------------------------------------
(* OffsiteTiering with rows that carry notes: a deleted row takes them     *)
(* along, a day is longer than an hour.                                    *)

\* Mutant: the notes stay when the row goes.
NotesOutliveRows(kept) ==
    /\ missing' = missing
    /\ fresh' = kept
    /\ UNCHANGED <<faults, lost>>

NotesFollowRows(kept) ==
    /\ missing' = missing \cap Keys(rows')
    /\ fresh' = kept \cap Keys(rows')
    /\ UNCHANGED <<faults, lost>>

\* The pass ends with the verification, and another begins after it.
PassEndVerify ==
    /\ PassEnd
    /\ verify' = IF OffsiteOn(lw.cfg)
                 THEN [IdleVerify EXCEPT !.pc = "list", !.cfg = lw.cfg]
                 ELSE verify
    /\ UNCHANGED <<faults, missing, fresh, lost>>

PassStepOrVerify ==
    \/ PassEndVerify
    \/ /\ verify.pc = "idle"
       /\ PassStep /\ ~PassEnd
       /\ NotesFollowRows(fresh)
       /\ UNCHANGED verify

DayPasses ==
    /\ Tick
    /\ fresh' = {}
    /\ UNCHANGED <<faults, missing, verify, lost>>

OtherStep ==
    /\ TakeSnapshot \/ \E u \in Uploader : UploadStep(u)
    /\ NotesFollowRows(fresh)
    /\ UNCHANGED verify

-----------------------------------------------------------------------------
(* verifyOffsiteObjects.                                                   *)

\* Nothing to verify, or everything was verified within the hour.
VerifiedAll(objs) == Keys(objs) \subseteq fresh

\* Mutant: only the rows that were not verified within the hour are looked at.
VerifyListOthers ==
    /\ verify.pc = "list"
    /\ verify' = IF rows = {} \/ VerifiedAll(rows) THEN IdleVerify
                 ELSE [verify EXCEPT !.pc = "lsf", !.objs = Keys(rows) \ fresh]
    /\ UNCHANGED <<vars, faults, missing, fresh, lost>>

VerifyList ==
    /\ verify.pc = "list"
    /\ verify' = IF rows = {} \/ VerifiedAll(rows) THEN IdleVerify
                 ELSE [verify EXCEPT !.pc = "lsf", !.objs = Keys(rows)]
    /\ UNCHANGED <<vars, faults, missing, fresh, lost>>

\* Lsf: the directory of the client on its remote.
VerifyLsf ==
    /\ verify.pc = "lsf"
    /\ verify' = [verify EXCEPT !.pc = "mark",
                    !.files = {s \in Snapshot : ObjectOf(verify.cfg, s) \in cold}]
    /\ lost' = {}
    /\ UNCHANGED <<vars, faults, missing, fresh>>

\* UpdateOffsiteRemoteStatus, if the row is still there.
Noted(x, S, holds) == ((S \ {x}) \cup {y \in {x} : holds}) \cap Keys(rows)

VerifyMark ==
    /\ verify.pc = "mark"
    /\ \E x \in verify.objs :
        /\ missing' = Noted(x, missing, x.snap \notin verify.files)
        /\ fresh' = Noted(x, fresh, TRUE)
        /\ verify' = [verify EXCEPT !.objs = @ \ {x}]
    /\ UNCHANGED <<vars, faults, lost>>

VerifyEnd ==
    /\ verify.pc = "mark" /\ verify.objs = {}
    /\ verify' = IdleVerify
    /\ UNCHANGED <<vars, faults, missing, fresh, lost>>

VerifyStep == VerifyList \/ VerifyLsf \/ VerifyMark \/ VerifyEnd

HourPasses ==
    /\ fresh # {}
    /\ fresh' = {}
    /\ UNCHANGED <<vars, faults, missing, verify, lost>>

-----------------------------------------------------------------------------
(* Faults.                                                                 *)

\* The listing fails: the last known state stays.
VerifyFails ==
    /\ "clean" \in faults
    /\ verify.pc \in {"list", "lsf"}
    /\ verify' = IdleVerify
    /\ UNCHANGED <<vars, faults, missing, fresh, lost>>

\* A note is not written, which is logged.
VerifySkips ==
    /\ "clean" \in faults
    /\ verify.pc = "mark"
    /\ \E x \in verify.objs : verify' = [verify EXCEPT !.objs = @ \ {x}]
    /\ UNCHANGED <<vars, faults, missing, fresh, lost>>

TieringFails ==
    /\ \/ "clean" \in faults /\ CleanFailure
       \/ "torn" \in faults /\ (PassTorn \/ \E u \in Uploader : UploadTorn(u))
    /\ UNCHANGED verifyVars

CrashVerify ==
    /\ "torn" \in faults
    /\ Crash
    /\ verify' = IdleVerify
    /\ UNCHANGED <<faults, missing, fresh, lost>>

ProviderLoses(o) ==
    /\ "loss" \in faults
    /\ o \in cold
    /\ cold' = cold \ {o}
    /\ lost' = lost \cup {o}
    /\ UNCHANGED <<now, cfg, taken, hot, rows, lw, up, faults, missing, fresh, verify>>

Fault ==
    \/ VerifyFails \/ VerifySkips \/ TieringFails \/ CrashVerify
    \/ \E o \in cold : ProviderLoses(o)

Working ==
    \/ PassStepOrVerify \/ DayPasses \/ OtherStep \/ VerifyStep \/ HourPasses

BooksSpec == BooksInit /\ [][Working \/ Fault]_bookVars

-----------------------------------------------------------------------------
(* Properties.                                                             *)

BooksTypeOK ==
    /\ TypeOK
    /\ faults \in Faults
    /\ missing \subseteq Keys(rows) /\ fresh \subseteq Keys(rows)
    /\ verify \in [pc: {"idle", "list", "lsf", "mark"}, cfg: Config \cup {NoConfig},
                   objs: SUBSET Keyed, files: SUBSET Snapshot]
    /\ lost \subseteq Object

\* What verification has found present within the hour is there: no deletion
\* and no upload that ran between its listing and its notes makes it vouch for
\* an object that is gone, unless the provider lost it since, or it is about to
\* be noted as missing.  (A half-done deletion can leave such a row.)
VouchedForIsThere ==
    "torn" \notin faults =>
        \A x \in rows :
            Key(x) \in fresh \ missing =>
                \/ ObjectOf(cfg, x.snap) \in cold \cup lost
                \/ /\ verify.pc = "mark" /\ Key(x) \in verify.objs
                   /\ x.snap \notin verify.files
                \/ lw.pc = "unrecord" /\ lw.doomed = x.snap

\* Rows and objects stay in step if only clean failures happen.
InStepWithoutTears ==
    faults \subseteq {"clean"} => RecordsBacked /\ ObjectsRecorded

\* The horizons of OffsiteTiering hold with the verification running and with
\* every failure but a loss at the provider.
KeptUnlessLost == "loss" \notin faults => KeptWithinHorizons
=============================================================================
