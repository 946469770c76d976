------------------------ MODULE OffsiteTieringProofs ------------------------
(***************************************************************************)
(* What holds of OffsiteTiering for every set of remotes, every number of  *)
(* uploaders, every horizon and every length of time, and that it          *)
(* implements TieredStore.                                                 *)
(***************************************************************************)
EXTENDS TieringRefinement, TLAPS

Assumptions ==
    /\ NoRemote \notin Remote
    /\ MaxDay \in Nat \ {0}
    /\ Config \subseteq Settings
    /\ NoConfig \notin Config

LEMMA ConstantsOK == Assumptions
  BY RemotesAssumption, MaxDayAssumption, ConfigAssumption DEF Assumptions

-----------------------------------------------------------------------------
(* Type correctness.  A pass works on real settings from its first step on *)
(* and an upload pass on settings that name a remote; TypeOK alone is not  *)
(* inductive without that.  LocallyTyped does not say that the settings a  *)
(* goroutine works on are still those of the client, which the operator    *)
(* may have changed meanwhile.                                             *)

LocalSettings ==
    /\ lw.pc # "idle" => lw.cfg \in Config
    /\ lw.pc \in {"objects", "cold", "unrecord"} => OffsiteOn(lw.cfg)
    /\ lw.pc = "unrecord" => lw.doomed \in Snapshot
    /\ \A u \in Uploader : up[u].pc # "idle" => up[u].cfg \in Config /\ OffsiteOn(up[u].cfg)
    /\ \A u \in Uploader : up[u].pc \in {"upload", "record"} => up[u].snap \in Snapshot

LocallyTyped == TypeOK /\ LocalSettings

SameSettings ==
    /\ lw.pc # "idle" => lw.cfg = cfg
    /\ \A u \in Uploader : up[u].pc # "idle" => up[u].cfg = cfg

Typed == LocallyTyped /\ SameSettings

LEMMA IdleTypes == IdlePass \in PassStates /\ IdleUpload \in UploadStates
  BY DEF IdlePass, IdleUpload, PassStates, UploadStates

LEMMA SettingsTypes ==
  ASSUME NEW c \in Config
  PROVE  /\ c.remote \in Remote \cup {NoRemote}
         /\ c.dir \in Dir
         /\ c.retention \in Nat
         /\ c.offsiteRetention \in Nat
  BY ConstantsOK DEF Assumptions, Settings

LEMMA TypedInit == Init => Typed
  BY ConstantsOK, IdleTypes
  DEF Assumptions, Init, Typed, LocallyTyped, TypeOK, LocalSettings, SameSettings,
      IdlePass, IdleUpload

LEMMA TypedEnvironment ==
  ASSUME LocallyTyped, Tick \/ TakeSnapshot
  PROVE  LocallyTyped'
  <1>1. CASE Tick
    BY <1>1, ConstantsOK DEF Assumptions, Tick, LocallyTyped, TypeOK, LocalSettings
  <1>2. CASE TakeSnapshot
    BY <1>2, ConstantsOK
    DEF Assumptions, TakeSnapshot, LocallyTyped, TypeOK, LocalSettings, Snapshot
  <1> QED BY <1>1, <1>2

\* A step of the lifecycle worker writes one pass state, and removes objects,
\* rows or hot snapshots.
LEMMA TypedPass ==
  ASSUME LocallyTyped, PassStep \/ PassFails \/ PassSkipsHot \/ PassTorn
  PROVE  LocallyTyped'
  <1> USE DEF LocallyTyped, TypeOK, LocalSettings, PassStates
  <1>1. CASE PassStart
    BY <1>1, IdleTypes DEF PassStart, IdlePass
  <1>2. CASE PassList
    <2>1. hot \subseteq Snapshot
      OBVIOUS
    <2> QED BY <1>2, <2>1 DEF PassList
  <1>3. CASE PassReadOffsited
    <2>1. OffsitedSet \subseteq Snapshot
      BY DEF OffsitedSet, Row
    <2>2. lw'.pc \in {"objects", "plan"} /\ (lw'.pc = "objects" => OffsiteOn(lw.cfg))
      BY <1>3 DEF PassReadOffsited
    <2>3. lw' \in PassStates
      BY <1>3, <2>1 DEF PassReadOffsited
    <2>4. lw'.cfg = lw.cfg
      BY <1>3 DEF PassReadOffsited
    <2> QED BY <1>3, <2>2, <2>3, <2>4 DEF PassReadOffsited
  <1>4. CASE PassListObjects
    BY ZenonT(40), <1>4 DEF PassListObjects, ExpiredRows
  <1>5. CASE PassDeleteObject
    <2>1. PICK x \in lw.expired :
            /\ cold' = cold \ {ObjectOf(lw.cfg, x.snap)}
            /\ lw' = [lw EXCEPT !.pc = "unrecord", !.doomed = x.snap,
                                !.expired = lw.expired \ {x}]
      BY <1>5 DEF PassDeleteObject
    <2>2. x.snap \in Snapshot
      BY DEF Row
    <2>3. lw.pc = "cold" /\ UNCHANGED <<now, cfg, taken, hot, rows, up>>
      BY <1>5 DEF PassDeleteObject
    <2> QED BY <2>1, <2>2, <2>3
  <1>6. CASE PassDeleteAbsent \/ PassEnd \/ PassFails \/ PassTorn
    BY <1>6, IdleTypes DEF PassDeleteAbsent, PassEnd, PassFails, PassTorn, IdlePass
  <1>7. CASE PassDeleteRow
    BY <1>7 DEF PassDeleteRow, RowsWithout
  <1>8. CASE PassPlanHot
    BY <1>8 DEF PassPlanHot, HotVictims
  <1>9. CASE PassDeleteHot
    BY <1>9 DEF PassDeleteHot
  <1>10. CASE PassSkipsHot
    BY <1>10 DEF PassSkipsHot
  <1> QED
    BY <1>1, <1>2, <1>3, <1>4, <1>5, <1>6, <1>7, <1>8, <1>9, <1>10 DEF PassStep

LEMMA TypedUpload ==
  ASSUME LocallyTyped, NEW u \in Uploader,
         UploadStep(u) \/ UploadFails(u) \/ UploadTorn(u)
  PROVE  LocallyTyped'
  <1> USE DEF LocallyTyped, TypeOK, LocalSettings, UploadStates, Goto
  <1>1. CASE UploadStart(u)
    BY <1>1, IdleTypes DEF UploadStart, IdleUpload
  <1>2. CASE UploadList(u)
    BY ZenonT(40), <1>2 DEF UploadList
  <1>3. CASE UploadReadOffsited(u)
    BY ZenonT(40), <1>3 DEF UploadReadOffsited
  <1>4. CASE UploadSkipsDuplicate(u)
    BY <1>4 DEF UploadSkipsDuplicate, UploadNext
  <1>5. CASE UploadPrepare(u)
    <2>1. PICK s \in hot :
            up' = [up EXCEPT ![u] = [up[u] EXCEPT !.pc = "upload", !.snap = s,
                                                  !.todo = up[u].todo \ {s}]]
      BY <1>5 DEF UploadPrepare
    <2>2. s \in Snapshot
      OBVIOUS
    <2>3. up[u].pc = "next" /\ UNCHANGED <<now, cfg, taken, hot, rows, cold, lw>>
      BY <1>5 DEF UploadPrepare, UploadNext
    <2> QED BY ZenonT(40), <2>1, <2>2, <2>3
  <1>6. CASE UploadObject(u)
    <2>1. ObjectOf(up[u].cfg, up[u].snap) \in Object
      BY <1>6, ConstantsOK, SettingsTypes
      DEF UploadObject, ObjectOf, Object, OffsiteOn
    <2> QED BY <1>6, <2>1 DEF UploadObject
  <1>7. CASE \/ UploadSourceGone(u) \/ UploadStatFails(u) \/ UploadEnd(u)
             \/ UploadFails(u) \/ UploadTorn(u)
    <2>1. /\ up' = [up EXCEPT ![u] = IdleUpload]
          /\ UNCHANGED <<now, cfg, taken, hot, rows, cold, lw>>
      BY <1>7 DEF UploadSourceGone, UploadStatFails, UploadEnd, UploadFails, UploadTorn
    <2>2. IdleUpload.pc = "idle"
      BY DEF IdleUpload
    <2> QED BY <2>1, <2>2, IdleTypes
  <1>8. CASE UploadRecord(u)
    <2>1. [remote |-> up[u].cfg.remote, snap |-> up[u].snap, at |-> now] \in Row
      BY <1>8, ConstantsOK, SettingsTypes DEF UploadRecord, Row, OffsiteOn
    <2>2. rows' \subseteq Row
      BY <1>8, <2>1 DEF UploadRecord, RowsWith
    <2> QED BY ZenonT(40), <1>8, <2>2 DEF UploadRecord
  <1> QED
    BY <1>1, <1>2, <1>3, <1>4, <1>5, <1>6, <1>7, <1>8 DEF UploadStep

LEMMA TypedCrash ==
  ASSUME LocallyTyped, Crash
  PROVE  LocallyTyped'
  BY IdleTypes DEF LocallyTyped, TypeOK, LocalSettings, Crash, IdlePass, IdleUpload

LEMMA LocallyTypedNext ==
  ASSUME LocallyTyped, [Next]_vars
  PROVE  LocallyTyped'
  <1>1. CASE UNCHANGED vars
    BY <1>1 DEF vars, LocallyTyped, TypeOK, LocalSettings
  <1>2. CASE Next
    BY <1>2, TypedEnvironment, TypedPass, TypedUpload, TypedCrash
    DEF Next, Progress, CleanFailure, TornFailure
  <1> QED BY <1>1, <1>2

-----------------------------------------------------------------------------
(* What a step does to each part of the state.                             *)

\* Settings stay, the clock and the history only grow.
LEMMA Monotone ==
  ASSUME LocallyTyped, [Next]_vars
  PROVE  /\ cfg' = cfg
         /\ now \in Nat /\ now' \in Nat /\ now <= now'
         /\ taken \subseteq taken'
  <1>0. now \in Nat /\ (now' = now + 1 => now' \in Nat /\ now <= now')
    BY ConstantsOK DEF Assumptions, LocallyTyped, TypeOK
  <1>1. CASE Tick \/ TakeSnapshot \/ Crash
    BY <1>0, <1>1 DEF Tick, TakeSnapshot, Crash
  <1>2. ASSUME PassStep \/ PassFails \/ PassSkipsHot \/ PassTorn
        PROVE  UNCHANGED <<now, cfg, taken>>
    BY <1>2
    DEF PassStep, PassStart, PassList, PassReadOffsited,
        PassListObjects, PassDeleteObject, PassDeleteAbsent, PassDeleteRow,
        PassPlanHot, PassDeleteHot, PassEnd, PassFails, PassSkipsHot, PassTorn
  <1>3. ASSUME NEW u \in Uploader, UploadStep(u) \/ UploadFails(u) \/ UploadTorn(u)
        PROVE  UNCHANGED <<now, cfg, taken>>
    BY <1>3
    DEF UploadStep, UploadStart, UploadList, UploadReadOffsited,
        UploadSkipsDuplicate, UploadPrepare, UploadObject, UploadSourceGone,
        UploadStatFails, UploadRecord, UploadEnd, UploadFails, UploadTorn
  <1>4. CASE UNCHANGED vars
    BY <1>0, <1>4 DEF vars
  <1> QED
    BY <1>0, <1>1, <1>2, <1>3, <1>4
    DEF Next, Progress, CleanFailure, TornFailure

\* Which steps touch the rows, the pass, an upload and the hot store.
LEMMA WhoWrites ==
  ASSUME [Next]_vars
  PROVE  /\ rows' = rows \/ PassDeleteRow \/ \E u \in Uploader : UploadRecord(u)
         /\ \/ lw' \in {lw, IdlePass}
            \/ PassStart \/ PassList \/ PassReadOffsited \/ PassListObjects
            \/ PassDeleteObject \/ PassDeleteRow \/ PassPlanHot
            \/ PassDeleteHot \/ PassSkipsHot
         /\ up' = up \/ Crash
            \/ \E u \in Uploader : UploadStep(u) \/ UploadFails(u) \/ UploadTorn(u)
         /\ hot \subseteq hot' \/ PassDeleteHot
         /\ taken' = taken \/ TakeSnapshot
  <1>1. CASE Tick \/ TakeSnapshot \/ Crash \/ UNCHANGED vars
    BY <1>1 DEF Tick, TakeSnapshot, Crash, vars
  <1>2. CASE PassStep \/ PassFails \/ PassSkipsHot \/ PassTorn
    <2>1. UNCHANGED <<up, taken>>
      BY <1>2
      DEF PassStep, PassStart, PassList, PassReadOffsited,
          PassListObjects, PassDeleteObject, PassDeleteAbsent, PassDeleteRow,
          PassPlanHot, PassDeleteHot, PassEnd, PassFails, PassSkipsHot, PassTorn
    <2>2. rows' = rows \/ PassDeleteRow
      BY <1>2
      DEF PassStep, PassStart, PassList, PassReadOffsited,
          PassListObjects, PassDeleteObject, PassDeleteAbsent,
          PassPlanHot, PassDeleteHot, PassEnd, PassFails, PassSkipsHot, PassTorn
    <2>3. hot' = hot \/ PassDeleteHot
      BY <1>2
      DEF PassStep, PassStart, PassList, PassReadOffsited,
          PassListObjects, PassDeleteObject, PassDeleteAbsent, PassDeleteRow,
          PassPlanHot, PassEnd, PassFails, PassSkipsHot, PassTorn
    <2>4. lw' = IdlePass
            \/ PassStart \/ PassList \/ PassReadOffsited \/ PassListObjects
            \/ PassDeleteObject \/ PassDeleteRow \/ PassPlanHot
            \/ PassDeleteHot \/ PassSkipsHot
      BY <1>2 DEF PassStep, PassDeleteAbsent, PassEnd, PassFails, PassTorn
    <2> QED BY <2>1, <2>2, <2>3, <2>4
  <1>3. ASSUME NEW u \in Uploader, UploadStep(u) \/ UploadFails(u) \/ UploadTorn(u)
        PROVE  UNCHANGED <<lw, hot, taken>> /\ (rows' = rows \/ UploadRecord(u))
    BY <1>3
    DEF UploadStep, UploadStart, UploadList, UploadReadOffsited,
        UploadSkipsDuplicate, UploadPrepare, UploadObject, UploadSourceGone,
        UploadStatFails, UploadRecord, UploadEnd, UploadFails, UploadTorn
  <1> QED
    BY <1>1, <1>2, <1>3 DEF Next, Progress, CleanFailure, TornFailure


\* A pass takes over listings and rows, and adds to what it will delete only
\* what its own settings let expire.
PassMoves ==
    /\ lw'.snaps \subseteq lw.snaps \cup hot
    /\ lw'.offsited \subseteq lw.offsited \cup OffsitedSet
    /\ \A x \in lw'.expired :
        /\ lw'.cfg = lw.cfg
        /\ \/ x \in lw.expired
           \/ lw.pc # "idle" /\ x \in rows /\ ColdExpired(lw.cfg, x.at)
    /\ \A s \in lw'.victims :
        /\ lw'.cfg = lw.cfg
        /\ s \in lw.victims \/ (lw.pc # "idle" /\ s \in HotVictims(lw))
    /\ lw'.pc # "idle" =>
        IF lw.pc = "idle" THEN lw'.cfg = cfg ELSE lw'.cfg = lw.cfg

LEMMA PassAlwaysMoves ==
  ASSUME LocallyTyped, [Next]_vars
  PROVE  PassMoves
  <1>0. lw \in PassStates
    BY DEF LocallyTyped, TypeOK
  <1> USE <1>0 DEF PassStates, PassMoves
  <1>1. CASE lw' = lw
    BY <1>1
  <1>2. CASE lw' = IdlePass
    BY <1>2 DEF IdlePass
  <1>3. CASE PassStart
    BY <1>3 DEF PassStart, IdlePass
  <1>4. CASE PassList
    BY <1>4 DEF PassList
  <1>5. CASE PassReadOffsited
    BY <1>5 DEF PassReadOffsited
  <1>6. CASE PassListObjects
    <2>1. /\ lw'.snaps = lw.snaps /\ lw'.offsited = lw.offsited
          /\ lw'.victims = lw.victims /\ lw'.cfg = lw.cfg /\ lw.pc # "idle"
      BY <1>6 DEF PassListObjects
    <2>2. \/ lw'.expired = lw.expired
          \/ \E newest \in rows : lw'.expired = ExpiredRows(lw.cfg, newest)
      BY <1>6 DEF PassListObjects
    <2> QED BY <2>1, <2>2 DEF ExpiredRows
  <1>7. CASE PassDeleteObject
    BY <1>7 DEF PassDeleteObject
  <1>8. CASE PassDeleteRow
    BY <1>8 DEF PassDeleteRow
  <1>9. CASE PassPlanHot
    <2>1. /\ lw'.snaps = {} /\ lw'.offsited = {} /\ lw'.expired = lw.expired
          /\ lw'.victims = HotVictims(lw) /\ lw'.cfg = lw.cfg /\ lw.pc # "idle"
      BY <1>9 DEF PassPlanHot
    <2> QED BY <2>1
  <1>10. CASE PassDeleteHot \/ PassSkipsHot
    BY <1>10 DEF PassDeleteHot, PassSkipsHot
  <1> QED
    BY <1>1, <1>2, <1>3, <1>4, <1>5, <1>6, <1>7, <1>8, <1>9, <1>10, WhoWrites

\* An upload pass uploads what it found in the directory, and reaches the
\* record only with the object in place.
UploadMoves(u) ==
    /\ up'[u].todo \subseteq up[u].todo \cup hot
    /\ up'[u].pc \in {"upload", "record"} =>
        \/ up'[u].snap \in hot
        \/ up[u].pc \in {"upload", "record"} /\ up'[u].snap = up[u].snap
    /\ up'[u].pc = "record" =>
        /\ up'[u].snap = up[u].snap
        /\ \/ up[u].pc = "record"
           \/ up[u].pc = "upload" /\ ObjectOf(up[u].cfg, up[u].snap) \in cold'
    /\ up'[u].pc # "idle" =>
        IF up[u].pc = "idle" THEN up'[u].cfg = cfg ELSE up'[u].cfg = up[u].cfg

LEMMA UploadAlwaysMoves ==
  ASSUME LocallyTyped, [Next]_vars, NEW v \in Uploader
  PROVE  UploadMoves(v)
  <1>0. up[v] \in UploadStates /\ up \in [Uploader -> UploadStates]
    BY DEF LocallyTyped, TypeOK
  <1> USE DEF UploadStates, UploadMoves
  <1>1. CASE up'[v] = up[v]
    BY <1>1
  <1>2. CASE up'[v] = IdleUpload
    BY <1>2 DEF IdleUpload
  <1> USE DEF Goto
  <1>3. CASE UploadStart(v)
    BY <1>0, <1>3 DEF UploadStart, IdleUpload
  <1>4. CASE UploadList(v)
    <2>1. up'[v] = [up[v] EXCEPT !.pc = "offsited", !.todo = hot] /\ up[v].pc = "list"
      BY <1>0, <1>4 DEF UploadList
    <2> QED BY <1>0, <2>1
  <1>5. CASE UploadReadOffsited(v)
    <2>1. /\ up'[v] = [up[v] EXCEPT !.pc = "next", !.todo = up[v].todo \ OffsitedSet]
          /\ up[v].pc = "offsited"
      BY <1>0, <1>5 DEF UploadReadOffsited
    <2> QED BY <1>0, <2>1
  <1>6. CASE UploadSkipsDuplicate(v)
    BY <1>0, <1>6 DEF UploadSkipsDuplicate, UploadNext
  <1>7. CASE UploadPrepare(v)
    <2>1. PICK s \in hot :
            /\ up'[v] = [up[v] EXCEPT !.pc = "upload", !.snap = s,
                                      !.todo = up[v].todo \ {s}]
            /\ up[v].pc = "next"
      BY <1>0, <1>7 DEF UploadPrepare, UploadNext
    <2> QED BY <1>0, <2>1
  <1>8. CASE UploadObject(v)
    <2>1. /\ up'[v] = [up[v] EXCEPT !.pc = "record"] /\ up[v].pc = "upload"
          /\ ObjectOf(up[v].cfg, up[v].snap) \in cold'
      BY <1>0, <1>8 DEF UploadObject
    <2> QED BY <1>0, <2>1
  <1>9. CASE UploadRecord(v)
    <2>1. /\ up'[v] = [up[v] EXCEPT !.pc = "next", !.snap = NoSnapshot, !.uploaded = TRUE]
          /\ up[v].pc = "record"
      BY <1>0, <1>9 DEF UploadRecord
    <2> QED BY <1>0, <2>1
  <1>10. \/ up'[v] \in {up[v], IdleUpload}
         \/ UploadStart(v) \/ UploadList(v) \/ UploadReadOffsited(v)
         \/ UploadSkipsDuplicate(v) \/ UploadPrepare(v) \/ UploadObject(v)
         \/ UploadRecord(v)
    <2>1. CASE up' = up \/ Crash
      BY <2>1 DEF Crash
    <2>2. ASSUME NEW u \in Uploader, UploadStep(u) \/ UploadFails(u) \/ UploadTorn(u), u # v
          PROVE  up'[v] = up[v]
      <3>1. \E st : up' = [up EXCEPT ![u] = st]
        BY <2>2
        DEF UploadStep, UploadStart, UploadList, UploadReadOffsited,
            UploadSkipsDuplicate, UploadPrepare, UploadObject, UploadSourceGone,
            UploadStatFails, UploadRecord, UploadEnd, UploadFails, UploadTorn
      <3> QED BY <1>0, <2>2, <3>1
    <2>3. CASE UploadStep(v) \/ UploadFails(v) \/ UploadTorn(v)
      BY <1>0, <2>3
      DEF UploadStep, UploadSourceGone, UploadStatFails, UploadEnd, UploadFails, UploadTorn
    <2> QED BY <2>1, <2>2, <2>3, WhoWrites
  <1> QED
    BY <1>1, <1>2, <1>3, <1>4, <1>5, <1>6, <1>7, <1>8, <1>9, <1>10

\* A row is an earlier one or that of an upload just recorded.
LEMMA RowMoves ==
  ASSUME [Next]_vars, NEW x \in rows'
  PROVE  \/ x \in rows
         \/ \E u \in Uploader :
              /\ UploadRecord(u) /\ up[u].pc = "record"
              /\ x = [remote |-> up[u].cfg.remote, snap |-> up[u].snap, at |-> now]
  BY WhoWrites DEF PassDeleteRow, RowsWithout, UploadRecord, RowsWith

\* Only the pruner removes objects, and what it removes it had listed as
\* expired.
LEMMA ObjectMoves ==
  ASSUME [Next]_vars, NEW o \in cold, o \notin cold'
  PROVE  /\ PassDeleteObject
         /\ \E x \in lw.expired : o = ObjectOf(lw.cfg, x.snap)
  <1>1. PassDeleteObject
    <2>1. CASE Next
      BY <2>1
      DEF Next, Progress, CleanFailure, TornFailure, PassStep, UploadStep,
          Tick, TakeSnapshot, PassStart, PassList, PassReadOffsited,
          PassListObjects, PassDeleteAbsent, PassDeleteRow,
          PassPlanHot, PassDeleteHot, PassEnd, PassFails, PassSkipsHot, PassTorn,
          UploadStart, UploadList, UploadReadOffsited, UploadSkipsDuplicate,
          UploadPrepare, UploadObject, UploadSourceGone, UploadStatFails, UploadRecord,
          UploadEnd, UploadFails, UploadTorn, Crash
    <2>2. CASE UNCHANGED vars
      BY <2>2 DEF vars
    <2> QED BY <2>1, <2>2
  <1> QED BY <1>1 DEF PassDeleteObject

\* A snapshot leaves the directory only as a victim of the pass.
LEMMA HotMoves ==
  ASSUME [Next]_vars, NEW s \in hot, s \notin hot'
  PROVE  s \in lw.victims /\ PassDeleteHot
  BY WhoWrites DEF PassDeleteHot

\* The settings a goroutine works on stay those of the client as long as these
\* do not change.
LEMMA TypedNext ==
  ASSUME Typed, [Next]_vars
  PROVE  Typed'
  <1>1. LocallyTyped'
    BY LocallyTypedNext DEF Typed
  <1>2. SameSettings'
    BY Monotone, PassAlwaysMoves, UploadAlwaysMoves
    DEF Typed, SameSettings, PassMoves, UploadMoves
  <1> QED BY <1>1, <1>2 DEF Typed

\* Every variable of the tiering keeps a value of its type.
THEOREM TypeCorrect == Spec => []TypeOK
  <1>1. Typed => TypeOK
    BY DEF Typed, LocallyTyped
  <1> QED BY <1>1, TypedInit, TypedNext, PTL DEF Spec

-----------------------------------------------------------------------------
(* Offsite first.  KeptWithinHorizons says what is true of a snapshot once *)
(* it has left the hot store; a step that removes one acts on what its     *)
(* goroutine read long before, so the invariant follows the promise from   *)
(* the row an uploader writes, through the listings that a pass carries    *)
(* along, to the deletion.                                                 *)

\* Cold storage has the snapshot, or had it for as long as it owes.
ColdSafe(s) ==
    OffsiteOn(cfg) => ObjectOf(cfg, s) \in cold \/ ColdExpired(cfg, s)

Superseded(s) == \E t \in taken : t > s

RowsPromise ==
    \A x \in rows : x.snap <= x.at /\ x.at <= now /\ ColdSafe(x.snap)

PassPromise ==
    /\ lw.snaps \subseteq taken
    /\ \A s \in lw.offsited : ColdSafe(s)
    /\ \A x \in lw.expired : x.snap <= x.at /\ ColdExpired(cfg, x.at)
    /\ \A s \in lw.victims : HotExpired(cfg, s) /\ ColdSafe(s) /\ Superseded(s)

UploadPromise ==
    \A u \in Uploader :
        /\ up[u].todo \subseteq taken
        /\ up[u].pc \in {"upload", "record"} => up[u].snap \in taken
        /\ up[u].pc = "record" => ColdSafe(up[u].snap)

HotPromise ==
    \A s \in taken \ hot : HotExpired(cfg, s) /\ ColdSafe(s) /\ Superseded(s)

Promise ==
    /\ taken \subseteq 1..now
    /\ RowsPromise
    /\ PassPromise
    /\ UploadPromise
    /\ HotPromise

LEMMA ExpiryIsForGood ==
  ASSUME Typed, [Next]_vars, NEW s \in Nat
  PROVE  /\ HotExpired(cfg, s) => HotExpired(cfg, s)'
         /\ ColdExpired(cfg, s) => ColdExpired(cfg, s)'
         /\ Superseded(s) => Superseded(s)'
  <1>1. cfg.retention \in Nat /\ cfg.offsiteRetention \in Nat
    BY SettingsTypes DEF Typed, LocallyTyped, TypeOK
  <1>2. HotExpired(cfg, s) => HotExpired(cfg, s)'
    BY <1>1, Monotone DEF HotExpired, Typed
  <1>3. ColdExpired(cfg, s) => ColdExpired(cfg, s)'
    BY <1>1, Monotone DEF ColdExpired, PrunesOffsite, Typed
  <1>4. Superseded(s) => Superseded(s)'
    BY Monotone DEF Superseded, Typed
  <1> QED BY <1>2, <1>3, <1>4

LEMMA OlderExpiresSooner ==
  ASSUME Typed, NEW s \in Nat, NEW d \in Nat, s <= d, ColdExpired(cfg, d)
  PROVE  ColdExpired(cfg, s)
  BY SettingsTypes, ConstantsOK
  DEF Assumptions, ColdExpired, Typed, LocallyTyped, TypeOK

\* Only the pruner removes objects, and what it removes has expired.
LEMMA ObjectsRemoved ==
  ASSUME Typed, PassPromise, [Next]_vars, NEW o \in cold, o \notin cold'
  PROVE  /\ PassDeleteObject
         /\ \E x \in lw.expired : o = ObjectOf(cfg, x.snap) /\ ColdExpired(cfg, x.snap)
  <1>1. PassDeleteObject
    BY ObjectMoves
  <1>2. PICK x \in lw.expired : o = ObjectOf(lw.cfg, x.snap)
    BY ObjectMoves
  <1>3. lw.cfg = cfg
    BY <1>1 DEF PassDeleteObject, Typed, SameSettings
  <1>4. x \in Row
    BY DEF Typed, LocallyTyped, TypeOK, PassStates
  <1>5. ColdExpired(cfg, x.snap)
    BY <1>4, OlderExpiresSooner, ConstantsOK
    DEF Assumptions, PassPromise, Row, Snapshot
  <1> QED BY <1>1, <1>2, <1>3, <1>5

LEMMA ColdSafeIsForGood ==
  ASSUME Typed, PassPromise, [Next]_vars, NEW s \in Snapshot, ColdSafe(s)
  PROVE  ColdSafe(s)'
  <1>1. s \in Nat /\ cfg' = cfg
    BY Monotone, ConstantsOK DEF Assumptions, Snapshot, Typed
  <1>2. CASE ~OffsiteOn(cfg)
    BY <1>1, <1>2 DEF ColdSafe, OffsiteOn
  <1>3. CASE ColdExpired(cfg, s)
    BY <1>1, <1>3, ExpiryIsForGood DEF ColdSafe
  <1>4. CASE ObjectOf(cfg, s) \in cold /\ ObjectOf(cfg, s) \in cold'
    BY <1>1, <1>4 DEF ColdSafe
  <1>5. CASE ObjectOf(cfg, s) \in cold /\ ObjectOf(cfg, s) \notin cold'
    <2>1. ColdExpired(cfg, s)
      BY <1>5, ObjectsRemoved DEF ObjectOf
    <2> QED BY <2>1, <1>3
  <1> QED BY <1>2, <1>3, <1>4, <1>5 DEF ColdSafe

LEMMA RowsPromiseKept ==
  ASSUME Typed, Promise, [Next]_vars
  PROVE  RowsPromise'
  <1> SUFFICES ASSUME NEW x \in rows'
               PROVE  x.snap <= x.at /\ x.at <= now' /\ ColdSafe(x.snap)'
    BY DEF RowsPromise
  <1>1. CASE x \in rows
    <2>1. x.snap \in Snapshot /\ x.at \in Nat
      BY <1>1, ConstantsOK DEF Assumptions, Typed, LocallyTyped, TypeOK, Row
    <2>2. x.snap <= x.at /\ x.at <= now /\ ColdSafe(x.snap)
      BY <1>1 DEF Promise, RowsPromise
    <2> QED BY <2>1, <2>2, ColdSafeIsForGood, Monotone DEF Promise, Typed
  <1>2. ASSUME NEW u \in Uploader, up[u].pc = "record",
               x = [remote |-> up[u].cfg.remote, snap |-> up[u].snap, at |-> now]
        PROVE  x.snap <= x.at /\ x.at <= now' /\ ColdSafe(x.snap)'
    <2>1. x.snap \in Snapshot /\ x.snap \in 1..now /\ ColdSafe(x.snap)
      BY <1>2 DEF Promise, UploadPromise, Typed, LocallyTyped, TypeOK
    <2> QED BY <1>2, <2>1, ColdSafeIsForGood, Monotone DEF Promise, Typed
  <1> QED BY <1>1, <1>2, RowMoves

LEMMA HotPromiseKept ==
  ASSUME Typed, Promise, [Next]_vars
  PROVE  HotPromise'
  <1> SUFFICES ASSUME NEW s \in taken' \ hot'
               PROVE  HotExpired(cfg, s)' /\ ColdSafe(s)' /\ Superseded(s)'
    BY DEF HotPromise
  <1>1. s \in taken /\ s \in Snapshot /\ s \in Nat
    <2>1. s \in taken
      BY WhoWrites DEF TakeSnapshot
    <2> QED BY <2>1, ConstantsOK DEF Assumptions, Typed, LocallyTyped, TypeOK, Snapshot
  <1>2. HotExpired(cfg, s) /\ ColdSafe(s) /\ Superseded(s)
    BY <1>1, HotMoves DEF Promise, HotPromise, PassPromise
  <1> QED
    BY <1>1, <1>2, ExpiryIsForGood, ColdSafeIsForGood DEF Promise

LEMMA UploadPromiseKept ==
  ASSUME Typed, Promise, [Next]_vars
  PROVE  UploadPromise'
  <1> SUFFICES ASSUME NEW v \in Uploader
               PROVE  /\ up'[v].todo \subseteq taken'
                      /\ up'[v].pc \in {"upload", "record"} => up'[v].snap \in taken'
                      /\ up'[v].pc = "record" => ColdSafe(up[v].snap)'
    BY DEF UploadPromise
  <1>1. UploadMoves(v)
    BY UploadAlwaysMoves DEF Typed
  <1>2. hot \subseteq taken /\ taken \subseteq taken' /\ cfg' = cfg
    BY Monotone DEF Typed, LocallyTyped, TypeOK
  <1>3. /\ up'[v].todo \subseteq taken'
        /\ up'[v].pc \in {"upload", "record"} => up'[v].snap \in taken'
    BY <1>1, <1>2 DEF UploadMoves, Promise, UploadPromise
  <1>4. ASSUME up'[v].pc = "record"
        PROVE  ColdSafe(up[v].snap)'
    <2>1. CASE up[v].pc = "record"
      <3>1. up[v].snap \in Snapshot /\ ColdSafe(up[v].snap)
        BY <2>1 DEF Typed, LocallyTyped, LocalSettings, Promise, UploadPromise
      <3>2. up'[v].snap = up[v].snap
        BY <1>1, <1>4 DEF UploadMoves
      <3>3. ASSUME NEW r \in Snapshot, ColdSafe(r), r = up'[v].snap
            PROVE  ColdSafe(up[v].snap)'
        <4>1. ColdSafe(r)'
          BY <3>3, ColdSafeIsForGood DEF Promise
        <4> QED BY <3>3, <4>1 DEF ColdSafe
      <3> QED BY <3>1, <3>2, <3>3
    <2>2. CASE up[v].pc = "upload" /\ ObjectOf(up[v].cfg, up[v].snap) \in cold'
      <3>1. up[v].cfg = cfg /\ up'[v].snap = up[v].snap
        BY <1>1, <1>4, <2>2 DEF UploadMoves, Typed, SameSettings
      <3> QED BY <1>2, <2>2, <3>1 DEF ColdSafe
    <2> QED BY <1>1, <1>4, <2>1, <2>2 DEF UploadMoves
  <1> QED BY <1>3, <1>4 DEF ColdSafe

LEMMA PassPromiseKept ==
  ASSUME Typed, Promise, [Next]_vars
  PROVE  PassPromise'
  <1>0. Snapshot \subseteq Nat /\ lw \in PassStates /\ rows \subseteq Row
    BY ConstantsOK DEF Assumptions, Snapshot, Typed, LocallyTyped, TypeOK
  <1>1. PassMoves
    BY PassAlwaysMoves DEF Typed
  <1>2. (lw.snaps \subseteq taken)'
    BY <1>1, Monotone DEF PassMoves, Promise, PassPromise, Typed, LocallyTyped, TypeOK
  <1>3. ASSUME NEW s \in lw'.offsited
        PROVE  ColdSafe(s)'
    <2>1. s \in Snapshot /\ ColdSafe(s)
      <3>1. CASE s \in lw.offsited
        BY <1>0, <3>1 DEF PassStates, Promise, PassPromise
      <3>2. CASE s \in OffsitedSet
        BY <1>0, <3>2 DEF OffsitedSet, Row, Promise, RowsPromise
      <3> QED BY <1>1, <3>1, <3>2 DEF PassMoves
    <2> QED BY <2>1, ColdSafeIsForGood DEF Promise
  <1>4. ASSUME NEW x \in lw'.expired
        PROVE  x.snap <= x.at /\ ColdExpired(cfg, x.at)'
    <2>1. x.at \in Nat
      BY <1>0, <1>1, ConstantsOK DEF Assumptions, PassMoves, PassStates, Row
    <2>2. x.snap <= x.at /\ ColdExpired(cfg, x.at)
      BY <1>1
      DEF PassMoves, Promise, PassPromise, RowsPromise, Typed, SameSettings
    <2> QED BY <2>1, <2>2, ExpiryIsForGood
  <1>5. ASSUME NEW s \in lw'.victims
        PROVE  HotExpired(cfg, s)' /\ ColdSafe(s)' /\ Superseded(s)'
    <2>1. s \in Snapshot /\ s \in Nat
      BY <1>0, <1>1 DEF PassMoves, PassStates, HotVictims
    <2>2. HotExpired(cfg, s) /\ ColdSafe(s) /\ Superseded(s)
      <3>1. CASE s \in lw.victims
        BY <3>1 DEF Promise, PassPromise
      <3>2. CASE lw.pc # "idle" /\ s \in HotVictims(lw)
        BY <3>2
        DEF HotVictims, Superseded, ColdSafe, Promise, PassPromise, Typed, SameSettings
      <3> QED BY <1>1, <3>1, <3>2 DEF PassMoves
    <2> QED BY <2>1, <2>2, ExpiryIsForGood, ColdSafeIsForGood DEF Promise
  <1> QED BY <1>2, <1>3, <1>4, <1>5 DEF PassPromise

LEMMA PromiseKept == Typed /\ Promise /\ [Next]_vars => Promise'
  <1> SUFFICES ASSUME Typed, Promise, [Next]_vars PROVE Promise'
    OBVIOUS
  <1>1. (taken \subseteq 1..now)'
    <2>1. taken' \subseteq taken \cup {now}
      BY WhoWrites DEF TakeSnapshot
    <2>2. taken \cup {now} \subseteq 1..now
      BY ConstantsOK DEF Assumptions, Promise, Typed, LocallyTyped, TypeOK
    <2>3. 1..now \subseteq 1..now'
      BY Monotone DEF Typed
    <2> QED BY <2>1, <2>2, <2>3
  <1> QED
    BY <1>1, RowsPromiseKept, PassPromiseKept, UploadPromiseKept,
       HotPromiseKept DEF Promise

LEMMA PromiseInit == Init => Promise
  BY DEF Init, Promise, RowsPromise, PassPromise, UploadPromise, HotPromise,
         IdlePass, IdleUpload

\* A snapshot that is not in the hot store any more is past the hot horizon,
\* and on the remote unless it is past the offsite horizon too.
THEOREM OffsiteFirst == Spec => []KeptWithinHorizons
  <1>1. Promise => KeptWithinHorizons
    BY DEF Promise, HotPromise, ColdSafe, KeptWithinHorizons
  <1> QED
    BY <1>1, TypedInit, TypedNext, PromiseInit, PromiseKept, PTL DEF Spec

\* No pass removes the newest snapshot, whatever was completed after it
\* listed the directory.
THEOREM NewestKept == Spec => []NewestStaysHot
  <1>1. Typed /\ Promise => NewestStaysHot
    BY ConstantsOK
    DEF Assumptions, Promise, HotPromise, Superseded, NewestStaysHot, NewestIn,
        Typed, LocallyTyped, TypeOK, Snapshot
  <1> QED
    BY <1>1, TypedInit, TypedNext, PromiseInit, PromiseKept, PTL DEF Spec

-----------------------------------------------------------------------------
(* Offsite pruning never removes the last record.  The row the pruner      *)
(* spared is remembered by no variable: what is inductive is that some row *)
(* of a snapshot that is neither doomed nor listed as expired remains,     *)
(* even when an uploader replaces it by a younger one.                     *)

\* The key of a row is its snapshot, for all rows are on one remote.
RowsKeyed ==
    /\ \A x \in rows : x.remote = cfg.remote
    /\ \A x, y \in rows : x.snap = y.snap => x = y

Spared(s) == s # lw.doomed /\ \A y \in lw.expired : y.snap # s

RowSpared ==
    /\ lw.pc # "unrecord" => lw.doomed = NoSnapshot
    /\ lw.expired # {} \/ lw.pc = "unrecord" => \E s \in OffsitedSet : Spared(s)

RowsInv == RowsKeyed /\ RowSpared

LEMMA RowsInvInit == Init => RowsInv
  BY DEF Init, RowsInv, RowsKeyed, RowSpared, IdlePass

LEMMA RowsKeyedKept ==
  ASSUME Typed, RowsKeyed, [Next]_vars
  PROVE  RowsKeyed'
  <1>1. cfg' = cfg
    BY Monotone DEF Typed
  <1>2. CASE rows' \subseteq rows
    BY <1>1, <1>2 DEF RowsKeyed
  <1>3. ASSUME NEW u \in Uploader, UploadRecord(u)
        PROVE  RowsKeyed'
    <2> DEFINE new == [remote |-> cfg.remote, snap |-> up[u].snap, at |-> now]
    <2>1. rows' = {x \in rows : ~(x.remote = cfg.remote /\ x.snap = up[u].snap)}
                    \cup {new}
      BY <1>3 DEF UploadRecord, RowsWith, Typed, SameSettings
    <2>2. \A x \in rows' : x = new \/ (x \in rows /\ x.snap # new.snap)
      BY <2>1 DEF RowsKeyed
    <2>3. new.remote = cfg.remote
      OBVIOUS
    <2> HIDE DEF new
    <2> QED BY <1>1, <2>2, <2>3 DEF RowsKeyed
  <1> QED
    BY <1>2, <1>3, WhoWrites DEF PassDeleteRow, RowsWithout

\* The row that PassDeleteRow deletes is never the spared one.
LEMMA SparedSurvives ==
  ASSUME Typed, RowsKeyed, PassDeleteRow,
         NEW s \in OffsitedSet, Spared(s)
  PROVE  s \in OffsitedSet'
  BY DEF PassDeleteRow, RowsWithout, OffsitedSet, Spared

LEMMA UploadsAdd ==
  ASSUME NEW u \in Uploader, UploadRecord(u)
  PROVE  OffsitedSet \subseteq OffsitedSet' /\ lw' = lw /\ rows' # {}
  <1> DEFINE new == [remote |-> up[u].cfg.remote, snap |-> up[u].snap, at |-> now]
  <1>1. rows' = {x \in rows : ~(x.remote = up[u].cfg.remote /\ x.snap = up[u].snap)}
                  \cup {new}
    BY DEF UploadRecord, RowsWith
  <1>2. new.snap = up[u].snap
    OBVIOUS
  <1> HIDE DEF new
  <1>3. new \in rows'
    BY <1>1
  <1>4. \A x \in rows : x \in rows' \/ x.snap = new.snap
    BY <1>1, <1>2
  <1>5. OffsitedSet \subseteq OffsitedSet'
    BY <1>3, <1>4 DEF OffsitedSet
  <1> QED BY <1>3, <1>5 DEF UploadRecord

LEMMA RowSparedKept ==
  ASSUME Typed, RowsInv, [Next]_vars
  PROVE  RowSpared'
  <1>0. lw \in PassStates /\ OffsitedSet \subseteq Snapshot /\ NoSnapshot \notin Snapshot
    BY ConstantsOK
    DEF Assumptions, Typed, LocallyTyped, TypeOK, OffsitedSet, Row, Snapshot, NoSnapshot
  <1> USE <1>0 DEF PassStates, RowsInv, RowSpared
  <1>1. CASE lw' = IdlePass \/ PassStart
    <2>1. lw'.expired = {} /\ lw'.pc # "unrecord" /\ lw'.doomed = NoSnapshot
      <3>1. CASE lw' = IdlePass
        BY <3>1 DEF IdlePass
      <3>2. CASE PassStart
        BY <3>2 DEF PassStart, IdlePass
      <3> QED BY <1>1, <3>1, <3>2
    <2> QED BY <2>1
  <1>2. CASE lw' = lw /\ OffsitedSet \subseteq OffsitedSet'
    BY <1>2 DEF Spared
  <1>3. CASE PassList \/ PassReadOffsited \/ PassPlanHot \/ PassDeleteHot \/ PassSkipsHot
    <2>1. /\ rows' = rows /\ lw'.doomed = lw.doomed /\ lw'.expired = lw.expired
          /\ lw.pc # "unrecord" /\ lw'.pc # "unrecord"
      <3>1. CASE PassList
        BY <3>1 DEF PassList
      <3>2. CASE PassReadOffsited
        BY <3>2 DEF PassReadOffsited
      <3>3. CASE PassPlanHot
        BY <3>3 DEF PassPlanHot
      <3>4. CASE PassDeleteHot \/ PassSkipsHot
        BY <3>4 DEF PassDeleteHot, PassSkipsHot
      <3> QED BY <1>3, <3>1, <3>2, <3>3, <3>4
    <2> QED BY <2>1 DEF Spared, OffsitedSet
  <1>4. CASE PassListObjects
    <2>1. rows' = rows /\ lw.pc = "objects" /\ lw'.pc = "cold" /\ lw'.doomed = lw.doomed
      BY <1>4 DEF PassListObjects
    <2>2. CASE rows = {}
      <3>1. lw'.expired = lw.expired
        BY <1>4, <2>2 DEF PassListObjects
      <3> QED BY <2>1, <2>2, <3>1 DEF OffsitedSet
    <2>3. ASSUME NEW newest \in rows, lw'.expired = ExpiredRows(lw.cfg, newest)
          PROVE  RowSpared'
      <3>1. newest.snap \in OffsitedSet' /\ newest.snap # lw'.doomed
        BY <2>1 DEF OffsitedSet
      <3>2. \A y \in lw'.expired : y.snap # newest.snap
        BY <2>3 DEF ExpiredRows, RowsKeyed
      <3> QED BY <2>1, <3>1, <3>2 DEF Spared
    <2>4. rows # {} => \E newest \in rows : lw'.expired = ExpiredRows(lw.cfg, newest)
      BY <1>4 DEF PassListObjects
    <2> QED BY <2>2, <2>3, <2>4
  <1>5. CASE PassDeleteObject
    <2>1. PICK x \in lw.expired :
            lw' = [lw EXCEPT !.pc = "unrecord", !.doomed = x.snap,
                             !.expired = lw.expired \ {x}]
      BY <1>5 DEF PassDeleteObject
    <2>2. PICK s \in OffsitedSet : Spared(s)
      BY <2>1
    <2>3. rows' = rows /\ lw'.pc = "unrecord" /\ lw'.doomed = x.snap
          /\ lw'.expired \subseteq lw.expired
      BY <1>5, <2>1 DEF PassDeleteObject
    <2> QED BY <2>2, <2>3 DEF Spared, OffsitedSet
  <1>6. CASE PassDeleteRow
    <2>1. PICK s \in OffsitedSet : Spared(s)
      BY <1>6 DEF PassDeleteRow
    <2>2. s \in OffsitedSet'
      BY <1>6, <2>1, SparedSurvives
    <2>3. lw'.pc = "cold" /\ lw'.doomed = NoSnapshot /\ lw'.expired = lw.expired
      BY <1>6 DEF PassDeleteRow
    <2> QED BY <2>1, <2>2, <2>3 DEF Spared
  <1>7. CASE lw' = lw /\ ~PassDeleteRow
    <2>1. OffsitedSet \subseteq OffsitedSet'
      BY <1>7, WhoWrites, UploadsAdd DEF OffsitedSet
    <2> QED BY <1>2, <1>7, <2>1
  <1> QED BY <1>1, <1>3, <1>4, <1>5, <1>6, <1>7, WhoWrites

LEMMA RowsInvKept == Typed /\ RowsInv /\ [Next]_vars => RowsInv'
  BY RowsKeyedKept, RowSparedKept DEF RowsInv

LEMMA RowsStay ==
  ASSUME Typed, RowsInv, [Next]_vars, rows # {}
  PROVE  rows' # {}
  <1>1. CASE PassDeleteRow
    <2>1. PICK s \in OffsitedSet : Spared(s)
      BY <1>1 DEF PassDeleteRow, RowsInv, RowSpared
    <2>2. s \in OffsitedSet'
      BY <1>1, <2>1, SparedSurvives DEF RowsInv
    <2> QED BY <2>2 DEF OffsitedSet
  <1> QED BY <1>1, WhoWrites, UploadsAdd

\* A client that has an offsite record keeps having one.
THEOREM RecordsRemain == Spec => OffsiteNeverEmptied
  <1>1. Typed /\ RowsInv /\ [Next]_vars => [rows # {} => rows' # {}]_vars
    BY RowsStay
  <1> QED
    BY <1>1, TypedInit, TypedNext, RowsInvInit, RowsInvKept, PTL
    DEF Spec, OffsiteNeverEmptied

-----------------------------------------------------------------------------
(* Rows and objects in step.  With one uploader and nothing half done, a   *)
(* record has its object and an object its record.  Between the upload of  *)
(* an object and its record, and between the deletion of one and that of   *)
(* its row, this holds because the pruner works on rows and the uploader   *)
(* on snapshots without one.                                               *)

\* Every object is where the settings of the client put it.
ObjectsPlaced == \A o \in cold : o = ObjectOf(cfg, o.snap)

UploadsUnrecorded ==
    \A u \in Uploader :
        /\ up[u].pc \in {"next", "upload", "record"} => up[u].todo \cap OffsitedSet = {}
        /\ up[u].pc \in {"upload", "record"} =>
            up[u].snap \notin OffsitedSet \cup up[u].todo
        /\ up[u].pc = "record" => ObjectOf(cfg, up[u].snap) \in cold

PrunesRecorded ==
    /\ lw.expired \subseteq rows
    /\ lw.pc = "unrecord" =>
        /\ lw.doomed \in OffsitedSet
        /\ \A x \in lw.expired : x.snap # lw.doomed
        /\ ObjectOf(cfg, lw.doomed) \notin cold

InStep ==
    /\ RowsKeyed /\ ObjectsPlaced /\ UploadsUnrecorded
    /\ PrunesRecorded /\ RecordsBacked

LEMMA InStepInit == Init => InStep /\ ObjectsRecorded
  BY DEF Init, InStep, RowsKeyed, ObjectsPlaced, UploadsUnrecorded, PrunesRecorded,
         RecordsBacked, ObjectsRecorded, IdlePass, IdleUpload

\* The invariant sees the rows, the objects, what is expired and doomed, and
\* the uploads; it does not see a step of the pass outside a deletion.
LEMMA InStepUnseen ==
  ASSUME InStep, UNCHANGED <<cfg, rows, cold, up>>,
         \/ lw' = lw
         \/ lw.pc # "unrecord" /\ lw'.pc # "unrecord" /\ lw'.expired \subseteq rows
  PROVE  InStep' /\ (ObjectsRecorded => ObjectsRecorded')
  <1>1. OffsitedSet' = OffsitedSet /\ RowsKeyed' /\ ObjectsPlaced'
    BY DEF OffsitedSet, InStep, RowsKeyed, ObjectsPlaced, ObjectOf
  <1>2. UploadsUnrecorded' /\ (ObjectsRecorded => ObjectsRecorded')
    BY <1>1 DEF InStep, UploadsUnrecorded, ObjectsRecorded, ObjectOf
  <1>3. PrunesRecorded' /\ RecordsBacked'
    BY <1>1 DEF InStep, PrunesRecorded, RecordsBacked, ObjectOf
  <1> QED BY <1>1, <1>2, <1>3 DEF InStep

LEMMA InStepQuietPass ==
  ASSUME Typed, InStep,
         \/ PassStart \/ PassList \/ PassReadOffsited \/ PassListObjects
         \/ PassDeleteAbsent \/ PassPlanHot \/ PassDeleteHot \/ PassEnd
         \/ PassFails \/ PassSkipsHot
  PROVE  InStep' /\ (ObjectsRecorded => ObjectsRecorded')
  <1>0. lw \in PassStates /\ lw.expired \subseteq rows
    BY DEF Typed, LocallyTyped, TypeOK, InStep, PrunesRecorded
  <1> USE <1>0 DEF PassStates
  <1>1. UNCHANGED <<cfg, rows, cold, up>>
    BY DEF PassStart, PassList, PassReadOffsited, PassListObjects, PassDeleteAbsent,
           PassPlanHot, PassDeleteHot, PassEnd, PassFails, PassSkipsHot
  <1>2. CASE PassStart \/ PassDeleteAbsent \/ PassEnd \/ PassFails
    <2>1. lw.pc # "unrecord"
      BY <1>2 DEF PassStart, PassDeleteAbsent, PassEnd, PassFails
    <2>2. lw'.pc # "unrecord" /\ lw'.expired = {}
      <3>1. CASE PassStart
        BY <3>1 DEF PassStart, IdlePass
      <3>2. CASE PassDeleteAbsent \/ PassEnd \/ PassFails
        BY <3>2 DEF PassDeleteAbsent, PassEnd, PassFails, IdlePass
      <3> QED BY <1>2, <3>1, <3>2
    <2> QED BY <1>1, <2>1, <2>2, InStepUnseen
  <1>3. CASE PassListObjects
    <2>1. lw.pc # "unrecord" /\ lw'.pc # "unrecord"
      BY <1>3 DEF PassListObjects
    <2>2. CASE rows = {}
      BY <1>1, <1>3, <2>1, <2>2, InStepUnseen DEF PassListObjects
    <2>3. ASSUME NEW newest \in rows, lw'.expired = ExpiredRows(lw.cfg, newest)
          PROVE  lw'.expired \subseteq rows
      BY <2>3 DEF ExpiredRows
    <2>4. rows = {} \/ \E newest \in rows : lw'.expired = ExpiredRows(lw.cfg, newest)
      BY <1>3 DEF PassListObjects
    <2> QED BY <1>1, <2>1, <2>2, <2>3, <2>4, InStepUnseen
  <1>4. CASE PassList
    BY <1>1, <1>4, InStepUnseen DEF PassList
  <1>5. CASE PassReadOffsited
    BY <1>1, <1>5, InStepUnseen DEF PassReadOffsited
  <1>6. CASE PassPlanHot
    <2>1. lw.pc # "unrecord" /\ lw'.pc # "unrecord" /\ lw'.expired = lw.expired
      BY <1>6 DEF PassPlanHot
    <2> QED BY <1>1, <2>1, InStepUnseen
  <1>7. CASE PassDeleteHot \/ PassSkipsHot
    <2>1. lw.pc # "unrecord" /\ lw'.pc # "unrecord" /\ lw'.expired = lw.expired
      BY <1>7 DEF PassDeleteHot, PassSkipsHot
    <2> QED BY <1>1, <2>1, InStepUnseen
  <1> QED BY <1>2, <1>3, <1>4, <1>5, <1>6, <1>7

\* The object goes before its row: the row is the doomed one meanwhile.
LEMMA InStepDeleteObject ==
  ASSUME Typed, InStep, PassDeleteObject
  PROVE  InStep' /\ (ObjectsRecorded => ObjectsRecorded')
  <1>1. PICK x \in lw.expired :
          /\ cold' = cold \ {ObjectOf(cfg, x.snap)}
          /\ lw' = [lw EXCEPT !.pc = "unrecord", !.doomed = x.snap,
                              !.expired = lw.expired \ {x}]
    BY DEF PassDeleteObject, Typed, SameSettings
  <1>2. UNCHANGED <<cfg, rows, up>> /\ lw.pc = "cold" /\ OffsitedSet' = OffsitedSet
    BY DEF PassDeleteObject, OffsitedSet
  <1>3. x \in rows /\ x.snap \in OffsitedSet
    BY DEF InStep, PrunesRecorded, OffsitedSet
  <1>4. lw'.pc = "unrecord" /\ lw'.doomed = x.snap /\ lw'.expired = lw.expired \ {x}
    BY <1>1 DEF Typed, LocallyTyped, TypeOK, PassStates
  <1>5. \A s : s # x.snap /\ ObjectOf(cfg, s) \in cold => ObjectOf(cfg, s) \in cold'
    BY <1>1 DEF ObjectOf
  <1>6. RowsKeyed' /\ ObjectsPlaced'
    BY <1>1, <1>2 DEF InStep, RowsKeyed, ObjectsPlaced, ObjectOf
  <1>7. UploadsUnrecorded'
    BY <1>2, <1>3, <1>5 DEF InStep, UploadsUnrecorded, ObjectOf
  <1>8. PrunesRecorded'
    <2>1. \A y \in lw'.expired : y.snap # x.snap
      BY <1>3, <1>4 DEF InStep, PrunesRecorded, RowsKeyed
    <2> QED
      BY <1>1, <1>2, <1>3, <1>4, <2>1 DEF InStep, PrunesRecorded, ObjectOf
  <1>9. RecordsBacked'
    BY <1>2, <1>4, <1>5 DEF InStep, RecordsBacked, ObjectOf
  <1>10. ObjectsRecorded => ObjectsRecorded'
    BY <1>1, <1>2 DEF ObjectsRecorded
  <1> QED BY <1>6, <1>7, <1>8, <1>9, <1>10 DEF InStep

LEMMA InStepDeleteRow ==
  ASSUME Typed, InStep, PassDeleteRow
  PROVE  InStep' /\ (ObjectsRecorded => ObjectsRecorded')
  <1>1. /\ UNCHANGED <<cfg, cold, up>> /\ lw.pc = "unrecord"
        /\ rows' = {x \in rows : x.snap # lw.doomed}
    BY DEF PassDeleteRow, RowsWithout, Typed, SameSettings, InStep, RowsKeyed
  <1>2. lw'.pc = "cold" /\ lw'.expired = lw.expired
    BY DEF PassDeleteRow, Typed, LocallyTyped, TypeOK, PassStates
  <1>3. OffsitedSet' = OffsitedSet \ {lw.doomed}
    BY <1>1 DEF OffsitedSet
  <1>4. RowsKeyed' /\ ObjectsPlaced'
    BY <1>1 DEF InStep, RowsKeyed, ObjectsPlaced, ObjectOf
  <1>5. UploadsUnrecorded'
    BY <1>1, <1>3 DEF InStep, UploadsUnrecorded, ObjectOf
  <1>6. PrunesRecorded'
    BY <1>1, <1>2 DEF InStep, PrunesRecorded
  <1>7. RecordsBacked'
    BY <1>1, <1>2 DEF InStep, RecordsBacked, ObjectOf
  <1>8. ASSUME ObjectsRecorded, NEW o \in cold'
        PROVE  (\/ o.snap \in OffsitedSet
                \/ \E u \in Uploader : up[u].pc = "record" /\ up[u].snap = o.snap)'
    <2>1. o.snap # lw.doomed
      BY <1>1, <1>8 DEF InStep, ObjectsPlaced, PrunesRecorded
    <2> QED BY <1>1, <1>3, <1>8, <2>1 DEF ObjectsRecorded
  <1> QED BY <1>4, <1>5, <1>6, <1>7, <1>8 DEF InStep, ObjectsRecorded

\* A step of the uploader that neither uploads nor records.
LEMMA InStepQuietUpload ==
  ASSUME Typed, InStep, NEW u \in Uploader,
         \/ UploadStart(u) \/ UploadList(u) \/ UploadReadOffsited(u)
         \/ UploadSkipsDuplicate(u) \/ UploadPrepare(u) \/ UploadSourceGone(u)
         \/ UploadStatFails(u) \/ UploadEnd(u) \/ UploadFails(u)
  PROVE  InStep' /\ (Mode = "rsync" /\ ObjectsRecorded => ObjectsRecorded')
  <1>0. up \in [Uploader -> UploadStates] /\ up[u] \in UploadStates
    BY DEF Typed, LocallyTyped, TypeOK
  <1>1. UNCHANGED <<cfg, rows, cold, lw>> /\ OffsitedSet' = OffsitedSet
    BY DEF UploadStart, UploadList, UploadReadOffsited, UploadSkipsDuplicate,
           UploadPrepare, UploadSourceGone, UploadStatFails, UploadEnd, UploadFails,
           OffsitedSet
  <1>2. PICK state : up' = [up EXCEPT ![u] = state]
    BY DEF UploadStart, UploadList, UploadReadOffsited, UploadSkipsDuplicate,
           UploadPrepare, UploadSourceGone, UploadStatFails, UploadEnd, UploadFails, Goto
  <1>3. /\ up'[u] = state
        /\ \A v \in Uploader : v # u => up'[v] = up[v]
    BY <1>0, <1>2
  <1>4. /\ state.pc \in {"next", "upload"} => state.todo \cap OffsitedSet = {}
        /\ state.pc = "upload" => state.snap \notin OffsitedSet \cup state.todo
        /\ state.pc # "record"
        /\ Mode = "rsync" => up[u].pc # "record"
    <2> USE <1>0, <1>3 DEF UploadStates, Goto, UploadNext, InStep, UploadsUnrecorded
    <2>1. CASE \/ UploadSourceGone(u) \/ UploadStatFails(u) \/ UploadEnd(u)
               \/ UploadFails(u)
      BY <2>1
      DEF UploadSourceGone, UploadStatFails, UploadEnd, UploadFails, IdleUpload,
          SourceReadable
    <2>2. CASE UploadStart(u)
      BY <2>2 DEF UploadStart, IdleUpload
    <2>3. CASE UploadList(u)
      BY <2>3 DEF UploadList
    <2>4. CASE UploadReadOffsited(u)
      <3>1. up'[u] = [up[u] EXCEPT !.pc = "next", !.todo = up[u].todo \ OffsitedSet]
        BY <2>4 DEF UploadReadOffsited
      <3> QED BY <2>4, <3>1 DEF UploadReadOffsited
    <2>5. CASE UploadSkipsDuplicate(u)
      BY <2>5 DEF UploadSkipsDuplicate
    <2>6. CASE UploadPrepare(u)
      <3>1. PICK s \in hot :
              /\ UploadNext(u, s)
              /\ up'[u] = [up[u] EXCEPT !.pc = "upload", !.snap = s,
                                        !.todo = up[u].todo \ {s}]
        BY <2>6 DEF UploadPrepare
      <3>2. s \in up[u].todo /\ up[u].pc = "next"
        BY <3>1 DEF NewestIn
      <3> QED BY <3>1, <3>2
    <2> QED BY <2>1, <2>2, <2>3, <2>4, <2>5, <2>6
  <1>5. RowsKeyed' /\ ObjectsPlaced' /\ PrunesRecorded' /\ RecordsBacked'
    BY <1>1
    DEF InStep, RowsKeyed, ObjectsPlaced, PrunesRecorded, RecordsBacked, ObjectOf
  <1>6. UploadsUnrecorded'
    <2> SUFFICES ASSUME NEW v \in Uploader
                 PROVE  (/\ up[v].pc \in {"next", "upload", "record"} =>
                              up[v].todo \cap OffsitedSet = {}
                         /\ up[v].pc \in {"upload", "record"} =>
                              up[v].snap \notin OffsitedSet \cup up[v].todo
                         /\ up[v].pc = "record" => ObjectOf(cfg, up[v].snap) \in cold)'
      BY DEF UploadsUnrecorded
    <2>1. CASE v = u
      BY <1>1, <1>3, <1>4, <2>1
    <2>2. CASE v # u
      BY <1>1, <1>3, <2>2 DEF InStep, UploadsUnrecorded, ObjectOf
    <2> QED BY <2>1, <2>2
  <1>7. Mode = "rsync" /\ ObjectsRecorded => ObjectsRecorded'
    BY <1>1, <1>3, <1>4 DEF ObjectsRecorded
  <1> QED BY <1>5, <1>6, <1>7 DEF InStep

LEMMA InStepUploadObject ==
  ASSUME Typed, InStep, Adhoc = {}, NEW u \in Uploader, UploadObject(u)
  PROVE  InStep' /\ (ObjectsRecorded => ObjectsRecorded')
  <1>0. Uploader = {u}
    BY DEF Uploader
  <1>1. /\ UNCHANGED <<cfg, rows, lw>> /\ OffsitedSet' = OffsitedSet
        /\ up[u].pc = "upload" /\ up[u].cfg = cfg
        /\ cold' = cold \cup {ObjectOf(cfg, up[u].snap)}
    BY DEF UploadObject, OffsitedSet, Typed, SameSettings
  <1>2. /\ up'[u].pc = "record" /\ up'[u].snap = up[u].snap
        /\ up'[u].todo = up[u].todo
    BY DEF UploadObject, Goto, Typed, LocallyTyped, TypeOK, UploadStates
  <1>3. up[u].snap \notin OffsitedSet
    BY <1>1 DEF InStep, UploadsUnrecorded
  <1>4. RowsKeyed' /\ ObjectsPlaced' /\ RecordsBacked'
    BY <1>1 DEF InStep, RowsKeyed, ObjectsPlaced, RecordsBacked, ObjectOf
  <1>5. UploadsUnrecorded'
    BY <1>0, <1>1, <1>2 DEF InStep, UploadsUnrecorded, ObjectOf
  <1>6. PrunesRecorded'
    BY <1>1, <1>3 DEF InStep, PrunesRecorded, ObjectOf
  <1>7. ObjectsRecorded => ObjectsRecorded'
    BY <1>0, <1>1, <1>2 DEF ObjectsRecorded, ObjectOf
  <1> QED BY <1>4, <1>5, <1>6, <1>7 DEF InStep

LEMMA RecordIsStep ==
  ASSUME NEW u \in Uploader, UploadRecord(u)
  PROVE  [Next]_vars
  BY DEF Next, Progress, UploadStep

LEMMA InStepUploadRecord ==
  ASSUME Typed, InStep, Adhoc = {}, NEW u \in Uploader, UploadRecord(u)
  PROVE  InStep' /\ (ObjectsRecorded => ObjectsRecorded')
  <1> DEFINE s == up[u].snap
             new == [remote |-> cfg.remote, snap |-> s, at |-> now]
  <1>0. Uploader = {u}
    BY DEF Uploader
  <1>1. UNCHANGED <<cfg, cold, lw>> /\ up[u].pc = "record" /\ up[u].cfg = cfg
    BY DEF UploadRecord, Typed, SameSettings
  <1>2. s \notin OffsitedSet \cup up[u].todo /\ ObjectOf(cfg, s) \in cold
    BY <1>1 DEF InStep, UploadsUnrecorded
  <1>3. rows' = rows \cup {new}
    BY <1>1, <1>2 DEF UploadRecord, RowsWith, OffsitedSet
  <1>4. OffsitedSet' = OffsitedSet \cup {s}
    <2>1. new.snap = s
      OBVIOUS
    <2> HIDE DEF new
    <2> QED BY <1>3, <2>1 DEF OffsitedSet
  <1>5. up'[u].pc = "next" /\ up'[u].todo = up[u].todo
    BY DEF UploadRecord, Goto, Typed, LocallyTyped, TypeOK, UploadStates
  <1>6. RowsKeyed'
    BY RowsKeyedKept, RecordIsStep DEF InStep
  <1>7. ObjectsPlaced'
    BY <1>1 DEF InStep, ObjectsPlaced, ObjectOf
  <1>8. UploadsUnrecorded'
    <2>1. up[u].todo \cap OffsitedSet = {}
      BY <1>1 DEF InStep, UploadsUnrecorded
    <2> QED BY <1>0, <1>2, <1>4, <1>5, <2>1 DEF UploadsUnrecorded
  <1>9. PrunesRecorded'
    BY <1>1, <1>3, <1>4 DEF InStep, PrunesRecorded, ObjectOf
  <1>10. RecordsBacked'
    <2>1. new.snap = s
      OBVIOUS
    <2> HIDE DEF new
    <2> QED BY <1>1, <1>2, <1>3, <2>1 DEF InStep, RecordsBacked, ObjectOf
  <1>11. ObjectsRecorded => ObjectsRecorded'
    BY <1>0, <1>1, <1>4 DEF ObjectsRecorded
  <1> QED BY <1>6, <1>7, <1>8, <1>9, <1>10, <1>11 DEF InStep

LEMMA InStepNext ==
  ASSUME Typed, InStep, Adhoc = {}, [Progress \/ CleanFailure]_vars
  PROVE  InStep' /\ (Mode = "rsync" /\ ObjectsRecorded => ObjectsRecorded')
  <1>1. CASE Tick \/ TakeSnapshot \/ UNCHANGED vars
    BY <1>1, InStepUnseen DEF Tick, TakeSnapshot, vars
  <1>2. CASE PassStep \/ PassFails \/ PassSkipsHot
    BY <1>2, InStepQuietPass, InStepDeleteObject, InStepDeleteRow DEF PassStep
  <1>3. ASSUME NEW u \in Uploader, UploadStep(u) \/ UploadFails(u)
        PROVE  InStep' /\ (Mode = "rsync" /\ ObjectsRecorded => ObjectsRecorded')
    BY <1>3, InStepQuietUpload, InStepUploadObject, InStepUploadRecord DEF UploadStep
  <1> QED BY <1>1, <1>2, <1>3 DEF Progress, CleanFailure

\* With one uploader and no half-done effects every record has its object,
\* except the one the pruner is deleting.
THEOREM NoRecordWithoutObject ==
  ASSUME Adhoc = {}
  PROVE  CleanSpec => []RecordsBacked
  <1>1. InStep => RecordsBacked
    BY DEF InStep
  <1>2. Typed /\ InStep /\ [Progress \/ CleanFailure]_vars => Typed' /\ InStep'
    BY TypedNext, InStepNext DEF Next
  <1> QED BY <1>1, <1>2, TypedInit, InStepInit, PTL DEF CleanSpec

\* When the archives sent are not those the pruner removes, every object has
\* its record as well, except the one being recorded.
THEOREM NoObjectWithoutRecord ==
  ASSUME Adhoc = {}, Mode = "rsync"
  PROVE  CleanSpec => []ObjectsRecorded
  <1> DEFINE Inv == Typed /\ InStep /\ ObjectsRecorded
  <1>1. Init => Inv
    BY TypedInit, InStepInit
  <1>2. Inv /\ [Progress \/ CleanFailure]_vars => Inv'
    BY TypedNext, InStepNext DEF Next
  <1> QED BY <1>1, <1>2, PTL DEF CleanSpec

-----------------------------------------------------------------------------
(* OffsiteTiering implements TieredStore.  The promise carries the         *)
(* argument: what a pass has read justifies the abstract step at the       *)
(* moment it deletes.                                                      *)

\* What the owner of the snapshots sees.
Seen == <<now, cfg, taken, hot, cold>>

\* Two snapshots have two objects.
LEMMA ObjectsApart ==
  ASSUME NEW s, NEW t, ObjectOf(cfg, s) = ObjectOf(cfg, t)
  PROVE  s = t
  BY DEF ObjectOf

LEMMA OwedTypes ==
  ASSUME Typed
  PROVE  /\ Owed \in [offsite: BOOLEAN, hotDays: Nat, coldDays: Nat]
         /\ \A s : HotExpired(cfg, s) <=> Owed.hotDays > 0 /\ s + Owed.hotDays < now
         /\ \A s : ColdExpired(cfg, s) <=> Owed.coldDays > 0 /\ s + Owed.coldDays < now
         /\ Owed.offsite = OffsiteOn(cfg)
  <1>1. cfg.retention \in Nat /\ cfg.offsiteRetention \in Nat
    BY SettingsTypes DEF Typed, LocallyTyped, TypeOK
  <1>2. OffsiteOn(cfg) \in BOOLEAN
    BY DEF OffsiteOn
  <1>3. CASE PrunesOffsite(cfg)
    <2>1. /\ Owed.offsite = OffsiteOn(cfg) /\ Owed.hotDays = cfg.retention
          /\ Owed.coldDays = cfg.offsiteRetention
      BY <1>3 DEF Owed
    <2>2. cfg.offsiteRetention > 0
      BY <1>3 DEF PrunesOffsite
    <2>3. Owed \in [offsite: BOOLEAN, hotDays: Nat, coldDays: Nat]
      BY <1>1, <1>2, <1>3 DEF Owed
    <2> QED BY <1>3, <2>1, <2>2, <2>3 DEF HotExpired, ColdExpired
  <1>4. CASE ~PrunesOffsite(cfg)
    <2>1. /\ Owed.offsite = OffsiteOn(cfg) /\ Owed.hotDays = cfg.retention
          /\ Owed.coldDays = 0
      BY <1>4 DEF Owed
    <2>2. Owed \in [offsite: BOOLEAN, hotDays: Nat, coldDays: Nat]
      BY <1>1, <1>2, <1>4 DEF Owed
    <2> QED BY <1>4, <2>1, <2>2 DEF HotExpired, ColdExpired
  <1> QED BY <1>3, <1>4

LEMMA InitImplements == Init /\ Typed => Store!Init
  BY OwedTypes DEF Init, Store!Init, Store!Policy, InCold

-----------------------------------------------------------------------------
(* One lemma for each step that changes what is seen.                      *)

LEMMA StutterImplements == UNCHANGED Seen => UNCHANGED Store!storeVars
  BY DEF Seen, Store!storeVars, Owed, InCold, OffsiteOn, PrunesOffsite, ObjectOf

LEMMA TickImplements == Tick => Store!Age
  BY DEF Tick, Store!Age, Owed, InCold, OffsiteOn, PrunesOffsite, ObjectOf

LEMMA TakeImplements == TakeSnapshot => Store!Take
  BY DEF TakeSnapshot, Store!Take, Owed, InCold, OffsiteOn, PrunesOffsite, ObjectOf

\* The pass read the snapshot's row before it deleted objects; that the object
\* is there or past its horizon is what PassPromise carries from one to the
\* other.
LEMMA DeleteHotImplements ==
  ASSUME Typed, PassPromise, PassDeleteHot
  PROVE  UNCHANGED Store!storeVars \/ \E s \in hot : Store!DropHot(s)
  <1>1. PICK s \in lw.victims : hot' = hot \ {s}
    BY DEF PassDeleteHot
  <1>2. UNCHANGED <<now, cfg, taken, cold>>
    BY DEF PassDeleteHot
  <1>3. CASE s \notin hot
    <2>1. hot' = hot
      BY <1>1, <1>3
    <2> QED BY <1>2, <2>1, StutterImplements DEF Seen
  <1>4. CASE s \in hot
    <2>1. HotExpired(cfg, s) /\ ColdSafe(s) /\ (\E t \in taken : t > s)
      BY <1>1 DEF PassPromise, Superseded
    <2>2. s \in Snapshot
      BY <1>4 DEF Typed, LocallyTyped, TypeOK
    <2>3. Store!PastHot(s)
      BY <2>1, OwedTypes DEF Store!PastHot
    <2>4. Owed.offsite => s \in InCold \/ Store!PastCold(s)
      BY <2>1, <2>2, OwedTypes DEF ColdSafe, InCold, Store!PastCold
    <2>5. Owed' = Owed /\ InCold' = InCold
      BY <1>2 DEF Owed, InCold, OffsiteOn, PrunesOffsite, ObjectOf
    <2> QED
      BY <1>1, <1>2, <1>4, <2>1, <2>3, <2>4, <2>5 DEF Store!DropHot
  <1> QED BY <1>3, <1>4

LEMMA DeleteObjectImplements ==
  ASSUME Typed, PassPromise, PassDeleteObject
  PROVE  \E s \in InCold : Store!DropCold(s)
  <1>1. lw.cfg = cfg /\ OffsiteOn(cfg)
    BY DEF PassDeleteObject, Typed, LocallyTyped, LocalSettings, SameSettings
  <1>2. PICK x \in lw.expired :
          /\ ObjectOf(cfg, x.snap) \in cold
          /\ cold' = cold \ {ObjectOf(cfg, x.snap)}
    BY <1>1 DEF PassDeleteObject
  <1>3. UNCHANGED <<now, cfg, taken, hot>>
    BY DEF PassDeleteObject
  <1>4. x \in Row /\ x.snap \in Snapshot
    BY DEF Typed, LocallyTyped, TypeOK, PassStates, Row
  <1>5. ColdExpired(cfg, x.snap)
    BY <1>4, OlderExpiresSooner, ConstantsOK
    DEF Assumptions, PassPromise, Row, Snapshot
  <1>6. Store!PastCold(x.snap)
    BY <1>5, OwedTypes DEF Store!PastCold
  <1>7. InCold' = InCold \ {x.snap}
    BY <1>2, <1>3, ObjectsApart DEF InCold, ObjectOf
  <1>8. Owed' = Owed /\ x.snap \in InCold /\ Owed.offsite
    BY <1>1, <1>2, <1>3, <1>4, OwedTypes DEF Owed, InCold, OffsiteOn, PrunesOffsite
  <1> QED BY <1>3, <1>6, <1>7, <1>8 DEF Store!DropCold

LEMMA UploadImplements ==
  ASSUME Typed, UploadPromise, NEW u \in Uploader, UploadObject(u)
  PROVE  \E s \in taken : Store!Archive(s)
  <1> DEFINE s == up[u].snap
  <1>1. s \in taken /\ s \in Snapshot /\ up[u].cfg = cfg /\ OffsiteOn(cfg)
    BY DEF UploadObject, UploadPromise, Typed, LocallyTyped, TypeOK,
           LocalSettings, SameSettings
  <1>2. cold' = cold \cup {ObjectOf(cfg, s)} /\ UNCHANGED <<now, cfg, taken, hot>>
    BY <1>1 DEF UploadObject
  <1>3. InCold' = InCold \cup {s}
    BY <1>1, <1>2, ObjectsApart DEF InCold, ObjectOf
  <1>4. Owed' = Owed /\ Owed.offsite
    BY <1>1, <1>2, OwedTypes DEF Owed, OffsiteOn, PrunesOffsite
  <1> QED BY <1>1, <1>2, <1>3, <1>4 DEF Store!Archive

-----------------------------------------------------------------------------

\* Every other step is invisible.
LEMMA StepSeen ==
  ASSUME Typed, [Next]_vars
  PROVE  \/ UNCHANGED Seen \/ Tick \/ TakeSnapshot
         \/ PassDeleteHot \/ PassDeleteObject
         \/ \E u \in Uploader : UploadObject(u)
  <1>1. CASE Tick \/ TakeSnapshot
    BY <1>1
  <1>2. CASE Crash \/ UNCHANGED vars
    BY <1>2 DEF Crash, vars, Seen
  <1>3. CASE PassStep \/ PassFails \/ PassSkipsHot \/ PassTorn
    BY <1>3
    DEF PassStep, PassStart, PassList, PassReadOffsited, PassListObjects,
        PassDeleteAbsent, PassDeleteRow, PassPlanHot, PassEnd, PassFails,
        PassSkipsHot, PassTorn, Seen
  <1>4. ASSUME NEW u \in Uploader, UploadStep(u) \/ UploadFails(u) \/ UploadTorn(u)
        PROVE  UNCHANGED Seen \/ UploadObject(u)
    BY <1>4
    DEF UploadStep, UploadStart, UploadList, UploadReadOffsited,
        UploadSkipsDuplicate, UploadPrepare, UploadSourceGone,
        UploadStatFails, UploadRecord, UploadEnd, UploadFails, UploadTorn, Seen
  <1> QED
    BY <1>1, <1>2, <1>3, <1>4 DEF Next, Progress, CleanFailure, TornFailure

LEMMA StepImplements ==
  Typed /\ Promise /\ [Next]_vars => [Store!Next]_(Store!storeVars)
  <1> SUFFICES ASSUME Typed, Promise, [Next]_vars
               PROVE  Store!Next \/ UNCHANGED Store!storeVars
    OBVIOUS
  <1>1. PassPromise /\ UploadPromise
    BY DEF Promise
  <1>2. CASE UNCHANGED Seen
    BY <1>2, StutterImplements
  <1>3. CASE Tick \/ TakeSnapshot
    BY <1>3, TickImplements, TakeImplements DEF Store!Next
  <1>4. CASE PassDeleteHot
    BY <1>1, <1>4, DeleteHotImplements DEF Store!Next
  <1>5. CASE PassDeleteObject
    BY <1>1, <1>5, DeleteObjectImplements DEF Store!Next
  <1>6. CASE \E u \in Uploader : UploadObject(u)
    BY <1>1, <1>6, UploadImplements DEF Store!Next
  <1> QED BY <1>2, <1>3, <1>4, <1>5, <1>6, StepSeen

\* The workers, with everything that can go wrong between and in them, do to
\* the two stores only what the two horizons allow.
THEOREM Implements == Spec => ImplementsTieredStore
  <1>1. Init => Store!Init
    BY InitImplements, TypedInit
  <1> QED
    BY <1>1, StepImplements, TypedInit, TypedNext, PromiseInit, PromiseKept, PTL
    DEF Spec, ImplementsTieredStore, Store!Spec
=============================================================================
