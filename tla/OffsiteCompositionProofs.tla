----------------------- MODULE OffsiteCompositionProofs -----------------------
(***************************************************************************)
(* What holds of the tiering next to the verification of offsite objects   *)
(* (OffsiteVerification) and next to the operator's pages (OffsiteAdmin).  *)
(* Both add state and steps to OffsiteTiering, so the lemmas of            *)
(* OffsiteTieringProofs about one step of the tiering carry over; what is  *)
(* new is a provider that loses objects, and settings that change under a  *)
(* pass.                                                                   *)
(***************************************************************************)
EXTENDS OffsiteVerification, OffsiteAdmin, OffsiteTieringProofs

-----------------------------------------------------------------------------
(* Verification: every step is one of the tiering that takes the notes     *)
(* along, one of the verification alone, or a loss at the provider.        *)

TieringWithNotes ==
    /\ [Next]_vars
    /\ fresh' \subseteq fresh \cap Keys(rows')
    /\ missing' = missing \cap Keys(rows')
    /\ lost' = lost
    /\ verify' = verify \/ PassEndVerify \/ CrashVerify
    /\ lw' \in {lw, IdlePass} \/ lw.pc # "idle" \/ verify.pc = "idle"

Verifying == VerifyStep \/ VerifyFails \/ VerifySkips

\* A failure leaves the rows and the settings as they are.
LEMMA FailuresKeepRows ==
  ASSUME \/ CleanFailure \/ PassTorn \/ Crash
         \/ \E u \in Uploader : UploadTorn(u)
  PROVE  rows' = rows /\ (lw' \in {lw, IdlePass} \/ lw.pc # "idle") /\ Next
  <1>1. CASE PassFails \/ PassSkipsHot \/ PassTorn \/ Crash
    BY <1>1
    DEF PassFails, PassSkipsHot, PassTorn, Crash, Next, CleanFailure, TornFailure
  <1>2. CASE \E u \in Uploader : UploadFails(u) \/ UploadTorn(u)
    BY <1>2 DEF UploadFails, UploadTorn, Next, CleanFailure, TornFailure
  <1> QED BY <1>1, <1>2 DEF CleanFailure

LEMMA BooksCases ==
  ASSUME BooksTypeOK, [Working \/ Fault]_bookVars
  PROVE  /\ faults' = faults
         /\ TieringWithNotes \/ Verifying \/ \E o \in cold : ProviderLoses(o)
  <1> USE DEF BooksTypeOK
  <1>1. CASE PassStepOrVerify
    <2>1. CASE PassEndVerify
      <3>1. rows' = rows /\ [Next]_vars /\ lw.pc # "idle"
        BY <2>1 DEF PassEndVerify, PassEnd, Next, Progress, PassStep
      <3> QED BY <2>1, <3>1 DEF PassEndVerify, TieringWithNotes, Keys
    <2>2. CASE verify.pc = "idle" /\ PassStep /\ NotesFollowRows(fresh) /\ UNCHANGED verify
      BY <2>2 DEF TieringWithNotes, NotesFollowRows, Next, Progress
    <2> QED BY <1>1, <2>1, <2>2 DEF PassStepOrVerify
  <1>2. CASE DayPasses \/ HourPasses \/ UNCHANGED bookVars
    <2>1. /\ rows' = rows /\ [Next]_vars /\ lw' = lw
          /\ fresh' \in {fresh, {}} /\ UNCHANGED <<faults, missing, verify, lost>>
      BY <1>2 DEF DayPasses, HourPasses, Tick, Next, Progress, bookVars, verifyVars, vars
    <2> QED BY <2>1 DEF TieringWithNotes, Keys
  <1>3. CASE OtherStep
    <2>1. [Next]_vars /\ lw' = lw
      BY <1>3
      DEF OtherStep, Next, Progress, TakeSnapshot, UploadStep, UploadStart, UploadList,
          UploadReadOffsited, UploadSkipsDuplicate, UploadPrepare, UploadObject,
          UploadSourceGone, UploadStatFails, UploadRecord, UploadEnd
    <2> QED BY <1>3, <2>1 DEF OtherStep, NotesFollowRows, TieringWithNotes
  <1>4. CASE TieringFails
    BY <1>4, FailuresKeepRows DEF TieringFails, verifyVars, TieringWithNotes, Keys
  <1>5. CASE CrashVerify
    BY <1>5, FailuresKeepRows DEF CrashVerify, TieringWithNotes, Keys
  <1>6. CASE Verifying
    BY <1>6
    DEF Verifying, VerifyStep, VerifyList, VerifyLsf, VerifyMark, VerifyEnd,
        VerifyFails, VerifySkips
  <1>7. CASE \E o \in cold : ProviderLoses(o)
    BY <1>7 DEF ProviderLoses
  <1> QED
    BY <1>1, <1>2, <1>3, <1>4, <1>5, <1>6, <1>7 DEF Working, Fault, Verifying

LEMMA VerifyingKeepsTiering == Verifying => UNCHANGED vars
  BY DEF Verifying, VerifyStep, VerifyList, VerifyLsf, VerifyMark, VerifyEnd,
         VerifyFails, VerifySkips

LEMMA LossIsTyped ==
  ASSUME Typed, NEW o \in cold, ProviderLoses(o)
  PROVE  Typed'
  BY DEF ProviderLoses, Typed, LocallyTyped, TypeOK, LocalSettings, SameSettings

-----------------------------------------------------------------------------
(* Type correctness.                                                       *)

BooksTyped == Typed /\ BooksTypeOK

VerifyStates ==
    [pc: {"idle", "list", "lsf", "mark"}, cfg: Config \cup {NoConfig},
     objs: SUBSET Keyed, files: SUBSET Snapshot]

LEMMA BooksTypedInit == BooksInit => BooksTyped
  BY TypedInit
  DEF BooksInit, BooksTyped, BooksTypeOK, Typed, LocallyTyped, IdleVerify

LEMMA KeysTypes ==
  ASSUME Typed
  PROVE  Keys(rows) \subseteq Keyed
  BY DEF Typed, LocallyTyped, TypeOK, Keys, Key, Keyed, Row

LEMMA BooksTypedNext == BooksTyped /\ [Working \/ Fault]_bookVars => BooksTyped'
  <1> SUFFICES ASSUME BooksTyped, [Working \/ Fault]_bookVars PROVE BooksTyped'
    OBVIOUS
  <1> USE DEF BooksTyped
  <1>1. faults' \in Faults
    BY BooksCases DEF BooksTypeOK
  <1>2. Typed'
    BY BooksCases, VerifyingKeepsTiering, TypedNext, LossIsTyped DEF TieringWithNotes
  <1>3. TypeOK'
    BY <1>2 DEF Typed, LocallyTyped
  <1>4. CASE TieringWithNotes
    <2>1. verify' \in VerifyStates
      <3>1. CASE PassEndVerify
        <4>1. lw.cfg \in Config \cup {NoConfig} /\ verify \in VerifyStates
          BY DEF BooksTypeOK, TypeOK, PassStates, VerifyStates
        <4>2. [IdleVerify EXCEPT !.pc = "list", !.cfg = lw.cfg] \in VerifyStates
          BY <4>1 DEF VerifyStates, IdleVerify
        <4> QED BY <3>1, <4>1, <4>2 DEF PassEndVerify
      <3>2. CASE verify' = verify \/ CrashVerify
        BY <3>2 DEF CrashVerify, IdleVerify, BooksTypeOK, VerifyStates
      <3> QED BY <1>4, <3>1, <3>2 DEF TieringWithNotes
    <2>2. missing' \subseteq Keys(rows') /\ fresh' \subseteq Keys(rows')
      BY <1>4 DEF TieringWithNotes
    <2>3. lost' \subseteq Object
      BY <1>4 DEF TieringWithNotes, BooksTypeOK
    <2> QED BY <1>1, <1>2, <1>3, <2>1, <2>2, <2>3 DEF BooksTypeOK, VerifyStates
  <1>5. CASE Verifying
    <2>1. UNCHANGED vars /\ rows' = rows /\ Keys(rows') = Keys(rows)
      BY <1>5, VerifyingKeepsTiering DEF vars, Keys
    <2>2. missing' \subseteq Keys(rows') /\ fresh' \subseteq Keys(rows')
      BY <1>5, <2>1
      DEF Verifying, VerifyStep, VerifyList, VerifyLsf, VerifyMark, VerifyEnd,
          VerifyFails, VerifySkips, Noted, BooksTypeOK
    <2>3. verify' \in VerifyStates
      <3> USE DEF VerifyStates
      <3>1. verify \in VerifyStates /\ IdleVerify \in VerifyStates
        BY DEF BooksTypeOK, IdleVerify
      <3>2. CASE VerifyList
        BY <3>1, <3>2, KeysTypes DEF VerifyList
      <3>3. CASE VerifyLsf
        BY <3>1, <3>3 DEF VerifyLsf
      <3>4. CASE VerifyMark \/ VerifySkips
        BY <3>1, <3>4 DEF VerifyMark, VerifySkips
      <3>5. CASE VerifyEnd \/ VerifyFails
        BY <3>1, <3>5 DEF VerifyEnd, VerifyFails
      <3> QED BY <1>5, <3>2, <3>3, <3>4, <3>5 DEF Verifying, VerifyStep
    <2>4. lost' \subseteq Object
      BY <1>5
      DEF Verifying, VerifyStep, VerifyList, VerifyLsf, VerifyMark, VerifyEnd,
          VerifyFails, VerifySkips, BooksTypeOK
    <2> QED BY <1>1, <1>2, <1>3, <2>2, <2>3, <2>4 DEF BooksTypeOK, VerifyStates
  <1>6. CASE \E o \in cold : ProviderLoses(o)
    BY <1>1, <1>2, <1>3, <1>6 DEF ProviderLoses, BooksTypeOK, TypeOK, Keys
  <1> QED BY <1>2, <1>4, <1>5, <1>6, BooksCases

\* Rows, notes, verification and losses keep values of their types; the notes
\* are on rows that exist.
THEOREM BooksTypeCorrect == BooksSpec => []BooksTypeOK
  <1>1. BooksTyped => BooksTypeOK
    BY DEF BooksTyped
  <1> QED BY <1>1, BooksTypedInit, BooksTypedNext, PTL DEF BooksSpec

-----------------------------------------------------------------------------
(* What the tiering promises, kept next to the verification.               *)

LEMMA NoLossNoStep ==
  ASSUME BooksTypeOK, [Working \/ Fault]_bookVars, "loss" \notin faults
  PROVE  [Next]_vars
  BY BooksCases, VerifyingKeepsTiering DEF TieringWithNotes, ProviderLoses

KeptInv == "loss" \notin faults => Promise

\* Without a loss at the provider the horizons hold with the verification
\* running, whatever fails in the workers and however the process crashes.
THEOREM KeptWithVerification == BooksSpec => []KeptUnlessLost
  <1>1. BooksInit => KeptInv
    BY PromiseInit DEF BooksInit, KeptInv
  <1>2. BooksTyped /\ KeptInv /\ [Working \/ Fault]_bookVars => KeptInv'
    BY BooksCases, NoLossNoStep, PromiseKept DEF BooksTyped, KeptInv
  <1>3. KeptInv => KeptUnlessLost
    BY DEF KeptInv, KeptUnlessLost, Promise, HotPromise, ColdSafe, KeptWithinHorizons
  <1> QED BY <1>1, <1>2, <1>3, BooksTypedInit, BooksTypedNext, PTL DEF BooksSpec

\* As long as the provider loses nothing, the tiering with its verification is
\* the tiering, and does to the two stores what the abstract store allows.
THEOREM VerificationImplements ==
  BooksSpec /\ []("loss" \notin faults) => Spec /\ ImplementsTieredStore
  <1>1. BooksInit => Init
    BY DEF BooksInit
  <1>2. BooksTyped /\ "loss" \notin faults /\ [Working \/ Fault]_bookVars => [Next]_vars
    BY NoLossNoStep DEF BooksTyped
  <1>3. BooksSpec /\ []("loss" \notin faults) => Spec
    BY <1>1, <1>2, BooksTypedInit, BooksTypedNext, PTL DEF BooksSpec, Spec
  <1> QED BY <1>3, Implements, PTL

\* A client that has an offsite record keeps having one, whatever the provider
\* loses and whatever is noted on it.
THEOREM RecordsRemainVerified == BooksSpec => OffsiteNeverEmptied
  <1>1. ASSUME BooksTyped, RowsInv, [Working \/ Fault]_bookVars
        PROVE  RowsInv' /\ (rows # {} => rows' # {})
    <2>1. CASE TieringWithNotes
      BY <1>1, <2>1, RowsInvKept, RowsStay DEF TieringWithNotes, BooksTyped
    <2>2. CASE UNCHANGED <<rows, lw, cfg>>
      BY <1>1, <2>2 DEF RowsInv, RowsKeyed, RowSpared, Spared, OffsitedSet
    <2> QED
      BY <1>1, <2>1, <2>2, BooksCases, VerifyingKeepsTiering
      DEF BooksTyped, ProviderLoses, vars
  <1>2. BooksTyped /\ RowsInv /\ [Working \/ Fault]_bookVars
            => RowsInv' /\ [rows # {} => rows' # {}]_vars
    BY <1>1
  <1>3. BooksInit => RowsInv
    BY RowsInvInit DEF BooksInit
  <1> QED
    BY <1>2, <1>3, BooksTypedInit, BooksTypedNext, PTL
    DEF BooksSpec, OffsiteNeverEmptied

StepsInv == faults \subseteq {"clean"} => InStep /\ ObjectsRecorded

LEMMA CleanStep ==
  ASSUME [Working \/ Fault]_bookVars, faults \subseteq {"clean"}
  PROVE  [Progress \/ CleanFailure]_vars
  <1>1. CASE Working
    <2>1. PassStepOrVerify => Progress
      BY DEF PassStepOrVerify, PassEndVerify, PassStep, Progress
    <2>2. DayPasses \/ OtherStep => Progress
      BY DEF DayPasses, OtherStep, Progress
    <2>3. VerifyStep \/ HourPasses => UNCHANGED vars
      BY DEF VerifyStep, VerifyList, VerifyLsf, VerifyMark, VerifyEnd, HourPasses
    <2> QED BY <1>1, <2>1, <2>2, <2>3 DEF Working
  <1>2. CASE Fault
    <2>1. VerifyFails \/ VerifySkips => UNCHANGED vars
      BY DEF VerifyFails, VerifySkips
    <2>2. TieringFails => CleanFailure
      BY DEF TieringFails
    <2>3. ~CrashVerify /\ \A o \in cold : ~ProviderLoses(o)
      BY DEF CrashVerify, ProviderLoses
    <2> QED BY <1>2, <2>1, <2>2, <2>3 DEF Fault
  <1>3. CASE UNCHANGED bookVars
    BY <1>3 DEF bookVars
  <1> QED BY <1>1, <1>2, <1>3

\* Verification changes nothing about rows and objects staying in step, under
\* the conditions of NoObjectWithoutRecord.
THEOREM BooksInStep ==
  ASSUME Adhoc = {}, Mode = "rsync"
  PROVE  BooksSpec => []InStepWithoutTears
  <1>1. BooksInit => StepsInv
    BY InStepInit DEF BooksInit, StepsInv
  <1>2. BooksTyped /\ StepsInv /\ [Working \/ Fault]_bookVars => StepsInv'
    <2> SUFFICES ASSUME BooksTyped, StepsInv, [Working \/ Fault]_bookVars,
                        faults \subseteq {"clean"}
                 PROVE  InStep' /\ ObjectsRecorded'
      BY BooksCases DEF BooksTyped, StepsInv
    <2> QED BY CleanStep, InStepNext DEF BooksTyped, StepsInv
  <1>3. StepsInv => InStepWithoutTears
    BY DEF StepsInv, InStepWithoutTears, InStep
  <1> QED BY <1>1, <1>2, <1>3, BooksTypedInit, BooksTypedNext, PTL DEF BooksSpec

-----------------------------------------------------------------------------
(* The notes.  Only a verification makes a note, only the pruner and the   *)
(* provider remove objects, and the pruner waits while the verification    *)
(* runs; an object that leaves takes its row along, or is known to be      *)
(* lost.  A fault set with both a loss and a note that is not written is   *)
(* left out: the row of a lost object then keeps its last note for longer  *)
(* than the verification that should have replaced it.                     *)

\* The verification follows the pass of the same goroutine.
Quiet == verify.pc # "idle" => lw.pc = "idle" /\ verify.cfg = cfg

Listing ==
    /\ verify.pc = "lsf" => fresh \subseteq verify.objs
    /\ verify.pc = "mark" =>
        \A s \in verify.files : ObjectOf(cfg, s) \in cold \cup lost
    /\ "loss" \notin faults => lost = {}

\* A row with key k and a fresh note is right about its object.
Right(k) ==
    \/ ObjectOf(cfg, k.snap) \in cold \cup lost
    \/ /\ "loss" \in faults /\ verify.pc = "mark" /\ k \in verify.objs
       /\ k.snap \notin verify.files
    \/ lw.pc = "unrecord" /\ lw.doomed = k.snap

NotesRight == "torn" \notin faults => \A k \in (fresh \ missing) \cap Keys(rows) : Right(k)

BooksInv == RowsKeyed /\ Quiet /\ Listing /\ NotesRight

LEMMA BooksInvInit == BooksInit => BooksInv
  BY DEF BooksInit, Init, BooksInv, RowsKeyed, Quiet, Listing, NotesRight, IdleVerify

LEMMA SameKeys ==
  ASSUME RowsKeyed, NEW k \in Keys(rows)
  PROVE  k.remote = cfg.remote /\ k = [remote |-> cfg.remote, snap |-> k.snap]
  BY DEF RowsKeyed, Keys, Key

\* A step of the tiering leaves the listing of the verification true.
LEMMA ListingNext ==
  ASSUME BooksTyped, BooksInv, TieringWithNotes, faults' = faults
  PROVE  Quiet' /\ Listing'
  <1>1. cfg' = cfg
    BY Monotone DEF BooksTyped, Typed, TieringWithNotes
  <1>2. CASE PassEndVerify
    <2>1. lw' = IdlePass /\ lw.cfg = cfg /\ lw.pc = "hot"
      BY <1>2 DEF PassEndVerify, PassEnd, BooksTyped, Typed, SameSettings
    <2>2. verify.pc = "idle"
      BY <2>1 DEF BooksInv, Quiet
    <2>3. verify' = verify \/ (verify'.pc = "list" /\ verify'.cfg = cfg)
      BY <1>2, <2>1 DEF PassEndVerify, IdleVerify
    <2> QED
      BY <1>1, <2>1, <2>2, <2>3
      DEF Quiet, Listing, BooksInv, TieringWithNotes, IdlePass
  <1>3. CASE CrashVerify
    BY <1>3 DEF CrashVerify, IdleVerify, Quiet, Listing, BooksInv
  <1>4. CASE verify' = verify
    <2>1. verify.pc # "idle" => lw'.pc = "idle" /\ verify.cfg = cfg
      BY <1>4 DEF TieringWithNotes, BooksInv, Quiet, IdlePass
    <2>2. verify.pc # "idle" => cold \subseteq cold'
      BY ObjectMoves DEF PassDeleteObject, TieringWithNotes, BooksInv, Quiet
    <2> QED
      BY <1>1, <1>4, <2>1, <2>2
      DEF Quiet, Listing, BooksInv, TieringWithNotes, ObjectOf
  <1> QED BY <1>2, <1>3, <1>4 DEF TieringWithNotes

\* Without half-done effects the row of a deleted object is the next thing the
\* pass deletes.
LEMMA UnrecordEnds ==
  ASSUME BooksInv, [Working \/ Fault]_bookVars, "torn" \notin faults,
         lw.pc = "unrecord"
  PROVE  lw' = lw \/ PassDeleteRow
  <1>1. CASE Working
    <2>1. PassStepOrVerify => PassDeleteRow
      BY DEF PassStepOrVerify, PassEndVerify, PassEnd, PassStep, PassStart, PassList,
             PassReadOffsited, PassListObjects, PassDeleteObject, PassDeleteAbsent,
             PassPlanHot, PassDeleteHot
    <2>2. DayPasses \/ HourPasses \/ VerifyStep => lw' = lw
      BY DEF DayPasses, HourPasses, Tick, VerifyStep, VerifyList, VerifyLsf, VerifyMark,
             VerifyEnd, vars
    <2>3. OtherStep => lw' = lw
      BY DEF OtherStep, TakeSnapshot, UploadStep, UploadStart, UploadList,
             UploadReadOffsited, UploadSkipsDuplicate, UploadPrepare, UploadObject,
             UploadSourceGone, UploadStatFails, UploadRecord, UploadEnd
    <2> QED BY <1>1, <2>1, <2>2, <2>3 DEF Working
  <1>2. CASE Fault
    <2>1. VerifyFails \/ VerifySkips \/ (\E o \in cold : ProviderLoses(o)) => lw' = lw
      BY DEF VerifyFails, VerifySkips, ProviderLoses, vars
    <2>2. TieringFails => lw' = lw
      BY DEF TieringFails, CleanFailure, PassFails, PassSkipsHot, UploadFails
    <2> QED BY <1>2, <2>1, <2>2 DEF Fault, CrashVerify
  <1>3. CASE UNCHANGED bookVars
    BY <1>3 DEF bookVars, vars
  <1> QED BY <1>1, <1>2, <1>3

\* An object that a step of the tiering removes is that of the doomed row, and
\* the doomed row goes before the pass goes on.
LEMMA NotesNextTiering ==
  ASSUME BooksTyped, BooksInv, TieringWithNotes, [Working \/ Fault]_bookVars,
         faults' = faults
  PROVE  NotesRight'
  <1> SUFFICES ASSUME "torn" \notin faults,
                      NEW k \in (fresh' \ missing') \cap Keys(rows')
               PROVE  Right(k)'
    BY DEF NotesRight
  <1>1. cfg' = cfg /\ lost' = lost
    BY Monotone DEF BooksTyped, Typed, TieringWithNotes
  <1>2. k \in fresh /\ k \notin missing /\ k \in Keys(rows)
    BY DEF TieringWithNotes, BooksTyped, BooksTypeOK
  <1>3. Right(k)
    BY <1>2 DEF BooksInv, NotesRight
  <1>4. CASE ObjectOf(cfg, k.snap) \in cold \cup lost
    <2>1. CASE ObjectOf(cfg, k.snap) \in cold' \cup lost
      BY <1>1, <2>1 DEF Right, ObjectOf
    <2>2. CASE ObjectOf(cfg, k.snap) \in cold /\ ObjectOf(cfg, k.snap) \notin cold'
      <3>1. PassDeleteObject
        BY <2>2, ObjectMoves DEF TieringWithNotes
      <3>2. PICK x \in lw.expired :
              /\ cold' = cold \ {ObjectOf(lw.cfg, x.snap)}
              /\ lw' = [lw EXCEPT !.pc = "unrecord", !.doomed = x.snap,
                                  !.expired = lw.expired \ {x}]
        BY <3>1 DEF PassDeleteObject
      <3>3. x.snap = k.snap
        BY <2>2, <3>2 DEF ObjectOf
      <3>4. lw'.pc = "unrecord" /\ lw'.doomed = k.snap
        BY <3>2, <3>3 DEF BooksTyped, BooksTypeOK, TypeOK, PassStates
      <3> QED BY <3>4 DEF Right
    <2> QED BY <1>4, <2>1, <2>2
  <1>5. CASE /\ "loss" \in faults /\ verify.pc = "mark" /\ k \in verify.objs
             /\ k.snap \notin verify.files
    <2>1. verify' = verify
      BY <1>5 DEF TieringWithNotes, PassEndVerify, PassEnd, CrashVerify, BooksInv, Quiet
    <2> QED BY <1>5, <2>1 DEF Right
  <1>6. CASE lw.pc = "unrecord" /\ lw.doomed = k.snap
    <2>1. lw' = lw \/ PassDeleteRow
      BY <1>6, UnrecordEnds
    <2>2. ~PassDeleteRow
      <3>1. ASSUME PassDeleteRow
            PROVE  FALSE
        <4>1. rows' = RowsWithout(cfg, k.snap)
          BY <1>6, <3>1 DEF PassDeleteRow, BooksTyped, Typed, SameSettings
        <4>2. k.remote = cfg.remote
          BY <1>2, SameKeys DEF BooksInv
        <4> QED BY <4>1, <4>2 DEF RowsWithout, Keys, Key
      <3> QED BY <3>1
    <2> QED BY <1>6, <2>1, <2>2 DEF Right
  <1> QED BY <1>3, <1>4, <1>5, <1>6 DEF Right

\* The verification marks what it did not find, and finds what is there.
LEMMA NotesNextVerifying ==
  ASSUME BooksTyped, BooksInv, Verifying, faults' = faults,
         ~({"clean", "loss"} \subseteq faults)
  PROVE  Quiet' /\ Listing' /\ NotesRight'
  <1>1. UNCHANGED vars /\ Keys(rows') = Keys(rows)
    BY VerifyingKeepsTiering DEF vars, Keys
  <1>2. UNCHANGED <<now, cfg, rows, cold, lw>>
    BY <1>1 DEF vars
  <1>3. verify \in VerifyStates
    BY DEF BooksTyped, BooksTypeOK, VerifyStates
  <1> USE <1>2, <1>3 DEF VerifyStates
  <1>4. CASE VerifyList
    <2>1. verify' = IdleVerify
          \/ (verify'.pc = "lsf" /\ verify'.objs = Keys(rows) /\ verify'.cfg = verify.cfg)
      BY <1>4 DEF VerifyList
    <2>2. UNCHANGED <<fresh, missing, lost>> /\ verify.pc = "list"
      BY <1>4 DEF VerifyList
    <2>3. fresh \subseteq Keys(rows)
      BY DEF BooksTyped, BooksTypeOK
    <2>4. Quiet' /\ Listing'
      BY <2>1, <2>2, <2>3 DEF BooksInv, Quiet, Listing, IdleVerify
    <2>5. NotesRight'
      BY <1>1, <2>2 DEF BooksInv, NotesRight, Right, ObjectOf
    <2> QED BY <2>4, <2>5
  <1>5. CASE VerifyLsf
    <2>1. /\ verify'.pc = "mark" /\ verify'.objs = verify.objs
          /\ verify'.cfg = verify.cfg /\ verify.cfg = cfg /\ lw.pc = "idle"
          /\ verify'.files = {s \in Snapshot : ObjectOf(cfg, s) \in cold}
      BY <1>5 DEF VerifyLsf, BooksInv, Quiet
    <2>2. lost' = {} /\ UNCHANGED <<fresh, missing>> /\ verify.pc = "lsf"
      BY <1>5 DEF VerifyLsf
    <2>3. Quiet' /\ Listing'
      BY <2>1, <2>2 DEF Quiet, Listing, ObjectOf
    <2>4. ASSUME "torn" \notin faults, NEW k \in (fresh \ missing) \cap Keys(rows)
          PROVE  Right(k)'
      <3>1. CASE ObjectOf(cfg, k.snap) \in cold
        BY <3>1 DEF Right, ObjectOf
      <3>2. CASE ObjectOf(cfg, k.snap) \notin cold
        <4>1. k.snap \notin verify'.files /\ k \in verify'.objs
          BY <2>1, <2>2, <2>4, <3>2 DEF BooksInv, Listing
        <4>2. "loss" \in faults
          BY <2>1, <2>2, <2>4, <3>2 DEF BooksInv, NotesRight, Right, Listing
        <4> QED BY <2>1, <4>1, <4>2 DEF Right
      <3> QED BY <3>1, <3>2
    <2> QED BY <1>1, <2>2, <2>3, <2>4 DEF NotesRight
  <1>6. CASE VerifyMark
    <2>1. PICK x \in verify.objs :
            /\ missing' = Noted(x, missing, x.snap \notin verify.files)
            /\ fresh' = Noted(x, fresh, TRUE)
            /\ verify' = [verify EXCEPT !.objs = verify.objs \ {x}]
      BY <1>6 DEF VerifyMark
    <2>2. /\ verify'.pc = "mark" /\ verify'.objs = verify.objs \ {x}
          /\ verify'.cfg = verify.cfg /\ verify'.files = verify.files
          /\ verify.pc = "mark" /\ lost' = lost
      BY <1>6, <2>1 DEF VerifyMark
    <2>3. Quiet' /\ Listing'
      BY <2>2 DEF BooksInv, Quiet, Listing, ObjectOf
    <2>4. ASSUME "torn" \notin faults, NEW k \in (fresh' \ missing') \cap Keys(rows)
          PROVE  Right(k)'
      <3>1. CASE k = x
        <4>1. x.snap \in verify.files
          BY <2>1, <2>4, <3>1 DEF Noted
        <4> QED BY <2>2, <3>1, <4>1 DEF BooksInv, Listing, Right, ObjectOf
      <3>2. CASE k # x
        <4>1. k \in (fresh \ missing) \cap Keys(rows)
          BY <2>1, <2>4, <3>2 DEF Noted
        <4>2. Right(k)
          BY <2>4, <4>1 DEF BooksInv, NotesRight
        <4> QED BY <2>2, <3>2, <4>2 DEF Right, ObjectOf
      <3> QED BY <3>1, <3>2
    <2> QED BY <1>1, <2>3, <2>4 DEF NotesRight
  <1>7. CASE VerifyEnd \/ VerifyFails \/ VerifySkips
    <2>1. UNCHANGED <<fresh, missing, lost>>
      BY <1>7 DEF VerifyEnd, VerifyFails, VerifySkips
    <2>2. \/ verify' = IdleVerify
          \/ /\ "clean" \in faults /\ verify.pc = "mark" /\ verify'.pc = "mark"
             /\ verify'.cfg = verify.cfg /\ verify'.files = verify.files
      BY <1>7 DEF VerifyEnd, VerifyFails, VerifySkips
    <2>3. Quiet' /\ Listing'
      BY <2>1, <2>2 DEF BooksInv, Quiet, Listing, IdleVerify, ObjectOf
    <2>4. "loss" \in faults => verify.pc # "mark" \/ verify.objs = {}
      BY <1>7 DEF VerifyEnd, VerifyFails, VerifySkips
    <2>5. NotesRight'
      BY <1>1, <2>1, <2>4 DEF BooksInv, NotesRight, Right, ObjectOf
    <2> QED BY <2>3, <2>5
  <1> QED BY <1>4, <1>5, <1>6, <1>7 DEF Verifying, VerifyStep

\* What the provider loses counts as lost until it is listed again.
LEMMA NotesNextLoss ==
  ASSUME BooksTyped, BooksInv, NEW o \in cold, ProviderLoses(o)
  PROVE  BooksInv'
  <1>1. /\ UNCHANGED <<cfg, rows, lw, faults, missing, fresh, verify>>
        /\ cold' \cup lost' = cold \cup lost /\ "loss" \in faults
    BY DEF ProviderLoses
  <1>2. Keys(rows') = Keys(rows)
    BY <1>1 DEF Keys
  <1>3. RowsKeyed' /\ Quiet' /\ Listing'
    BY <1>1 DEF BooksInv, RowsKeyed, Quiet, Listing, ObjectOf
  <1>4. NotesRight'
    BY <1>1, <1>2 DEF BooksInv, NotesRight, Right, ObjectOf
  <1> QED BY <1>3, <1>4 DEF BooksInv

\* A fresh note that does not say "missing" is right: the object is there, or
\* the provider lost it since, or its row is about to be marked or deleted.
THEOREM VouchedFor ==
  ASSUME \A f \in Faults : ~({"clean", "loss"} \subseteq f)
  PROVE  BooksSpec => []VouchedForIsThere
  <1>1. BooksTyped /\ BooksInv /\ [Working \/ Fault]_bookVars => BooksInv'
    <2> SUFFICES ASSUME BooksTyped, BooksInv, [Working \/ Fault]_bookVars
                 PROVE  BooksInv'
      OBVIOUS
    <2>1. faults' = faults /\ BooksTypeOK /\ Typed /\ ~({"clean", "loss"} \subseteq faults)
      BY BooksCases DEF BooksTyped, BooksTypeOK
    <2>2. CASE TieringWithNotes
      <3>1. RowsKeyed'
        BY <2>1, <2>2, RowsKeyedKept DEF TieringWithNotes, BooksInv
      <3> QED BY <2>1, <2>2, <3>1, ListingNext, NotesNextTiering DEF BooksInv
    <2>3. CASE Verifying
      <3>1. RowsKeyed'
        BY <2>3, VerifyingKeepsTiering DEF vars, RowsKeyed, BooksInv
      <3> QED BY <2>1, <2>3, <3>1, NotesNextVerifying DEF BooksInv
    <2>4. CASE \E o \in cold : ProviderLoses(o)
      BY <2>4, NotesNextLoss
    <2> QED BY <2>1, <2>2, <2>3, <2>4, BooksCases
  <1>2. BooksTyped /\ BooksInv => VouchedForIsThere
    <2> SUFFICES ASSUME BooksInv, "torn" \notin faults, NEW x \in rows,
                        Key(x) \in fresh \ missing
                 PROVE  Right(Key(x))
      BY DEF VouchedForIsThere, Right, Key
    <2> QED BY DEF BooksInv, NotesRight, Keys
  <1> QED BY <1>1, <1>2, BooksTypedInit, BooksTypedNext, BooksInvInit, PTL DEF BooksSpec

-----------------------------------------------------------------------------
(* The operator's pages.  A goroutine may work on settings the client no   *)
(* longer has, so the promise of OffsiteTieringProofs is about settings    *)
(* the client has had: an uploader and a pass carry theirs along, and a    *)
(* snapshot is owed an object on whatever remote, until the offsite        *)
(* horizon of some settings has passed or the operator deleted a copy.     *)

Owes(s) == HasObject(s) \/ s \in byHand \/ \E d \in eras : ColdExpired(d, s)

GoneFor(c, s) == HotExpired(c, s) /\ (OffsiteOn(c) => Owes(s))

InEras ==
    /\ lw.pc # "idle" => lw.cfg \in eras
    /\ \A u \in Uploader : up[u].pc # "idle" => up[u].cfg \in eras
    /\ op.pc # "idle" => op.cfg \in eras /\ op.snap \in byHand

RowsOwed ==
    \A x \in rows :
        /\ x.snap <= x.at /\ x.at <= now
        /\ x.snap \in taken /\ Owes(x.snap)

PassOwed ==
    /\ lw.snaps \subseteq taken
    /\ \A s \in lw.offsited : Owes(s)
    /\ \A x \in lw.expired :
        lw.cfg \in eras /\ x.snap <= x.at /\ ColdExpired(lw.cfg, x.at)
    /\ \A s \in lw.victims : lw.cfg \in eras /\ GoneFor(lw.cfg, s)

UploadsOwed ==
    \A u \in Uploader :
        /\ up[u].todo \subseteq taken
        /\ up[u].pc \in {"upload", "record"} => up[u].snap \in taken
        /\ up[u].pc = "record" => Owes(up[u].snap)

HotOwed == \A s \in taken \ hot : s \in byHand \/ \E c \in eras : GoneFor(c, s)

AdminTyped == LocallyTyped /\ AdminTypeOK /\ InEras

AdminPromise ==
    taken \subseteq 1..now /\ RowsOwed /\ PassOwed /\ UploadsOwed /\ HotOwed

AdminInv == AdminTyped /\ AdminPromise

LEMMA AdminInvInit == AdminInit => AdminInv
  <1> SUFFICES ASSUME AdminInit PROVE AdminInv
    OBVIOUS
  <1>1. Typed
    BY TypedInit DEF AdminInit
  <1>2. AdminTyped
    BY <1>1
    DEF AdminInit, Init, Typed, LocallyTyped, TypeOK, AdminTyped, AdminTypeOK, InEras,
        IdleOp, IdlePass, IdleUpload
  <1>3. AdminPromise
    BY DEF AdminInit, Init, AdminPromise, RowsOwed, PassOwed, UploadsOwed, HotOwed,
           IdlePass, IdleUpload
  <1> QED BY <1>2, <1>3 DEF AdminInv

\* A page removes copies and rows, every copy by the operator's hand, and
\* leaves the goroutines alone.
OnPage ==
    /\ UNCHANGED <<now, taken, lw, up>>
    /\ rows' \subseteq rows
    /\ hot' \subseteq hot /\ hot \ hot' \subseteq byHand'
    /\ cold' \subseteq cold /\ \A o \in cold \ cold' : o.snap \in byHand'
    /\ eras \subseteq eras' /\ byHand \subseteq byHand'

LEMMA MixedPages ==
  ASSUME NEW c \in Config, cfg \in Config
  PROVE  WithRetention(c) \in Config /\ WithOffsite(c) \in Config
  BY PagesAssumption DEF WithRetention, WithOffsite

OpStates ==
    [pc: {"idle", "delete", "unrecord"}, cfg: Config \cup {NoConfig},
     snap: Snapshot \cup {NoSnapshot}, bulk: BOOLEAN]

LEMMA PagesMove ==
  ASSUME AdminInv, AdminStep
  PROVE  OnPage /\ AdminTyped'
  <1>0. /\ LocallyTyped /\ cfg \in Config /\ cfg \in eras /\ eras \subseteq Config
        /\ hot \subseteq taken /\ byHand \subseteq taken /\ taken \subseteq Snapshot
        /\ OffsitedSet \subseteq taken /\ InEras
        /\ op \in OpStates
    BY DEF OpStates, AdminInv, AdminTyped, AdminTypeOK, TypeOK, AdminPromise, RowsOwed, OffsitedSet
  <1>1. ASSUME OnPage, cfg' \in eras', eras' \subseteq Config, byHand' \subseteq taken,
               op' \in OpStates,
               op'.pc # "idle" => op'.cfg \in eras' /\ op'.snap \in byHand'
        PROVE  AdminTyped'
    BY <1>0, <1>1
    DEF OpStates, OnPage, AdminTyped, AdminTypeOK, LocallyTyped, LocalSettings, TypeOK, InEras
  <1> USE <1>0 DEF OnPage, OpStates
  <1>2. CASE UpdateRetention \/ UpdateOffsite
    <2>1. PICK new \in Config : ChangeSettings(new)
      BY <1>2, MixedPages DEF UpdateRetention, UpdateOffsite
    <2> QED BY <1>1, <2>1 DEF ChangeSettings, InEras
  <1>3. CASE BulkDeleteSnapshots
    BY <1>1, <1>3 DEF BulkDeleteSnapshots, PostSnapshotDelete, InEras
  <1>4. ASSUME NEW s \in Snapshot, NEW bulk \in BOOLEAN, PostObjectDelete(s, bulk)
        PROVE  OnPage /\ AdminTyped'
    BY <1>1, <1>4 DEF PostObjectDelete, vars
  <1>5. CASE ObjectDelete
    <2>1. /\ UNCHANGED <<now, cfg, taken, hot, rows, lw, up, eras, byHand>>
          /\ op' = [op EXCEPT !.pc = "unrecord"] /\ op.pc = "delete"
          /\ cold' = cold \ {ObjectOf(op.cfg, op.snap)}
      BY <1>5 DEF ObjectDelete
    <2>2. op'.pc = "unrecord" /\ op'.cfg = op.cfg /\ op'.snap = op.snap
      BY <2>1
    <2>3. OnPage
      BY <2>1 DEF ObjectOf, InEras
    <2> QED BY <1>1, <2>1, <2>2, <2>3 DEF InEras
  <1>6. CASE ObjectDeleteFails \/ ObjectStaysRecorded
    <2>1. /\ UNCHANGED <<now, cfg, taken, hot, rows, cold, lw, up, eras, byHand>>
          /\ op' = IdleOp \/ (op.pc = "delete" /\ op' = [op EXCEPT !.pc = "unrecord"])
      BY <1>6 DEF ObjectDeleteFails, ObjectStaysRecorded, vars
    <2>2. OnPage
      BY <2>1
    <2>3. op'.pc # "idle" => op'.cfg \in eras' /\ op'.snap \in byHand'
      BY <2>1 DEF IdleOp, InEras
    <2>4. op' \in OpStates
      <3>1. IdleOp \in OpStates
        BY DEF IdleOp, OpStates
      <3>2. [op EXCEPT !.pc = "unrecord"] \in OpStates
        BY DEF OpStates
      <3> QED BY <2>1, <3>1, <3>2
    <2> QED BY <1>1, <2>1, <2>2, <2>3, <2>4
  <1>7. CASE ObjectUnrecord
    BY <1>1, <1>7 DEF ObjectUnrecord, RowsWithout, IdleOp
  <1>8. ASSUME NEW s \in Snapshot, PostForget(s)
        PROVE  OnPage /\ AdminTyped'
    BY <1>1, <1>8 DEF PostForget, RowsWithout, InEras
  <1> QED
    BY <1>2, <1>3, <1>4, <1>5, <1>6, <1>7, <1>8 DEF AdminStep, OpStep

\* What only grows.
LEMMA AdminMoves ==
  ASSUME AdminInv, [AdminNext]_allVars
  PROVE  /\ OnPage \/ ([Next]_vars /\ UNCHANGED adminVars)
         /\ AdminTyped'
         /\ now \in Nat /\ now' \in Nat /\ now <= now'
         /\ taken \subseteq taken' /\ eras \subseteq eras' /\ byHand \subseteq byHand'
  <1>0. now \in Nat /\ LocallyTyped
    BY ConstantsOK DEF Assumptions, AdminInv, AdminTyped, LocallyTyped, TypeOK
  <1>1. CASE AdminStep
    BY <1>0, <1>1, PagesMove DEF OnPage
  <1>2. CASE TieringStep \/ UNCHANGED allVars
    <2>1. [Next]_vars /\ UNCHANGED adminVars
      BY <1>2 DEF TieringStep, Next, allVars
    <2>2. /\ cfg' = cfg /\ now' \in Nat /\ now <= now' /\ taken \subseteq taken'
          /\ LocallyTyped' /\ PassMoves
          /\ UNCHANGED <<op, eras, byHand, forgets>>
      BY <1>0, <2>1, Monotone, LocallyTypedNext, PassAlwaysMoves DEF adminVars
    <2>3. \A u \in Uploader : UploadMoves(u)
      BY <1>0, <2>1, UploadAlwaysMoves
    <2>4. InEras'
      BY <2>2, <2>3
      DEF AdminInv, AdminTyped, AdminTypeOK, InEras, PassMoves, UploadMoves
    <2>5. AdminTypeOK'
      BY <2>2 DEF LocallyTyped, AdminInv, AdminTyped, AdminTypeOK
    <2> QED BY <1>0, <2>1, <2>2, <2>4, <2>5 DEF AdminTyped
  <1> QED BY <1>1, <1>2 DEF AdminNext

LEMMA EraAges ==
  ASSUME NEW c \in Config, NEW s \in Nat,
         now \in Nat, now' \in Nat, now <= now'
  PROVE  /\ HotExpired(c, s) => HotExpired(c, s)'
         /\ ColdExpired(c, s) => ColdExpired(c, s)'
  BY SettingsTypes DEF HotExpired, ColdExpired, PrunesOffsite

\* A copy leaves the remotes by hand, or past the offsite horizon of settings
\* the client has had.
LEMMA OwedIsForGood ==
  ASSUME AdminInv, [AdminNext]_allVars, NEW s \in Snapshot, Owes(s)
  PROVE  Owes(s)'
  <1>0. s \in Nat /\ eras \subseteq Config /\ eras \subseteq eras' /\ byHand \subseteq byHand'
    BY AdminMoves, ConstantsOK
    DEF Assumptions, Snapshot, AdminInv, AdminTyped, AdminTypeOK
  <1>1. ASSUME NEW d \in eras, ColdExpired(d, s)
        PROVE  Owes(s)'
    BY <1>0, <1>1, AdminMoves, EraAges DEF Owes
  <1>2. ASSUME NEW o \in cold, o.snap = s, o \notin cold'
        PROVE  Owes(s)'
    <2>1. CASE OnPage
      BY <1>2, <2>1 DEF OnPage, Owes
    <2>2. CASE [Next]_vars
      <3>1. PICK x \in lw.expired : o = ObjectOf(lw.cfg, x.snap)
        BY <1>2, <2>2, ObjectMoves
      <3>2. x.snap = s
        BY <1>2, <3>1 DEF ObjectOf
      <3>3. lw.cfg \in eras /\ s <= x.at /\ ColdExpired(lw.cfg, x.at)
        BY <3>1, <3>2 DEF AdminInv, AdminPromise, PassOwed
      <3>4. x.at \in Nat /\ lw.cfg.offsiteRetention \in Nat /\ now \in Nat
        BY <1>0, <3>1, <3>3, SettingsTypes, ConstantsOK
        DEF Assumptions, AdminInv, AdminTyped, LocallyTyped, TypeOK, PassStates, Row
      <3>5. ColdExpired(lw.cfg, s)
        BY <1>0, <3>3, <3>4 DEF ColdExpired
      <3> QED BY <1>1, <3>3, <3>5
    <2> QED BY <2>1, <2>2, AdminMoves
  <1> QED BY <1>0, <1>1, <1>2 DEF Owes, HasObject

LEMMA GoneIsForGood ==
  ASSUME AdminInv, [AdminNext]_allVars, NEW s \in Snapshot, NEW c \in eras,
         GoneFor(c, s)
  PROVE  GoneFor(c, s)'
  <1>1. s \in Nat /\ c \in Config
    BY ConstantsOK DEF Assumptions, Snapshot, AdminInv, AdminTyped, AdminTypeOK
  <1>2. HotExpired(c, s)'
    BY <1>1, AdminMoves, EraAges DEF GoneFor
  <1>3. OffsiteOn(c) => Owes(s)'
    BY OwedIsForGood DEF GoneFor
  <1> QED BY <1>2, <1>3 DEF GoneFor

LEMMA RowsOwedKept ==
  ASSUME AdminInv, [AdminNext]_allVars
  PROVE  RowsOwed'
  <1> SUFFICES ASSUME NEW x \in rows'
               PROVE  /\ x.snap <= x.at /\ x.at <= now'
                      /\ x.snap \in taken' /\ Owes(x.snap)'
    BY DEF RowsOwed
  <1>1. CASE x \in rows
    <2>1. /\ x.snap \in Snapshot /\ x.at \in Nat /\ x.snap <= x.at /\ x.at <= now
          /\ x.snap \in taken /\ Owes(x.snap)
      BY <1>1, ConstantsOK
      DEF Assumptions, AdminInv, AdminTyped, LocallyTyped, TypeOK, Row, AdminPromise, RowsOwed
    <2> QED BY <2>1, OwedIsForGood, AdminMoves
  <1>2. CASE x \notin rows
    <2>1. [Next]_vars
      BY <1>2, AdminMoves DEF OnPage
    <2>2. PICK u \in Uploader :
            /\ up[u].pc = "record"
            /\ x = [remote |-> up[u].cfg.remote, snap |-> up[u].snap, at |-> now]
      BY <1>2, <2>1, RowMoves
    <2>3. x.snap \in taken /\ Owes(x.snap) /\ x.snap \in Snapshot /\ x.snap \in 1..now
      BY <2>2
      DEF AdminInv, AdminTyped, LocallyTyped, TypeOK, AdminPromise, UploadsOwed
    <2> QED BY <2>2, <2>3, OwedIsForGood, AdminMoves
  <1> QED BY <1>1, <1>2

LEMMA PassOwedKept ==
  ASSUME AdminInv, [AdminNext]_allVars
  PROVE  PassOwed'
  <1>0. /\ LocallyTyped /\ lw \in PassStates /\ rows \subseteq Row /\ hot \subseteq taken
        /\ Snapshot \subseteq Nat /\ eras \subseteq Config
    BY ConstantsOK
    DEF Assumptions, Snapshot, AdminInv, AdminTyped, AdminTypeOK, LocallyTyped, TypeOK
  <1>1. /\ lw'.snaps \subseteq lw.snaps \cup hot
        /\ lw'.offsited \subseteq lw.offsited \cup OffsitedSet
        /\ \A x \in lw'.expired :
            /\ lw'.cfg = lw.cfg
            /\ \/ x \in lw.expired
               \/ lw.pc # "idle" /\ x \in rows /\ ColdExpired(lw.cfg, x.at)
        /\ \A s \in lw'.victims :
            /\ lw'.cfg = lw.cfg
            /\ s \in lw.victims \/ (lw.pc # "idle" /\ s \in HotVictims(lw))
    <2>1. CASE OnPage
      BY <2>1 DEF OnPage
    <2>2. CASE [Next]_vars
      BY <1>0, <2>2, PassAlwaysMoves DEF PassMoves
    <2> QED BY <2>1, <2>2, AdminMoves
  <1>2. (lw.snaps \subseteq taken)'
    BY <1>0, <1>1, AdminMoves DEF AdminInv, AdminPromise, PassOwed
  <1>3. ASSUME NEW s \in lw'.offsited
        PROVE  Owes(s)'
    <2>1. CASE s \in lw.offsited
      BY <1>0, <2>1, OwedIsForGood DEF PassStates, AdminInv, AdminPromise, PassOwed
    <2>2. CASE s \in OffsitedSet
      BY <1>0, <2>2, OwedIsForGood DEF OffsitedSet, Row, AdminInv, AdminPromise, RowsOwed
    <2> QED BY <1>1, <2>1, <2>2
  <1>4. ASSUME NEW x \in lw'.expired
        PROVE  lw'.cfg \in eras' /\ x.snap <= x.at /\ ColdExpired(lw.cfg, x.at)'
    <2>1. x.at \in Nat
      BY <1>0, <1>1, ConstantsOK DEF Assumptions, PassStates, Row
    <2>2. lw'.cfg = lw.cfg /\ lw.cfg \in eras /\ x.snap <= x.at /\ ColdExpired(lw.cfg, x.at)
      BY <1>1 DEF AdminInv, AdminTyped, InEras, AdminPromise, PassOwed, RowsOwed
    <2>3. ASSUME NEW c \in Config, c = lw'.cfg, ColdExpired(c, x.at)
          PROVE  ColdExpired(lw.cfg, x.at)'
      <3>1. ColdExpired(c, x.at)'
        BY <2>1, <2>3, AdminMoves, EraAges
      <3> QED BY <2>3, <3>1 DEF ColdExpired, PrunesOffsite
    <2> QED BY <1>0, <2>2, <2>3, AdminMoves
  <1>5. ASSUME NEW s \in lw'.victims
        PROVE  lw'.cfg \in eras' /\ GoneFor(lw.cfg, s)'
    <2>1. s \in Snapshot
      BY <1>0, <1>1 DEF PassStates, HotVictims
    <2>2. lw'.cfg = lw.cfg /\ lw.cfg \in eras /\ GoneFor(lw.cfg, s)
      <3>1. CASE s \in lw.victims
        BY <1>1, <3>1 DEF AdminInv, AdminPromise, PassOwed
      <3>2. CASE lw.pc # "idle" /\ s \in HotVictims(lw)
        BY <1>1, <3>2
        DEF HotVictims, GoneFor, AdminInv, AdminTyped, InEras, AdminPromise, PassOwed
      <3> QED BY <1>1, <3>1, <3>2
    <2>3. ASSUME NEW c \in eras, c = lw'.cfg, GoneFor(c, s)
          PROVE  GoneFor(lw.cfg, s)'
      <3>1. GoneFor(c, s)'
        BY <2>1, <2>3, GoneIsForGood
      <3> QED BY <2>3, <3>1 DEF GoneFor, HotExpired, OffsiteOn
    <2> QED BY <2>2, <2>3, AdminMoves
  <1> QED BY <1>2, <1>3, <1>4, <1>5 DEF PassOwed

LEMMA UploadsOwedKept ==
  ASSUME AdminInv, [AdminNext]_allVars
  PROVE  UploadsOwed'
  <1> SUFFICES ASSUME NEW u \in Uploader
               PROVE  /\ up'[u].todo \subseteq taken'
                      /\ up'[u].pc \in {"upload", "record"} => up'[u].snap \in taken'
                      /\ up'[u].pc = "record" => Owes(up[u].snap)'
    BY DEF UploadsOwed
  <1>0. LocallyTyped /\ hot \subseteq taken /\ taken \subseteq taken' /\ taken \subseteq Snapshot
    BY AdminMoves DEF AdminInv, AdminTyped, LocallyTyped, TypeOK
  <1>1. up'[u] = up[u] \/ ([Next]_vars /\ UploadMoves(u))
    BY <1>0, AdminMoves, UploadAlwaysMoves DEF OnPage
  <1>2. /\ up'[u].todo \subseteq taken'
        /\ up'[u].pc \in {"upload", "record"} => up'[u].snap \in taken'
    BY <1>0, <1>1 DEF UploadMoves, AdminInv, AdminPromise, UploadsOwed
  <1>3. ASSUME up'[u].pc = "record"
        PROVE  Owes(up[u].snap)'
    <2>1. CASE up[u].pc = "record"
      <3>1. up'[u].snap = up[u].snap /\ up[u].snap \in Snapshot /\ Owes(up[u].snap)
        BY <1>0, <1>1, <1>3, <2>1 DEF UploadMoves, AdminInv, AdminPromise, UploadsOwed
      <3>2. ASSUME NEW r \in Snapshot, Owes(r), r = up'[u].snap
            PROVE  Owes(up[u].snap)'
        <4>1. Owes(r)'
          BY <3>2, OwedIsForGood
        <4> QED BY <3>2, <4>1 DEF Owes, HasObject, ColdExpired
      <3> QED BY <3>1, <3>2
    <2>2. CASE up[u].pc # "record"
      <3>1. up'[u].snap = up[u].snap /\ ObjectOf(up[u].cfg, up[u].snap) \in cold'
        BY <1>1, <1>3, <2>2 DEF UploadMoves
      <3> QED BY <3>1 DEF Owes, HasObject, ObjectOf
    <2> QED BY <2>1, <2>2
  <1> QED BY <1>2, <1>3

LEMMA HotOwedKept ==
  ASSUME AdminInv, [AdminNext]_allVars
  PROVE  HotOwed'
  <1> SUFFICES ASSUME NEW s \in taken' \ hot', s \notin byHand'
               PROVE  \E c \in eras' : GoneFor(c, s)'
    BY DEF HotOwed
  <1>0. eras \subseteq eras' /\ byHand \subseteq byHand' /\ taken \subseteq Snapshot
    BY AdminMoves DEF AdminInv, AdminTyped, LocallyTyped, TypeOK
  <1>1. s \in taken
    BY AdminMoves, WhoWrites DEF OnPage, TakeSnapshot
  <1>2. \E c \in eras : GoneFor(c, s)
    <2>1. CASE s \notin hot
      BY <1>0, <1>1, <2>1 DEF AdminInv, AdminPromise, HotOwed
    <2>2. CASE s \in hot
      <3>1. [Next]_vars
        BY <2>2, AdminMoves DEF OnPage
      <3>2. s \in lw.victims
        BY <2>2, <3>1, HotMoves
      <3> QED BY <3>2 DEF AdminInv, AdminPromise, PassOwed
    <2> QED BY <2>1, <2>2
  <1> QED BY <1>0, <1>1, <1>2, GoneIsForGood

LEMMA AdminInvNext == AdminInv /\ [AdminNext]_allVars => AdminInv'
  <1> SUFFICES ASSUME AdminInv, [AdminNext]_allVars PROVE AdminInv'
    OBVIOUS
  <1>1. (taken \subseteq 1..now)'
    <2>1. taken' \subseteq taken \cup {now}
      BY AdminMoves, WhoWrites DEF OnPage, TakeSnapshot
    <2>2. now \in 1..MaxDay /\ taken \subseteq 1..now
      BY DEF AdminInv, AdminPromise, AdminTyped, LocallyTyped, TypeOK
    <2>3. now \in 1..now /\ 1..now \subseteq 1..now'
      BY <2>2, AdminMoves, ConstantsOK DEF Assumptions
    <2> QED BY <2>1, <2>2, <2>3
  <1> QED
    BY <1>1, AdminMoves, RowsOwedKept, PassOwedKept, UploadsOwedKept, HotOwedKept
    DEF AdminInv, AdminPromise

\* The operator's pages and the goroutines keep every variable in its type; a
\* snapshot deleted by hand is one the client had.
THEOREM AdminTypeCorrect == AdminSpec => []AdminTypeOK
  <1>1. AdminInv => AdminTypeOK
    BY DEF AdminInv, AdminTyped
  <1> QED BY <1>1, AdminInvInit, AdminInvNext, PTL DEF AdminSpec

\* Whatever the settings are changed to under a pass or an upload: a snapshot
\* of which the operator deleted no copy leaves the directory only past the
\* horizons of settings the client has had.
THEOREM NothingLost == AdminSpec => []NothingLostBehindTheOperator
  <1>1. AdminInv => NothingLostBehindTheOperator
    <2> SUFFICES ASSUME AdminInv, NEW s \in taken \ (hot \cup byHand)
                 PROVE  \E c \in eras :
                            /\ HotExpired(c, s)
                            /\ \/ ~OffsiteOn(c)
                               \/ HasObject(s)
                               \/ \E d \in eras : ColdExpired(d, s)
      BY DEF NothingLostBehindTheOperator
    <2> QED BY DEF AdminInv, AdminPromise, HotOwed, GoneFor, Owes
  <1> QED BY <1>1, AdminInvInit, AdminInvNext, PTL DEF AdminSpec
=============================================================================
