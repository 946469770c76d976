------------------------- MODULE RunReportingProofs -------------------------
(***************************************************************************)
(* What holds of RunReporting for every number of processes and hosts,     *)
(* every timeout, and whatever is lost, late or killed.                    *)
(***************************************************************************)
EXTENDS RunReporting, TLAPS

-----------------------------------------------------------------------------
(* Type correctness: the start a process reports is a time once it is      *)
(* there to be reported.                                                   *)

Typed ==
    /\ TypeOK
    /\ \A p \in Proc : run[p].pc = "backup" => run[p].began \in Time

LEMMA TimesOK ==
  /\ MaxTime \in Nat \ {0} /\ MaxRun \in Nat /\ StaleTimeout \in Nat /\ Keep \in Nat
  BY TimesAssumption

LEMMA TypedInit == Init => Typed
  BY TimesOK DEF Init, Typed, TypeOK, RunStates, Unborn, Time, Never, NoRun, Outcome

LEMMA RequestTypes ==
  ASSUME Typed, NEW m \in net
  PROVE  /\ m.from \in Proc /\ m.kind \in Status \cup {"config"} /\ m.id \in Nat
         /\ m.started \in Time /\ m.finished \in Time \cup {Never}
  BY DEF Typed, TypeOK, Request

\* Failing rows, of any kind, keeps them rows.
LEMMA FailTypes ==
  ASSUME Typed
  PROVE  /\ \A x \in rows : Fail(x) \in Row
         /\ FailRunning(rows) \subseteq Row
  <1>1. ASSUME NEW x \in rows PROVE Fail(x) \in Row
    BY TimesOK DEF Typed, TypeOK, Fail, Row, Time, Never, Status, Outcome
  <1> QED BY <1>1 DEF FailRunning, Typed, TypeOK

LEMMA InsertTypes ==
  ASSUME Typed, NEW m \in net, Inserts(m)
  PROVE  rows' \subseteq Row /\ last' \in Nat /\ net' \subseteq Request
  <1>1. RowOf(m) \in Row
    BY RequestTypes DEF RowOf, Row, Inserts, Typed, TypeOK
  <1> QED BY <1>1 DEF Inserts, Typed, TypeOK

LEMMA UpdateTypes ==
  ASSUME Typed, NEW m \in net, Updates(m)
  PROVE  rows' \subseteq Row /\ last' \in Nat /\ net' \subseteq Request
  <1>1. \A x \in rows : [x EXCEPT !.status = m.kind, !.finished = m.finished] \in Row
    BY RequestTypes DEF Row, Typed, TypeOK, Updates, Status
  <1> QED BY <1>1 DEF Updates, Typed, TypeOK

LEMMA SendTypes ==
  ASSUME Typed, NEW p \in Proc, NEW kind \in Status \cup {"config"}, NEW id \in Nat,
         NEW started \in Time, NEW finished \in Time \cup {Never},
         Send(p, kind, id, started, finished)
  PROVE  net' \subseteq Request
  BY DEF Send, Typed, TypeOK, Request

\* A process that begins a run, or that is left without a reply.
LEMMA StartTypes ==
  ASSUME Typed, NEW p \in Proc, StartRun(p) \/ StartOverlap(p)
  PROVE  Typed'
  <1> USE DEF NoRun, Never
  <1>1. now \in Time /\ 0 \in Nat
    BY DEF Typed, TypeOK
  <1>2. net' \subseteq Request
    <2>1. CASE StartRun(p)
      <3>1. Send(p, "config", NoRun, now, Never)
        BY <2>1 DEF StartRun
      <3> QED BY <3>1, <1>1, SendTypes
    <2>2. CASE StartOverlap(p)
      <3>1. Send(p, "overlap", NoRun, now, now)
        BY <2>2 DEF StartOverlap
      <3> QED BY <3>1, <1>1, SendTypes DEF Status
    <2> QED BY <2>1, <2>2
  <1>3. PICK pc \in {"config", "overlap"} :
          run' = [run EXCEPT ![p] = [Unborn EXCEPT !.pc = pc, !.since = now]]
    BY DEF StartRun, StartOverlap
  <1>4. [Unborn EXCEPT !.pc = pc, !.since = now] \in RunStates
    BY <1>1 DEF Unborn, RunStates, Outcome
  <1>5. run' \in [Proc -> RunStates]
    BY <1>3, <1>4 DEF Typed, TypeOK
  <1>6. \A q \in Proc : run'[q].pc = "backup" => q # p /\ run'[q] = run[q]
    BY <1>3 DEF Typed, TypeOK, Unborn
  <1> QED
    BY <1>1, <1>2, <1>5, <1>6 DEF StartRun, StartOverlap, Typed, TypeOK

LEMMA TypedClient ==
  ASSUME Typed, NEW p \in Proc,
         \/ StartRun(p) \/ StartOverlap(p) \/ GiveUp(p) \/ Killed(p)
         \/ \E outcome \in Outcome : BackupEnds(p, outcome)
  PROVE  Typed'
  <1>1. CASE StartRun(p) \/ StartOverlap(p)
    BY <1>1, StartTypes
  <1>2. ASSUME Exit(p), UNCHANGED <<now, rows, last, net>> PROVE Typed'
    BY ZenonT(40), <1>2 DEF Exit, Typed, TypeOK, RunStates, NoRun
  <1>3. CASE GiveUp(p)
    BY <1>2, <1>3 DEF GiveUp, Typed, TypeOK, RunStates
  <1>4. CASE Killed(p)
    BY <1>2, <1>4 DEF Killed
  <1>5. ASSUME NEW outcome \in Outcome, BackupEnds(p, outcome) PROVE Typed'
    <2>1. run[p].began \in Time /\ now \in Time /\ run[p].id \in Nat
      BY <1>5 DEF BackupEnds, Typed, TypeOK, RunStates
    <2>2. net' \subseteq Request
      BY <1>5, <2>1, SendTypes DEF BackupEnds, Status
    <2>3. run' = [run EXCEPT ![p] = [@ EXCEPT !.pc = "report", !.outcome = outcome]]
      BY <1>5 DEF BackupEnds
    <2>4. run' \in [Proc -> RunStates]
      BY ZenonT(40), <2>3 DEF Typed, TypeOK, RunStates
    <2>5. \A q \in Proc : run'[q].pc = "backup" => run'[q] = run[q]
      BY <2>3 DEF Typed, TypeOK, RunStates
    <2> QED BY <1>5, <2>2, <2>4, <2>5 DEF BackupEnds, Typed, TypeOK
  <1> QED BY <1>1, <1>3, <1>4, <1>5

LEMMA TypedServer ==
  ASSUME Typed, NEW m \in net, Handle(m) \/ Lost(m)
  PROVE  Typed'
  <1>1. ASSUME NEW cleared \in BOOLEAN, GetConfig(m, cleared) PROVE Typed'
    BY <1>1, FailTypes DEF GetConfig, Typed, TypeOK
  <1>2. ASSUME NEW cleared \in BOOLEAN, GetConfigReply(m, cleared) PROVE Typed'
    <2>1. rows' \subseteq Row
      BY <1>2, FailTypes DEF GetConfigReply, Typed, TypeOK
    <2>2. net' \subseteq Request
      BY <1>2, RequestTypes, TimesOK
      DEF GetConfigReply, Typed, TypeOK, Request, Time, Never, NoRun, Status
    <2> QED
      BY <1>2, <2>1, <2>2, RequestTypes DEF GetConfigReply, Typed, TypeOK, RunStates
  <1>3. CASE PostStatus(m)
    BY <1>3, InsertTypes, UpdateTypes DEF PostStatus, Typed, TypeOK
  <1>4. CASE PostRunningReply(m)
    BY <1>4, InsertTypes, RequestTypes DEF PostRunningReply, Typed, TypeOK, RunStates
  <1>5. CASE PostOutcomeReply(m)
    BY <1>5, InsertTypes, UpdateTypes, RequestTypes
    DEF PostOutcomeReply, Typed, TypeOK, RunStates, NoRun
  <1>6. CASE Lost(m)
    BY <1>6 DEF Lost, Typed, TypeOK
  <1> QED BY <1>1, <1>2, <1>3, <1>4, <1>5, <1>6 DEF Handle

LEMMA TypedWorker ==
  ASSUME Typed, Tick \/ MarkStaleRunsFailed \/ PruneRuns
  PROVE  Typed'
  <1>1. CASE Tick
    BY <1>1, TimesOK DEF Tick, Typed, TypeOK, Time
  <1>2. CASE MarkStaleRunsFailed
    BY <1>2, FailTypes DEF MarkStaleRunsFailed, Stale, Typed, TypeOK
  <1>3. CASE PruneRuns
    BY <1>3 DEF PruneRuns, Typed, TypeOK
  <1> QED BY <1>1, <1>2, <1>3

LEMMA TypedStep ==
  ASSUME Typed, [Next]_vars
  PROVE  Typed'
  <1>1. CASE UNCHANGED vars
    BY <1>1 DEF vars, Typed, TypeOK
  <1>2. CASE Next
    BY <1>2, TypedClient, TypedServer, TypedWorker DEF Next, Common
  <1> QED BY <1>1, <1>2

LEMMA AlwaysTyped == Spec => []Typed
  BY TypedInit, TypedStep, PTL DEF Spec

\* Every report, row and process keeps its type.
THEOREM RunTypeCorrect == Spec => []TypeOK
  BY AlwaysTyped, PTL DEF Typed

-----------------------------------------------------------------------------
(* Confirmed outcomes.  A request may be handled long after its sender     *)
(* gave up or died, so the invariant ties each request and row to the      *)
(* process it comes from.                                                  *)

\* A run id belongs to one process, rows and requests are no older than the
\* run they are about.
Origins ==
    /\ \A x \in rows :
        /\ x.id > 0 /\ x.id <= last
        /\ run[x.by].pc # "idle" /\ run[x.by].since <= x.started
    /\ \A m \in net :
        /\ m.id <= last
        /\ run[m.from].pc # "idle" /\ run[m.from].since <= m.started
        /\ \A x \in rows : x.id = m.id => x.by = m.from
    /\ \A p \in Proc :
        /\ run[p].id <= last /\ run[p].since <= now
        /\ run[p].pc = "backup" => run[p].since <= run[p].began
        /\ \A x \in rows : x.id = run[p].id => x.by = p

\* A process reports one outcome, and only after that it is confirmed.
OneOutcome ==
    /\ \A m \in net : m.kind \in Outcome =>
        run[m.from].pc \in {"report", "done"} /\ m.kind = run[m.from].outcome
    /\ \A p \in Proc : run[p].acked => run[p].pc = "done"

ConfirmedInv == Typed /\ Origins /\ OneOutcome /\ ConfirmedOutcomesStay

LEMMA ConfirmedInit == Init => Origins /\ OneOutcome /\ ConfirmedOutcomesStay
  BY DEF Init, Origins, OneOutcome, ConfirmedOutcomesStay, Unborn, NoRun, Never

\* Rows that are only marked, updated or deleted.
Reworked ==
    \A x \in rows' : \E y \in rows : x.id = y.id /\ x.by = y.by /\ x.started = y.started

LEMMA RowTypes ==
  ASSUME Typed
  PROVE  /\ now \in Nat /\ last \in Nat
         /\ \A x \in rows : x.id \in Nat /\ x.by \in Proc /\ x.started \in Nat
         /\ \A m \in net : m.id \in Nat /\ m.from \in Proc /\ m.started \in Nat
         /\ \A p \in Proc :
              run[p] \in RunStates /\ run[p].id \in Nat
              /\ run[p].since \in Nat /\ run[p].began \in Nat
  BY TimesOK DEF Typed, TypeOK, Row, Request, RunStates, Time, Never

LEMMA ReworkedByFailing ==
  ASSUME Typed
  PROVE  /\ \A x \in rows : /\ Fail(x).id = x.id /\ Fail(x).by = x.by
                             /\ Fail(x).started = x.started
         /\ rows' = FailRunning(rows) => Reworked
  <1>1. \A x \in rows : /\ Fail(x).id = x.id /\ Fail(x).by = x.by
                        /\ Fail(x).started = x.started
    BY DEF Fail, Typed, TypeOK, Row
  <1> QED BY <1>1 DEF Reworked, FailRunning

LEMMA ReworkedByUpdate ==
  ASSUME Typed, NEW m \in net, Updates(m)
  PROVE  Reworked
  BY DEF Updates, Reworked, Typed, TypeOK, Row

\* Steps in which no process moves.
LEMMA OriginsAtRest ==
  ASSUME Typed, Origins, Reworked, net' \subseteq net, last' = last, UNCHANGED run,
         now' \in Nat, now <= now'
  PROVE  Origins'
  <1>1. ASSUME NEW x \in rows'
        PROVE  /\ x.id > 0 /\ x.id <= last'
               /\ run[x.by].pc # "idle" /\ run[x.by].since <= x.started
    BY <1>1 DEF Reworked, Origins
  <1>2. ASSUME NEW m \in net', NEW x \in rows', x.id = m.id PROVE x.by = m.from
    BY <1>2 DEF Reworked, Origins
  <1>3. ASSUME NEW p \in Proc, NEW x \in rows', x.id = run[p].id PROVE x.by = p
    BY <1>3 DEF Reworked, Origins
  <1>4. \A p \in Proc : run[p].since <= now'
    BY RowTypes DEF Origins
  <1> QED BY <1>1, <1>2, <1>3, <1>4 DEF Origins

\* Steps in which a process moves on to state r, and sends at most requests
\* about its own run.
LEMMA OriginsOfStep ==
  ASSUME Typed, Origins, Reworked, last' = last, now' = now,
         NEW p \in Proc, NEW r \in RunStates, run' = [run EXCEPT ![p] = r],
         r.pc # "idle", r.since <= now,
         run[p].pc # "idle" => r.since = run[p].since,
         r.pc = "backup" => r.since <= r.began,
         r.id \in {NoRun, run[p].id},
         \A m \in net' \ net :
            m.from = p /\ m.id \in {NoRun, run[p].id} /\ r.since <= m.started
  PROVE  Origins'
  <1>1. /\ run'[p] = r
        /\ \A q \in Proc : q # p => run'[q] = run[q]
    BY DEF Typed, TypeOK
  <1>2. \A q \in Proc : run[q].pc # "idle" =>
            run'[q].pc # "idle" /\ run'[q].since = run[q].since
    BY <1>1
  <1>3. ASSUME NEW x \in rows'
        PROVE  /\ x.by \in Proc /\ x.id > 0 /\ x.id <= last'
               /\ run'[x.by].pc # "idle" /\ run'[x.by].since <= x.started
    BY <1>2, RowTypes DEF Reworked, Origins
  <1>4. ASSUME NEW m \in net'
        PROVE  /\ m.id <= last'
               /\ run'[m.from].pc # "idle" /\ run'[m.from].since <= m.started
               /\ \A x \in rows' : x.id = m.id => x.by = m.from
    <2>1. CASE m \in net
      BY <2>1, <1>2, RowTypes DEF Reworked, Origins
    <2>2. CASE m \notin net
      <3>1. m.from = p /\ m.id \in {NoRun, run[p].id} /\ r.since <= m.started
        BY <2>2
      <3>2. m.id <= last'
        BY <3>1, RowTypes DEF Origins, NoRun
      <3>3. \A x \in rows' : x.id = m.id => x.by = p
        BY <3>1, <1>3 DEF Reworked, Origins, NoRun
      <3> QED BY <3>1, <3>2, <3>3, <1>1
    <2> QED BY <2>1, <2>2
  <1>5. ASSUME NEW q \in Proc
        PROVE  /\ run'[q].id <= last' /\ run'[q].since <= now'
               /\ run'[q].pc = "backup" => run'[q].since <= run'[q].began
               /\ \A x \in rows' : x.id = run'[q].id => x.by = q
    <2>1. CASE q # p
      BY <2>1, <1>1 DEF Reworked, Origins
    <2>2. CASE q = p
      <3>1. r.id <= last'
        BY RowTypes DEF Origins, NoRun
      <3>2. \A x \in rows' : x.id = r.id => x.by = p
        BY <1>3 DEF Reworked, Origins, NoRun
      <3> QED BY <2>2, <1>1, <3>1, <3>2
    <2> QED BY <2>1, <2>2
  <1> QED BY <1>3, <1>4, <1>5 DEF Origins

\* A new row has an id nobody knows yet, save the process it is told to.
LEMMA OriginsOfInsert ==
  ASSUME Typed, Origins, NEW m \in net, Inserts(m), now' = now,
         NEW r \in RunStates, run' = [run EXCEPT ![m.from] = r],
         r.pc # "idle", r.since = run[m.from].since,
         r.pc = "backup" => r.since <= r.began,
         r.id \in {NoRun, run[m.from].id, last'}
  PROVE  Origins'
  <1>1. m.from \in Proc /\ last' = last + 1 /\ last \in Nat
    BY RowTypes DEF Inserts
  <1>2. /\ run'[m.from] = r
        /\ \A q \in Proc : q # m.from => run'[q] = run[q]
    BY <1>1 DEF Typed, TypeOK
  <1>3. run[m.from].pc # "idle" /\ run[m.from].since <= m.started
    BY DEF Origins
  <1>4. \A q \in Proc : run[q].pc # "idle" =>
            run'[q].pc # "idle" /\ run'[q].since = run[q].since
    BY <1>2
  <1>5. rows' = rows \cup {RowOf(m)} /\ net' \subseteq net
    BY DEF Inserts
  <1>6. /\ RowOf(m).id = last + 1 /\ RowOf(m).by = m.from
        /\ RowOf(m).started = m.started
    BY DEF RowOf
  <1>7. ASSUME NEW x \in rows'
        PROVE  /\ x.id > 0 /\ x.id <= last'
               /\ run'[x.by].pc # "idle" /\ run'[x.by].since <= x.started
    <2>1. CASE x \in rows
      BY <2>1, <1>1, <1>4, RowTypes DEF Origins
    <2>2. CASE x = RowOf(m)
      BY <2>2, <1>1, <1>2, <1>3, <1>6
    <2> QED BY <2>1, <2>2, <1>5
  <1>8. ASSUME NEW k \in net'
        PROVE  /\ k.id <= last'
               /\ run'[k.from].pc # "idle" /\ run'[k.from].since <= k.started
               /\ \A x \in rows' : x.id = k.id => x.by = k.from
    <2>1. k.id <= last /\ k.id \in Nat
      BY <1>5, RowTypes DEF Origins
    <2>2. \A x \in rows' : x.id = k.id => x.by = k.from
      BY <2>1, <1>1, <1>5, <1>6 DEF Origins
    <2> QED BY <2>1, <2>2, <1>1, <1>4, <1>5, RowTypes DEF Origins
  <1>9. ASSUME NEW q \in Proc
        PROVE  /\ run'[q].id <= last' /\ run'[q].since <= now'
               /\ run'[q].pc = "backup" => run'[q].since <= run'[q].began
               /\ \A x \in rows' : x.id = run'[q].id => x.by = q
    <2>1. run[q].id <= last /\ run[q].id \in Nat /\ run[q].since <= now
      BY RowTypes DEF Origins
    <2>2. CASE q # m.from
      BY <2>1, <2>2, <1>1, <1>2, <1>5, <1>6 DEF Origins
    <2>3. CASE q = m.from
      <3>1. r.id <= last'
        BY <2>1, <2>3, <1>1 DEF NoRun
      <3>2. \A x \in rows : x.id = r.id => x.by = q
        BY <2>3, <1>1, RowTypes DEF Origins, NoRun
      <3> QED BY <2>1, <2>3, <1>2, <1>5, <1>6, <3>1, <3>2
    <2> QED BY <2>2, <2>3
  <1> QED BY <1>7, <1>8, <1>9 DEF Origins

\* The client's steps.
LEMMA OriginsClient ==
  ASSUME Typed, Origins, NEW p \in Proc,
         \/ StartRun(p) \/ StartOverlap(p) \/ GiveUp(p) \/ Killed(p)
         \/ \E outcome \in Outcome : BackupEnds(p, outcome)
  PROVE  Origins'
  <1>1. run[p] \in RunStates /\ now \in Time /\ now \in Nat /\ run[p].since <= now
    BY RowTypes DEF Typed, TypeOK, Origins
  <1>2. Reworked /\ last' = last /\ now' = now
    BY DEF StartRun, StartOverlap, GiveUp, Killed, BackupEnds, Reworked
  <1>3. CASE StartRun(p) \/ StartOverlap(p)
    <2>1. PICK pc \in {"config", "overlap"} :
            run' = [run EXCEPT ![p] = [Unborn EXCEPT !.pc = pc, !.since = now]]
      BY <1>3 DEF StartRun, StartOverlap
    <2> DEFINE r == [Unborn EXCEPT !.pc = pc, !.since = now]
    <2>2. r \in RunStates /\ r.pc = pc /\ r.since = now /\ r.id = NoRun
      BY <1>1 DEF Unborn, RunStates, Outcome, Never, NoRun
    <2>3. run[p].pc = "idle"
      BY <1>3 DEF StartRun, StartOverlap
    <2>4. \A m \in net' \ net : m.from = p /\ m.id = NoRun /\ m.started = now
      BY <1>3 DEF StartRun, StartOverlap, Send
    <2> HIDE DEF r
    <2>5. run' = [run EXCEPT ![p] = r]
      BY <2>1 DEF r
    <2>6. r.pc # "idle" /\ r.pc # "backup" /\ r.since <= now
      BY <1>1, <2>1, <2>2
    <2>7. \A m \in net' \ net :
            m.from = p /\ m.id \in {NoRun, run[p].id} /\ r.since <= m.started
      BY <1>1, <2>2, <2>4
    <2> QED BY <1>2, <2>2, <2>3, <2>5, <2>6, <2>7, OriginsOfStep
  <1>4. ASSUME Exit(p), net' = net, run[p].pc # "idle" PROVE Origins'
    <2> DEFINE r == [run[p] EXCEPT !.pc = "done", !.id = NoRun]
    <2>1. r \in RunStates /\ r.pc = "done" /\ r.since = run[p].since /\ r.id = NoRun
      BY <1>1 DEF RunStates, NoRun
    <2>2. run' = [run EXCEPT ![p] = r]
      BY <1>4 DEF Exit
    <2> HIDE DEF r
    <2> QED BY <1>1, <1>2, <1>4, <2>1, <2>2, OriginsOfStep
  <1>5. CASE GiveUp(p)
    <2>1. CASE run[p].pc = "running"
      <3> DEFINE r == [run[p] EXCEPT !.pc = "backup", !.began = now]
      <3>1. /\ r \in RunStates /\ r.pc = "backup" /\ r.since = run[p].since
            /\ r.id = run[p].id /\ r.began = now
        BY <1>1 DEF RunStates
      <3>2. run' = [run EXCEPT ![p] = r] /\ net' = net
        BY <1>5, <2>1 DEF GiveUp
      <3> HIDE DEF r
      <3> QED BY <1>1, <1>2, <3>1, <3>2, OriginsOfStep
    <2>2. CASE run[p].pc # "running"
      BY <1>4, <1>5, <2>2 DEF GiveUp
    <2> QED BY <2>1, <2>2
  <1>6. CASE Killed(p)
    BY <1>4, <1>6 DEF Killed
  <1>7. ASSUME NEW outcome \in Outcome, BackupEnds(p, outcome) PROVE Origins'
    <2> DEFINE r == [run[p] EXCEPT !.pc = "report", !.outcome = outcome]
    <2>1. /\ r \in RunStates /\ r.pc = "report" /\ r.since = run[p].since
          /\ r.id = run[p].id
      BY <1>1 DEF RunStates
    <2>2. run' = [run EXCEPT ![p] = r]
      BY <1>7 DEF BackupEnds
    <2>3. run[p].since <= run[p].began
      BY <1>7 DEF BackupEnds, Origins
    <2>4. \A m \in net' \ net : /\ m.from = p /\ m.id = run[p].id
                                 /\ m.started \in {now, run[p].began}
      BY <1>7 DEF BackupEnds, Send
    <2> HIDE DEF r
    <2>5. \A m \in net' \ net : m.from = p /\ m.id = run[p].id /\ r.since <= m.started
      BY <1>1, <2>1, <2>3, <2>4
    <2> QED BY <1>1, <1>2, <2>1, <2>2, <2>5, OriginsOfStep
  <1> QED BY <1>3, <1>5, <1>6, <1>7

\* The handlers.
LEMMA OriginsServer ==
  ASSUME Typed, Origins, NEW m \in net, Handle(m) \/ Lost(m)
  PROVE  Origins'
  <1>1. /\ m.from \in Proc /\ run[m.from] \in RunStates /\ now \in Time /\ now \in Nat
        /\ run[m.from].since <= now /\ run[m.from].since \in Nat
        /\ run[m.from].pc # "idle"
    BY RowTypes DEF Typed, TypeOK, Origins
  <1>2. rows' = FailRunning(rows) \/ rows' = rows => Reworked
    BY ReworkedByFailing DEF Reworked
  <1>3. ASSUME NEW cleared \in BOOLEAN, GetConfig(m, cleared) PROVE Origins'
    BY <1>1, <1>2, <1>3, OriginsAtRest DEF GetConfig
  <1>4. ASSUME NEW cleared \in BOOLEAN, GetConfigReply(m, cleared) PROVE Origins'
    <2> DEFINE r == [run[m.from] EXCEPT !.pc = "running", !.began = now]
    <2>1. /\ r \in RunStates /\ r.pc = "running" /\ r.since = run[m.from].since
          /\ r.id = run[m.from].id
      BY <1>1 DEF RunStates
    <2>2. run' = [run EXCEPT ![m.from] = r]
      BY <1>4 DEF GetConfigReply
    <2>3. \A k \in net' \ net : k.from = m.from /\ k.id = NoRun /\ k.started = now
      BY <1>4 DEF GetConfigReply
    <2>4. last' = last /\ now' = now /\ Reworked
      BY <1>2, <1>4 DEF GetConfigReply
    <2> HIDE DEF r
    <2> QED BY <1>1, <2>1, <2>2, <2>3, <2>4, OriginsOfStep
  <1>5. CASE PostStatus(m)
    <2>1. CASE Inserts(m)
      <3>1. run' = [run EXCEPT ![m.from] = run[m.from]]
        BY <1>5 DEF PostStatus, Typed, TypeOK
      <3>2. now' = now
        BY <1>5 DEF PostStatus
      <3> QED BY <1>1, <2>1, <3>1, <3>2, OriginsOfInsert DEF Origins
    <2>2. CASE Updates(m)
      <3>1. net' \subseteq net /\ last' = last /\ Reworked
        BY <2>2, ReworkedByUpdate DEF Updates
      <3>2. UNCHANGED run /\ now' \in Nat /\ now <= now'
        BY <1>1, <1>5 DEF PostStatus
      <3> QED BY <3>1, <3>2, OriginsAtRest
    <2> QED BY <1>5, <2>1, <2>2 DEF PostStatus
  <1>6. CASE PostRunningReply(m)
    <2> DEFINE r == [run[m.from] EXCEPT !.pc = "backup", !.began = now, !.id = last']
    <2>1. last' \in Nat
      BY <1>6, RowTypes DEF PostRunningReply, Inserts
    <2>2. /\ r \in RunStates /\ r.pc = "backup" /\ r.since = run[m.from].since
          /\ r.id = last' /\ r.began = now
      BY <1>1, <2>1 DEF RunStates
    <2>3. run' = [run EXCEPT ![m.from] = r] /\ now' = now
      BY <1>6 DEF PostRunningReply
    <2> HIDE DEF r
    <2> QED BY <1>1, <1>6, <2>2, <2>3, OriginsOfInsert DEF PostRunningReply
  <1>7. CASE PostOutcomeReply(m)
    <2> DEFINE r == [run[m.from] EXCEPT !.pc = "done", !.id = NoRun, !.acked = TRUE]
    <2>1. r \in RunStates /\ r.pc = "done" /\ r.since = run[m.from].since /\ r.id = NoRun
      BY <1>1 DEF RunStates, NoRun
    <2>2. run' = [run EXCEPT ![m.from] = r] /\ now' = now
      BY <1>7 DEF PostOutcomeReply
    <2> HIDE DEF r
    <2>3. CASE Inserts(m)
      BY <1>1, <2>1, <2>2, <2>3, OriginsOfInsert
    <2>4. CASE Updates(m)
      <3>1. net' \subseteq net /\ last' = last /\ Reworked
        BY <2>4, ReworkedByUpdate DEF Updates
      <3> QED BY <1>1, <2>1, <2>2, <3>1, OriginsOfStep
    <2> QED BY <1>7, <2>3, <2>4 DEF PostOutcomeReply
  <1>8. CASE Lost(m)
    BY <1>1, <1>2, <1>8, OriginsAtRest DEF Lost
  <1> QED BY <1>3, <1>4, <1>5, <1>6, <1>7, <1>8 DEF Handle

LEMMA OriginsWorker ==
  ASSUME Typed, Origins, Tick \/ MarkStaleRunsFailed \/ PruneRuns
  PROVE  Origins'
  <1>1. now' \in Nat /\ now <= now'
    BY RowTypes DEF Tick, MarkStaleRunsFailed, PruneRuns
  <1>2. Reworked
    <2>1. CASE MarkStaleRunsFailed
      <3>1. \A x \in rows' : x \in rows \/ \E y \in rows : x = Fail(y)
        BY <2>1 DEF MarkStaleRunsFailed, Stale
      <3> QED BY <3>1, ReworkedByFailing DEF Reworked
    <2>2. CASE Tick \/ PruneRuns
      BY <2>2 DEF Tick, PruneRuns, Reworked
    <2> QED BY <2>1, <2>2
  <1> QED BY <1>1, <1>2, OriginsAtRest DEF Tick, MarkStaleRunsFailed, PruneRuns

LEMMA OneOutcomeClient ==
  ASSUME Typed, Origins, OneOutcome, NEW p \in Proc,
         \/ StartRun(p) \/ StartOverlap(p) \/ GiveUp(p) \/ Killed(p)
         \/ \E outcome \in Outcome : BackupEnds(p, outcome)
  PROVE  OneOutcome'
  <1>1. run \in [Proc -> RunStates] /\ run[p] \in RunStates
    BY DEF Typed, TypeOK
  <1>2. CASE StartRun(p) \/ StartOverlap(p)
    <2>1. \A m \in net : m.from # p
      BY <1>2 DEF StartRun, StartOverlap, Origins
    <2>2. \A m \in net' : m \in net \/ m.kind \notin Outcome
      BY <1>2 DEF StartRun, StartOverlap, Send, Outcome
    <2>3. \A q \in Proc : q # p => run'[q] = run[q]
      BY <1>1, <1>2 DEF StartRun, StartOverlap
    <2>4. ~run'[p].acked
      BY <1>1, <1>2 DEF StartRun, StartOverlap, Unborn
    <2> QED BY <2>1, <2>2, <2>3, <2>4, RequestTypes DEF OneOutcome
  <1>3. ASSUME Exit(p), net' = net PROVE OneOutcome'
    <2>1. /\ run'[p].pc = "done" /\ run'[p].outcome = run[p].outcome
          /\ \A q \in Proc : q # p => run'[q] = run[q]
      BY <1>1, <1>3 DEF Exit, RunStates
    <2> QED BY <1>3, <2>1, RequestTypes DEF OneOutcome
  <1>4. CASE GiveUp(p)
    <2>1. CASE run[p].pc = "running"
      <3>1. /\ run'[p].acked = run[p].acked /\ net' = net
            /\ \A q \in Proc : q # p => run'[q] = run[q]
        BY <1>1, <1>4, <2>1 DEF GiveUp, RunStates
      <3>2. \A m \in net : m.kind \in Outcome => m.from # p
        BY <2>1 DEF OneOutcome
      <3> QED BY <2>1, <3>1, <3>2, RequestTypes DEF OneOutcome
    <2>2. CASE run[p].pc # "running"
      BY <1>3, <1>4, <2>2 DEF GiveUp
    <2> QED BY <2>1, <2>2
  <1>5. CASE Killed(p)
    BY <1>3, <1>5 DEF Killed
  <1>6. ASSUME NEW outcome \in Outcome, BackupEnds(p, outcome) PROVE OneOutcome'
    <2>1. /\ run'[p].pc = "report" /\ run'[p].outcome = outcome
          /\ run'[p].acked = run[p].acked /\ run[p].pc = "backup"
          /\ \A q \in Proc : q # p => run'[q] = run[q]
      BY <1>1, <1>6 DEF BackupEnds, RunStates
    <2>2. \A m \in net : m.kind \in Outcome => m.from # p
      BY <2>1 DEF OneOutcome
    <2>3. \A m \in net' : m \in net \/ (m.from = p /\ m.kind = outcome)
      BY <1>6 DEF BackupEnds, Send
    <2> QED BY <2>1, <2>2, <2>3, RequestTypes DEF OneOutcome
  <1> QED BY <1>2, <1>4, <1>5, <1>6

LEMMA OneOutcomeServer ==
  ASSUME Typed, OneOutcome, NEW m \in net, Handle(m) \/ Lost(m)
  PROVE  OneOutcome'
  <1>1. /\ run \in [Proc -> RunStates] /\ m.from \in Proc /\ run[m.from] \in RunStates
    BY RequestTypes DEF Typed, TypeOK
  <1>2. ASSUME net' \subseteq net, run' = run PROVE OneOutcome'
    BY <1>2 DEF OneOutcome
  <1>3. ASSUME Inserts(m) \/ Updates(m) PROVE net' \subseteq net
    BY <1>3 DEF Inserts, Updates
  <1>4. ASSUME NEW cleared \in BOOLEAN, GetConfig(m, cleared) PROVE OneOutcome'
    BY <1>2, <1>4 DEF GetConfig
  <1>5. ASSUME NEW cleared \in BOOLEAN, GetConfigReply(m, cleared) PROVE OneOutcome'
    <2>1. /\ run[m.from].pc = "config" /\ run'[m.from].acked = run[m.from].acked
          /\ \A q \in Proc : q # m.from => run'[q] = run[q]
      BY <1>1, <1>5 DEF GetConfigReply, RunStates
    <2>2. \A k \in net' : k \in net \/ k.kind \notin Outcome
      BY <1>5 DEF GetConfigReply, Outcome
    <2> QED BY <2>1, <2>2, RequestTypes DEF OneOutcome
  <1>6. CASE PostStatus(m)
    BY <1>2, <1>3, <1>6 DEF PostStatus
  <1>7. CASE PostRunningReply(m)
    <2>1. /\ run[m.from].pc = "running" /\ run'[m.from].acked = run[m.from].acked
          /\ \A q \in Proc : q # m.from => run'[q] = run[q]
      BY <1>1, <1>7 DEF PostRunningReply, RunStates
    <2> QED BY <1>3, <1>7, <2>1, RequestTypes DEF PostRunningReply, OneOutcome
  <1>8. CASE PostOutcomeReply(m)
    <2>1. /\ run'[m.from].pc = "done" /\ run'[m.from].outcome = run[m.from].outcome
          /\ \A q \in Proc : q # m.from => run'[q] = run[q]
      BY <1>1, <1>8 DEF PostOutcomeReply, RunStates
    <2>2. net' \subseteq net
      BY <1>3, <1>8 DEF PostOutcomeReply
    <2> QED BY <2>1, <2>2, RequestTypes DEF OneOutcome
  <1>9. CASE Lost(m)
    BY <1>2, <1>9 DEF Lost
  <1> QED BY <1>4, <1>5, <1>6, <1>7, <1>8, <1>9 DEF Handle

\* What a confirmation rests on: nobody forgets it, and a row with a
\* confirmed outcome is not changed before its time.
LEMMA ConfirmedKept ==
  ASSUME Typed, ConfirmedOutcomesStay, now' \in Nat, now <= now',
         NEW p \in Proc, run[p].acked, run'[p].since = run[p].since,
         run'[p].outcome = run[p].outcome,
         run[p].since + Keep >= now',
         \A y \in rows : y.by = p /\ y.status = run[p].outcome =>
            \E x \in rows' : x.by = p /\ x.status = run[p].outcome
  PROVE  \E x \in rows' : x.by = p /\ x.status = run'[p].outcome
  <1>1. run[p].since + Keep >= now
    BY RowTypes, TimesOK
  <1> QED BY <1>1 DEF ConfirmedOutcomesStay

LEMMA OutcomeTypes ==
  ASSUME Typed, NEW p \in Proc
  PROVE  run[p].outcome \in {"ok", "failed"}
  BY DEF Typed, TypeOK, RunStates, Outcome

LEMMA UpdateKeepsConfirmed ==
  ASSUME Typed, Origins, OneOutcome, NEW m \in net, Updates(m),
         NEW p \in Proc, NEW y \in rows, y.by = p, y.status = run[p].outcome
  PROVE  \E x \in rows' : x.by = p /\ x.status = run[p].outcome
  <1>1. CASE y.id # m.id
    BY <1>1 DEF Updates
  <1>2. CASE y.id = m.id
    <2>1. m.from = p /\ m.kind = run[p].outcome
      BY <1>2 DEF Origins, OneOutcome, Updates
    <2> DEFINE x == [y EXCEPT !.status = m.kind, !.finished = m.finished]
    <2>2. x \in rows'
      BY <1>2 DEF Updates
    <2>3. x.by = p /\ x.status = m.kind
      BY DEF Typed, TypeOK, Row
    <2> QED BY <2>1, <2>2, <2>3
  <1> QED BY <1>1, <1>2

LEMMA PostKeepsConfirmed ==
  ASSUME Typed, Origins, OneOutcome, NEW m \in net, Inserts(m) \/ Updates(m),
         NEW p \in Proc, NEW y \in rows, y.by = p, y.status = run[p].outcome
  PROVE  \E x \in rows' : x.by = p /\ x.status = run[p].outcome
  <1>1. CASE Inserts(m)
    BY <1>1 DEF Inserts
  <1>2. CASE Updates(m)
    BY <1>2, UpdateKeepsConfirmed
  <1> QED BY <1>1, <1>2

\* The row that the confirmed report itself leaves.
LEMMA PostLeavesRow ==
  ASSUME Typed, Origins, OneOutcome, NEW m \in net, m.kind \in Outcome,
         Inserts(m) \/ Updates(m)
  PROVE  \E x \in rows' : x.by = m.from /\ x.status = run[m.from].outcome
  <1>1. m.kind = run[m.from].outcome
    BY DEF OneOutcome
  <1>2. CASE Inserts(m)
    <2>1. RowOf(m) \in rows' /\ RowOf(m).by = m.from /\ RowOf(m).status = m.kind
      BY <1>2 DEF Inserts, RowOf
    <2> QED BY <1>1, <2>1
  <1>3. CASE Updates(m)
    <2>1. PICK y \in rows : y.id = m.id
      BY <1>3 DEF Updates
    <2>2. y.by = m.from
      BY <2>1 DEF Origins
    <2> DEFINE x == [y EXCEPT !.status = m.kind, !.finished = m.finished]
    <2>3. x \in rows'
      BY <1>3, <2>1 DEF Updates
    <2>4. x.by = m.from /\ x.status = m.kind
      BY <2>2 DEF Typed, TypeOK, Row
    <2> QED BY <1>1, <2>3, <2>4
  <1> QED BY <1>2, <1>3

\* Clearing running rows is no business of a row with an outcome.
LEMMA FailingKeepsConfirmed ==
  ASSUME Typed, NEW p \in Proc, NEW y \in rows, y.by = p, y.status = run[p].outcome
  PROVE  y \in FailRunning(rows) /\ y \notin Stale
  BY OutcomeTypes DEF FailRunning, Stale

\* A process that has its confirmation does not move any more; it gets it
\* from the reply to its outcome alone.
LEMMA ConfirmedAtRest ==
  ASSUME Typed, OneOutcome, Next, NEW p \in Proc, run'[p].acked
  PROVE  \/ /\ run[p].acked /\ run'[p].since = run[p].since
            /\ run'[p].outcome = run[p].outcome
         \/ \E m \in net : m.from = p /\ PostOutcomeReply(m)
  <1>1. /\ run \in [Proc -> RunStates] /\ run[p] \in RunStates
        /\ run[p].acked => run[p].pc = "done"
        /\ \A m \in net : m.from \in Proc
    BY RequestTypes DEF Typed, TypeOK, OneOutcome
  <1>2. CASE run' = run
    BY <1>2
  <1>3. ASSUME NEW q \in Proc, StartRun(q) \/ StartOverlap(q)
        PROVE  run[p].acked /\ run'[p] = run[p]
    <2>1. ~run'[q].acked /\ (q # p => run'[p] = run[p])
      BY <1>1, <1>3 DEF StartRun, StartOverlap, Unborn
    <2> QED BY <2>1
  <1>4. ASSUME NEW q \in Proc, GiveUp(q) \/ Killed(q)
        PROVE  /\ run[p].acked /\ run'[p].since = run[p].since
               /\ run'[p].outcome = run[p].outcome
    BY <1>1, <1>4 DEF GiveUp, Killed, Exit, RunStates
  <1>5. ASSUME NEW q \in Proc, NEW outcome \in Outcome, BackupEnds(q, outcome)
        PROVE  run[p].acked /\ run'[p] = run[p]
    BY <1>1, <1>5 DEF BackupEnds, RunStates
  <1>6. ASSUME NEW m \in net, NEW cleared \in BOOLEAN, GetConfigReply(m, cleared)
        PROVE  run[p].acked /\ run'[p] = run[p]
    BY <1>1, <1>6 DEF GetConfigReply, RunStates
  <1>7. ASSUME NEW m \in net, PostRunningReply(m)
        PROVE  run[p].acked /\ run'[p] = run[p]
    BY <1>1, <1>7 DEF PostRunningReply, RunStates
  <1>8. ASSUME NEW m \in net, PostOutcomeReply(m), m.from # p
        PROVE  run[p].acked /\ run'[p] = run[p]
    BY <1>1, <1>8 DEF PostOutcomeReply
  <1>9. ASSUME NEW m \in net, NEW cleared \in BOOLEAN,
               GetConfig(m, cleared) \/ PostStatus(m) \/ Lost(m)
        PROVE  run' = run
    BY <1>9 DEF GetConfig, PostStatus, Lost
  <1>10. ASSUME Tick \/ MarkStaleRunsFailed \/ PruneRuns PROVE run' = run
    BY <1>10 DEF Tick, MarkStaleRunsFailed, PruneRuns
  <1> QED
    BY <1>2, <1>3, <1>4, <1>5, <1>6, <1>7, <1>8, <1>9, <1>10 DEF Next, Common, Handle

\* The rows of a confirmed outcome survive each step until their age is due.
LEMMA ConfirmedRowsStay ==
  ASSUME Typed, Origins, OneOutcome, Next, NEW p \in Proc, run[p].since + Keep >= now',
         NEW y \in rows, y.by = p, y.status = run[p].outcome
  PROVE  \E x \in rows' : x.by = p /\ x.status = run[p].outcome
  <1>1. CASE rows \subseteq rows'
    BY <1>1
  <1>2. ASSUME NEW m \in net, NEW cleared \in BOOLEAN,
               GetConfig(m, cleared) \/ GetConfigReply(m, cleared)
        PROVE  y \in rows'
    BY <1>2, FailingKeepsConfirmed DEF GetConfig, GetConfigReply
  <1>3. ASSUME NEW m \in net, PostStatus(m) \/ PostRunningReply(m) \/ PostOutcomeReply(m)
        PROVE  \E x \in rows' : x.by = p /\ x.status = run[p].outcome
    BY <1>3, PostKeepsConfirmed DEF PostStatus, PostRunningReply, PostOutcomeReply
  <1>4. CASE MarkStaleRunsFailed
    BY <1>4, FailingKeepsConfirmed DEF MarkStaleRunsFailed
  <1>5. CASE PruneRuns
    <2>1. y.started + Keep >= now
      BY <1>5, RowTypes, TimesOK DEF PruneRuns, Origins
    <2> QED BY <1>5, <2>1 DEF PruneRuns
  <1>6. ASSUME NEW m \in net, Lost(m) PROVE rows \subseteq rows'
    BY <1>6 DEF Lost
  <1>7. ASSUME NEW q \in Proc,
               \/ StartRun(q) \/ StartOverlap(q) \/ GiveUp(q) \/ Killed(q)
               \/ \E outcome \in Outcome : BackupEnds(q, outcome)
        PROVE  rows \subseteq rows'
    BY <1>7 DEF StartRun, StartOverlap, GiveUp, Killed, BackupEnds
  <1>8. CASE Tick
    BY <1>1, <1>8 DEF Tick
  <1> QED
    BY <1>1, <1>2, <1>3, <1>4, <1>5, <1>6, <1>7, <1>8 DEF Next, Common, Handle

LEMMA ClockForward ==
  ASSUME Typed, Next
  PROVE  now' \in Nat /\ now <= now'
  <1>1. now' = now \/ now' = now + 1
    BY DEF Next, Common, Handle, Tick, MarkStaleRunsFailed, PruneRuns, Lost, StartRun,
           StartOverlap, GiveUp, Killed, BackupEnds, GetConfig, GetConfigReply,
           PostStatus, PostRunningReply, PostOutcomeReply
  <1> QED BY <1>1, RowTypes

LEMMA ConfirmedStep ==
  ASSUME ConfirmedInv, Next
  PROVE  ConfirmedOutcomesStay'
  <1> USE DEF ConfirmedInv
  <1> SUFFICES ASSUME NEW p \in Proc, run'[p].acked, run'[p].since + Keep >= now'
               PROVE  \E x \in rows' : x.by = p /\ x.status = run'[p].outcome
    BY DEF ConfirmedOutcomesStay
  <1>1. CASE /\ run[p].acked /\ run'[p].since = run[p].since
             /\ run'[p].outcome = run[p].outcome
    BY <1>1, ConfirmedKept, ConfirmedRowsStay, ClockForward
  <1>2. ASSUME NEW m \in net, m.from = p, PostOutcomeReply(m)
        PROVE  \E x \in rows' : x.by = p /\ x.status = run'[p].outcome
    <2>1. run'[p].outcome = run[p].outcome
      BY <1>2 DEF PostOutcomeReply, Typed, TypeOK, RunStates
    <2> QED BY <1>2, <2>1, PostLeavesRow DEF PostOutcomeReply
  <1> QED BY <1>1, <1>2, ConfirmedAtRest

LEMMA ConfirmedInvStep ==
  ASSUME ConfirmedInv, [Next]_vars
  PROVE  ConfirmedInv'
  <1>1. CASE UNCHANGED vars
    BY <1>1 DEF vars, ConfirmedInv, Typed, TypeOK, Origins, OneOutcome, ConfirmedOutcomesStay
  <1>2. CASE Next
    <2>1. Typed'
      BY <1>2, TypedStep DEF ConfirmedInv
    <2>2. Origins'
      BY <1>2, OriginsClient, OriginsServer, OriginsWorker DEF ConfirmedInv, Next, Common
    <2>3. OneOutcome'
      <3>1. CASE Tick \/ MarkStaleRunsFailed \/ PruneRuns
        BY <3>1 DEF ConfirmedInv, OneOutcome, Tick, MarkStaleRunsFailed, PruneRuns
      <3> QED
        BY <1>2, <3>1, OneOutcomeClient, OneOutcomeServer DEF ConfirmedInv, Next, Common
    <2> QED BY <1>2, <2>1, <2>2, <2>3, ConfirmedStep DEF ConfirmedInv
  <1> QED BY <1>1, <1>2

\* For any number of runs of a client, on one host or on many: an outcome the
\* server has confirmed stays on record until it is old enough to be pruned.
THEOREM ConfirmedStay == Spec => []ConfirmedOutcomesStay
  <1>1. Init => ConfirmedInv
    BY TypedInit, ConfirmedInit DEF ConfirmedInv
  <1>2. ConfirmedInv => ConfirmedOutcomesStay
    BY DEF ConfirmedInv
  <1> QED BY <1>1, <1>2, ConfirmedInvStep, PTL DEF Spec

-----------------------------------------------------------------------------
(* The live run is the latest.  What the lock file gives is told in terms  *)
(* of what a step does to a process, to the network and to the table.      *)

\* What a step may do to process q.
Begins(q) ==
    /\ run[q].pc = "idle" /\ run'[q].since = now
    /\ \/ run'[q].pc = "overlap"
       \/ run'[q].pc = "config" /\ StartRun(q)

GoesOn(q) ==
    /\ run'[q].since = run[q].since
    /\ run'[q].pc \in {"running", "backup", "report", "done"}
    /\ HoldsLock(q)' => HoldsLock(q)
    /\ run[q].pc = "report" => run'[q].pc = "done"

LEMMA RunMoves ==
  ASSUME Typed, Next, NEW q \in Proc
  PROVE  run'[q] = run[q] \/ Begins(q) \/ GoesOn(q)
  <1>1. /\ run \in [Proc -> RunStates] /\ \A m \in net : m.from \in Proc
        /\ \A p \in Proc : run[p] \in RunStates
    BY RequestTypes DEF Typed, TypeOK
  <1>2. ASSUME NEW p \in Proc, StartRun(p) \/ StartOverlap(p)
        PROVE  run'[q] = run[q] \/ Begins(q)
    BY <1>1, <1>2 DEF StartRun, StartOverlap, Begins, Unborn
  <1>3. ASSUME NEW p \in Proc, GiveUp(p) \/ Killed(p)
        PROVE  run'[q] = run[q] \/ GoesOn(q)
    BY <1>1, <1>3 DEF GiveUp, Killed, Exit, GoesOn, HoldsLock, RunStates
  <1>4. ASSUME NEW p \in Proc, NEW outcome \in Outcome, BackupEnds(p, outcome)
        PROVE  run'[q] = run[q] \/ GoesOn(q)
    BY <1>1, <1>4 DEF BackupEnds, GoesOn, HoldsLock, RunStates
  <1>5. ASSUME NEW m \in net, Handle(m) PROVE run'[q] = run[q] \/ GoesOn(q)
    <2>1. ASSUME NEW cleared \in BOOLEAN, GetConfigReply(m, cleared)
          PROVE  run'[q] = run[q] \/ GoesOn(q)
      BY <1>1, <2>1 DEF GetConfigReply, GoesOn, HoldsLock, RunStates
    <2>2. CASE PostRunningReply(m)
      BY <1>1, <2>2 DEF PostRunningReply, GoesOn, HoldsLock, RunStates
    <2>3. CASE PostOutcomeReply(m)
      BY <1>1, <2>3 DEF PostOutcomeReply, GoesOn, HoldsLock, RunStates
    <2> QED BY <1>5, <2>1, <2>2, <2>3 DEF Handle, GetConfig, PostStatus
  <1>6. ASSUME \/ Tick \/ MarkStaleRunsFailed \/ PruneRuns
               \/ \E m \in net : Lost(m)
        PROVE  run'[q] = run[q]
    BY <1>6 DEF Tick, MarkStaleRunsFailed, PruneRuns, Lost
  <1> QED BY <1>2, <1>3, <1>4, <1>5, <1>6 DEF Next, Common

\* The ids a process knows: none, its own, or that of the row just inserted.
LEMMA RunIds ==
  ASSUME Typed, Next, NEW q \in Proc
  PROVE  \/ run'[q].id \in {NoRun, run[q].id}
         \/ \E m \in net : m.from = q /\ PostRunningReply(m) /\ run'[q].id = last'
  <1>1. /\ run \in [Proc -> RunStates] /\ \A m \in net : m.from \in Proc
        /\ \A p \in Proc : run[p] \in RunStates
    BY RequestTypes DEF Typed, TypeOK
  <1>2. ASSUME NEW p \in Proc,
               \/ StartRun(p) \/ StartOverlap(p) \/ GiveUp(p) \/ Killed(p)
               \/ \E outcome \in Outcome : BackupEnds(p, outcome)
        PROVE  run'[q].id \in {NoRun, run[q].id}
    <2>1. CASE StartRun(p) \/ StartOverlap(p)
      BY <1>1, <2>1 DEF StartRun, StartOverlap, Unborn
    <2>2. CASE GiveUp(p) \/ Killed(p)
      BY <1>1, <2>2 DEF GiveUp, Killed, Exit, RunStates
    <2>3. CASE \E outcome \in Outcome : BackupEnds(p, outcome)
      BY <1>1, <2>3 DEF BackupEnds, RunStates
    <2> QED BY <1>2, <2>1, <2>2, <2>3
  <1>3. ASSUME NEW m \in net, NEW cleared \in BOOLEAN, GetConfigReply(m, cleared)
        PROVE  run'[q].id = run[q].id
    BY <1>1, <1>3 DEF GetConfigReply, RunStates
  <1>4. ASSUME NEW m \in net, PostRunningReply(m)
        PROVE  \/ run'[q].id = run[q].id
               \/ m.from = q /\ run'[q].id = last'
    BY <1>1, <1>4 DEF PostRunningReply, RunStates
  <1>5. ASSUME NEW m \in net, PostOutcomeReply(m)
        PROVE  run'[q].id \in {NoRun, run[q].id}
    BY <1>1, <1>5 DEF PostOutcomeReply, RunStates
  <1>6. ASSUME \/ Tick \/ MarkStaleRunsFailed \/ PruneRuns
               \/ \E m \in net : \/ Lost(m) \/ PostStatus(m)
                                 \/ \E cleared \in BOOLEAN : GetConfig(m, cleared)
        PROVE  run'[q].id = run[q].id
    BY <1>6 DEF Tick, MarkStaleRunsFailed, PruneRuns, Lost, PostStatus, GetConfig
  <1> QED BY <1>2, <1>3, <1>4, <1>5, <1>6 DEF Next, Common, Handle

\* A request is sent by a process that does so next.
Sends(m) ==
    /\ m.from \in Proc
    /\ \/ /\ m.kind \in {"config", "overlap"} /\ run[m.from].pc = "idle"
          /\ run'[m.from].pc = m.kind /\ m.id = NoRun
       \/ /\ m.kind = "running" /\ run[m.from].pc = "config"
          /\ run'[m.from].pc = "running" /\ m.id = NoRun
       \/ /\ m.kind \in Outcome /\ run[m.from].pc = "backup"
          /\ run'[m.from].pc = "report" /\ m.id = run[m.from].id
    /\ m.started = now \/ m.started = run[m.from].began

LEMMA Senders ==
  ASSUME Typed, Next, NEW m \in net', m \notin net
  PROVE  Sends(m)
  <1>1. /\ run \in [Proc -> RunStates] /\ \A k \in net : k.from \in Proc
        /\ \A p \in Proc : run[p] \in RunStates
    BY RequestTypes DEF Typed, TypeOK
  <1>2. ASSUME NEW p \in Proc, StartRun(p) \/ StartOverlap(p) PROVE Sends(m)
    <2>1. PICK kind \in {"config", "overlap"}, finished \in {now, Never} :
            /\ Send(p, kind, NoRun, now, finished)
            /\ run' = [run EXCEPT ![p] = [Unborn EXCEPT !.pc = kind, !.since = now]]
            /\ run[p].pc = "idle"
      BY <1>2 DEF StartRun, StartOverlap
    <2>2. m.from = p /\ m.kind = kind /\ m.id = NoRun /\ m.started = now
      BY <2>1 DEF Send
    <2>3. run'[p].pc = kind
      BY <1>1, <2>1 DEF Unborn
    <2> QED BY <2>1, <2>2, <2>3 DEF Sends
  <1>3. ASSUME NEW p \in Proc, NEW outcome \in Outcome, BackupEnds(p, outcome)
        PROVE  Sends(m)
    BY <1>1, <1>3 DEF BackupEnds, Send, Sends, RunStates
  <1>4. ASSUME NEW k \in net, NEW cleared \in BOOLEAN, GetConfigReply(k, cleared)
        PROVE  Sends(m)
    BY <1>1, <1>4 DEF GetConfigReply, Sends, RunStates
  <1>5. ASSUME \/ Tick \/ MarkStaleRunsFailed \/ PruneRuns
               \/ \E p \in Proc : GiveUp(p) \/ Killed(p)
               \/ \E k \in net : \/ Lost(k) \/ PostStatus(k) \/ PostRunningReply(k)
                                 \/ PostOutcomeReply(k)
                                 \/ \E cleared \in BOOLEAN : GetConfig(k, cleared)
        PROVE  net' \subseteq net
    BY <1>5 DEF Tick, MarkStaleRunsFailed, PruneRuns, GiveUp, Killed, Lost, PostStatus,
                PostRunningReply, PostOutcomeReply, GetConfig, Inserts, Updates
  <1> QED BY <1>2, <1>3, <1>4, <1>5 DEF Next, Common, Handle

\* A row is an earlier one, with a status of its own only if it is failed or
\* its outcome arrives, or it is inserted.
Reworks(x, y) ==
    /\ x.id = y.id /\ x.by = y.by /\ x.started = y.started
    /\ x.status = "running" => x = y
    /\ x.status = "overlap" => y.status = "overlap"
    /\ y.status = "overlap" =>
        x.status = "overlap" \/ \E m \in net : m.kind \in Outcome /\ m.id = y.id

LEMMA RowsOfFailing ==
  ASSUME Typed, NEW y \in rows, y.status = "running"
  PROVE  Reworks(Fail(y), y)
  BY DEF Reworks, Fail, Typed, TypeOK, Row

LEMMA RowsOfPost ==
  ASSUME Typed, NEW m \in net, Inserts(m) \/ Updates(m), NEW x \in rows'
  PROVE  (\E y \in rows : Reworks(x, y)) \/ (Inserts(m) /\ x = RowOf(m))
  <1>1. CASE Inserts(m)
    BY <1>1 DEF Inserts, Reworks
  <1>2. CASE Updates(m)
    <2>1. PICK y \in rows :
            x = IF y.id = m.id
                THEN [y EXCEPT !.status = m.kind, !.finished = m.finished] ELSE y
      BY <1>2 DEF Updates
    <2>2. m.kind \in Outcome /\ m.kind \notin {"overlap", "running"}
      BY <1>2 DEF Updates, Outcome
    <2>3. CASE y.id = m.id
      <3>1. x.id = y.id /\ x.by = y.by /\ x.started = y.started /\ x.status = m.kind
        BY <2>1, <2>3 DEF Typed, TypeOK, Row
      <3> QED BY <2>2, <2>3, <3>1 DEF Reworks
    <2>4. CASE y.id # m.id
      BY <2>1, <2>4 DEF Reworks
    <2> QED BY <2>3, <2>4
  <1> QED BY <1>1, <1>2

LEMMA RowsOfStep ==
  ASSUME Typed, Next, NEW x \in rows'
  PROVE  \/ \E y \in rows : Reworks(x, y)
         \/ \E m \in net : Inserts(m) /\ x = RowOf(m)
  <1>1. CASE x \in rows
    BY <1>1 DEF Reworks
  <1>2. ASSUME NEW m \in net, PostStatus(m) \/ PostRunningReply(m) \/ PostOutcomeReply(m)
        PROVE  \/ \E y \in rows : Reworks(x, y)
               \/ \E k \in net : Inserts(k) /\ x = RowOf(k)
    <2>1. Inserts(m) \/ Updates(m)
      BY <1>2 DEF PostStatus, PostRunningReply, PostOutcomeReply
    <2> QED BY <2>1, RowsOfPost
  <1>3. ASSUME NEW m \in net, NEW cleared \in BOOLEAN,
               GetConfig(m, cleared) \/ GetConfigReply(m, cleared)
        PROVE  x \in rows \/ \E y \in rows : y.status = "running" /\ x = Fail(y)
    BY <1>3 DEF GetConfig, GetConfigReply, FailRunning
  <1>4. ASSUME MarkStaleRunsFailed
        PROVE  x \in rows \/ \E y \in rows : y.status = "running" /\ x = Fail(y)
    BY <1>4 DEF MarkStaleRunsFailed, Stale
  <1>5. ASSUME \/ Tick \/ PruneRuns
               \/ \E m \in net : Lost(m)
               \/ \E p \in Proc : \/ StartRun(p) \/ StartOverlap(p) \/ GiveUp(p) \/ Killed(p)
                                  \/ \E outcome \in Outcome : BackupEnds(p, outcome)
        PROVE  x \in rows
    BY <1>5 DEF Tick, PruneRuns, Lost, StartRun, StartOverlap, GiveUp, Killed, BackupEnds
  <1> QED
    BY <1>1, <1>2, <1>3, <1>4, <1>5, RowsOfFailing DEF Next, Common, Handle

-----------------------------------------------------------------------------
(* What the lock file serializes, what a process has reported, and that    *)
(* nothing is from the future.                                             *)

\* Nothing is reported to have started in the future.
Past ==
    /\ \A p \in Proc : run[p].began <= now
    /\ \A m \in net : m.started <= now
    /\ \A x \in rows : x.started <= now

\* The row of an overlap is nobody's run, so that no outcome replaces it.
OverlapApart ==
    \A x \in rows : x.status = "overlap" =>
        /\ \A m \in net : m.kind \in Outcome => m.id # x.id
        /\ \A p \in Proc : run[p].id # x.id

\* While a run holds the lock no other does, and what others have reported or
\* are still reporting started before it took the lock.
Serial ==
    \A p, q \in Proc : HoldsLock(p) /\ q # p /\ Home[q] = Home[p] =>
        /\ ~HoldsLock(q)
        /\ \A m \in net :
            m.from = q /\ m.kind # "overlap" => m.started <= run[p].since
        /\ \A x \in rows :
            x.by = q /\ x.status # "overlap" => x.started <= run[p].since

\* What a run may have reported by the time it is at pc: nothing before its
\* configuration came, then a single running report, sent or inserted.
ReportedBy(p) ==
    /\ run[p].pc \in {"config", "running"} => run[p].id = NoRun
    /\ run[p].pc = "config" =>
        /\ \A x \in rows : x.by # p
        /\ \A m \in net : m.from = p => m.kind = "config"
    /\ run[p].pc = "running" =>
        /\ \A m \in net : m.from = p /\ m.kind # "config" =>
            m.kind = "running" /\ \A x \in rows : x.by # p
        /\ \A m, k \in net :
            /\ m.from = p /\ m.kind # "config"
            /\ k.from = p /\ k.kind # "config"
            => m = k
    /\ run[p].pc = "backup" /\ run[p].id # NoRun =>
        /\ \A m \in net : m.from = p => m.kind = "config"
        /\ \A x, y \in rows : x.by = p /\ y.by = p => x.started = y.started

Reported == \A p \in Proc : ReportedBy(p)

LatestInv == Typed /\ Origins /\ Past /\ OverlapApart /\ Serial /\ Reported

LEMMA LatestInit == Init => LatestInv
  <1>1. Init => Past
    BY DEF Init, Past, Unborn, Never
  <1>2. Init => OverlapApart /\ Serial
    BY DEF Init, OverlapApart, Serial, HoldsLock, Unborn
  <1>3. Init => Reported
    <2>1. ASSUME Init, NEW p \in Proc PROVE run[p].pc = "idle"
      BY <2>1 DEF Init, Unborn
    <2>2. ASSUME NEW p \in Proc, run[p].pc = "idle" PROVE ReportedBy(p)
      BY <2>2 DEF ReportedBy
    <2> QED BY <2>1, <2>2 DEF Reported
  <1> QED BY <1>1, <1>2, <1>3, TypedInit, ConfirmedInit DEF LatestInv

LEMMA BeganPast ==
  ASSUME Typed, Past, Next, NEW p \in Proc
  PROVE  run'[p].began <= now'
  <1>1. /\ run \in [Proc -> RunStates] /\ \A m \in net : m.from \in Proc
        /\ run[p] \in RunStates /\ now \in Nat /\ run[p].began \in Nat
    BY RequestTypes, RowTypes DEF Typed, TypeOK
  <1>2. run'[p].began \in {Never, now, run[p].began}
    <2>1. ASSUME NEW q \in Proc,
               \/ StartRun(q) \/ StartOverlap(q) \/ GiveUp(q) \/ Killed(q)
               \/ \E outcome \in Outcome : BackupEnds(q, outcome)
          PROVE  run'[p].began \in {Never, now, run[p].began}
      <3>1. CASE StartRun(q) \/ StartOverlap(q)
        BY <1>1, <3>1 DEF StartRun, StartOverlap, Unborn
      <3>2. CASE GiveUp(q) \/ Killed(q)
        BY <1>1, <3>2 DEF GiveUp, Killed, Exit, RunStates
      <3>3. CASE \E outcome \in Outcome : BackupEnds(q, outcome)
        BY <1>1, <3>3 DEF BackupEnds, RunStates
      <3> QED BY <2>1, <3>1, <3>2, <3>3
    <2>2. ASSUME NEW m \in net, Handle(m)
          PROVE  run'[p].began \in {now, run[p].began}
      BY <1>1, <2>2 DEF Handle, GetConfig, GetConfigReply, PostStatus, PostRunningReply,
                        PostOutcomeReply, RunStates
    <2>3. ASSUME \/ Tick \/ MarkStaleRunsFailed \/ PruneRuns
                 \/ \E m \in net : Lost(m)
          PROVE  run' = run
      BY <2>3 DEF Tick, MarkStaleRunsFailed, PruneRuns, Lost
    <2> QED BY <2>1, <2>2, <2>3 DEF Next, Common
  <1> QED BY <1>1, <1>2, ClockForward DEF Past, Never

LEMMA PastStep ==
  ASSUME Typed, Past, Next
  PROVE  Past'
  <1>1. now \in Nat /\ now' \in Nat /\ now <= now'
    BY ClockForward, RowTypes
  <1>2. ASSUME NEW m \in net' PROVE m.started <= now'
    <2>1. CASE m \in net
      BY <1>1, <2>1, RowTypes DEF Past
    <2>2. CASE m \notin net
      BY <1>1, <2>2, Senders, RowTypes DEF Past, Sends
    <2> QED BY <2>1, <2>2
  <1>3. ASSUME NEW x \in rows' PROVE x.started <= now'
    <2>1. ASSUME NEW y \in rows, Reworks(x, y) PROVE x.started <= now'
      BY <1>1, <2>1, RowTypes DEF Past, Reworks
    <2>2. ASSUME NEW m \in net, x = RowOf(m) PROVE x.started <= now'
      BY <1>1, <2>2, RowTypes DEF Past, RowOf
    <2> QED BY <2>1, <2>2, RowsOfStep
  <1> QED BY <1>2, <1>3, BeganPast DEF Past

LEMMA OverlapApartStep ==
  ASSUME Typed, Origins, OverlapApart, Next
  PROVE  OverlapApart'
  <1> SUFFICES ASSUME NEW x \in rows', x.status = "overlap"
               PROVE  /\ \A m \in net' : m.kind \in Outcome => m.id # x.id
                      /\ \A p \in Proc : run'[p].id # x.id
    BY DEF OverlapApart
  <1>1. /\ last \in Nat
        /\ \A y \in rows : y.id \in Nat /\ y.id > 0 /\ y.id <= last
        /\ \A m \in net : m.id \in Nat /\ m.id <= last /\ m.from \in Proc
        /\ \A p \in Proc : run[p].id \in Nat /\ run[p].id <= last
    BY RowTypes DEF Origins
  <1>2. ASSUME NEW y \in rows, Reworks(x, y)
        PROVE  /\ \A m \in net' : m.kind \in Outcome => m.id # x.id
               /\ \A p \in Proc : run'[p].id # x.id
    <2>1. y.status = "overlap" /\ x.id = y.id
      BY <1>2 DEF Reworks
    <2>2. \A m \in net' : m.kind \in Outcome => m.id # y.id
      <3>1. ASSUME NEW m \in net', m \notin net, m.kind \in Outcome PROVE m.id # y.id
        BY <2>1, <3>1, Senders DEF Sends, Outcome, OverlapApart
      <3> QED BY <2>1, <3>1 DEF OverlapApart
    <2>3. ASSUME NEW p \in Proc PROVE run'[p].id # y.id
      <3>1. CASE run'[p].id \in {NoRun, run[p].id}
        BY <1>1, <2>1, <3>1 DEF OverlapApart, NoRun
      <3>2. ASSUME NEW m \in net, PostRunningReply(m), run'[p].id = last'
            PROVE  run'[p].id # y.id
        BY <1>1, <3>2 DEF PostRunningReply, Inserts
      <3> QED BY <3>1, <3>2, RunIds
    <2> QED BY <2>1, <2>2, <2>3
  <1>3. ASSUME NEW k \in net, Inserts(k), x = RowOf(k)
        PROVE  /\ \A m \in net' : m.kind \in Outcome => m.id # x.id
               /\ \A p \in Proc : run'[p].id # x.id
    <2>1. x.id = last + 1 /\ last' = last + 1 /\ net' \subseteq net /\ x \notin rows
      BY <1>1, <1>3 DEF Inserts, RowOf
    <2>2. ASSUME NEW m \in net, PostRunningReply(m) PROVE FALSE
      <3>1. rows' = rows \cup {RowOf(m)} /\ RowOf(m).status = "running"
        BY <2>2 DEF PostRunningReply, Inserts, RowOf
      <3> QED BY <2>1, <3>1
    <2>3. \A p \in Proc : run'[p].id # x.id
      BY <1>1, <2>1, <2>2, RunIds DEF NoRun
    <2> QED BY <1>1, <2>1, <2>3
  <1> QED BY <1>2, <1>3, RowsOfStep

\* Taking the lock.
LEMMA SerialStart ==
  ASSUME Typed, Past, Serial, NEW p \in Proc, StartRun(p)
  PROVE  Serial'
  <1>1. /\ run'[p].pc = "config" /\ run'[p].since = now
        /\ \A q \in Proc : q # p => run'[q] = run[q]
    BY DEF StartRun, Unborn, Typed, TypeOK
  <1>2. rows' = rows /\ \A m \in net' : m \in net \/ m.from = p
    BY DEF StartRun, Send
  <1>3. \A q \in Proc : Home[q] = Home[p] => ~HoldsLock(q)
    BY DEF StartRun, LockHeld
  <1> SUFFICES ASSUME NEW r \in Proc, NEW q \in Proc,
                      HoldsLock(r)', q # r, Home[q] = Home[r]
               PROVE  /\ ~HoldsLock(q)'
                      /\ \A m \in net' :
                          m.from = q /\ m.kind # "overlap" => m.started <= run'[r].since
                      /\ \A x \in rows' :
                          x.by = q /\ x.status # "overlap" => x.started <= run'[r].since
    BY DEF Serial
  <1>4. CASE r = p
    BY <1>1, <1>2, <1>3, <1>4 DEF Past, HoldsLock
  <1>5. CASE r # p
    <2>1. HoldsLock(r) /\ q # p
      BY <1>1, <1>3, <1>5 DEF HoldsLock
    <2> QED BY <1>1, <1>2, <1>5, <2>1 DEF Serial, HoldsLock
  <1> QED BY <1>4, <1>5

\* While it is held.
LEMMA SerialStep ==
  ASSUME Typed, Past, OverlapApart, Serial, Next
  PROVE  Serial'
  <1>1. CASE \E p \in Proc : StartRun(p)
    BY <1>1, SerialStart
  <1>2. CASE ~\E p \in Proc : StartRun(p)
    <2> SUFFICES ASSUME NEW p \in Proc, NEW q \in Proc,
                        HoldsLock(p)', q # p, Home[q] = Home[p]
                 PROVE  /\ ~HoldsLock(q)'
                        /\ \A m \in net' :
                            m.from = q /\ m.kind # "overlap" => m.started <= run'[p].since
                        /\ \A x \in rows' :
                            x.by = q /\ x.status # "overlap" => x.started <= run'[p].since
      BY DEF Serial
    <2>1. \A r \in Proc : ~(run[r].pc = "idle" /\ run'[r].pc = "config")
      BY <1>2, RunMoves DEF Begins, GoesOn
    <2>2. \A r \in Proc : HoldsLock(r)' => HoldsLock(r) /\ run'[r].since = run[r].since
      BY <2>1, RunMoves DEF Begins, GoesOn, HoldsLock
    <2>3. ~HoldsLock(q) /\ ~HoldsLock(q)'
      BY <2>2 DEF Serial
    <2>4. ASSUME NEW m \in net', m.from = q, m.kind # "overlap"
          PROVE  m.started <= run[p].since
      <3>1. CASE m \in net
        BY <2>2, <2>4, <3>1 DEF Serial
      <3>2. CASE m \notin net
        BY <2>1, <2>3, <2>4, <3>2, Senders DEF Sends, HoldsLock
      <3> QED BY <3>1, <3>2
    <2>5. ASSUME NEW x \in rows', x.by = q, x.status # "overlap"
          PROVE  x.started <= run[p].since
      <3>1. ASSUME NEW y \in rows, Reworks(x, y) PROVE x.started <= run[p].since
        BY <2>2, <2>5, <3>1 DEF Reworks, Serial, OverlapApart
      <3>2. ASSUME NEW m \in net, x = RowOf(m) PROVE x.started <= run[p].since
        BY <2>2, <2>5, <3>2 DEF RowOf, Serial
      <3> QED BY <3>1, <3>2, RowsOfStep
    <2> QED BY <2>2, <2>3, <2>4, <2>5
  <1> QED BY <1>1, <1>2

\* The requests and rows of a process that does not move: only its own can be
\* handled, and only a handled one leaves a row.
LEMMA ReportedAtRest ==
  ASSUME Typed, Reported, NEW p \in Proc, run'[p] = run[p],
         \A m \in net' : m.from = p => m \in net,
         \A x \in rows' : x.by = p =>
            \/ \E y \in rows : y.by = p /\ y.started = x.started
            \/ \E k \in net : k \notin net' /\ k.from = p /\ k.kind # "config"
  PROVE  ReportedBy(p)'
  <1>1. ReportedBy(p)
    BY DEF Reported
  <1>2. CASE run[p].pc = "config"
    BY <1>1, <1>2 DEF ReportedBy
  <1>3. CASE run[p].pc = "running"
    BY <1>1, <1>3 DEF ReportedBy
  <1>4. CASE run[p].pc = "backup" /\ run[p].id # NoRun
    BY <1>1, <1>4 DEF ReportedBy
  <1> QED BY <1>1, <1>2, <1>3, <1>4 DEF ReportedBy

LEMMA ReportedAfter ==
  ASSUME NEW p \in Proc,
         \/ run'[p].pc \notin {"config", "running", "backup"}
         \/ run'[p].pc = "backup" /\ run'[p].id = NoRun
  PROVE  ReportedBy(p)'
  BY DEF ReportedBy

LEMMA ReportedClient ==
  ASSUME Typed, Origins, Reported, NEW p \in Proc,
         \/ StartRun(p) \/ StartOverlap(p) \/ GiveUp(p) \/ Killed(p)
         \/ \E outcome \in Outcome : BackupEnds(p, outcome)
  PROVE  Reported'
  <1>1. run \in [Proc -> RunStates] /\ run[p] \in RunStates
    BY DEF Typed, TypeOK
  <1>2. /\ rows' = rows
        /\ \A m \in net' : m \in net \/ m.from = p
    BY DEF StartRun, StartOverlap, GiveUp, Killed, BackupEnds, Send
  <1>3. \A q \in Proc : q # p => run'[q] = run[q]
    BY <1>1 DEF StartRun, StartOverlap, GiveUp, Killed, Exit, BackupEnds
  <1>4. ASSUME NEW q \in Proc, q # p PROVE ReportedBy(q)'
    BY <1>2, <1>3, <1>4, ReportedAtRest
  <1>5. ReportedBy(p)'
    <2>1. CASE StartRun(p)
      <3>1. run'[p].pc = "config" /\ run'[p].id = NoRun
        BY <1>1, <2>1 DEF StartRun, Unborn
      <3>2. \A x \in rows : x.by # p
        BY <2>1 DEF StartRun, Origins
      <3>3. \A m \in net' : m.from = p => m.kind = "config"
        BY <2>1 DEF StartRun, Send, Origins
      <3> QED BY <1>2, <3>1, <3>2, <3>3 DEF ReportedBy
    <2>2. CASE GiveUp(p) /\ run[p].pc = "running"
      <3>1. run'[p].pc = "backup" /\ run'[p].id = run[p].id
        BY <1>1, <2>2 DEF GiveUp, RunStates
      <3> QED BY <2>2, <3>1, ReportedAfter DEF Reported, ReportedBy
    <2>3. CASE \/ StartOverlap(p) \/ Killed(p)
               \/ GiveUp(p) /\ run[p].pc # "running"
               \/ \E outcome \in Outcome : BackupEnds(p, outcome)
      <3>1. run'[p].pc \in {"overlap", "done", "report"}
        <4>1. CASE StartOverlap(p)
          BY <1>1, <4>1 DEF StartOverlap, Unborn
        <4>2. CASE Killed(p) \/ (GiveUp(p) /\ run[p].pc # "running")
          BY <1>1, <4>2 DEF GiveUp, Killed, Exit, RunStates
        <4>3. ASSUME NEW outcome \in Outcome, BackupEnds(p, outcome)
              PROVE  run'[p].pc = "report"
          BY <1>1, <4>3 DEF BackupEnds, RunStates
        <4> QED BY <2>3, <4>1, <4>2, <4>3
      <3> QED BY <3>1, ReportedAfter
    <2> QED BY <2>1, <2>2, <2>3
  <1> QED BY <1>4, <1>5 DEF Reported

LEMMA ReportedServer ==
  ASSUME Typed, Reported, NEW m \in net, Handle(m) \/ Lost(m)
  PROVE  Reported'
  <1>1. /\ run \in [Proc -> RunStates] /\ m.from \in Proc /\ run[m.from] \in RunStates
    BY RequestTypes DEF Typed, TypeOK
  <1>2. m \notin net' /\ \A k \in net' : k \in net \/ k.from = m.from
    <2>1. ASSUME NEW cleared \in BOOLEAN, GetConfigReply(m, cleared)
          PROVE  m \notin net' /\ \A k \in net' : k \in net \/ k.from = m.from
      BY <2>1 DEF GetConfigReply
    <2>2. ASSUME net' = net \ {m}
          PROVE  m \notin net' /\ \A k \in net' : k \in net \/ k.from = m.from
      BY <2>2
    <2> QED
      BY <2>1, <2>2 DEF Handle, Lost, GetConfig, PostStatus, PostRunningReply,
                        PostOutcomeReply, Inserts, Updates
  <1>3. \A x \in rows' :
            \/ \E y \in rows : y.by = x.by /\ y.started = x.started
            \/ x.by = m.from /\ m.kind # "config"
    <2>1. ASSUME NEW cleared \in BOOLEAN, GetConfig(m, cleared) \/ GetConfigReply(m, cleared)
          PROVE  Reworked
      BY <2>1, ReworkedByFailing DEF GetConfig, GetConfigReply, Reworked
    <2>2. CASE PostStatus(m) \/ PostRunningReply(m) \/ PostOutcomeReply(m)
      <3>1. Inserts(m) \/ Updates(m)
        BY <2>2 DEF PostStatus, PostRunningReply, PostOutcomeReply
      <3>2. CASE Inserts(m)
        BY <3>2 DEF Inserts, RowOf
      <3> QED BY <3>1, <3>2, ReworkedByUpdate DEF Reworked
    <2>3. CASE Lost(m)
      BY <2>3 DEF Lost
    <2> QED BY <2>1, <2>2, <2>3 DEF Handle, Reworked
  <1>4. \A q \in Proc : q # m.from => run'[q] = run[q]
    BY <1>1 DEF Handle, Lost, GetConfig, GetConfigReply, PostStatus, PostRunningReply,
           PostOutcomeReply
  <1>5. ASSUME NEW q \in Proc, q # m.from PROVE ReportedBy(q)'
    BY <1>2, <1>3, <1>4, <1>5, ReportedAtRest
  <1>6. ReportedBy(m.from)'
    <2>1. ASSUME NEW cleared \in BOOLEAN, GetConfigReply(m, cleared)
          PROVE  ReportedBy(m.from)'
      <3> DEFINE k == [from |-> m.from, kind |-> "running", id |-> NoRun,
                       started |-> now, finished |-> Never]
      <3>1. run'[m.from].pc = "running" /\ run'[m.from].id = NoRun
        BY <1>1, <2>1 DEF GetConfigReply, Reported, ReportedBy, RunStates
      <3>2. \A x \in rows' : x.by # m.from
        BY <1>1, <2>1, ReworkedByFailing DEF GetConfigReply, Reworked, Reported, ReportedBy
      <3>3. k.from = m.from /\ k.kind = "running"
        OBVIOUS
      <3>4. \A h \in net' : h.from = m.from /\ h.kind # "config" => h = k
        BY <1>1, <2>1 DEF GetConfigReply, Reported, ReportedBy
      <3> HIDE DEF k
      <3> QED BY <3>1, <3>2, <3>3, <3>4 DEF ReportedBy
    <2>2. CASE PostRunningReply(m)
      <3>1. /\ run'[m.from].pc = "backup" /\ run[m.from].pc = "running"
            /\ m.kind = "running" /\ net' \subseteq net /\ rows' = rows \cup {RowOf(m)}
        BY <1>1, <2>2 DEF PostRunningReply, Inserts, RunStates
      <3>2. ReportedBy(m.from)
        BY <1>1 DEF Reported
      <3>3. \A k \in net' : k.from = m.from => k.kind = "config"
        BY <1>2, <3>1, <3>2 DEF ReportedBy
      <3>4. \A x \in rows' : x.by = m.from => x = RowOf(m)
        BY <3>1, <3>2 DEF ReportedBy
      <3> QED BY <3>1, <3>3, <3>4 DEF ReportedBy
    <2>3. CASE PostOutcomeReply(m)
      <3>1. run'[m.from].pc = "done"
        BY <1>1, <2>3 DEF PostOutcomeReply, RunStates
      <3> QED BY <1>1, <3>1, ReportedAfter
    <2>4. ASSUME run' = run, net' \subseteq net PROVE ReportedBy(m.from)'
      BY <1>1, <1>2, <1>3, <2>4, ReportedAtRest
    <2>5. CASE Lost(m) \/ PostStatus(m) \/ \E cleared \in BOOLEAN : GetConfig(m, cleared)
      BY <2>4, <2>5 DEF Lost, PostStatus, Inserts, Updates, GetConfig
    <2> QED BY <2>1, <2>2, <2>3, <2>5 DEF Handle
  <1> QED BY <1>1, <1>5, <1>6 DEF Reported

LEMMA ReportedWorker ==
  ASSUME Typed, Reported, Tick \/ MarkStaleRunsFailed \/ PruneRuns
  PROVE  Reported'
  <1>1. run' = run /\ net' = net
    BY DEF Tick, MarkStaleRunsFailed, PruneRuns
  <1>2. Reworked
    <2>1. CASE MarkStaleRunsFailed
      <3>1. \A x \in rows' : x \in rows \/ \E y \in rows : x = Fail(y)
        BY <2>1 DEF MarkStaleRunsFailed, Stale
      <3> QED BY <3>1, ReworkedByFailing DEF Reworked
    <2>2. CASE Tick \/ PruneRuns
      BY <2>2 DEF Tick, PruneRuns, Reworked
    <2> QED BY <2>1, <2>2
  <1>3. ASSUME NEW p \in Proc PROVE ReportedBy(p)'
    BY <1>1, <1>2, ReportedAtRest DEF Reworked
  <1> QED BY <1>3 DEF Reported

LEMMA LatestInvStep ==
  ASSUME LatestInv, [Next]_vars
  PROVE  LatestInv'
  <1>1. CASE UNCHANGED vars
    BY <1>1 DEF vars, LatestInv, Typed, TypeOK, Origins, Past, OverlapApart, Serial,
                Reported, ReportedBy, HoldsLock
  <1>2. CASE Next
    <2>1. Typed'
      BY <1>2, TypedStep DEF LatestInv
    <2>2. Origins'
      BY <1>2, OriginsClient, OriginsServer, OriginsWorker DEF LatestInv, Next, Common
    <2>3. Reported'
      BY <1>2, ReportedClient, ReportedServer, ReportedWorker DEF LatestInv, Next, Common
    <2> QED BY <1>2, <2>1, <2>2, <2>3, PastStep, OverlapApartStep, SerialStep DEF LatestInv
  <1> QED BY <1>1, <1>2

\* All runs take the same lock file.
OneHost == \A p, q \in Proc : Home[p] = Home[q]

LEMMA LatestOnHost ==
  ASSUME LatestInv, NEW p \in Proc, NEW x \in rows, NEW y \in rows,
         run[p].pc = "backup", x.id = run[p].id, y.status # "overlap",
         Home[y.by] = Home[p]
  PROVE  y.started <= x.started
  <1>1. /\ x.by = p /\ run[p].since <= x.started /\ run[p].id # NoRun
        /\ y.by \in Proc /\ x.started \in Nat /\ y.started \in Nat /\ run[p].since \in Nat
    BY RowTypes DEF LatestInv, Origins, NoRun
  <1>2. CASE y.by = p
    BY <1>1, <1>2 DEF LatestInv, Reported, ReportedBy
  <1>3. CASE y.by # p
    BY <1>1, <1>3 DEF LatestInv, Serial, HoldsLock
  <1> QED BY <1>2, <1>3

\* On one host, whatever is lost or late: no run that took the lock is on
\* record with a later start than the one that still backs up.
THEOREM LiveIsLatest ==
  ASSUME OneHost
  PROVE  Spec => []LiveRunIsLatest
  <1>1. LatestInv => LiveRunIsLatest
    BY LatestOnHost, RowTypes DEF OneHost, LiveRunIsLatest, LatestInv
  <1>2. Spec => []LatestInv
    BY LatestInit, LatestInvStep, PTL DEF Spec
  <1> QED BY <1>1, <1>2, PTL

-----------------------------------------------------------------------------
(* Prompt requests on one host: what is shown of a live run.               *)

\* A process waits for the one request it has on the network.
WaitsFor(m) ==
    \/ m.kind \in {"config", "running", "overlap"} /\ run[m.from].pc = m.kind
    \/ m.kind \in Outcome /\ run[m.from].pc = "report"

Waits ==
    /\ \A m \in net : WaitsFor(m)
    /\ \A m, k \in net : m.from = k.from => m = k

\* A run ends within MaxRun.
Timely == \A p \in Proc : HoldsLock(p) => now <= run[p].since + MaxRun

\* The rows of earlier runs are cleared by the time a run reports itself.
Cleared ==
    \A m \in net, x \in rows : m.kind = "running" => x.status # "running"

PromptInv == LatestInv /\ Waits /\ Cleared /\ OneRunningRow

LEMMA PromptIsNext == PromptNext => Next
  BY DEF PromptNext, Next, HandleInTime, Handle

LEMMA PromptInit == Init => Waits /\ Timely /\ Cleared /\ OneRunningRow /\ LiveRunNotFailed
  <1>1. Init => Waits /\ Cleared /\ OneRunningRow /\ LiveRunNotFailed
    BY DEF Init, Waits, Cleared, OneRunningRow, LiveRunNotFailed
  <1>2. ASSUME Init, NEW p \in Proc PROVE ~HoldsLock(p)
    BY <1>2 DEF Init, HoldsLock, Unborn
  <1> QED BY <1>1, <1>2 DEF Timely

\* Only the process that moves has another request to wait for.
LEMMA WaitsOfStep ==
  ASSUME Typed, Waits, NEW p \in Proc,
         \A q \in Proc : q # p => run'[q] = run[q],
         \A m \in net' : m.from # p => m \in net,
         \A m \in net' : m.from = p => WaitsFor(m)',
         \A m, k \in net' : m.from = p /\ k.from = p => m = k
  PROVE  Waits'
  BY RequestTypes DEF Waits, WaitsFor

LEMMA WaitsClient ==
  ASSUME Typed, Origins, Waits, NEW p \in Proc,
         \/ StartRun(p) \/ StartOverlap(p)
         \/ \E outcome \in Outcome : BackupEnds(p, outcome)
         \/ ~Awaited(p) /\ (GiveUp(p) \/ Killed(p))
  PROVE  Waits'
  <1>1. run \in [Proc -> RunStates] /\ run[p] \in RunStates
    BY DEF Typed, TypeOK
  <1>2. \A q \in Proc : q # p => run'[q] = run[q]
    BY <1>1 DEF StartRun, StartOverlap, GiveUp, Killed, Exit, BackupEnds
  <1>3. \A m \in net : m.from # p
    BY DEF StartRun, StartOverlap, BackupEnds, Awaited, Origins, Waits, WaitsFor, Outcome
  <1>4. CASE GiveUp(p) \/ Killed(p)
    BY <1>2, <1>3, <1>4, WaitsOfStep DEF GiveUp, Killed
  <1>5. ASSUME NEW kind, NEW id, NEW started, NEW finished,
               Send(p, kind, id, started, finished),
               \/ kind \in {"config", "overlap"} /\ run'[p].pc = kind
               \/ kind \in Outcome /\ run'[p].pc = "report"
        PROVE  Waits'
    <2>1. \A m \in net' : m \in net \/ (m.from = p /\ m.kind = kind)
      BY <1>5 DEF Send
    <2>2. \A m, k \in net' : m.from = p /\ k.from = p => m = k
      BY <1>3, <1>5 DEF Send
    <2> QED BY <1>2, <1>3, <1>5, <2>1, <2>2, WaitsOfStep DEF WaitsFor
  <1>6. CASE StartRun(p) \/ StartOverlap(p)
    <2>1. PICK kind \in {"config", "overlap"}, finished \in {now, Never} :
            /\ Send(p, kind, NoRun, now, finished)
            /\ run' = [run EXCEPT ![p] = [Unborn EXCEPT !.pc = kind, !.since = now]]
      BY <1>6 DEF StartRun, StartOverlap
    <2>2. run'[p].pc = kind
      BY <1>1, <2>1 DEF Unborn
    <2> QED BY <1>5, <2>1, <2>2
  <1>7. ASSUME NEW outcome \in Outcome, BackupEnds(p, outcome) PROVE Waits'
    <2>1. run'[p].pc = "report"
      BY <1>1, <1>7 DEF BackupEnds, RunStates
    <2> QED BY <1>5, <1>7, <2>1 DEF BackupEnds
  <1> QED BY <1>4, <1>6, <1>7

LEMMA WaitsServer ==
  ASSUME Typed, Waits, NEW m \in net, Handle(m) \/ Lost(m)
  PROVE  Waits'
  <1>1. /\ run \in [Proc -> RunStates] /\ m.from \in Proc /\ run[m.from] \in RunStates
    BY RequestTypes DEF Typed, TypeOK
  <1>2. \A q \in Proc : q # m.from => run'[q] = run[q]
    BY <1>1 DEF Handle, Lost, GetConfig, GetConfigReply, PostStatus, PostRunningReply,
           PostOutcomeReply
  <1>3. \A k \in net : k.from = m.from => k = m
    BY DEF Waits
  <1>4. CASE net' = net \ {m}
    BY <1>1, <1>2, <1>3, <1>4, WaitsOfStep
  <1>5. ASSUME NEW cleared \in BOOLEAN, GetConfigReply(m, cleared) PROVE Waits'
    <2>1. run'[m.from].pc = "running"
      BY <1>1, <1>5 DEF GetConfigReply, RunStates
    <2>2. PICK k : k.from = m.from /\ k.kind = "running" /\ net' = (net \ {m}) \cup {k}
      BY <1>5 DEF GetConfigReply
    <2> QED BY <1>1, <1>2, <1>3, <2>1, <2>2, WaitsOfStep DEF WaitsFor
  <1> QED
    BY <1>4, <1>5 DEF Handle, Lost, GetConfig, PostStatus, PostRunningReply,
                      PostOutcomeReply, Inserts, Updates

LEMMA WaitsStep ==
  ASSUME Typed, Origins, Waits, PromptNext
  PROVE  Waits'
  <1>1. ASSUME NEW m \in net, HandleInTime(m) PROVE Handle(m)
    BY <1>1 DEF HandleInTime, Handle
  <1>2. CASE Tick \/ MarkStaleRunsFailed \/ PruneRuns
    BY <1>2 DEF Tick, MarkStaleRunsFailed, PruneRuns, Waits, WaitsFor
  <1> QED BY <1>1, <1>2, WaitsClient, WaitsServer DEF PromptNext, Common

LEMMA TimelyStep ==
  ASSUME Typed, Timely, Next
  PROVE  Timely'
  <1> SUFFICES ASSUME NEW p \in Proc, HoldsLock(p)' PROVE now' <= run'[p].since + MaxRun
    BY DEF Timely
  <1>1. now \in Nat /\ run[p].since \in Nat
    BY RowTypes
  <1>2. CASE Tick
    BY <1>1, <1>2, TimesOK DEF Tick, HoldsLock
  <1>3. CASE ~Tick
    <2>1. now' = now
      BY <1>3 DEF Next, Common, Handle, MarkStaleRunsFailed, PruneRuns, Lost, StartRun,
             StartOverlap, GiveUp, Killed, BackupEnds, GetConfig, GetConfigReply,
             PostStatus, PostRunningReply, PostOutcomeReply
    <2> QED BY <1>1, <2>1, RunMoves, TimesOK DEF Timely, Begins, GoesOn, HoldsLock
  <1> QED BY <1>2, <1>3

\* One host: the process that holds the lock is the only one.
LEMMA Alone ==
  ASSUME OneHost, Serial, NEW p \in Proc, NEW q \in Proc, HoldsLock(p), HoldsLock(q)
  PROVE  p = q
  BY DEF OneHost, Serial

LEMMA OneRunningReport ==
  ASSUME OneHost, Typed, Serial, Waits,
         NEW m \in net, NEW k \in net, m.kind = "running", k.kind = "running"
  PROVE  m = k
  <1>1. HoldsLock(m.from) /\ HoldsLock(k.from)
    BY DEF Waits, WaitsFor, HoldsLock, Outcome
  <1> QED BY <1>1, Alone, RequestTypes DEF Waits

\* A running row is an earlier one or just inserted.
LEMMA RunningRows ==
  ASSUME Typed, Next, NEW x \in rows', x.status = "running"
  PROVE  \/ x \in rows
         \/ \E m \in net : m.kind = "running" /\ Inserts(m) /\ x = RowOf(m)
  BY RowsOfStep DEF Reworks, RowOf

\* FailRunning leaves no running row.
LEMMA FailRunningClears ==
  ASSUME Typed, rows' = FailRunning(rows), NEW x \in rows'
  PROVE  x.status # "running"
  <1>1. \A y \in rows : Fail(y).status = "failed"
    BY DEF Fail, Typed, TypeOK, Row
  <1> QED BY <1>1 DEF FailRunning

\* A running report is sent on receipt of the configuration.
LEMMA RunningReports ==
  ASSUME PromptNext, NEW m \in net', m \notin net, m.kind = "running"
  PROVE  \E k \in net : GetConfigReply(k, TRUE)
  <1>1. ASSUME NEW p \in Proc,
               \/ StartRun(p) \/ StartOverlap(p)
               \/ \E outcome \in Outcome : BackupEnds(p, outcome)
        PROVE  FALSE
    BY <1>1 DEF StartRun, StartOverlap, BackupEnds, Send, Outcome
  <1>2. ASSUME \/ Tick \/ MarkStaleRunsFailed \/ PruneRuns
               \/ \E p \in Proc : GiveUp(p) \/ Killed(p)
               \/ \E k \in net : \/ Lost(k) \/ PostStatus(k) \/ PostRunningReply(k)
                                 \/ PostOutcomeReply(k) \/ GetConfig(k, TRUE)
        PROVE  FALSE
    BY <1>2 DEF Tick, MarkStaleRunsFailed, PruneRuns, GiveUp, Killed, Lost, PostStatus,
                PostRunningReply, PostOutcomeReply, GetConfig, Inserts, Updates
  <1> QED BY <1>1, <1>2 DEF PromptNext, Common, HandleInTime

LEMMA ClearedStep ==
  ASSUME OneHost, Typed, Serial, Waits, Cleared, OneRunningRow, PromptNext
  PROVE  Cleared' /\ OneRunningRow'
  <1> USE PromptIsNext
  <1>1. ASSUME NEW x \in rows', NEW y \in rows', x.status = "running", y.status = "running"
        PROVE  x = y
    BY <1>1, RunningRows, OneRunningReport DEF Cleared, OneRunningRow
  <1>2. ASSUME NEW m \in net', NEW x \in rows', m.kind = "running", x.status = "running"
        PROVE  FALSE
    <2>1. CASE \E k \in net : GetConfigReply(k, TRUE)
      BY <1>2, <2>1, FailRunningClears DEF GetConfigReply
    <2>2. CASE m \notin net
      BY <1>2, <2>1, <2>2, RunningReports
    <2>3. CASE m \in net
      <3>1. PICK k \in net : k.kind = "running" /\ Inserts(k)
        BY <1>2, <2>3, RunningRows DEF Cleared
      <3> QED BY <1>2, <2>3, <3>1, OneRunningReport DEF Inserts
    <2> QED BY <2>2, <2>3
  <1> QED BY <1>1, <1>2 DEF Cleared, OneRunningRow

-----------------------------------------------------------------------------
(* What a step does to live runs and to rows that are running.             *)

LEMMA LiveHoldsLock ==
  ASSUME NEW p \in Proc, Live(p)
  PROVE  HoldsLock(p) /\ run[p].pc # "config"
  BY DEF Live, HoldsLock

\* A process with a row on record that is live after a step was so before.
LEMMA LiveBefore ==
  ASSUME Typed, Origins, Reported, Next, NEW p \in Proc, Live(p)',
         NEW y \in rows, y.by = p
  PROVE  Live(p)
  <1>1. run[p].pc \notin {"idle", "config"}
    BY DEF Origins, Reported, ReportedBy
  <1>2. run'[p].pc \in {"running", "backup", "report"}
    BY DEF Live
  <1>3. run[p].pc \in {"running", "backup", "report"}
    BY <1>1, <1>2, RunMoves DEF Begins, GoesOn, HoldsLock
  <1>4. CASE run[p].pc = "report"
    <2>1. run'[p].pc = "report"
      BY <1>2, <1>4, RunMoves DEF Begins, GoesOn
    <2>2. PICK m \in net' : m.from = p
      BY <2>1 DEF Live, Awaited
    <2>3. m \in net
      BY <1>4, <2>2, Senders DEF Sends
    <2> QED BY <1>4, <2>2, <2>3 DEF Live, Awaited
  <1> QED BY <1>3, <1>4 DEF Live

\* Once its outcome, or its overlap, is handled, a process is not live.
LEMMA HandledIsNotLive ==
  ASSUME Typed, Waits, NEW m \in net, m.kind # "running",
         PostStatus(m) \/ PostOutcomeReply(m)
  PROVE  ~Live(m.from)'
  <1>1. /\ run \in [Proc -> RunStates] /\ m.from \in Proc /\ run[m.from] \in RunStates
    BY RequestTypes DEF Typed, TypeOK
  <1>2. CASE PostOutcomeReply(m)
    <2>1. run'[m.from].pc = "done"
      BY <1>1, <1>2 DEF PostOutcomeReply, RunStates
    <2> QED BY <2>1 DEF Live
  <1>3. CASE PostStatus(m)
    <2>1. run' = run /\ net' = net \ {m} /\ m.kind # "config"
      BY <1>3 DEF PostStatus, Inserts, Updates, Outcome
    <2>2. run[m.from].pc \in {"overlap", "report"} /\ ~Awaited(m.from)'
      BY <2>1 DEF Waits, WaitsFor, Awaited
    <2> QED BY <2>1, <2>2 DEF Live
  <1> QED BY <1>2, <1>3

LEMMA LiveStep ==
  ASSUME OneHost, MaxRun <= StaleTimeout,
         Typed, Origins, Reported, Serial, Waits, Timely, LiveRunNotFailed, PromptNext
  PROVE  LiveRunNotFailed'
  <1> SUFFICES ASSUME NEW x \in rows', Live(x.by)', x.status # "running"
               PROVE  FALSE
    BY DEF LiveRunNotFailed
  <1>1. \A m \in net : m.kind = "config" => HoldsLock(m.from) /\ run[m.from].pc = "config"
    BY DEF Waits, WaitsFor, HoldsLock, Outcome
  <1>2. ASSUME x \in rows PROVE FALSE
    BY <1>2, PromptIsNext, LiveBefore, RowTypes DEF LiveRunNotFailed
  <1>3. ASSUME NEW y \in rows, x = Fail(y), y.status = "running"
        PROVE  /\ y.by \in Proc /\ x.by = y.by /\ HoldsLock(y.by)
               /\ run[y.by].pc # "config"
    BY <1>3, PromptIsNext, ReworkedByFailing, LiveBefore, LiveHoldsLock, RowTypes
  <1>4. ASSUME NEW m \in net, GetConfig(m, TRUE) \/ GetConfigReply(m, TRUE)
        PROVE  FALSE
    <2>1. x \in rows \/ \E y \in rows : y.status = "running" /\ x = Fail(y)
      BY <1>4 DEF GetConfig, GetConfigReply, FailRunning
    <2>2. PICK y \in rows : y.status = "running" /\ x = Fail(y)
      BY <1>2, <2>1
    <2>3. m.kind = "config" /\ m.from \in Proc
      BY <1>4, RequestTypes DEF GetConfig, GetConfigReply
    <2> QED BY <1>1, <1>3, <2>2, <2>3, Alone
  <1>5. CASE MarkStaleRunsFailed
    <2>1. PICK y \in rows : /\ y.status = "running" /\ x = Fail(y)
                            /\ y.started + StaleTimeout < now
      BY <1>2, <1>5 DEF MarkStaleRunsFailed, Stale
    <2>2. y.by \in Proc /\ now <= run[y.by].since + MaxRun /\ run[y.by].since <= y.started
      BY <1>3, <2>1 DEF Timely, Origins
    <2> QED BY <2>1, <2>2, RowTypes, TimesOK
  <1>6. ASSUME NEW m \in net, PostStatus(m) \/ PostRunningReply(m) \/ PostOutcomeReply(m)
        PROVE  FALSE
    <2>1. Inserts(m) \/ Updates(m)
      BY <1>6 DEF PostStatus, PostRunningReply, PostOutcomeReply
    <2>2. x.by = m.from /\ m.kind # "running"
      <3>1. CASE Inserts(m)
        BY <1>2, <3>1 DEF Inserts, RowOf
      <3>2. CASE Updates(m)
        <4>1. PICK y \in rows : y.id = m.id /\ x.by = y.by
          BY <1>2, <3>2 DEF Updates, Typed, TypeOK, Row
        <4> QED BY <3>2, <4>1 DEF Updates, Origins, Outcome
      <3> QED BY <2>1, <3>1, <3>2
    <2> QED BY <1>6, <2>2, HandledIsNotLive DEF PostRunningReply
  <1>7. ASSUME \/ Tick \/ PruneRuns
               \/ \E m \in net : Lost(m)
               \/ \E p \in Proc : \/ StartRun(p) \/ StartOverlap(p) \/ GiveUp(p) \/ Killed(p)
                                  \/ \E outcome \in Outcome : BackupEnds(p, outcome)
        PROVE  x \in rows
    BY <1>7 DEF Tick, PruneRuns, Lost, StartRun, StartOverlap, GiveUp, Killed, BackupEnds
  <1> QED
    BY <1>2, <1>4, <1>5, <1>6, <1>7 DEF PromptNext, Common, HandleInTime

LEMMA PromptInvStep ==
  ASSUME OneHost, PromptInv, [PromptNext]_vars
  PROVE  PromptInv'
  <1>1. CASE UNCHANGED vars
    <2>1. LatestInv'
      BY <1>1, LatestInvStep DEF PromptInv
    <2> QED BY <1>1, <2>1 DEF vars, PromptInv, Waits, WaitsFor, Cleared, OneRunningRow
  <1>2. CASE PromptNext
    BY <1>2, PromptIsNext, LatestInvStep, WaitsStep, ClearedStep DEF PromptInv, LatestInv
  <1> QED BY <1>1, <1>2

LEMMA AlwaysPrompt ==
  ASSUME OneHost
  PROVE  PromptSpec => []PromptInv
  <1>1. Init => PromptInv
    BY LatestInit, PromptInit DEF PromptInv
  <1> QED BY <1>1, PromptInvStep, PTL DEF PromptSpec

\* On one host, when every request is handled or lost before its sender gives
\* up on it: at most one run of the client is on record as running.
THEOREM OneRunning ==
  ASSUME OneHost
  PROVE  PromptSpec => []OneRunningRow
  <1>1. PromptInv => OneRunningRow
    BY DEF PromptInv
  <1> QED BY <1>1, AlwaysPrompt, PTL

\* If in addition no run outlasts the stale timeout, neither the sweep nor the
\* start of another run fails the row of a live run.
THEOREM LiveNotFailed ==
  ASSUME OneHost, MaxRun <= StaleTimeout
  PROVE  PromptSpec => []LiveRunNotFailed
  <1>1. Init => Timely /\ LiveRunNotFailed
    BY PromptInit
  <1>2. ASSUME PromptInv, Timely, LiveRunNotFailed, [PromptNext]_vars
        PROVE  Timely' /\ LiveRunNotFailed'
    <2>1. CASE UNCHANGED vars
      BY <1>2, <2>1 DEF vars, Timely, HoldsLock, LiveRunNotFailed, Live, Awaited
    <2>2. CASE PromptNext
      BY <1>2, <2>2, PromptIsNext, TimelyStep, LiveStep DEF PromptInv, LatestInv
    <2> QED BY <1>2, <2>1, <2>2
  <1> QED BY <1>1, <1>2, AlwaysPrompt, PTL DEF PromptSpec
=============================================================================
