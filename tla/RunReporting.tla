---------------------------- MODULE RunReporting ----------------------------
(***************************************************************************)
(* How the runs of one client are reported.  Cron starts a client process  *)
(* per run; a process takes the lock file, fetches its configuration,      *)
(* reports that it runs, backs up and reports the outcome.  The server     *)
(* keeps the reports in the table runs, from which the dashboard derives   *)
(* the health of the client, and clears the rows of runs that never end.   *)
(*                                                                         *)
(* A request is on the network from the moment it is sent until the server *)
(* handles it or it is lost; the process waits for the reply or gives up.  *)
(* A handler makes one store call, so it is one step.  Cron, the network,  *)
(* crashes and the lifecycle worker go on independently.                   *)
(***************************************************************************)
EXTENDS Naturals

CONSTANTS
    Proc,          \* the client processes cron starts
    Lock,          \* places for a lock file: the hosts or containers they run in
    Home,          \* where each process runs
    MaxTime,       \* bound on the clock
    MaxRun,        \* how long a run holds the lock at most
    StaleTimeout,  \* StaleRunTimeout of the lifecycle worker
    Keep,          \* RunsKeepDays
    Interval,      \* the client's expected interval, 0 if there is none
    ShownRunning   \* how long DeriveHealth takes a run for live

ASSUME HomeAssumption == Home \in [Proc -> Lock]
ASSUME TimesAssumption ==
    /\ {MaxTime, MaxRun, StaleTimeout, Keep, Interval, ShownRunning} \subseteq Nat
    /\ MaxTime > 0

Time == 1..MaxTime
Never == 0  \* the zero time
NoRun == 0  \* run_id absent

Outcome == {"ok", "failed"}
Status == Outcome \cup {"running", "overlap"}

\* runs; by is the process whose report made the row.
Row ==
    [id: Nat, by: Proc, status: Status,
     started: Time, finished: Time \cup {Never}]

Request ==
    [from: Proc, kind: Status \cup {"config"}, id: Nat,
     started: Time, finished: Time \cup {Never}]

VARIABLES
    now,   \* the clock, which client and server share
    rows,  \* table runs
    last,  \* the last id AUTOINCREMENT gave
    net,   \* requests sent and neither handled nor lost
    run    \* the client processes

vars == <<now, rows, last, net, run>>

\* pc is the request a process waits for, "backup" between two of them, or
\* "idle" and "done"; since is when it took the lock, began what it reports
\* as the start of its backup, acked whether its last report was confirmed.
Unborn ==
    [pc |-> "idle", since |-> Never, began |-> Never, id |-> NoRun,
     outcome |-> "failed", acked |-> FALSE]

Init ==
    /\ now = 1
    /\ rows = {} /\ last = 0 /\ net = {}
    /\ run = [p \in Proc |-> Unborn]

-----------------------------------------------------------------------------
(* The lock file.  Flock belongs to the open file and goes with the        *)
(* process, however that ends; another container has a /tmp of its own.    *)

\* Mutant: the lock is released before the outcome is reported.
HoldsLockUntilReport(p) == run[p].pc \in {"config", "running", "backup"}

HoldsLock(p) == run[p].pc \in {"config", "running", "backup", "report"}

LockHeld(p) == \E q \in Proc : Home[q] = Home[p] /\ HoldsLock(q)

-----------------------------------------------------------------------------
(* The client: Run.                                                        *)

Send(p, kind, id, started, finished) ==
    net' = net \cup
        {[from |-> p, kind |-> kind, id |-> id,
          started |-> started, finished |-> finished]}

\* A held lock: report the overlap and leave.
StartOverlap(p) ==
    /\ run[p].pc = "idle"
    /\ LockHeld(p)
    /\ Send(p, "overlap", NoRun, now, now)
    /\ run' = [run EXCEPT ![p] = [Unborn EXCEPT !.pc = "overlap", !.since = now]]
    /\ UNCHANGED <<now, rows, last>>

StartRun(p) ==
    /\ run[p].pc = "idle"
    /\ ~LockHeld(p)
    /\ Send(p, "config", NoRun, now, Never)
    /\ run' = [run EXCEPT ![p] = [Unborn EXCEPT !.pc = "config", !.since = now]]
    /\ UNCHANGED <<now, rows, last>>

\* A failed backup has an empty result, so that buildStatus stamps both ends
\* with the present.
BackupEnds(p, outcome) ==
    /\ run[p].pc = "backup"
    /\ Send(p, outcome, run[p].id,
            IF outcome = "ok" THEN run[p].began ELSE now, now)
    /\ run' = [run EXCEPT ![p].pc = "report", ![p].outcome = outcome]
    /\ UNCHANGED <<now, rows, last>>

Exit(p) == run' = [run EXCEPT ![p].pc = "done", ![p].id = NoRun]

\* An error instead of a reply: without its configuration the process ends,
\* without a run id it backs up all the same, and it never repeats a report.
GiveUp(p) ==
    /\ run[p].pc \in {"config", "running", "report", "overlap"}
    /\ IF run[p].pc = "running"
       THEN run' = [run EXCEPT ![p].pc = "backup", ![p].began = now]
       ELSE Exit(p)
    /\ UNCHANGED <<now, rows, last, net>>

\* Killed without a chance to report.
Killed(p) ==
    /\ run[p].pc \notin {"idle", "done"}
    /\ Exit(p)
    /\ UNCHANGED <<now, rows, last, net>>

-----------------------------------------------------------------------------
(* The server: getConfig, postStatus.  A reply reaches a process only if   *)
(* it still waits; each handler below has the reply delivered or lost.     *)

\* Mutant: a status the table does not admit.
Interrupt(x) == [x EXCEPT !.status = "interrupted", !.finished = now]

\* finished_at is the time of the sweep.
Fail(x) == [x EXCEPT !.status = "failed", !.finished = now]

\* Mutant: the statement names the client alone.
FailAll(S) == {Fail(x) : x \in S}

\* Mutant: the handler clears nothing.
FailNone(S) == S

\* MarkClientRunningRunFailed
FailRunning(S) == {IF x.status = "running" THEN Fail(x) ELSE x : x \in S}

\* Mutant: the row is stamped on arrival.
RowOnArrival(m) ==
    [id |-> last + 1, by |-> m.from, status |-> m.kind,
     started |-> now, finished |-> m.finished]

\* RecordRun: the row says when the client started, not when it was inserted.
RowOf(m) ==
    [id |-> last + 1, by |-> m.from, status |-> m.kind,
     started |-> m.started, finished |-> m.finished]

\* An error of the update is logged and the configuration is sent anyway.
GetConfig(m, cleared) ==
    /\ m.kind = "config"
    /\ rows' = IF cleared THEN FailRunning(rows) ELSE rows
    /\ net' = net \ {m}
    /\ UNCHANGED <<now, last, run>>

\* The same, and the process goes on to report that it runs.
GetConfigReply(m, cleared) ==
    /\ m.kind = "config" /\ run[m.from].pc = "config"
    /\ rows' = IF cleared THEN FailRunning(rows) ELSE rows
    /\ net' = (net \ {m}) \cup
        {[from |-> m.from, kind |-> "running", id |-> NoRun,
          started |-> now, finished |-> Never]}
    /\ run' = [run EXCEPT ![m.from].pc = "running", ![m.from].began = now]
    /\ UNCHANGED <<now, last>>

\* The insert path of postStatus.
Inserts(m) ==
    /\ m.kind # "config" /\ m.id = NoRun
    /\ rows' = rows \cup {RowOf(m)}
    /\ last' = last + 1
    /\ net' = net \ {m}

\* The update path; without such a row the process gets an error.
Updates(m) ==
    /\ m.kind \in Outcome /\ m.id # NoRun
    /\ \E x \in rows : x.id = m.id
    /\ rows' = {IF x.id = m.id
                THEN [x EXCEPT !.status = m.kind, !.finished = m.finished]
                ELSE x : x \in rows}
    /\ net' = net \ {m}
    /\ UNCHANGED last

PostStatus(m) ==
    /\ Inserts(m) \/ Updates(m)
    /\ UNCHANGED <<now, run>>

\* The reply to the running report is the id of the row.
PostRunningReply(m) ==
    /\ m.kind = "running" /\ run[m.from].pc = "running"
    /\ Inserts(m)
    /\ run' = [run EXCEPT ![m.from].pc = "backup", ![m.from].began = now,
                          ![m.from].id = last']
    /\ UNCHANGED now

PostOutcomeReply(m) ==
    /\ m.kind \in Outcome /\ run[m.from].pc = "report"
    /\ Inserts(m) \/ Updates(m)
    /\ run' = [run EXCEPT ![m.from].pc = "done", ![m.from].id = NoRun,
                          ![m.from].acked = TRUE]
    /\ UNCHANGED now

Handle(m) ==
    \/ \E cleared \in BOOLEAN : GetConfig(m, cleared) \/ GetConfigReply(m, cleared)
    \/ PostStatus(m) \/ PostRunningReply(m) \/ PostOutcomeReply(m)

\* On the way, by a failed authentication, or by an error of the store.
Lost(m) ==
    /\ net' = net \ {m}
    /\ UNCHANGED <<now, rows, last, run>>

-----------------------------------------------------------------------------
(* The lifecycle worker, and time.                                         *)

\* Mutant: a run is stale an hour early.
StaleEarly == {x \in rows : x.status = "running" /\ x.started + StaleTimeout <= now}

\* Mutant: only the latest run of a client is looked at.
StaleLatest ==
    {x \in rows : /\ x.status = "running" /\ x.started + StaleTimeout < now
                  /\ \A y \in rows : y.started <= x.started}

Stale == {x \in rows : x.status = "running" /\ x.started + StaleTimeout < now}

MarkStaleRunsFailed ==
    /\ Stale # {}
    /\ rows' = (rows \ Stale) \cup {Fail(x) : x \in Stale}
    /\ UNCHANGED <<now, last, net, run>>

\* RunsKeepDays is never 0: the worker replaces that by the default.
PruneRuns ==
    /\ \E x \in rows : x.started + Keep < now
    /\ rows' = {x \in rows : x.started + Keep >= now}
    /\ UNCHANGED <<now, last, net, run>>

Tick ==
    /\ now < MaxTime
    /\ \A p \in Proc : HoldsLock(p) => now < run[p].since + MaxRun
    /\ now' = now + 1
    /\ UNCHANGED <<rows, last, net, run>>

Common ==
    \/ Tick \/ MarkStaleRunsFailed \/ PruneRuns
    \/ \E m \in net : Lost(m)
    \/ \E p \in Proc :
        \/ StartRun(p) \/ StartOverlap(p)
        \/ \E outcome \in Outcome : BackupEnds(p, outcome)

Next ==
    \/ Common
    \/ \E p \in Proc : GiveUp(p) \/ Killed(p)
    \/ \E m \in net : Handle(m)

Spec == Init /\ [][Next]_vars

\* No request outlives the wait for its reply, and the store does not fail.
Awaited(p) == \E m \in net : m.from = p

HandleInTime(m) ==
    \/ GetConfig(m, TRUE) \/ GetConfigReply(m, TRUE)
    \/ PostStatus(m) \/ PostRunningReply(m) \/ PostOutcomeReply(m)

PromptNext ==
    \/ Common
    \/ \E p \in Proc : ~Awaited(p) /\ (GiveUp(p) \/ Killed(p))
    \/ \E m \in net : HandleInTime(m)

PromptSpec == Init /\ [][PromptNext]_vars

\* The clock goes on, and the lifecycle worker is a timer.
FairSpec == Spec /\ WF_vars(Tick) /\ WF_vars(MarkStaleRunsFailed)

-----------------------------------------------------------------------------
(* DeriveHealth of the latest run.                                         *)

\* Rows that started at the same instant have no order.
LatestRuns == {x \in rows : \A y \in rows : y.started <= x.started}

DeriveHealth(x) ==
    CASE x.status = "running" ->
            IF x.started + ShownRunning < now THEN "stale" ELSE "running"
      [] x.status = "failed" -> "failed"
      [] x.status = "ok" /\ Interval > 0 /\ x.finished + 2 * Interval < now -> "stale"
      [] OTHER -> "ok"

Health == IF rows = {} THEN {"never"} ELSE {DeriveHealth(x) : x \in LatestRuns}

-----------------------------------------------------------------------------
(* Properties.                                                             *)

RunStates ==
    [pc: {"idle", "config", "running", "backup", "report", "overlap", "done"},
     since: Time \cup {Never}, began: Time \cup {Never}, id: Nat,
     outcome: Outcome, acked: BOOLEAN]

\* Every variable holds a value the code can store in it.
TypeOK ==
    /\ now \in Time
    /\ rows \subseteq Row
    /\ last \in Nat
    /\ net \subseteq Request
    /\ run \in [Proc -> RunStates]

\* An outcome the server confirmed stays on record until it is pruned by age:
\* no sweep, later run or late message takes it back.
ConfirmedOutcomesStay ==
    \A p \in Proc :
        run[p].acked /\ run[p].since + Keep >= now =>
            \E x \in rows : x.by = p /\ x.status = run[p].outcome

\* A process is live from its running report until the server has its
\* outcome.
Live(p) ==
    \/ run[p].pc \in {"running", "backup"}
    \/ run[p].pc = "report" /\ Awaited(p)

\* A live run is not shown as failed: neither the sweep nor the start of
\* another run takes it for an orphan.
LiveRunNotFailed ==
    \A x \in rows : Live(x.by) => x.status = "running"

\* At most one run of a client is on record as running.
OneRunningRow ==
    \A x, y \in rows : x.status = "running" /\ y.status = "running" => x = y

\* Among the runs that took the lock, the live one is the latest.
LiveRunIsLatest ==
    \A p \in Proc : \A x, y \in rows :
        /\ run[p].pc = "backup" /\ x.id = run[p].id
        /\ y.status # "overlap"
        => y.started <= x.started

\* No row stays "running" for ever, whatever was lost on the way.
RunningRowsEnd ==
    \A p \in Proc :
        (\E x \in rows : x.by = p /\ x.status = "running"
                            /\ x.started + StaleTimeout < MaxTime)
            ~> ~\E x \in rows : x.by = p /\ x.status = "running"

\* "ok" on the dashboard: some run succeeded within the expected cadence.
OkMeansRecentSuccess ==
    Health = {"ok"} =>
        \E x \in rows :
            x.status = "ok" /\ (Interval > 0 => x.finished + 2 * Interval >= now)
=============================================================================
