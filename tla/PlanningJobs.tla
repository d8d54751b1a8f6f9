------------------------------ MODULE PlanningJobs ------------------------------
(***************************************************************************)
(* Background work of the coordinator: how a request becomes a durable job, *)
(* how the single worker thread carries it out, what it publishes, and what *)
(* a stop, a crash and a start make of it (src/ekt/api/service.py over      *)
(* src/ekt/storage/store.py).                                               *)
(*                                                                         *)
(* One Store.transaction is one action.  Everything between transactions    *)
(* interleaves: HTTP handlers run in a thread pool, the executor has one    *)
(* worker, _update_job reads a version in one transaction and writes in     *)
(* another.  Any step of the worker may raise: a provider error, a missing  *)
(* file, an id collision, or SQLite busy longer than its timeout.           *)
(***************************************************************************)
EXTENDS Integers, Sequences, FiniteSets, TLC

CONSTANTS
    Handlers,       \* request threads of the web server
    Choices,        \* data of a request that its digest tells apart (dates, policy, overrides)
    Keys,           \* idempotency keys the clients use
    NoKey,          \* a snapshot request may come without a key
    SnapshotIds,    \* identifiers the snapshot provider gives to its results
    ForecastIds,    \* identifiers the forecast provider gives to its results
    Contents,       \* contents of an artifact that its digest tells apart
    Events,         \* reviewable sales
    Labels,         \* labels of a review
    Role,           \* EKT_DEMO_ROLE of the coordinator
    MaxJobs         \* BOUND: jobs ever accepted

VARIABLES
    up,             \* the coordinator process: "up", "stopping" (Service.close) or "down"
    jobs,           \* table items, kind "jobs", in order of creation
    reservations,   \* table idempotency
    snapshots,      \* table items, kind "snapshots": id -> content
    forecasts,      \* table items, kind "forecasts": id -> content
    published,      \* runs whose proposals are in table items
    audit,          \* table audit_events, by job, in sequence
    handlers,       \* memory: what each handler still has to do for the job it created
    queue,          \* memory: jobs submitted to the executor
    worker,         \* memory: what the worker thread is doing
    abandoned       \* HISTORY: jobs whose handler or worker gave up on them in this process

tables == <<jobs, reservations, snapshots, forecasts, published, audit>>
memory == <<handlers, queue, worker, abandoned>>
vars == <<up, tables, memory>>

NoResult == [id |-> "none", content |-> "none"]
NoJob == 0
IdleHandler == [job |-> NoJob, review |-> FALSE]
IdleWorker == [job |-> NoJob, step |-> "idle", seen |-> 0, result |-> NoResult]

Open == {"queued", "running"}
OpenJobs == {i \in DOMAIN jobs : jobs[i].status \in Open}

Init ==
    /\ up = "up"
    /\ jobs = <<>> /\ reservations = {} /\ audit = <<>>
    /\ snapshots = <<>> /\ forecasts = <<>> /\ published = {}
    /\ handlers = [h \in Handlers |-> IdleHandler]
    /\ queue = <<>> /\ worker = IdleWorker /\ abandoned = {}

--------------------------------------------------------------------------------
(* Accepting a request: _new_job, one transaction.                          *)

NewJob(kind, request) ==
    [kind |-> kind, request |-> request, status |-> "queued", version |-> 1,
     result |-> NoResult, error |-> "none"]

\* Faulty variant: the reservation is written but never looked up.
AnyKeyIsFree(scope, key) == TRUE

\* reserve_idempotency: a key used before answers with the first job, or is a conflict.
KeyIsFree(scope, key) == ~ \E r \in reservations : r.scope = scope /\ r.key = key

\* Creates the job and its reservation together; the handler then holds the new id.
\* A replayed key creates nothing and its handler submits nothing: no step.
CreateJob(h, kind, key, request, review) ==
    /\ up = "up" /\ handlers[h] = IdleHandler /\ Len(jobs) < MaxJobs
    /\ key = NoKey \/ KeyIsFree(kind, key)
    /\ jobs' = Append(jobs, NewJob(kind, request))
    /\ audit' = Append(audit, <<>>)
    /\ reservations' = IF key = NoKey THEN reservations ELSE reservations \cup
            {[scope |-> kind, key |-> key, request |-> request, job |-> Len(jobs) + 1]}
    /\ handlers' = [handlers EXCEPT ![h] = [job |-> Len(jobs) + 1, review |-> review]]
    /\ UNCHANGED <<up, snapshots, forecasts, published, queue, worker, abandoned>>

\* Only the reads that a handler makes before its transaction guard it; what they find
\* (a stored snapshot, a succeeded run) stays as it was found.
StartSnapshot(h, key, choice) ==
    CreateJob(h, "snapshot", key, [choice |-> choice], FALSE)

\* Which label each reviewed sale was given.
Decisions == UNION {[events -> Labels] : events \in SUBSET Events}

StartRun(h, key, snapshot, choice, decisions) ==
    /\ snapshot \in DOMAIN snapshots
    /\ DOMAIN decisions # {} => Role = "approver"
    /\ CreateJob(h, "run", key, [snapshot |-> snapshot, choice |-> choice, reviews |-> decisions], FALSE)

ReadyRun(base) == base \in DOMAIN jobs /\ jobs[base].kind = "run" /\ jobs[base].status = "succeeded"

StartScenario(h, key, base, choice) ==
    /\ ReadyRun(base)
    /\ CreateJob(h, "scenario", key, [base |-> base, choice |-> choice], FALSE)

\* A review starts a new run of the same snapshot and policy: later decisions
\* replace earlier ones on the same sale.
ReviewEvents(h, key, base, decision) ==
    /\ Role = "approver" /\ ReadyRun(base)
    /\ CreateJob(h, "run", <<"review", base, key>>,
            [jobs[base].request EXCEPT !.reviews = decision @@ @], TRUE)

\* append_audit of review_events, a transaction of its own.
AuditReview(h) ==
    /\ handlers[h].review
    /\ audit' = [audit EXCEPT ![handlers[h].job] = Append(@, "classification_review")]
    /\ handlers' = [handlers EXCEPT ![h].review = FALSE]
    /\ UNCHANGED <<up, jobs, reservations, snapshots, forecasts, published, queue, worker, abandoned>>

\* ... which fails when the database stays locked: the job is accepted but never queued.
ReviewAuditFails(h) ==
    /\ handlers[h].review
    /\ abandoned' = abandoned \cup {handlers[h].job}
    /\ handlers' = [handlers EXCEPT ![h] = IdleHandler]
    /\ UNCHANGED <<up, tables, queue, worker>>

\* Faulty variant: the review run is queued before its audit event is written.
MayAlwaysSubmit(h) == handlers[h].job # NoJob

ReadyToSubmit(h) == handlers[h].job # NoJob /\ ~ handlers[h].review

Submit(h) ==
    /\ ReadyToSubmit(h)
    /\ queue' = Append(queue, handlers[h].job)
    /\ handlers' = [handlers EXCEPT ![h] = IdleHandler]
    /\ UNCHANGED <<up, tables, worker, abandoned>>

--------------------------------------------------------------------------------
(* The worker: _guarded around _build_snapshot, _run or _scenario.          *)

\* The transactions of each kind of work in order, named by the stage they store;
\* "publish" is the transaction that makes artifacts visible.
Following ==
    [snapshot |-> [loading |-> "publish", publish |-> "complete"],
     run      |-> [loading |-> "forecast", forecast |-> "planning", planning |-> "publish"],
     scenario |-> [loading |-> "replanning", replanning |-> "complete"]]

UpdateStages == {"loading", "forecast", "planning", "replanning", "complete", "failed"}

Job == jobs[worker.job]

TakeJob ==
    /\ worker = IdleWorker /\ queue # <<>>
    /\ worker' = [IdleWorker EXCEPT !.job = Head(queue), !.step = "loading"]
    /\ queue' = Tail(queue)
    /\ UNCHANGED <<up, tables, handlers, abandoned>>

\* First half of _update_job: the current version is read outside the transaction.
ReadJob ==
    /\ worker.step \in UpdateStages /\ worker.seen = 0
    /\ worker' = [worker EXCEPT !.seen = Job.version]
    /\ UNCHANGED <<up, tables, handlers, queue, abandoned>>

\* A scenario reports on the forecast of its base run.
ResultOfWork ==
    IF Job.kind = "scenario"
    THEN LET id == jobs[Job.request.base].result.id IN [id |-> id, content |-> forecasts[id]]
    ELSE worker.result

UpdatedJob ==
    LET next == [Job EXCEPT !.version = @ + 1]
    IN  CASE worker.step = "loading"  -> [next EXCEPT !.status = "running"]
          [] worker.step = "complete" -> [next EXCEPT !.status = "succeeded", !.result = ResultOfWork]
          [] worker.step = "failed"   -> [next EXCEPT !.status = "failed", !.error = "failure"]
          [] OTHER -> next

\* Second half of _update_job: mutate_item under the version that was read.
UpdateJob ==
    /\ worker.step \in UpdateStages /\ worker.seen = Job.version
    /\ jobs' = [jobs EXCEPT ![worker.job] = UpdatedJob]
    /\ worker' = IF worker.step \in {"complete", "failed"} THEN IdleWorker
                 ELSE [worker EXCEPT !.step = Following[Job.kind][worker.step], !.seen = 0]
    /\ UNCHANGED <<up, reservations, snapshots, forecasts, published, audit, handlers, queue, abandoned>>

\* Faulty variant: a stored artifact of the same id is not compared.
AnyContentFits(table, id, content) == TRUE

\* An artifact id that is taken must stand for the same content.
ContentFits(table, id, content) == id \in DOMAIN table => table[id] = content

Stored(table, id, content) == [i \in {id} \cup DOMAIN table |-> IF i = id THEN content ELSE table[i]]

\* The snapshot is stored in one transaction, the job succeeds in the next one.
PublishSnapshot(id, content) ==
    /\ worker.step = "publish" /\ Job.kind = "snapshot"
    /\ ContentFits(snapshots, id, content)
    /\ snapshots' = Stored(snapshots, id, content)
    /\ worker' = [worker EXCEPT !.step = "complete", !.result = [id |-> id, content |-> content]]
    /\ UNCHANGED <<up, jobs, reservations, forecasts, published, audit, handlers, queue, abandoned>>

\* Faulty variant: the job is not updated in the transaction that publishes the results.
PublishedJobStillRunning(id, content) ==
    [Job EXCEPT !.version = @ + 1, !.result = [id |-> id, content |-> content]]

PublishedJob(id, content) ==
    [Job EXCEPT !.version = @ + 1, !.status = "succeeded", !.result = [id |-> id, content |-> content]]

\* Forecast, proposals and the success of the run are one transaction.
PublishRun(id, content) ==
    /\ worker.step = "publish" /\ Job.kind = "run"
    /\ ContentFits(forecasts, id, content)
    /\ forecasts' = Stored(forecasts, id, content)
    /\ published' = published \cup {worker.job}
    /\ jobs' = [jobs EXCEPT ![worker.job] = PublishedJob(id, content)]
    /\ worker' = IdleWorker
    /\ UNCHANGED <<up, reservations, snapshots, audit, handlers, queue, abandoned>>

\* Anything raised before the job is finished lands in the except clause of _guarded.
Raise ==
    /\ worker # IdleWorker /\ worker.step # "failed"
    /\ worker' = [worker EXCEPT !.step = "failed", !.seen = 0, !.result = NoResult]
    /\ UNCHANGED <<up, tables, handlers, queue, abandoned>>

\* An exception while the failure is being stored stays in the future nobody reads:
\* the job keeps its status until the next start.
FailureIsLost ==
    /\ worker.step = "failed"
    /\ worker' = IdleWorker
    /\ abandoned' = abandoned \cup {worker.job}
    /\ UNCHANGED <<up, tables, handlers, queue>>

WorkerStep ==
    \/ TakeJob \/ ReadJob \/ UpdateJob
    \/ \E id \in SnapshotIds, content \in Contents : PublishSnapshot(id, content)
    \/ \E id \in ForecastIds, content \in Contents : PublishRun(id, content)
    \/ Raise \/ FailureIsLost

--------------------------------------------------------------------------------
(* Stop, crash and start of the coordinator.                                *)

ClearMemory ==
    /\ handlers' = [h \in Handlers |-> IdleHandler]
    /\ queue' = <<>> /\ worker' = IdleWorker /\ abandoned' = {}

\* A killed process loses its memory; a transaction that was open is rolled back.
Crash ==
    /\ up # "down" /\ up' = "down"
    /\ ClearMemory
    /\ UNCHANGED tables

\* The server lets running requests finish, then Service.close waits for the executor.
BeginShutdown ==
    /\ up = "up" /\ \A h \in Handlers : handlers[h] = IdleHandler
    /\ up' = "stopping"
    /\ UNCHANGED <<tables, memory>>

\* Faulty variant: executor.shutdown(wait=False).
NothingToWaitFor == TRUE

Drained == queue = <<>> /\ worker = IdleWorker

FinishShutdown ==
    /\ up = "stopping" /\ Drained
    /\ up' = "down"
    /\ UNCHANGED <<tables, memory>>

\* Faulty variant: only work that had begun is recovered.
OnlyRunningInterrupted(i) == jobs[i].status = "running"

\* Faulty variant: work that had failed is recovered again at every start.
AnythingNotSucceeded(i) == jobs[i].status # "succeeded"

Interrupted(i) == jobs[i].status \in Open

\* Faulty variant: the interrupted job is put back instead of being failed.
RequeuedJob(i) == [jobs[i] EXCEPT !.status = "queued", !.version = @ + 1]

RecoveredJob(i) ==
    [jobs[i] EXCEPT !.status = "failed", !.error = "WORKER_RESTARTED", !.version = @ + 1]

\* recover_running_jobs, before the first request is served.
Start ==
    /\ up = "down" /\ up' = "up"
    /\ jobs' = [i \in DOMAIN jobs |-> IF Interrupted(i) THEN RecoveredJob(i) ELSE jobs[i]]
    /\ audit' = [i \in DOMAIN audit |->
                    IF Interrupted(i) THEN Append(audit[i], "interrupted_on_restart") ELSE audit[i]]
    /\ abandoned' = {}
    /\ UNCHANGED <<reservations, snapshots, forecasts, published, handlers, queue, worker>>

HandlerStep(h) == AuditReview(h) \/ ReviewAuditFails(h) \/ Submit(h)

Request(h) ==
    \/ \E key \in Keys \cup {NoKey}, choice \in Choices : StartSnapshot(h, key, choice)
    \/ \E key \in Keys, choice \in Choices :
          \/ \E snapshot \in DOMAIN snapshots, decisions \in Decisions :
                StartRun(h, key, snapshot, choice, decisions)
          \/ \E base \in DOMAIN jobs : StartScenario(h, key, base, choice)
    \/ \E key \in Keys, base \in DOMAIN jobs, decision \in {d \in Decisions : DOMAIN d # {}} :
          ReviewEvents(h, key, base, decision)

Next ==
    \/ \E h \in Handlers : Request(h) \/ HandlerStep(h)
    \/ WorkerStep
    \/ Crash \/ BeginShutdown \/ FinishShutdown \/ Start

Spec == Init /\ [][Next]_vars

\* Threads keep running and the supervisor starts a stopped coordinator again
\* (compose.yaml: restart: unless-stopped).  Requests, crashes and stops owe nothing.
Fairness ==
    /\ WF_vars(WorkerStep) /\ WF_vars(Start)
    /\ \A h \in Handlers : WF_vars(HandlerStep(h))

FairSpec == Spec /\ Fairness

--------------------------------------------------------------------------------
(* Properties.                                                             *)

Results == [id : SnapshotIds \cup ForecastIds \cup {"none"}, content : Contents \cup {"none"}]

TypeOK ==
    /\ up \in {"up", "stopping", "down"}
    /\ \A i \in DOMAIN jobs :
          /\ jobs[i].kind \in DOMAIN Following
          /\ jobs[i].status \in Open \cup {"succeeded", "failed"}
          /\ jobs[i].version \in 1..5
          /\ jobs[i].result \in Results
          /\ jobs[i].error \in {"none", "failure", "WORKER_RESTARTED"}
    /\ DOMAIN audit = DOMAIN jobs
    /\ DOMAIN snapshots \subseteq SnapshotIds /\ DOMAIN forecasts \subseteq ForecastIds
    /\ queue \in Seq(DOMAIN jobs)
    /\ \A h \in Handlers : handlers[h].job \in DOMAIN jobs \cup {NoJob}
    /\ worker.job \in DOMAIN jobs \cup {NoJob}
    /\ worker.step \in UpdateStages \cup {"publish", "idle"}
    /\ worker.seen \in 0..5 /\ worker.result \in Results

Runs == {i \in DOMAIN jobs : jobs[i].kind = "run"}

\* The proposals of a run, its forecast and its success are visible together or not at
\* all: no succeeded run without them, none of them left by a run that failed or was
\* interrupted half-way (the publishing transaction of Service._run).
PublishedTogether ==
    /\ \A i \in Runs : jobs[i].status = "succeeded" <=> i \in published
    /\ \A f \in DOMAIN forecasts : \E i \in published : jobs[i].result.id = f

\* Whatever a succeeded job reports is what is stored under the id it names, also when
\* the provider gave that id before; a scenario rests on the forecast of its base run
\* (collision checks of _build_snapshot and _run; forecast_hash of the job).
ResultsResolve ==
    \A i \in DOMAIN jobs :
        jobs[i].status = "succeeded" =>
            LET result == jobs[i].result
                table == IF jobs[i].kind = "snapshot" THEN snapshots ELSE forecasts
            IN  /\ result.id \in DOMAIN table /\ table[result.id] = result.content
                /\ jobs[i].kind = "scenario" =>
                      result = jobs[jobs[i].request.base].result

Owners(i) ==
    Cardinality({n \in DOMAIN queue : queue[n] = i})
      + Cardinality({h \in Handlers : handlers[h].job = i})
      + (IF worker.job = i THEN 1 ELSE 0)

\* While the coordinator is up, every unfinished job has exactly one owner that will
\* finish it - its handler, one place in the queue or the worker - unless its owner gave
\* up on it; no finished job has one.  A lost submission would leave a job queued for
\* ever, a second one would run it twice (_new_job's created flag, executor.submit,
\* recover_running_jobs).
OpenJobsAreOwned ==
    \A i \in DOMAIN jobs :
        Owners(i) = IF up # "down" /\ i \in OpenJobs \ abandoned THEN 1 ELSE 0

\* An idempotency key leads to one job: the one it was first used for.
KeyNamesOneJob ==
    \A r, q \in reservations :
        /\ jobs[r.job].kind = r.scope /\ jobs[r.job].request = r.request
        /\ r.scope = q.scope /\ r.key = q.key => r = q
        /\ r.job = q.job => r = q

Count(i, event) == Cardinality({n \in DOMAIN audit[i] : audit[i][n] = event})

\* A run that was started by a review is under way only after the review was audited,
\* and a job carries WORKER_RESTARTED exactly when one interruption was audited
\* (review_events, recover_running_jobs).
AuditExplainsJobs ==
    /\ \A r \in reservations :
          (r.key \notin Keys /\ jobs[r.job].status \in {"running", "succeeded"}) =>
              Count(r.job, "classification_review") = 1
    /\ \A i \in DOMAIN jobs :
          Count(i, "interrupted_on_restart") = IF jobs[i].error = "WORKER_RESTARTED" THEN 1 ELSE 0

\* The gap between the two halves of _update_job is harmless: nobody changes a job while
\* the worker holds the version it read.
NoUpdateConflict == worker.seen # 0 => worker.seen = jobs[worker.job].version

\* A finished job never changes again: recovery leaves it alone, no late worker
\* overwrites it, so what a buyer was shown as final is final.
FinishedJobsStay ==
    [][\A i \in DOMAIN jobs : jobs[i].status \notin Open => jobs'[i] = jobs[i]]_vars

\* An accepted job does not hang: it is finished, if need be by the next start, or its
\* owner gave up on it and the coordinator has not been started since.
OpenJobsFinish ==
    \A i \in 1..MaxJobs : (i \in OpenJobs) ~> (i \notin OpenJobs \/ i \in abandoned)

\* docs/mvp/contracts.md:165: "результат публикуется atomically" (the result is published
\* atomically).  Once no work is in progress, a stored snapshot is the result of an
\* import that succeeded.
SnapshotsPublishedAtomically ==
    OpenJobs = {} =>
        \A id \in DOMAIN snapshots : \E i \in DOMAIN jobs :
            jobs[i].kind = "snapshot" /\ jobs[i].status = "succeeded" /\ jobs[i].result.id = id

================================================================================
