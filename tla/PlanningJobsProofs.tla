---------------------------- MODULE PlanningJobsProofs ----------------------------
(***************************************************************************)
(* For any handlers, keys and identifiers: a key names one job, the worker  *)
(* never meets another version than the one it read, and a finished job     *)
(* never changes.  What carries the last two is who has a job: an open job  *)
(* is in one hand at most - its handler's, one place of the queue or the    *)
(* worker's - and a finished one in nobody's.                               *)
(***************************************************************************)
EXTENDS PlanningJobs, FiniteSetTheorems, SequenceTheorems, TLAPS

Queued == {queue[n] : n \in DOMAIN queue}
InHand == {handlers[h].job : h \in Handlers} \ {NoJob}
AtWork == {worker.job} \ {NoJob}

JobsAreASequence == \E S : jobs \in Seq(S)

KeysAreSound ==
    /\ \A r \in reservations : r.job \in DOMAIN jobs
    /\ KeyNamesOneJob

OneHand ==
    /\ DOMAIN handlers = Handlers
    /\ queue \in Seq(DOMAIN jobs)
    /\ Queued \cup InHand \cup AtWork \subseteq OpenJobs
    /\ \A m, n \in DOMAIN queue : queue[m] = queue[n] => m = n
    /\ \A g, h \in Handlers : handlers[g].job = handlers[h].job /\ handlers[g].job # NoJob => g = h
    /\ Queued \cap InHand = {} /\ Queued \cap AtWork = {} /\ InHand \cap AtWork = {}

WorkerKnowsItsJob ==
    /\ worker.job = NoJob => worker = IdleWorker
    /\ NoUpdateConflict

\* A stop lets the handlers finish first.
StoppedIsIdle ==
    /\ up # "up" => \A h \in Handlers : handlers[h] = IdleHandler
    /\ up = "down" => queue = <<>> /\ worker = IdleWorker

IInv == JobsAreASequence /\ KeysAreSound /\ OneHand /\ WorkerKnowsItsJob /\ StoppedIsIdle

LEMMA InitHolds == Init => IInv
<1> SUFFICES ASSUME Init PROVE IInv
    OBVIOUS
<1>1. jobs \in Seq({}) /\ DOMAIN jobs = {} /\ queue \in Seq(DOMAIN jobs) /\ DOMAIN queue = {}
    BY EmptySeq DEF Init
<1>2. Queued = {} /\ InHand = {} /\ AtWork = {}
    BY <1>1 DEF Init, Queued, InHand, AtWork, IdleHandler, IdleWorker
<1>3. KeysAreSound
    BY DEF Init, KeysAreSound, KeyNamesOneJob
<1>4. OneHand
    BY <1>1, <1>2 DEF Init, OneHand, IdleHandler
<1>5. WorkerKnowsItsJob
    BY DEF Init, WorkerKnowsItsJob, NoUpdateConflict, IdleWorker
<1> QED BY <1>1, <1>3, <1>4, <1>5 DEF IInv, Init, StoppedIsIdle, JobsAreASequence

LEMMA JobNumbers == JobsAreASequence => Len(jobs) \in Nat /\ DOMAIN jobs = 1 .. Len(jobs)
PROOF BY LenProperties DEF JobsAreASequence

--------------------------------------------------------------------------------
(* What a step may do to the table of jobs.                                 *)

\* Finished jobs stay, and no job changes what it was asked for.
JobsKept ==
    /\ JobsAreASequence'
    /\ DOMAIN jobs' = DOMAIN jobs
    /\ \A i \in DOMAIN jobs :
          /\ jobs'[i].kind = jobs[i].kind /\ jobs'[i].request = jobs[i].request
          /\ jobs[i].status \notin Open => jobs'[i] = jobs[i]

\* A new job comes last.
JobAdded(job) ==
    /\ JobsAreASequence'
    /\ DOMAIN jobs' = DOMAIN jobs \cup {Len(jobs) + 1}
    /\ Len(jobs) + 1 \notin DOMAIN jobs
    /\ \A i \in DOMAIN jobs : jobs'[i] = jobs[i]
    /\ jobs'[Len(jobs) + 1] = job

LEMMA SameJobs == ASSUME IInv, UNCHANGED jobs PROVE JobsKept
PROOF BY DEF IInv, JobsKept, JobsAreASequence

LEMMA AppendedJob ==
    ASSUME IInv, NEW job, jobs' = Append(jobs, job)
    PROVE  JobAdded(job)
<1>1. PICK S : jobs \in Seq(S)
    BY DEF IInv, JobsAreASequence
<1> DEFINE T == S \cup {job}
<1>2. jobs \in Seq(T) /\ job \in T
    BY <1>1, SeqMonotonic
<1>3. Len(jobs) \in Nat /\ DOMAIN jobs = 1 .. Len(jobs)
    BY <1>2, LenProperties
<1>4. /\ jobs' \in Seq(T) /\ Len(jobs') = Len(jobs) + 1
      /\ \A i \in 1 .. Len(jobs) : jobs'[i] = jobs[i]
      /\ jobs'[Len(jobs) + 1] = job
    BY <1>2, AppendProperties
<1>5. DOMAIN jobs' = 1 .. Len(jobs) + 1
    BY <1>4, LenProperties
<1>6. DOMAIN jobs' = DOMAIN jobs \cup {Len(jobs) + 1} /\ Len(jobs) + 1 \notin DOMAIN jobs
    BY <1>3, <1>5
<1> QED BY <1>3, <1>4, <1>6 DEF JobAdded, JobsAreASequence

\* The worker changes its own job, which is open.
LEMMA WorkersJobChanged ==
    ASSUME IInv, worker.job # NoJob, NEW job, jobs' = [jobs EXCEPT ![worker.job] = job],
           job.kind = Job.kind, job.request = Job.request
    PROVE  /\ JobsKept /\ worker.job \in OpenJobs
           /\ jobs'[worker.job] = job
           /\ \A i \in DOMAIN jobs : i # worker.job => jobs'[i] = jobs[i]
<1>1. PICK S : jobs \in Seq(S)
    BY DEF IInv, JobsAreASequence
<1> DEFINE T == S \cup {job}
<1>2. jobs \in Seq(T) /\ job \in T
    BY <1>1, SeqMonotonic
<1>3. DOMAIN jobs = 1 .. Len(jobs)
    BY <1>2, LenProperties
<1>4. worker.job \in OpenJobs
    BY DEF IInv, OneHand, AtWork
<1>5. worker.job \in 1 .. Len(jobs) /\ Job.status \in Open
    BY <1>3, <1>4 DEF OpenJobs, Job
<1>6. /\ jobs' \in Seq(T) /\ Len(jobs') = Len(jobs)
      /\ \A i \in 1 .. Len(jobs) : jobs'[i] = IF i = worker.job THEN job ELSE jobs[i]
    BY <1>2, <1>5, ExceptSeq
<1>7. DOMAIN jobs' = DOMAIN jobs
    BY <1>3, <1>6, LenProperties
<1> QED BY <1>3, <1>4, <1>5, <1>6, <1>7 DEF JobsKept, JobsAreASequence, Job

LEMMA RecoveredJobs == ASSUME IInv, Start PROVE JobsKept
<1>1. Len(jobs) \in Nat /\ DOMAIN jobs = 1 .. Len(jobs)
    BY JobNumbers DEF IInv
<1> DEFINE job(i) == IF Interrupted(i) THEN RecoveredJob(i) ELSE jobs[i]
<1> DEFINE T == {job(i) : i \in 1 .. Len(jobs)}
<1>2. jobs' = [i \in 1 .. Len(jobs) |-> job(i)]
    BY <1>1 DEF Start
<1>3. jobs' \in [1 .. Len(jobs) -> T]
    BY <1>2
<1>4. jobs' \in Seq(T)
    BY <1>1, <1>3
<1>5. \A i \in 1 .. Len(jobs) :
          /\ job(i).kind = jobs[i].kind /\ job(i).request = jobs[i].request
          /\ jobs[i].status \notin Open => job(i) = jobs[i]
    BY DEF Interrupted, RecoveredJob
<1>6. \A i \in 1 .. Len(jobs) :
          /\ jobs'[i].kind = jobs[i].kind /\ jobs'[i].request = jobs[i].request
          /\ jobs[i].status \notin Open => jobs'[i] = jobs[i]
    BY <1>2, <1>5
<1> QED BY <1>1, <1>2, <1>4, <1>6 DEF JobsKept, JobsAreASequence

LEMMA KeysKept == ASSUME IInv, JobsKept, UNCHANGED reservations PROVE KeysAreSound'
PROOF BY DEF IInv, JobsKept, KeysAreSound, KeyNamesOneJob

--------------------------------------------------------------------------------
(* Handlers.                                                                *)

LEMMA CreateJobKeys ==
    ASSUME IInv, NEW h \in Handlers, NEW kind, NEW key, NEW request, NEW review,
           CreateJob(h, kind, key, request, review)
    PROVE  KeysAreSound'
<1> DEFINE n == Len(jobs) + 1
<1> DEFINE new == [scope |-> kind, key |-> key, request |-> request, job |-> n]
<1>1. JobAdded(NewJob(kind, request))
    BY AppendedJob DEF CreateJob
<1>2. /\ jobs'[n].kind = kind /\ jobs'[n].request = request /\ n \in DOMAIN jobs' /\ n \notin DOMAIN jobs
      /\ \A i \in DOMAIN jobs : i \in DOMAIN jobs' /\ jobs'[i] = jobs[i]
    BY <1>1 DEF JobAdded, NewJob
<1>3. \A r \in reservations : r.job \in DOMAIN jobs /\ r.job # n
    BY <1>2 DEF IInv, KeysAreSound
<1>4. CASE reservations' = reservations
    BY <1>2, <1>3, <1>4 DEF IInv, KeysAreSound, KeyNamesOneJob
<1>5. CASE reservations' = reservations \cup {new} /\ KeyIsFree(kind, key)
    <2>1. \A r \in reservations : ~ (r.scope = new.scope /\ r.key = new.key)
        BY <1>5 DEF KeyIsFree
    <2>2. \A r \in reservations' : r.job \in DOMAIN jobs' /\ jobs'[r.job].kind = r.scope /\ jobs'[r.job].request = r.request
        BY <1>2, <1>3, <1>5 DEF IInv, KeysAreSound, KeyNamesOneJob
    <2>3. \A r, q \in reservations' :
              /\ r.scope = q.scope /\ r.key = q.key => r = q
              /\ r.job = q.job => r = q
        BY <1>3, <1>5, <2>1 DEF IInv, KeysAreSound, KeyNamesOneJob
    <2> QED BY <2>2, <2>3 DEF KeysAreSound, KeyNamesOneJob
<1> QED BY <1>4, <1>5 DEF CreateJob

LEMMA CreateJobStep ==
    ASSUME IInv, NEW h \in Handlers, NEW kind, NEW key, NEW request, NEW review,
           CreateJob(h, kind, key, request, review)
    PROVE  IInv'
<1> DEFINE n == Len(jobs) + 1
<1>1. JobAdded(NewJob(kind, request))
    BY AppendedJob DEF CreateJob
<1>2. /\ jobs'[n].status = "queued" /\ DOMAIN jobs' = DOMAIN jobs \cup {n} /\ n \notin DOMAIN jobs
      /\ \A i \in DOMAIN jobs : jobs'[i] = jobs[i]
    BY <1>1 DEF JobAdded, NewJob
<1>3. OpenJobs' = OpenJobs \cup {n} /\ n \notin OpenJobs /\ n # NoJob
    <2>1. n # NoJob
        BY JobNumbers DEF IInv, NoJob
    <2> QED BY <1>2, <2>1 DEF OpenJobs, Open
<1>4. /\ handlers'[h].job = n /\ DOMAIN handlers' = Handlers
      /\ \A g \in Handlers : g # h => handlers'[g] = handlers[g]
      /\ handlers[h].job = NoJob
    BY DEF CreateJob, IInv, OneHand, IdleHandler
<1>5. InHand' = InHand \cup {n} /\ Queued' = Queued /\ AtWork' = AtWork
    BY <1>3, <1>4 DEF CreateJob, InHand, Queued, AtWork
<1>6. queue' \in Seq(DOMAIN jobs')
    BY <1>2, SeqMonotonic DEF IInv, OneHand, CreateJob
<1>7. \A g \in Handlers : handlers[g].job # n
    BY <1>3 DEF IInv, OneHand, InHand
<1>8. \A f, g \in Handlers : handlers'[f].job = handlers'[g].job /\ handlers'[f].job # NoJob => f = g
    BY <1>4, <1>7 DEF IInv, OneHand
<1>9. OneHand'
    BY <1>3, <1>4, <1>5, <1>6, <1>8 DEF IInv, OneHand, CreateJob
<1>10. WorkerKnowsItsJob'
    BY <1>2 DEF IInv, WorkerKnowsItsJob, NoUpdateConflict, CreateJob, OneHand, AtWork, OpenJobs, IdleWorker
<1> QED BY <1>1, <1>9, <1>10, CreateJobKeys DEF IInv, JobAdded, StoppedIsIdle, CreateJob

\* A submission moves a job from its handler to the end of the queue.
LEMMA SubmitHands ==
    ASSUME IInv, NEW h \in Handlers, Submit(h)
    PROVE  /\ handlers[h].job \in InHand
           /\ Queued' = Queued \cup {handlers[h].job} /\ InHand' = InHand \ {handlers[h].job}
           /\ AtWork' = AtWork
           /\ DOMAIN handlers' = Handlers /\ queue' \in Seq(DOMAIN jobs)
           /\ \A m, n \in DOMAIN queue' : queue'[m] = queue'[n] => m = n
           /\ \A f, g \in Handlers : handlers'[f].job = handlers'[g].job /\ handlers'[f].job # NoJob => f = g
<1> DEFINE i == handlers[h].job
<1>1. /\ DOMAIN handlers' = Handlers /\ handlers'[h] = IdleHandler
      /\ \A g \in Handlers : g # h => handlers'[g] = handlers[g]
    BY DEF Submit, IInv, OneHand
<1>2. i # NoJob /\ i \in InHand /\ i \in DOMAIN jobs /\ queue \in Seq(DOMAIN jobs)
    BY DEF Submit, ReadyToSubmit, InHand, IInv, OneHand, OpenJobs
<1>3. /\ queue' \in Seq(DOMAIN jobs) /\ Len(queue') = Len(queue) + 1
      /\ \A n \in 1 .. Len(queue) : queue'[n] = queue[n]
      /\ queue'[Len(queue) + 1] = i
    BY <1>2, AppendProperties DEF Submit
<1>4. /\ DOMAIN queue = 1 .. Len(queue) /\ Len(queue) \in Nat
      /\ DOMAIN queue' = 1 .. Len(queue) + 1
    BY <1>2, <1>3, LenProperties
<1>5. Queued' = Queued \cup {i}
    BY <1>3, <1>4 DEF Queued
<1>6. InHand' = InHand \ {i}
    <2>1. \A g \in Handlers : g # h => handlers[g].job # i
        BY <1>2 DEF IInv, OneHand
    <2> QED BY <1>1, <2>1 DEF InHand, IdleHandler
<1>7. AtWork' = AtWork
    BY DEF Submit, AtWork
<1>8. \A m, n \in DOMAIN queue' : queue'[m] = queue'[n] => m = n
    <2>1. \A n \in DOMAIN queue : queue[n] # i
        BY <1>2 DEF IInv, OneHand, Queued
    <2> QED BY <1>3, <1>4, <2>1 DEF IInv, OneHand
<1>9. \A f, g \in Handlers : handlers'[f].job = handlers'[g].job /\ handlers'[f].job # NoJob => f = g
    BY <1>1 DEF IInv, OneHand, IdleHandler
<1> QED BY <1>1, <1>2, <1>3, <1>5, <1>6, <1>7, <1>8, <1>9

LEMMA HandlerStepKeeps == ASSUME IInv, NEW h \in Handlers, HandlerStep(h) PROVE IInv' /\ JobsKept
<1>1. JobsKept
    BY SameJobs DEF HandlerStep, AuditReview, ReviewAuditFails, Submit, tables
<1>2. KeysAreSound'
    BY <1>1, KeysKept DEF HandlerStep, AuditReview, ReviewAuditFails, Submit, tables
<1>3. OpenJobs' = OpenJobs /\ DOMAIN jobs' = DOMAIN jobs
    BY DEF HandlerStep, AuditReview, ReviewAuditFails, Submit, tables, OpenJobs
<1>4. WorkerKnowsItsJob'
    BY DEF IInv, WorkerKnowsItsJob, NoUpdateConflict, HandlerStep, AuditReview, ReviewAuditFails, Submit, tables
<1>5. OneHand' /\ StoppedIsIdle'
    <2>1. CASE AuditReview(h)
        <3>1. DOMAIN handlers' = Handlers /\ \A g \in Handlers : handlers'[g].job = handlers[g].job
            BY <2>1 DEF AuditReview, IInv, OneHand
        <3>2. InHand' = InHand /\ Queued' = Queued /\ AtWork' = AtWork
            BY <2>1, <3>1 DEF AuditReview, InHand, Queued, AtWork
        <3>3. up = "up"
            BY <2>1 DEF AuditReview, IInv, StoppedIsIdle, IdleHandler
        <3> QED BY <2>1, <3>1, <3>2, <3>3, <1>3 DEF AuditReview, IInv, OneHand, StoppedIsIdle
    <2>2. CASE ReviewAuditFails(h)
        <3>1. /\ DOMAIN handlers' = Handlers /\ handlers'[h] = IdleHandler
              /\ \A g \in Handlers : g # h => handlers'[g] = handlers[g]
            BY <2>2 DEF ReviewAuditFails, IInv, OneHand
        <3>2. InHand' \subseteq InHand /\ Queued' = Queued /\ AtWork' = AtWork
            BY <2>2, <3>1 DEF ReviewAuditFails, InHand, Queued, AtWork, IdleHandler
        <3>3. \A f, g \in Handlers : handlers'[f].job = handlers'[g].job /\ handlers'[f].job # NoJob => f = g
            BY <3>1 DEF IInv, OneHand, IdleHandler
        <3>4. StoppedIsIdle'
            BY <2>2, <3>1 DEF ReviewAuditFails, IInv, StoppedIsIdle
        <3> QED BY <2>2, <3>1, <3>2, <3>3, <3>4, <1>3 DEF ReviewAuditFails, IInv, OneHand, tables
    <2>3. CASE Submit(h)
        <3>1. up' = "up"
            BY <2>3 DEF Submit, ReadyToSubmit, IInv, StoppedIsIdle, IdleHandler
        <3>2. DOMAIN handlers' = Handlers /\ queue' \in Seq(DOMAIN jobs)
            BY <2>3, SubmitHands
        <3>3. /\ Queued' \cap InHand' = {} /\ Queued' \cap AtWork' = {} /\ InHand' \cap AtWork' = {}
              /\ Queued' \cup InHand' \cup AtWork' \subseteq OpenJobs
            BY <2>3, SubmitHands DEF IInv, OneHand
        <3> QED BY <1>3, <2>3, <3>1, <3>2, <3>3, SubmitHands DEF OneHand, StoppedIsIdle
    <2> QED BY <2>1, <2>2, <2>3 DEF HandlerStep
<1> QED BY <1>1, <1>2, <1>4, <1>5 DEF IInv, JobsKept

--------------------------------------------------------------------------------
(* The worker.                                                              *)

\* The worker goes on with its job, or lets it go for good; the tables of hands that are
\* not its own stay, and so does every job of theirs.
LEMMA WorkerHands ==
    ASSUME IInv, JobsKept, UNCHANGED <<queue, handlers, up>>,
           worker'.job \in {worker.job, NoJob},
           \A i \in DOMAIN jobs : i # worker'.job /\ i # worker.job => jobs'[i] = jobs[i],
           worker'.job # NoJob => jobs'[worker'.job].status \in Open,
           worker'.job = NoJob => worker' = IdleWorker,
           up = "down" => worker' = IdleWorker
    PROVE  OneHand' /\ StoppedIsIdle'
<1>1. Queued' = Queued /\ InHand' = InHand /\ AtWork' \subseteq AtWork
    BY DEF Queued, InHand, AtWork
<1>2. worker.job \notin Queued \cup InHand \/ worker.job = NoJob
    BY DEF IInv, OneHand, AtWork
<1>3. NoJob \notin Queued \cup InHand
    <2>1. NoJob \notin DOMAIN jobs
        BY JobNumbers DEF IInv, NoJob
    <2> QED BY <2>1 DEF IInv, OneHand, OpenJobs
<1>4. \A i \in Queued \cup InHand : i # worker.job /\ i # worker'.job
    BY <1>2, <1>3
<1>5. Queued' \cup InHand' \cup AtWork' \subseteq OpenJobs'
    <2>1. Queued \cup InHand \subseteq OpenJobs'
        BY <1>4 DEF IInv, OneHand, OpenJobs, JobsKept
    <2>2. AtWork' \subseteq OpenJobs'
        BY DEF AtWork, IInv, OneHand, OpenJobs, JobsKept
    <2> QED BY <1>1, <2>1, <2>2
<1>6. OneHand'
    BY <1>1, <1>5 DEF IInv, OneHand, JobsKept
<1> QED BY <1>6 DEF IInv, StoppedIsIdle

LEMMA WorkerStepShape ==
    ASSUME IInv, worker.step \in UpdateStages \cup {"publish"}
    PROVE  worker.job # NoJob /\ worker.job \in OpenJobs /\ Job.status \in Open /\ up # "down"
<1>1. worker # IdleWorker
    BY DEF UpdateStages, IdleWorker
<1>2. worker.job # NoJob /\ up # "down"
    BY <1>1 DEF IInv, WorkerKnowsItsJob, StoppedIsIdle
<1> QED BY <1>2 DEF IInv, OneHand, AtWork, OpenJobs, Job

\* The worker takes the first job of the queue.
LEMMA TakeJobHands ==
    ASSUME IInv, TakeJob
    PROVE  /\ Head(queue) \in Queued /\ Head(queue) # NoJob
           /\ Queued' = Queued \ {Head(queue)} /\ InHand' = InHand /\ AtWork' = {Head(queue)}
           /\ AtWork = {} /\ queue' \in Seq(DOMAIN jobs)
           /\ \A m, n \in DOMAIN queue' : queue'[m] = queue'[n] => m = n
<1> DEFINE i == Head(queue)
<1>1. queue \in Seq(DOMAIN jobs) /\ queue # <<>>
    BY DEF IInv, OneHand, TakeJob
<1>2. /\ queue' \in Seq(DOMAIN jobs) /\ Len(queue') = Len(queue) - 1
      /\ \A n \in 1 .. Len(queue') : queue'[n] = queue[n + 1]
    BY <1>1, HeadTailProperties DEF TakeJob
<1>3. /\ DOMAIN queue = 1 .. Len(queue) /\ Len(queue) \in Nat
      /\ DOMAIN queue' = 1 .. Len(queue')
    BY <1>1, <1>2, LenProperties
<1>4. Len(queue) > 0 /\ i = queue[1] /\ 1 \in DOMAIN queue
    BY <1>1, <1>3, EmptySeq
<1>5. i \in Queued /\ i # NoJob
    <2>1. i \in Queued
        BY <1>4 DEF Queued
    <2>2. NoJob \notin DOMAIN jobs
        BY JobNumbers DEF IInv, NoJob
    <2> QED BY <2>1, <2>2 DEF IInv, OneHand, OpenJobs
<1>6. \A n \in DOMAIN queue' : n + 1 \in DOMAIN queue /\ n + 1 # 1 /\ queue'[n] = queue[n + 1] /\ n \in Nat
    BY <1>2, <1>3, <1>4
<1>7. Queued' \subseteq Queued \ {i}
    <2>1. \A n \in DOMAIN queue' : queue'[n] # i
        BY <1>4, <1>6 DEF IInv, OneHand
    <2> QED BY <1>6, <2>1 DEF Queued
<1>8. ASSUME NEW j \in Queued \ {i} PROVE j \in Queued'
    <2>1. PICK n \in DOMAIN queue : j = queue[n]
        BY <1>8 DEF Queued
    <2>2. n # 1 /\ n - 1 \in DOMAIN queue' /\ (n - 1) + 1 = n
        BY <1>2, <1>3, <1>4, <1>8, <2>1
    <2>3. queue'[n - 1] = j
        BY <1>6, <2>1, <2>2
    <2> QED BY <2>2, <2>3 DEF Queued
<1>9. \A m, n \in DOMAIN queue' : queue'[m] = queue'[n] => m = n
    <2>1. SUFFICES ASSUME NEW m \in DOMAIN queue', NEW n \in DOMAIN queue', queue'[m] = queue'[n] PROVE m = n
        OBVIOUS
    <2>2. m + 1 = n + 1
        BY <1>6, <2>1 DEF IInv, OneHand
    <2> QED BY <1>6, <2>2
<1>10. InHand' = InHand /\ AtWork' = {i} /\ AtWork = {}
    BY <1>5 DEF TakeJob, InHand, AtWork, IdleWorker
<1> QED BY <1>2, <1>5, <1>7, <1>8, <1>9, <1>10

LEMMA TakeJobStep == ASSUME IInv, TakeJob PROVE IInv' /\ JobsKept
<1>1. JobsKept /\ KeysAreSound' /\ OpenJobs' = OpenJobs /\ DOMAIN jobs' = DOMAIN jobs
    BY SameJobs, KeysKept DEF TakeJob, tables, OpenJobs
<1>2. OneHand'
    BY <1>1, TakeJobHands DEF TakeJob, IInv, OneHand
<1>3. worker'.job = Head(queue) /\ worker'.seen = 0
    BY DEF TakeJob, IdleWorker
<1>4. WorkerKnowsItsJob' /\ StoppedIsIdle'
    BY <1>3, TakeJobHands DEF TakeJob, IInv, WorkerKnowsItsJob, NoUpdateConflict, StoppedIsIdle
<1> QED BY <1>1, <1>2, <1>4 DEF IInv, JobsKept

LEMMA ReadJobStep == ASSUME IInv, ReadJob PROVE IInv' /\ JobsKept
<1>1. JobsKept /\ KeysAreSound'
    BY SameJobs, KeysKept DEF ReadJob, tables
<1>2. worker.job # NoJob /\ Job.status \in Open /\ up # "down"
    BY WorkerStepShape DEF ReadJob
<1>3. worker'.job = worker.job /\ worker'.seen = Job.version /\ jobs' = jobs
    BY DEF ReadJob, tables
<1>4. OneHand' /\ StoppedIsIdle'
    BY <1>1, <1>2, <1>3, WorkerHands DEF ReadJob, Job
<1>5. WorkerKnowsItsJob'
    BY <1>2, <1>3 DEF WorkerKnowsItsJob, NoUpdateConflict, Job
<1> QED BY <1>1, <1>4, <1>5 DEF IInv, JobsKept

LEMMA UpdateJobStep == ASSUME IInv, UpdateJob PROVE IInv' /\ JobsKept
<1>1. worker.job # NoJob /\ Job.status \in Open /\ up # "down"
    BY WorkerStepShape DEF UpdateJob
<1>2. UpdatedJob.kind = Job.kind /\ UpdatedJob.request = Job.request
    BY DEF UpdatedJob, UpdateJob, UpdateStages
<1>3. /\ JobsKept /\ jobs'[worker.job] = UpdatedJob
      /\ \A i \in DOMAIN jobs : i # worker.job => jobs'[i] = jobs[i]
    BY <1>1, <1>2, WorkersJobChanged DEF UpdateJob
<1>4. KeysAreSound'
    BY <1>3, KeysKept DEF UpdateJob
<1>5. CASE worker.step \in {"complete", "failed"}
    <2>1. worker' = IdleWorker
        BY <1>5 DEF UpdateJob
    <2>2. worker'.job = NoJob /\ worker'.seen = 0
        BY <2>1 DEF IdleWorker
    <2>3. OneHand' /\ StoppedIsIdle'
        BY <1>1, <1>3, <2>1, <2>2, WorkerHands DEF UpdateJob
    <2> QED BY <1>3, <1>4, <2>1, <2>2, <2>3 DEF IInv, JobsKept, WorkerKnowsItsJob, NoUpdateConflict
<1>6. CASE worker.step \notin {"complete", "failed"}
    <2>1. worker'.job = worker.job /\ worker'.seen = 0
        BY <1>6 DEF UpdateJob
    <2>2. UpdatedJob.status \in Open
        BY <1>1, <1>6 DEF UpdatedJob, Open, UpdateJob, UpdateStages
    <2>3. OneHand' /\ StoppedIsIdle'
        BY <1>1, <1>3, <2>1, <2>2, WorkerHands DEF UpdateJob
    <2> QED BY <1>1, <1>3, <1>4, <2>1, <2>3 DEF IInv, JobsKept, WorkerKnowsItsJob, NoUpdateConflict
<1> QED BY <1>5, <1>6

LEMMA PublishSnapshotStep ==
    ASSUME IInv, NEW id, NEW content, PublishSnapshot(id, content)
    PROVE  IInv' /\ JobsKept
<1>1. JobsKept /\ KeysAreSound'
    BY SameJobs, KeysKept DEF PublishSnapshot
<1>2. worker.job # NoJob /\ Job.status \in Open /\ up # "down"
    BY WorkerStepShape DEF PublishSnapshot
<1>3. worker'.job = worker.job /\ worker'.seen = worker.seen /\ jobs' = jobs
    BY DEF PublishSnapshot
<1>4. OneHand' /\ StoppedIsIdle'
    BY <1>1, <1>2, <1>3, WorkerHands DEF PublishSnapshot, Job
<1> QED BY <1>1, <1>2, <1>3, <1>4 DEF IInv, JobsKept, WorkerKnowsItsJob, NoUpdateConflict

LEMMA PublishRunStep ==
    ASSUME IInv, NEW id, NEW content, PublishRun(id, content)
    PROVE  IInv' /\ JobsKept
<1>1. worker.job # NoJob /\ up # "down"
    BY WorkerStepShape DEF PublishRun
<1>2. PublishedJob(id, content).kind = Job.kind /\ PublishedJob(id, content).request = Job.request
    BY DEF PublishedJob
<1>3. JobsKept /\ \A i \in DOMAIN jobs : i # worker.job => jobs'[i] = jobs[i]
    BY <1>1, <1>2, WorkersJobChanged DEF PublishRun
<1>4. KeysAreSound'
    BY <1>3, KeysKept DEF PublishRun
<1>5. worker' = IdleWorker /\ worker'.job = NoJob /\ worker'.seen = 0
    BY DEF PublishRun, IdleWorker
<1>6. OneHand' /\ StoppedIsIdle'
    BY <1>1, <1>3, <1>5, WorkerHands DEF PublishRun
<1> QED BY <1>3, <1>4, <1>5, <1>6 DEF IInv, JobsKept, WorkerKnowsItsJob, NoUpdateConflict

LEMMA RaiseStep == ASSUME IInv, Raise PROVE IInv' /\ JobsKept
<1>1. JobsKept /\ KeysAreSound'
    BY SameJobs, KeysKept DEF Raise, tables
<1>2. worker.job # NoJob /\ up # "down"
    BY DEF Raise, IInv, WorkerKnowsItsJob, StoppedIsIdle
<1>3. worker'.job = worker.job /\ worker'.seen = 0 /\ jobs' = jobs
    BY DEF Raise, tables
<1>4. Job.status \in Open
    BY <1>2 DEF IInv, OneHand, AtWork, OpenJobs, Job
<1>5. OneHand' /\ StoppedIsIdle'
    BY <1>1, <1>2, <1>3, <1>4, WorkerHands DEF Raise, Job
<1> QED BY <1>1, <1>2, <1>3, <1>5 DEF IInv, JobsKept, WorkerKnowsItsJob, NoUpdateConflict

LEMMA FailureIsLostStep == ASSUME IInv, FailureIsLost PROVE IInv' /\ JobsKept
<1>1. JobsKept /\ KeysAreSound'
    BY SameJobs, KeysKept DEF FailureIsLost, tables
<1>2. worker' = IdleWorker /\ worker'.job = NoJob /\ worker'.seen = 0 /\ jobs' = jobs
    BY DEF FailureIsLost, tables, IdleWorker
<1>3. OneHand' /\ StoppedIsIdle'
    BY <1>1, <1>2, WorkerHands DEF FailureIsLost
<1> QED BY <1>1, <1>2, <1>3 DEF IInv, JobsKept, WorkerKnowsItsJob, NoUpdateConflict

--------------------------------------------------------------------------------
(* The process.                                                             *)

\* Nobody has a job in an idle process.
LEMMA IdleProcess ==
    ASSUME IInv, JobsKept, KeysAreSound', queue' = <<>>, worker' = IdleWorker,
           handlers' = [h \in Handlers |-> IdleHandler]
    PROVE  IInv'
<1>1. queue' \in Seq(DOMAIN jobs') /\ DOMAIN queue' = {}
    BY EmptySeq
<1>2. Queued' = {} /\ InHand' = {} /\ AtWork' = {}
    BY <1>1 DEF Queued, InHand, AtWork, IdleHandler, IdleWorker
<1>3. OneHand'
    BY <1>1, <1>2 DEF OneHand, IdleHandler
<1>4. WorkerKnowsItsJob' /\ StoppedIsIdle'
    BY DEF WorkerKnowsItsJob, NoUpdateConflict, StoppedIsIdle, IdleWorker
<1> QED BY <1>3, <1>4 DEF IInv, JobsKept

LEMMA CrashStep == ASSUME IInv, Crash PROVE IInv' /\ JobsKept
<1>1. JobsKept /\ KeysAreSound'
    BY SameJobs, KeysKept DEF Crash, tables
<1> QED BY <1>1, IdleProcess DEF Crash, ClearMemory

LEMMA StartStep == ASSUME IInv, Start PROVE IInv' /\ JobsKept
<1>1. JobsKept /\ KeysAreSound'
    BY RecoveredJobs, KeysKept DEF Start
<1>2. /\ queue' = <<>> /\ worker' = IdleWorker
      /\ \A h \in Handlers : handlers'[h] = IdleHandler
      /\ DOMAIN handlers' = Handlers
    BY DEF Start, IInv, StoppedIsIdle, OneHand
<1>3. queue' \in Seq(DOMAIN jobs') /\ DOMAIN queue' = {}
    BY <1>2, EmptySeq
<1>4. Queued' = {} /\ InHand' = {} /\ AtWork' = {}
    BY <1>2, <1>3 DEF Queued, InHand, AtWork, IdleHandler, IdleWorker
<1>5. OneHand'
    BY <1>2, <1>3, <1>4 DEF OneHand, IdleHandler
<1>6. WorkerKnowsItsJob' /\ StoppedIsIdle'
    BY <1>2 DEF WorkerKnowsItsJob, NoUpdateConflict, StoppedIsIdle, IdleWorker
<1> QED BY <1>1, <1>5, <1>6 DEF IInv, JobsKept

LEMMA QuietHands ==
    ASSUME IInv, UNCHANGED <<jobs, handlers, queue, worker>>
    PROVE  OneHand' /\ WorkerKnowsItsJob'
PROOF BY DEF IInv, OneHand, WorkerKnowsItsJob, NoUpdateConflict, Queued, InHand, AtWork, OpenJobs

LEMMA ShutdownStep == ASSUME IInv, BeginShutdown \/ FinishShutdown PROVE IInv' /\ JobsKept
<1>1. UNCHANGED <<jobs, reservations, handlers, queue, worker>>
    BY DEF BeginShutdown, FinishShutdown, tables, memory
<1>2. JobsKept /\ KeysAreSound'
    BY <1>1, SameJobs, KeysKept
<1>3. OneHand' /\ WorkerKnowsItsJob'
    BY <1>1, QuietHands
<1>4. CASE BeginShutdown
    <2>1. up' = "stopping" /\ \A h \in Handlers : handlers'[h] = IdleHandler
        BY <1>1, <1>4 DEF BeginShutdown
    <2> QED BY <1>2, <1>3, <2>1 DEF IInv, JobsKept, StoppedIsIdle
<1>5. CASE FinishShutdown
    <2>1. queue' = <<>> /\ worker' = IdleWorker /\ \A h \in Handlers : handlers'[h] = IdleHandler
        BY <1>1, <1>5 DEF IInv, StoppedIsIdle, FinishShutdown, Drained
    <2> QED BY <1>2, <1>3, <2>1 DEF IInv, JobsKept, StoppedIsIdle
<1> QED BY <1>4, <1>5

--------------------------------------------------------------------------------
(* The theorems.                                                            *)

LEMMA RequestStep == ASSUME IInv, NEW h \in Handlers, Request(h) PROVE IInv'
PROOF BY CreateJobStep DEF Request, StartSnapshot, StartRun, StartScenario, ReviewEvents

LEMMA RequestKeepsJobs ==
    ASSUME IInv, NEW h \in Handlers, Request(h)
    PROVE  \A i \in DOMAIN jobs : jobs'[i] = jobs[i]
<1>1. PICK job : jobs' = Append(jobs, job)
    BY DEF Request, StartSnapshot, StartRun, StartScenario, ReviewEvents, CreateJob
<1> QED BY <1>1, AppendedJob DEF JobAdded

LEMMA StepKeeps == IInv /\ [Next]_vars => IInv' /\ (\A i \in DOMAIN jobs : jobs[i].status \notin Open => jobs'[i] = jobs[i])
<1> SUFFICES ASSUME IInv, [Next]_vars
             PROVE  IInv' /\ (\A i \in DOMAIN jobs : jobs[i].status \notin Open => jobs'[i] = jobs[i])
    OBVIOUS
<1>1. CASE \E h \in Handlers : Request(h)
    BY <1>1, RequestStep, RequestKeepsJobs
<1>2. CASE \E h \in Handlers : HandlerStep(h)
    BY <1>2, HandlerStepKeeps DEF JobsKept
<1>3. CASE WorkerStep
    BY <1>3, TakeJobStep, ReadJobStep, UpdateJobStep, PublishSnapshotStep, PublishRunStep, RaiseStep,
       FailureIsLostStep DEF WorkerStep, JobsKept
<1>4. CASE Crash \/ Start \/ BeginShutdown \/ FinishShutdown
    BY <1>4, CrashStep, StartStep, ShutdownStep DEF JobsKept
<1>5. CASE UNCHANGED vars
    <2>1. UNCHANGED <<up, jobs, reservations, handlers, queue, worker>>
        BY <1>5 DEF vars, tables, memory
    <2>2. JobsKept /\ KeysAreSound'
        BY <2>1, SameJobs, KeysKept
    <2>3. OneHand' /\ WorkerKnowsItsJob'
        BY <2>1, QuietHands
    <2>4. StoppedIsIdle'
        <3>1. StoppedIsIdle /\ up' = up /\ handlers' = handlers /\ queue' = queue /\ worker' = worker
            BY <2>1 DEF IInv
        <3> QED BY <3>1 DEF StoppedIsIdle
    <2> QED BY <2>1, <2>2, <2>3, <2>4 DEF IInv, JobsKept
<1> QED BY <1>1, <1>2, <1>3, <1>4, <1>5 DEF Next

LEMMA InvariantHolds == Spec => []IInv
PROOF BY InitHolds, StepKeeps, PTL DEF Spec

\* An idempotency key leads to one job, the one it was first used for, across crashes and
\* restarts (reserve_idempotency and create_item in one transaction).
THEOREM KeysNameOneJob == Spec => []KeyNamesOneJob
<1>1. IInv => KeyNamesOneJob
    BY DEF IInv, KeysAreSound
<1> QED BY <1>1, InvariantHolds, PTL

\* The version that _update_job reads outside its transaction is the version that it
\* finds inside: a job is in one hand, and only the worker's hand writes.
THEOREM UpdatesNeverConflict == Spec => []NoUpdateConflict
<1>1. IInv => NoUpdateConflict
    BY DEF IInv, WorkerKnowsItsJob
<1> QED BY <1>1, InvariantHolds, PTL

\* A finished job never changes again, whatever handlers, worker, crashes and starts do
\* afterwards (the one-worker executor, recover_running_jobs).
THEOREM FinishedJobsAreFinal == Spec => FinishedJobsStay
<1>1. IInv /\ [Next]_vars => [\A i \in DOMAIN jobs : jobs[i].status \notin Open => jobs'[i] = jobs[i]]_vars
    BY StepKeeps
<1> QED BY <1>1, InvariantHolds, PTL DEF Spec, FinishedJobsStay

--------------------------------------------------------------------------------
(* Publication.                                                             *)

RunSteps == {"loading", "forecast", "planning", "publish", "failed"}

\* A run succeeds in the step that publishes and in no other.
RunAtWork == worker.job # NoJob /\ Job.kind = "run" => worker.step \in RunSteps

Publication ==
    /\ \A i \in published : i \in DOMAIN jobs /\ jobs[i].kind = "run" /\ jobs[i].status = "succeeded"
    /\ PublishedTogether
    /\ RunAtWork

LEMMA PublicationInit == Init => Publication
PROOF BY EmptySeq DEF Init, Publication, PublishedTogether, Runs, RunAtWork, IdleWorker

\* Steps that publish nothing and let no run succeed.
LEMMA QuietPublication ==
    ASSUME Publication, JobsKept, UNCHANGED <<published, forecasts>>, RunAtWork',
           \A i \in DOMAIN jobs : jobs'[i].kind = "run" /\ jobs'[i].status = "succeeded" => jobs'[i] = jobs[i]
    PROVE  Publication'
<1>1. \A i \in published : i \in DOMAIN jobs /\ jobs'[i] = jobs[i]
    BY DEF Publication, JobsKept, Open
<1>2. Runs' = Runs
    BY DEF Runs, JobsKept
<1>3. PublishedTogether'
    <2>1. \A i \in Runs : jobs'[i].status = "succeeded" <=> i \in published
        BY <1>1 DEF Publication, PublishedTogether, Runs, JobsKept
    <2>2. \A f \in DOMAIN forecasts : \E i \in published : jobs'[i].result.id = f
        BY <1>1 DEF Publication, PublishedTogether
    <2> QED BY <1>2, <2>1, <2>2 DEF PublishedTogether
<1> QED BY <1>1, <1>3 DEF Publication, JobsKept

LEMMA RequestPublication ==
    ASSUME IInv, Publication, NEW h \in Handlers, Request(h)
    PROVE  Publication'
<1>1. PICK kind, request : jobs' = Append(jobs, NewJob(kind, request))
    BY DEF Request, StartSnapshot, StartRun, StartScenario, ReviewEvents, CreateJob
<1>2. UNCHANGED <<published, forecasts, worker>>
    BY DEF Request, StartSnapshot, StartRun, StartScenario, ReviewEvents, CreateJob
<1>3. JobAdded(NewJob(kind, request))
    BY <1>1, AppendedJob
<1> DEFINE n == Len(jobs) + 1
<1>4. /\ DOMAIN jobs' = DOMAIN jobs \cup {n} /\ jobs'[n].status = "queued"
      /\ n \notin DOMAIN jobs /\ n \notin published
      /\ \A i \in DOMAIN jobs : jobs'[i] = jobs[i]
    BY <1>3 DEF JobAdded, NewJob, Publication
<1>5. PublishedTogether'
    BY <1>2, <1>4 DEF Publication, PublishedTogether, Runs
<1>6. RunAtWork'
    <2>1. worker.job # NoJob => worker.job \in DOMAIN jobs
        BY DEF IInv, OneHand, AtWork, OpenJobs
    <2> QED BY <1>2, <1>4, <2>1 DEF Publication, RunAtWork, Job
<1> QED BY <1>2, <1>4, <1>5, <1>6 DEF Publication

LEMMA UpdatePublication == ASSUME IInv, Publication, UpdateJob PROVE Publication'
<1>1. worker.job # NoJob /\ worker.job \in DOMAIN jobs
    BY WorkerStepShape DEF UpdateJob, OpenJobs
<1>2. UpdatedJob.kind = Job.kind /\ UpdatedJob.request = Job.request
    BY DEF UpdatedJob, UpdateJob, UpdateStages
<1>3. /\ JobsKept /\ jobs'[worker.job] = UpdatedJob
      /\ \A i \in DOMAIN jobs : i # worker.job => jobs'[i] = jobs[i]
    BY <1>1, <1>2, WorkersJobChanged DEF UpdateJob
<1>4. Job.kind = "run" => worker.step \in {"loading", "forecast", "planning", "failed"}
    BY <1>1 DEF Publication, RunAtWork, RunSteps, UpdateJob, UpdateStages
<1>5. Job.kind = "run" => UpdatedJob.status # "succeeded"
    <2>1. Job.status # "succeeded"
        BY WorkerStepShape DEF UpdateJob, Open
    <2> QED BY <1>4, <2>1 DEF UpdatedJob
<1>6. RunAtWork'
    <2>1. CASE worker.step \in {"complete", "failed"}
        BY <2>1 DEF UpdateJob, RunAtWork, IdleWorker
    <2>2. CASE worker.step \notin {"complete", "failed"}
        <3>1. worker'.job = worker.job /\ worker'.step = Following[Job.kind][worker.step]
            BY <2>2 DEF UpdateJob
        <3>2. Job.kind = "run" => Following[Job.kind][worker.step] \in RunSteps
            BY <1>4, <2>2 DEF Following, RunSteps
        <3>3. Job' = UpdatedJob
            BY <1>3, <3>1 DEF Job
        <3> QED BY <1>2, <3>1, <3>2, <3>3 DEF RunAtWork
    <2> QED BY <2>1, <2>2
<1>7. \A i \in DOMAIN jobs : jobs'[i].kind = "run" /\ jobs'[i].status = "succeeded" => jobs'[i] = jobs[i]
    BY <1>2, <1>3, <1>5
<1> QED BY <1>3, <1>6, <1>7, QuietPublication DEF UpdateJob

LEMMA PublishRunPublication ==
    ASSUME IInv, Publication, NEW id, NEW content, PublishRun(id, content)
    PROVE  Publication'
<1> DEFINE job == PublishedJob(id, content)
<1>1. worker.job # NoJob /\ worker.job \in DOMAIN jobs /\ Job.status \in Open
    BY WorkerStepShape DEF PublishRun, OpenJobs
<1>2. job.kind = Job.kind /\ job.request = Job.request /\ job.status = "succeeded" /\ job.result.id = id
    BY DEF PublishedJob
<1>3. /\ JobsKept /\ jobs'[worker.job] = job
      /\ \A i \in DOMAIN jobs : i # worker.job => jobs'[i] = jobs[i]
    BY <1>1, <1>2, WorkersJobChanged DEF PublishRun
<1>4. published' = published \cup {worker.job} /\ DOMAIN forecasts' = DOMAIN forecasts \cup {id}
    BY DEF PublishRun, Stored
<1>5. worker.job \notin published
    BY <1>1 DEF Publication, Job, Open
<1>6. \A i \in published : jobs'[i] = jobs[i] /\ i \in DOMAIN jobs
    BY <1>3, <1>5 DEF Publication
<1>7. jobs'[worker.job].kind = "run"
    BY <1>2, <1>3 DEF PublishRun
<1>8. \A i \in Runs' : jobs'[i].status = "succeeded" <=> i \in published'
    BY <1>2, <1>3, <1>4, <1>6 DEF Publication, PublishedTogether, Runs, JobsKept
<1>9. \A f \in DOMAIN forecasts' : \E i \in published' : jobs'[i].result.id = f
    BY <1>2, <1>3, <1>4, <1>6 DEF Publication, PublishedTogether
<1>10. RunAtWork'
    BY DEF PublishRun, RunAtWork, IdleWorker
<1>11. \A i \in published' : i \in DOMAIN jobs' /\ jobs'[i].kind = "run" /\ jobs'[i].status = "succeeded"
    BY <1>1, <1>2, <1>3, <1>4, <1>6, <1>7 DEF Publication, JobsKept
<1> QED BY <1>8, <1>9, <1>10, <1>11 DEF Publication, PublishedTogether

\* Steps of the others, and of the worker when it stores no job.
LEMMA OtherPublication ==
    ASSUME IInv, Publication, JobsKept, UNCHANGED <<jobs, published, forecasts>>, RunAtWork'
    PROVE  Publication'
PROOF BY QuietPublication

LEMMA WorkerPublication == ASSUME IInv, Publication, WorkerStep PROVE Publication'
<1>1. CASE TakeJob
    <2>1. RunAtWork'
        BY <1>1 DEF TakeJob, RunAtWork, RunSteps, IdleWorker
    <2> QED BY <1>1, <2>1, TakeJobStep, OtherPublication DEF TakeJob, tables
<1>2. CASE ReadJob
    <2>1. RunAtWork'
        BY <1>2 DEF ReadJob, tables, Publication, RunAtWork, Job
    <2> QED BY <1>2, <2>1, ReadJobStep, OtherPublication DEF ReadJob, tables
<1>3. CASE \E id \in SnapshotIds, content \in Contents : PublishSnapshot(id, content)
    <2>1. PICK id \in SnapshotIds, content \in Contents : PublishSnapshot(id, content)
        BY <1>3
    <2>2. RunAtWork'
        BY <2>1 DEF PublishSnapshot, RunAtWork, Job
    <2> QED BY <2>1, <2>2, PublishSnapshotStep, OtherPublication DEF PublishSnapshot
<1>4. CASE Raise
    <2>1. RunAtWork'
        BY <1>4 DEF Raise, RunAtWork, RunSteps
    <2> QED BY <1>4, <2>1, RaiseStep, OtherPublication DEF Raise, tables
<1>5. CASE FailureIsLost
    <2>1. RunAtWork'
        BY <1>5 DEF FailureIsLost, RunAtWork, IdleWorker
    <2> QED BY <1>5, <2>1, FailureIsLostStep, OtherPublication DEF FailureIsLost, tables
<1> QED BY <1>1, <1>2, <1>3, <1>4, <1>5, UpdatePublication, PublishRunPublication DEF WorkerStep

LEMMA PublicationKept == IInv /\ Publication /\ [Next]_vars => Publication'
<1> SUFFICES ASSUME IInv, Publication, [Next]_vars PROVE Publication'
    OBVIOUS
<1>1. CASE \E h \in Handlers : Request(h)
    BY <1>1, RequestPublication
<1>2. CASE \E h \in Handlers : HandlerStep(h)
    <2>1. PICK h \in Handlers : HandlerStep(h)
        BY <1>2
    <2>2. UNCHANGED <<jobs, published, forecasts, worker>>
        BY <2>1 DEF HandlerStep, AuditReview, ReviewAuditFails, Submit, tables
    <2>3. RunAtWork'
        BY <2>2 DEF Publication, RunAtWork, Job
    <2> QED BY <2>1, <2>2, <2>3, HandlerStepKeeps, OtherPublication
<1>3. CASE WorkerStep
    BY <1>3, WorkerPublication
<1>4. CASE Crash
    <2>1. RunAtWork' /\ UNCHANGED <<jobs, published, forecasts>>
        BY <1>4 DEF Crash, ClearMemory, tables, RunAtWork, IdleWorker
    <2> QED BY <1>4, <2>1, CrashStep, OtherPublication
<1>5. CASE Start
    <2>1. worker' = IdleWorker /\ UNCHANGED <<published, forecasts>>
        BY <1>5 DEF Start, IInv, StoppedIsIdle
    <2>2. RunAtWork'
        BY <2>1 DEF RunAtWork, IdleWorker
    <2>3. \A i \in DOMAIN jobs : jobs'[i] = IF Interrupted(i) THEN RecoveredJob(i) ELSE jobs[i]
        BY <1>5 DEF Start
    <2>4. ASSUME NEW i \in DOMAIN jobs, jobs'[i].status = "succeeded"
          PROVE  jobs'[i] = jobs[i]
        <3>1. RecoveredJob(i).status = "failed"
            BY DEF RecoveredJob
        <3> QED BY <2>3, <2>4, <3>1
    <2> QED BY <1>5, <2>1, <2>2, <2>4, StartStep, QuietPublication
<1>6. CASE BeginShutdown \/ FinishShutdown \/ UNCHANGED vars
    <2>1. UNCHANGED <<jobs, published, forecasts, worker>>
        BY <1>6 DEF BeginShutdown, FinishShutdown, vars, tables, memory
    <2>2. RunAtWork'
        BY <2>1 DEF Publication, RunAtWork, Job
    <2> QED BY <2>1, <2>2, SameJobs, OtherPublication
<1> QED BY <1>1, <1>2, <1>3, <1>4, <1>5, <1>6 DEF Next

\* The proposals of a run, its forecast and its success become visible together, wherever
\* a crash or an error falls (the publishing transaction of Service._run).
THEOREM RunsArePublishedWhole == Spec => []PublishedTogether
<1>1. Spec => []Publication
    BY PublicationInit, PublicationKept, InvariantHolds, PTL DEF Spec
<1>2. Publication => PublishedTogether
    BY DEF Publication
<1> QED BY <1>1, <1>2, PTL

--------------------------------------------------------------------------------
(* Ownership.                                                               *)

Hands == Queued \cup InHand \cup AtWork

\* While the coordinator is up, an open job is in somebody's hands or was given up.
Ownership ==
    /\ up # "down" => OpenJobs \subseteq abandoned \cup Hands
    /\ abandoned \cap Hands = {}
    /\ abandoned \subseteq DOMAIN jobs
    /\ \A h \in Handlers : handlers[h].review => handlers[h].job # NoJob

LEMMA OwnershipInit == Init => Ownership
<1> SUFFICES ASSUME Init PROVE Ownership
    OBVIOUS
<1>1. DOMAIN jobs = {}
    BY EmptySeq DEF Init
<1> QED BY <1>1 DEF Init, Ownership, OpenJobs, IdleHandler

LEMMA RequestOwnership ==
    ASSUME IInv, Ownership, NEW h \in Handlers, Request(h)
    PROVE  Ownership'
<1>1. PICK kind, key, request, review : CreateJob(h, kind, key, request, review)
    BY DEF Request, StartSnapshot, StartRun, StartScenario, ReviewEvents
<1> DEFINE n == Len(jobs) + 1
<1>2. JobAdded(NewJob(kind, request))
    BY <1>1, AppendedJob DEF CreateJob
<1>3. n \notin DOMAIN jobs /\ n # NoJob /\ DOMAIN jobs' = DOMAIN jobs \cup {n}
    BY <1>2, JobNumbers DEF JobAdded, IInv, NoJob
<1>4. OpenJobs' \subseteq OpenJobs \cup {n}
    BY <1>2, <1>3 DEF OpenJobs, JobAdded
<1>5. /\ handlers'[h] = [job |-> n, review |-> review] /\ DOMAIN handlers' = Handlers
      /\ \A g \in Handlers : g # h => handlers'[g] = handlers[g]
      /\ handlers[h].job = NoJob
    BY <1>1 DEF CreateJob, IInv, OneHand, IdleHandler
<1>6. InHand' = InHand \cup {n}
    BY <1>3, <1>5 DEF InHand
<1>7. Hands' = Hands \cup {n}
    BY <1>1, <1>6 DEF CreateJob, Hands, Queued, AtWork
<1>8. abandoned' = abandoned /\ up' = up
    BY <1>1 DEF CreateJob
<1> QED BY <1>3, <1>4, <1>5, <1>7, <1>8 DEF Ownership

LEMMA HandlerOwnership ==
    ASSUME IInv, Ownership, NEW h \in Handlers, HandlerStep(h)
    PROVE  Ownership'
<1>1. UNCHANGED <<up, jobs, worker>> /\ DOMAIN handlers = Handlers
    BY DEF HandlerStep, AuditReview, ReviewAuditFails, Submit, tables, IInv, OneHand
<1>2. OpenJobs' = OpenJobs /\ AtWork' = AtWork
    BY <1>1 DEF OpenJobs, AtWork
<1>3. CASE AuditReview(h)
    <2>1. DOMAIN handlers' = Handlers /\ \A g \in Handlers : handlers'[g].job = handlers[g].job
        BY <1>1, <1>3 DEF AuditReview
    <2>2. \A g \in Handlers : handlers'[g].review => handlers[g].review
        BY <1>1, <1>3 DEF AuditReview
    <2>3. Hands' = Hands
        BY <1>2, <1>3, <2>1 DEF AuditReview, Hands, InHand, Queued
    <2> QED BY <1>1, <1>2, <1>3, <2>1, <2>2, <2>3 DEF AuditReview, Ownership
<1>4. CASE ReviewAuditFails(h)
    <2> DEFINE i == handlers[h].job
    <2>1. /\ handlers'[h] = IdleHandler /\ \A g \in Handlers : g # h => handlers'[g] = handlers[g]
          /\ i # NoJob /\ i \in InHand
        BY <1>1, <1>4 DEF ReviewAuditFails, Ownership, InHand
    <2>2. \A g \in Handlers : g # h => handlers[g].job # i
        BY <2>1 DEF IInv, OneHand
    <2>3. InHand' = InHand \ {i} /\ Queued' = Queued
        BY <1>4, <2>1, <2>2 DEF ReviewAuditFails, InHand, Queued, IdleHandler
    <2>4. Hands' = Hands \ {i} /\ i \in DOMAIN jobs
        BY <1>2, <2>1, <2>3 DEF Hands, IInv, OneHand, OpenJobs
    <2>5. abandoned' = abandoned \cup {i}
        BY <1>4 DEF ReviewAuditFails
    <2>6. \A g \in Handlers : handlers'[g].review => handlers'[g].job # NoJob
        BY <2>1 DEF Ownership, IdleHandler
    <2> QED BY <1>1, <1>2, <2>4, <2>5, <2>6 DEF Ownership
<1>5. CASE Submit(h)
    <2>1. Hands' = Hands
        BY <1>5, SubmitHands DEF Hands
    <2>2. \A g \in Handlers : handlers'[g].review => handlers'[g].job # NoJob
        BY <1>1, <1>5 DEF Submit, Ownership, IdleHandler
    <2> QED BY <1>1, <1>2, <1>5, <2>1, <2>2 DEF Submit, Ownership
<1> QED BY <1>3, <1>4, <1>5 DEF HandlerStep

\* The worker goes on with its job, or leaves it finished or given up.
LEMMA WorkersJobOwned ==
    ASSUME IInv, Ownership, JobsKept, UNCHANGED <<up, handlers, queue>>,
           worker.job # NoJob, worker.job \in OpenJobs,
           \A i \in DOMAIN jobs : i # worker.job => jobs'[i] = jobs[i],
           \/ worker'.job = worker.job /\ abandoned' = abandoned
           \/ worker'.job = NoJob /\ abandoned' = abandoned /\ jobs'[worker.job].status \notin Open
           \/ worker'.job = NoJob /\ abandoned' = abandoned \cup {worker.job}
    PROVE  Ownership'
<1>1. Queued' = Queued /\ InHand' = InHand /\ AtWork = {worker.job}
    BY DEF Queued, InHand, AtWork
<1>2. OpenJobs' \subseteq OpenJobs /\ DOMAIN jobs' = DOMAIN jobs /\ worker.job \in DOMAIN jobs
    BY DEF OpenJobs, JobsKept
<1>3. worker.job \notin Queued \cup InHand
    BY <1>1 DEF IInv, OneHand
<1>4. CASE worker'.job = worker.job /\ abandoned' = abandoned
    <2>1. Hands' = Hands
        BY <1>1, <1>4 DEF Hands, AtWork
    <2> QED BY <1>2, <1>4, <2>1 DEF Ownership
<1>5. CASE worker'.job = NoJob
    <2>1. Hands' = Hands \ {worker.job}
        BY <1>1, <1>3, <1>5 DEF Hands, AtWork
    <2>2. \/ abandoned' = abandoned /\ worker.job \notin OpenJobs'
          \/ abandoned' = abandoned \cup {worker.job}
        BY <1>5 DEF OpenJobs, NoJob
    <2>3. abandoned' \cap Hands' = {} /\ abandoned' \subseteq DOMAIN jobs'
        BY <1>2, <2>1, <2>2 DEF Ownership
    <2> QED BY <1>2, <2>1, <2>2, <2>3 DEF Ownership
<1> QED BY <1>4, <1>5

LEMMA WorkerOwnership == ASSUME IInv, Ownership, WorkerStep PROVE Ownership'
<1>1. CASE TakeJob
    <2>1. Hands' = Hands
        BY <1>1, TakeJobHands DEF Hands
    <2> QED BY <1>1, <2>1 DEF TakeJob, tables, OpenJobs, Ownership
<1>2. CASE ReadJob
    <2>1. worker.job # NoJob /\ worker.job \in OpenJobs
        BY <1>2, WorkerStepShape DEF ReadJob
    <2>2. worker'.job = worker.job /\ UNCHANGED <<up, jobs, handlers, queue, abandoned>>
        BY <1>2 DEF ReadJob, tables
    <2> QED BY <2>1, <2>2, SameJobs, WorkersJobOwned
<1>3. CASE UpdateJob
    <2>1. worker.job # NoJob /\ worker.job \in OpenJobs
        BY <1>3, WorkerStepShape DEF UpdateJob
    <2>2. UpdatedJob.kind = Job.kind /\ UpdatedJob.request = Job.request
        BY <1>3 DEF UpdatedJob, UpdateJob, UpdateStages
    <2>3. /\ JobsKept /\ jobs'[worker.job] = UpdatedJob
          /\ \A i \in DOMAIN jobs : i # worker.job => jobs'[i] = jobs[i]
        BY <1>3, <2>1, <2>2, WorkersJobChanged DEF UpdateJob
    <2>4. UNCHANGED <<up, handlers, queue, abandoned>>
        BY <1>3 DEF UpdateJob
    <2>5. worker'.job = worker.job \/ (worker'.job = NoJob /\ UpdatedJob.status \notin Open)
        BY <1>3 DEF UpdateJob, UpdatedJob, IdleWorker, Open
    <2> QED BY <2>1, <2>3, <2>4, <2>5, WorkersJobOwned
<1>4. CASE \E id \in SnapshotIds, content \in Contents : PublishSnapshot(id, content)
    <2>1. worker.job # NoJob /\ worker.job \in OpenJobs
        BY <1>4, WorkerStepShape DEF PublishSnapshot
    <2>2. worker'.job = worker.job /\ UNCHANGED <<up, jobs, handlers, queue, abandoned>>
        BY <1>4 DEF PublishSnapshot
    <2> QED BY <2>1, <2>2, SameJobs, WorkersJobOwned
<1>5. CASE \E id \in ForecastIds, content \in Contents : PublishRun(id, content)
    <2>1. PICK id \in ForecastIds, content \in Contents : PublishRun(id, content)
        BY <1>5
    <2>2. worker.job # NoJob /\ worker.job \in OpenJobs
        BY <2>1, WorkerStepShape DEF PublishRun
    <2>3. /\ PublishedJob(id, content).kind = Job.kind /\ PublishedJob(id, content).request = Job.request
          /\ PublishedJob(id, content).status \notin Open
        BY DEF PublishedJob, Open
    <2>4. /\ JobsKept /\ jobs'[worker.job] = PublishedJob(id, content)
          /\ \A i \in DOMAIN jobs : i # worker.job => jobs'[i] = jobs[i]
        BY <2>1, <2>2, <2>3, WorkersJobChanged DEF PublishRun
    <2>5. worker'.job = NoJob /\ UNCHANGED <<up, handlers, queue, abandoned>>
        BY <2>1 DEF PublishRun, IdleWorker
    <2> QED BY <2>2, <2>3, <2>4, <2>5, WorkersJobOwned
<1>6. CASE Raise \/ FailureIsLost
    <2>1. worker # IdleWorker
        BY <1>6 DEF Raise, FailureIsLost, IdleWorker
    <2>2. worker.job # NoJob /\ worker.job \in OpenJobs
        BY <2>1 DEF IInv, WorkerKnowsItsJob, OneHand, AtWork
    <2>3. UNCHANGED <<up, jobs, handlers, queue>>
        BY <1>6 DEF Raise, FailureIsLost, tables
    <2>4. \/ worker'.job = worker.job /\ abandoned' = abandoned
          \/ worker'.job = NoJob /\ abandoned' = abandoned \cup {worker.job}
        <3>1. Raise => worker'.job = worker.job /\ abandoned' = abandoned
            BY DEF Raise, tables
        <3>2. FailureIsLost => worker'.job = NoJob /\ abandoned' = abandoned \cup {worker.job}
            BY DEF FailureIsLost, IdleWorker
        <3> QED BY <1>6, <3>1, <3>2
    <2> QED BY <2>2, <2>3, <2>4, SameJobs, WorkersJobOwned
<1> QED BY <1>1, <1>2, <1>3, <1>4, <1>5, <1>6 DEF WorkerStep

LEMMA OwnershipKept == IInv /\ Ownership /\ [Next]_vars => Ownership'
<1> SUFFICES ASSUME IInv, Ownership, [Next]_vars PROVE Ownership'
    OBVIOUS
<1>1. CASE \E h \in Handlers : Request(h)
    BY <1>1, RequestOwnership
<1>2. CASE \E h \in Handlers : HandlerStep(h)
    BY <1>2, HandlerOwnership
<1>3. CASE WorkerStep
    BY <1>3, WorkerOwnership
<1>4. CASE Crash
    BY <1>4 DEF Crash, ClearMemory, Ownership, IdleHandler
<1>5. CASE Start
    <2>1. \A i \in DOMAIN jobs : jobs'[i] = IF Interrupted(i) THEN RecoveredJob(i) ELSE jobs[i]
        BY <1>5 DEF Start
    <2>2. DOMAIN jobs' = DOMAIN jobs
        BY <1>5, RecoveredJobs DEF JobsKept
    <2>3. \A i \in DOMAIN jobs : RecoveredJob(i).status \notin Open
        BY DEF RecoveredJob, Open
    <2>4. OpenJobs' = {}
        BY <2>1, <2>2, <2>3 DEF OpenJobs, Interrupted
    <2> QED BY <1>5, <2>4 DEF Start, Ownership
<1>6. CASE BeginShutdown \/ FinishShutdown \/ UNCHANGED vars
    <2>1. UNCHANGED <<jobs, handlers, queue, worker, abandoned>>
        BY <1>6 DEF BeginShutdown, FinishShutdown, vars, tables, memory
    <2>2. Hands' = Hands /\ OpenJobs' = OpenJobs
        BY <2>1 DEF Hands, Queued, InHand, AtWork, OpenJobs
    <2>3. up' # "down" => up # "down"
        BY <1>6 DEF BeginShutdown, FinishShutdown, vars
    <2> QED BY <2>1, <2>2, <2>3 DEF Ownership
<1> QED BY <1>1, <1>2, <1>3, <1>4, <1>5, <1>6 DEF Next

\* A set with one member at most counts as one or nothing.
LEMMA AtMostOne ==
    ASSUME NEW S, \A x, y \in S : x = y
    PROVE  Cardinality(S) = IF S = {} THEN 0 ELSE 1
<1>1. CASE S = {}
    BY <1>1, FS_EmptySet
<1>2. CASE S # {}
    <2>1. PICK x \in S : S = {x}
        BY <1>2
    <2> QED BY <1>2, <2>1, FS_Singleton
<1> QED BY <1>1, <1>2

LEMMA OwnersOfAJob ==
    ASSUME IInv, NEW i \in DOMAIN jobs
    PROVE  Owners(i) = IF i \in Hands THEN 1 ELSE 0
<1> DEFINE places == {n \in DOMAIN queue : queue[n] = i}
           holders == {h \in Handlers : handlers[h].job = i}
<1>1. i # NoJob
    BY JobNumbers DEF IInv, NoJob
<1>2. Cardinality(places) = IF i \in Queued THEN 1 ELSE 0
    <2>1. \A m, n \in places : m = n
        BY DEF IInv, OneHand
    <2>2. places = {} <=> i \notin Queued
        BY DEF Queued
    <2> HIDE DEF places
    <2> QED BY <2>1, <2>2, AtMostOne
<1>3. Cardinality(holders) = IF i \in InHand THEN 1 ELSE 0
    <2>1. \A g, h \in holders : g = h
        BY <1>1 DEF IInv, OneHand
    <2>2. holders = {} <=> i \notin InHand
        BY <1>1 DEF InHand
    <2> HIDE DEF holders
    <2> QED BY <2>1, <2>2, AtMostOne
<1>4. worker.job = i <=> i \in AtWork
    BY <1>1 DEF AtWork
<1>5. Owners(i) = Cardinality(places) + Cardinality(holders) + (IF worker.job = i THEN 1 ELSE 0)
    BY DEF Owners
<1> HIDE DEF places, holders
<1>6. ~ (i \in Queued /\ i \in InHand) /\ ~ (i \in Queued /\ i \in AtWork) /\ ~ (i \in InHand /\ i \in AtWork)
    BY DEF IInv, OneHand
<1> QED BY <1>2, <1>3, <1>4, <1>5, <1>6 DEF Hands

\* While the coordinator is up, every unfinished job that nobody gave up is with exactly
\* one of its handler, the queue and the worker, and no other job is with anybody
\* (_new_job's created flag, executor.submit, recover_running_jobs).
THEOREM JobsHaveOneOwner == Spec => []OpenJobsAreOwned
<1>1. Spec => []Ownership
    BY OwnershipInit, OwnershipKept, InvariantHolds, PTL DEF Spec
<1>2. IInv /\ Ownership => OpenJobsAreOwned
    <2> SUFFICES ASSUME IInv, Ownership, NEW i \in DOMAIN jobs
                 PROVE  Owners(i) = IF up # "down" /\ i \in OpenJobs \ abandoned THEN 1 ELSE 0
        BY DEF OpenJobsAreOwned
    <2>1. Hands \subseteq OpenJobs
        BY DEF IInv, OneHand, Hands
    <2>2. up = "down" => i \notin Hands
        <3> SUFFICES ASSUME up = "down" PROVE i \notin Hands
            OBVIOUS
        <3>1. queue = <<>> /\ worker = IdleWorker /\ \A h \in Handlers : handlers[h] = IdleHandler
            BY DEF IInv, StoppedIsIdle
        <3>2. i # NoJob
            BY JobNumbers DEF IInv, NoJob
        <3> QED BY <3>1, <3>2 DEF Hands, Queued, InHand, AtWork, IdleWorker, IdleHandler
    <2> QED BY <2>1, <2>2, OwnersOfAJob DEF Ownership
<1> QED BY <1>1, <1>2, InvariantHolds, PTL

--------------------------------------------------------------------------------
(* Results.                                                                 *)

FinishedRuns == {i \in DOMAIN jobs : jobs[i].kind = "run" /\ jobs[i].status = "succeeded"}

\* The jobs that report what is stored.
Reported ==
    {i \in DOMAIN jobs :
        LET result == jobs[i].result
            table == IF jobs[i].kind = "snapshot" THEN snapshots ELSE forecasts
        IN  /\ result = [id |-> result.id, content |-> result.content]
            /\ result.id \in DOMAIN table /\ table[result.id] = result.content
            /\ jobs[i].kind = "scenario" => result = jobs[jobs[i].request.base].result}

Kinds == {"snapshot", "run", "scenario"}

\* An import that is about to report its snapshot has stored it.
ImportIsStored ==
    worker.job # NoJob /\ Job.kind = "snapshot" =>
        /\ worker.step \in {"loading", "publish", "complete", "failed"}
        /\ worker.step = "complete" =>
              /\ worker.result = [id |-> worker.result.id, content |-> worker.result.content]
              /\ worker.result.id \in DOMAIN snapshots
              /\ snapshots[worker.result.id] = worker.result.content

Resolution ==
    /\ \A i \in DOMAIN jobs :
          /\ jobs[i].kind \in Kinds
          /\ jobs[i].kind = "scenario" => jobs[i].request.base \in FinishedRuns
          /\ jobs[i].status = "succeeded" => i \in Reported
    /\ ImportIsStored

LEMMA ResolutionInit == Init => Resolution
PROOF BY EmptySeq DEF Init, Resolution, ImportIsStored, IdleWorker

\* What was stored under an identifier stays.
TablesGrow ==
    /\ \A id \in DOMAIN snapshots : id \in DOMAIN snapshots' /\ snapshots'[id] = snapshots[id]
    /\ \A id \in DOMAIN forecasts : id \in DOMAIN forecasts' /\ forecasts'[id] = forecasts[id]

\* A base run is final, so a finished scenario keeps what it rests on.
LEMMA ResolvedStays ==
    ASSUME Resolution, JobsKept, TablesGrow, NEW i \in DOMAIN jobs,
           jobs[i].status = "succeeded", jobs'[i] = jobs[i]
    PROVE  i \in Reported'
<1>1. i \in Reported
    BY DEF Resolution
<1>2. CASE jobs[i].kind = "snapshot"
    BY <1>1, <1>2 DEF Reported, TablesGrow, JobsKept
<1>3. CASE jobs[i].kind = "run"
    BY <1>1, <1>3 DEF Reported, TablesGrow, JobsKept
<1>4. CASE jobs[i].kind = "scenario"
    <2> DEFINE b == jobs[i].request.base
    <2>1. b \in DOMAIN jobs /\ jobs[b].status = "succeeded"
        BY <1>4 DEF Resolution, FinishedRuns
    <2>2. jobs'[b] = jobs[b]
        BY <2>1 DEF JobsKept, Open
    <2> QED BY <1>1, <1>4, <2>2 DEF Reported, TablesGrow, JobsKept
<1> QED BY <1>2, <1>3, <1>4 DEF Resolution, Kinds

\* A step that keeps the list of jobs owes an argument only for a job it lets succeed.
LEMMA ResolutionStep ==
    ASSUME IInv, Resolution, JobsKept, TablesGrow, ImportIsStored',
           \A i \in DOMAIN jobs :
              jobs'[i].status = "succeeded" => jobs'[i] = jobs[i] \/ i \in Reported'
    PROVE  Resolution'
<1>1. FinishedRuns \subseteq FinishedRuns'
    BY DEF FinishedRuns, JobsKept, Open
<1>2. ASSUME NEW i \in DOMAIN jobs
      PROVE  /\ jobs'[i].kind \in Kinds
             /\ jobs'[i].kind = "scenario" => jobs'[i].request.base \in FinishedRuns'
             /\ jobs'[i].status = "succeeded" => i \in Reported'
    <2>1. jobs'[i].kind = jobs[i].kind /\ jobs'[i].request = jobs[i].request
        BY DEF JobsKept
    <2>2. jobs[i].kind = "scenario" => jobs[i].request.base \in FinishedRuns'
        BY <1>1 DEF Resolution, FinishedRuns
    <2>3. jobs'[i].status = "succeeded" => i \in Reported'
        BY ResolvedStays
    <2> QED BY <2>1, <2>2, <2>3 DEF Resolution
<1> QED BY <1>2 DEF Resolution, JobsKept

LEMMA RequestResolution ==
    ASSUME IInv, Resolution, NEW h \in Handlers, Request(h)
    PROVE  Resolution'
<1>1. PICK kind, request :
          /\ kind \in Kinds
          /\ jobs' = Append(jobs, NewJob(kind, request))
          /\ kind = "scenario" => request.base \in FinishedRuns
    <2> DEFINE Adds(kind, request) ==
            /\ kind \in Kinds
            /\ jobs' = Append(jobs, NewJob(kind, request))
            /\ kind = "scenario" => request.base \in FinishedRuns
    <2>1. ASSUME NEW key, NEW choice, StartSnapshot(h, key, choice)
          PROVE  Adds("snapshot", [choice |-> choice])
        BY <2>1 DEF StartSnapshot, CreateJob, Kinds
    <2>2. ASSUME NEW key, NEW choice, NEW snapshot, NEW decisions,
                 StartRun(h, key, snapshot, choice, decisions)
          PROVE  \E request : Adds("run", request)
        BY <2>2 DEF StartRun, CreateJob, Kinds
    <2>3. ASSUME NEW key, NEW choice, NEW base, StartScenario(h, key, base, choice)
          PROVE  Adds("scenario", [base |-> base, choice |-> choice])
        BY <2>3 DEF StartScenario, CreateJob, ReadyRun, FinishedRuns, Kinds
    <2>4. ASSUME NEW key, NEW base, NEW decision, ReviewEvents(h, key, base, decision)
          PROVE  \E request : Adds("run", request)
        BY <2>4 DEF ReviewEvents, CreateJob, Kinds
    <2>5. \E kind, request : Adds(kind, request)
        BY <2>1, <2>2, <2>3, <2>4 DEF Request
    <2> QED BY <2>5
<1>2. UNCHANGED <<snapshots, forecasts, worker>>
    BY DEF Request, StartSnapshot, StartRun, StartScenario, ReviewEvents, CreateJob
<1> DEFINE n == Len(jobs) + 1
<1>3. JobAdded(NewJob(kind, request))
    BY <1>1, AppendedJob
<1>4. /\ DOMAIN jobs' = DOMAIN jobs \cup {n} /\ jobs'[n].kind = kind /\ jobs'[n].request = request
      /\ jobs'[n].status = "queued" /\ \A i \in DOMAIN jobs : jobs'[i] = jobs[i]
    BY <1>3 DEF JobAdded, NewJob
<1>5. FinishedRuns \subseteq FinishedRuns'
    BY <1>4 DEF FinishedRuns
<1>6. ASSUME NEW i \in DOMAIN jobs, jobs[i].status = "succeeded" PROVE i \in Reported'
    <2>1. i \in Reported
        BY <1>6 DEF Resolution
    <2>2. jobs[i].kind = "scenario" => jobs'[jobs[i].request.base] = jobs[jobs[i].request.base]
        BY <1>4 DEF Resolution, FinishedRuns
    <2> QED BY <1>2, <1>4, <2>1, <2>2 DEF Reported
<1>7. \A i \in DOMAIN jobs : jobs[i].kind = "scenario" => jobs[i].request.base \in FinishedRuns'
    BY <1>5 DEF Resolution, FinishedRuns
<1>8. kind = "scenario" => request.base \in FinishedRuns'
    BY <1>1, <1>5 DEF FinishedRuns
<1>9. ImportIsStored'
    <2>1. worker.job # NoJob => worker.job \in DOMAIN jobs
        BY DEF IInv, OneHand, AtWork, OpenJobs
    <2> QED BY <1>2, <1>4, <2>1 DEF Resolution, ImportIsStored, Job
<1> QED BY <1>1, <1>4, <1>6, <1>7, <1>8, <1>9 DEF Resolution

\* An update stores the result of an import that is on disk, or of a scenario that rests
\* on a run which published it.
LEMMA UpdateResolution == ASSUME IInv, Publication, Resolution, UpdateJob PROVE Resolution'
<1> DEFINE w == worker.job
<1>1. w # NoJob /\ w \in DOMAIN jobs /\ Job.status \in Open
    BY WorkerStepShape DEF UpdateJob, OpenJobs
<1>2. UpdatedJob.kind = Job.kind /\ UpdatedJob.request = Job.request
    BY DEF UpdatedJob, UpdateJob, UpdateStages
<1>3. /\ JobsKept /\ jobs'[w] = UpdatedJob
      /\ \A i \in DOMAIN jobs : i # w => jobs'[i] = jobs[i]
    BY <1>1, <1>2, WorkersJobChanged DEF UpdateJob
<1>4. TablesGrow
    BY DEF UpdateJob, TablesGrow
<1>5. ImportIsStored'
    <2>1. CASE worker.step \in {"complete", "failed"}
        BY <2>1 DEF UpdateJob, ImportIsStored, IdleWorker
    <2>2. CASE worker.step \notin {"complete", "failed"}
        <3>1. worker'.job = w /\ worker'.step = Following[Job.kind][worker.step]
            BY <2>2 DEF UpdateJob
        <3>2. Job' = UpdatedJob
            BY <1>3, <3>1 DEF Job
        <3>3. Job.kind = "snapshot" => worker.step = "loading"
            BY <1>1, <2>2 DEF Resolution, ImportIsStored, UpdateJob, UpdateStages
        <3>4. Job.kind = "snapshot" => worker'.step = "publish"
            BY <3>1, <3>3 DEF Following
        <3> QED BY <1>2, <3>2, <3>4 DEF ImportIsStored
    <2> QED BY <2>1, <2>2
<1>6. ASSUME UpdatedJob.status = "succeeded" PROVE w \in Reported'
    <2>1. worker.step = "complete" /\ UpdatedJob.result = ResultOfWork
        BY <1>1, <1>6 DEF UpdatedJob, Open
    <2>2. CASE Job.kind = "snapshot"
        <3>1. UpdatedJob.result = worker.result
            BY <2>1, <2>2 DEF ResultOfWork
        <3> QED BY <1>1, <1>2, <1>3, <2>1, <2>2, <3>1 DEF Resolution, ImportIsStored, Reported, UpdateJob
    <2>3. CASE Job.kind = "scenario"
        <3> DEFINE b == Job.request.base
        <3>1. b \in DOMAIN jobs /\ jobs[b].kind = "run" /\ jobs[b].status = "succeeded"
            BY <1>1, <2>3 DEF Resolution, FinishedRuns, Job
        <3>2. b \in Reported /\ b # w /\ jobs'[b] = jobs[b]
            BY <1>1, <1>3, <3>1 DEF Resolution, Job, Open
        <3>3. UpdatedJob.result = [id |-> jobs[b].result.id, content |-> forecasts[jobs[b].result.id]]
            BY <2>1, <2>3 DEF ResultOfWork
        <3>4. UpdatedJob.result = jobs[b].result
            BY <3>1, <3>2, <3>3 DEF Reported
        <3> DEFINE result == jobs[b].result
        <3>5. /\ result = [id |-> result.id, content |-> result.content]
              /\ result.id \in DOMAIN forecasts /\ forecasts[result.id] = result.content
            BY <3>1, <3>2 DEF Reported
        <3>6. /\ w \in DOMAIN jobs' /\ jobs'[w].kind = "scenario" /\ jobs'[w].request.base = b
              /\ jobs'[w].result = result /\ jobs'[b].result = result /\ forecasts' = forecasts
            BY <1>1, <1>2, <1>3, <2>3, <3>2, <3>4 DEF UpdateJob, JobsKept
        <3> HIDE DEF w, b, result
        <3> QED BY <3>5, <3>6 DEF Reported
    <2>4. Job.kind # "run"
        BY <1>1, <2>1 DEF Publication, RunAtWork, RunSteps
    <2> QED BY <1>1, <2>2, <2>3, <2>4 DEF Resolution, Kinds, Job
<1>7. \A i \in DOMAIN jobs : jobs'[i].status = "succeeded" => jobs'[i] = jobs[i] \/ i \in Reported'
    BY <1>3, <1>6
<1> QED BY <1>3, <1>4, <1>5, <1>7, ResolutionStep

LEMMA PublishRunResolution ==
    ASSUME IInv, Resolution, NEW id, NEW content, PublishRun(id, content)
    PROVE  Resolution'
<1> DEFINE job == PublishedJob(id, content)
<1>1. worker.job # NoJob /\ worker.job \in DOMAIN jobs
    BY WorkerStepShape DEF PublishRun, OpenJobs
<1>2. job.kind = "run" /\ job.kind = Job.kind /\ job.request = Job.request /\ job.result = [id |-> id, content |-> content]
    BY DEF PublishedJob, PublishRun
<1>3. /\ JobsKept /\ jobs'[worker.job] = job
      /\ \A i \in DOMAIN jobs : i # worker.job => jobs'[i] = jobs[i]
    BY <1>1, <1>2, WorkersJobChanged DEF PublishRun
<1>4. TablesGrow /\ id \in DOMAIN forecasts' /\ forecasts'[id] = content
    BY DEF PublishRun, ContentFits, Stored, TablesGrow
<1>5. ImportIsStored'
    BY DEF PublishRun, ImportIsStored, IdleWorker
<1>6. worker.job \in Reported'
    <2>1. jobs'[worker.job].result = [id |-> id, content |-> content] /\ jobs'[worker.job].kind = "run"
        BY <1>2, <1>3
    <2>2. worker.job' = NoJob
        BY DEF PublishRun, IdleWorker
    <2> QED BY <1>1, <1>3, <1>4, <2>1 DEF Reported, JobsKept
<1> QED BY <1>3, <1>4, <1>5, <1>6, ResolutionStep

\* Steps that store no job and nothing under a taken identifier.
LEMMA OtherResolution ==
    ASSUME IInv, Resolution, UNCHANGED jobs, TablesGrow, ImportIsStored'
    PROVE  Resolution'
PROOF BY SameJobs, ResolutionStep

LEMMA SameTables == ASSUME UNCHANGED <<snapshots, forecasts>> PROVE TablesGrow
PROOF BY DEF TablesGrow

LEMMA WorkerResolution == ASSUME IInv, Publication, Resolution, WorkerStep PROVE Resolution'
<1>1. CASE TakeJob
    <2>1. ImportIsStored'
        BY <1>1 DEF TakeJob, ImportIsStored, IdleWorker
    <2> QED BY <1>1, <2>1, SameTables, OtherResolution DEF TakeJob, tables
<1>2. CASE ReadJob
    <2>1. ImportIsStored'
        BY <1>2 DEF ReadJob, tables, Resolution, ImportIsStored, Job
    <2> QED BY <1>2, <2>1, SameTables, OtherResolution DEF ReadJob, tables
<1>3. CASE \E id \in SnapshotIds, content \in Contents : PublishSnapshot(id, content)
    <2>1. PICK id \in SnapshotIds, content \in Contents : PublishSnapshot(id, content)
        BY <1>3
    <2>2. TablesGrow /\ id \in DOMAIN snapshots' /\ snapshots'[id] = content
        BY <2>1 DEF PublishSnapshot, ContentFits, Stored, TablesGrow
    <2>3. worker'.step = "complete" /\ worker'.result = [id |-> id, content |-> content]
        BY <2>1 DEF PublishSnapshot, IInv, WorkerKnowsItsJob
    <2>4. ImportIsStored'
        BY <2>2, <2>3 DEF ImportIsStored
    <2> QED BY <2>1, <2>2, <2>4, OtherResolution DEF PublishSnapshot
<1>4. CASE Raise
    <2>1. ImportIsStored'
        BY <1>4 DEF Raise, ImportIsStored
    <2> QED BY <1>4, <2>1, SameTables, OtherResolution DEF Raise, tables
<1>5. CASE FailureIsLost
    <2>1. ImportIsStored'
        BY <1>5 DEF FailureIsLost, ImportIsStored, IdleWorker
    <2> QED BY <1>5, <2>1, SameTables, OtherResolution DEF FailureIsLost, tables
<1> QED BY <1>1, <1>2, <1>3, <1>4, <1>5, UpdateResolution, PublishRunResolution DEF WorkerStep

LEMMA ResolutionKept == IInv /\ Publication /\ Resolution /\ [Next]_vars => Resolution'
<1> SUFFICES ASSUME IInv, Publication, Resolution, [Next]_vars PROVE Resolution'
    OBVIOUS
<1>1. CASE \E h \in Handlers : Request(h)
    BY <1>1, RequestResolution
<1>2. CASE \E h \in Handlers : HandlerStep(h)
    <2>1. PICK h \in Handlers : HandlerStep(h)
        BY <1>2
    <2>2. UNCHANGED <<jobs, snapshots, forecasts, worker>>
        BY <2>1 DEF HandlerStep, AuditReview, ReviewAuditFails, Submit, tables
    <2>3. ImportIsStored'
        BY <2>2 DEF Resolution, ImportIsStored, Job
    <2> QED BY <2>2, <2>3, SameTables, OtherResolution
<1>3. CASE WorkerStep
    BY <1>3, WorkerResolution
<1>4. CASE Crash
    <2>1. ImportIsStored' /\ UNCHANGED <<jobs, snapshots, forecasts>>
        BY <1>4 DEF Crash, ClearMemory, tables, ImportIsStored, IdleWorker
    <2> QED BY <2>1, SameTables, OtherResolution
<1>5. CASE Start
    <2>1. worker' = IdleWorker /\ UNCHANGED <<snapshots, forecasts>>
        BY <1>5 DEF Start, IInv, StoppedIsIdle
    <2>2. ImportIsStored'
        BY <2>1 DEF ImportIsStored, IdleWorker
    <2>3. \A i \in DOMAIN jobs : jobs'[i] = IF Interrupted(i) THEN RecoveredJob(i) ELSE jobs[i]
        BY <1>5 DEF Start
    <2>4. ASSUME NEW i \in DOMAIN jobs, jobs'[i].status = "succeeded"
          PROVE  jobs'[i] = jobs[i]
        <3>1. RecoveredJob(i).status = "failed"
            BY DEF RecoveredJob
        <3> QED BY <2>3, <2>4, <3>1
    <2>5. TablesGrow /\ JobsKept
        BY <1>5, <2>1, SameTables, RecoveredJobs
    <2> QED BY <2>2, <2>4, <2>5, ResolutionStep
<1>6. CASE BeginShutdown \/ FinishShutdown \/ UNCHANGED vars
    <2>1. UNCHANGED <<jobs, snapshots, forecasts, worker>>
        BY <1>6 DEF BeginShutdown, FinishShutdown, vars, tables, memory
    <2>2. ImportIsStored'
        BY <2>1 DEF Resolution, ImportIsStored, Job
    <2> QED BY <2>1, <2>2, SameTables, OtherResolution
<1> QED BY <1>1, <1>2, <1>3, <1>4, <1>5, <1>6 DEF Next

\* What a succeeded job reports is stored under the identifier it names, and a scenario
\* rests on the forecast of its base run, for any identifiers and contents a provider
\* returns (collision checks of _build_snapshot and _run).
THEOREM ResultsAreStored == Spec => []ResultsResolve
<1>1. Spec => []Publication
    BY PublicationInit, PublicationKept, InvariantHolds, PTL DEF Spec
<1>2. Spec => []Resolution
    BY <1>1, ResolutionInit, ResolutionKept, InvariantHolds, PTL DEF Spec
<1>3. Resolution => ResultsResolve
    BY DEF Resolution, Reported, ResultsResolve
<1> QED BY <1>2, <1>3, PTL

--------------------------------------------------------------------------------
(* The audit trail.                                                         *)

Marks == {"classification_review", "interrupted_on_restart"}

\* Where an event stands in a trail, and in the trail of a job.
Places(trail, event) == {n \in DOMAIN trail : trail[n] = event}
Times(i, event) == Places(audit[i], event)

Once(times) == \E n : times = {n}

\* A run of a review that nobody has queued, because its audit event is still to come or
\* was given up together with the run.
Unreviewed(i) ==
    /\ jobs[i].status \notin {"running", "succeeded"}
    /\ i \notin Queued \cup AtWork
    /\ \A h \in Handlers : handlers[h].job = i => handlers[h].review

TrailsFit == DOMAIN audit = DOMAIN jobs /\ audit \in Seq(Seq(Marks))

InterruptionsFit ==
    \A i \in DOMAIN jobs :
        IF jobs[i].error = "WORKER_RESTARTED"
        THEN jobs[i].status \notin Open /\ Once(Times(i, "interrupted_on_restart"))
        ELSE Times(i, "interrupted_on_restart") = {}

ReviewsFit ==
    /\ \A r \in reservations :
          r.key \notin Keys =>
              \/ Once(Times(r.job, "classification_review"))
              \/ Times(r.job, "classification_review") = {} /\ Unreviewed(r.job)
    /\ \A h \in Handlers : handlers[h].review => Times(handlers[h].job, "classification_review") = {}

Trail == TrailsFit /\ InterruptionsFit /\ ReviewsFit

LEMMA TrailInit == Init => Trail
<1> SUFFICES ASSUME Init PROVE Trail
    OBVIOUS
<1>1. DOMAIN jobs = {} /\ DOMAIN audit = {} /\ audit \in Seq(Seq(Marks))
    BY EmptySeq DEF Init
<1> QED BY <1>1 DEF Init, Trail, TrailsFit, InterruptionsFit, ReviewsFit, IdleHandler

LEMMA TrailOfJob == ASSUME TrailsFit, NEW i \in DOMAIN jobs PROVE audit[i] \in Seq(Marks)
PROOF BY ElementOfSeq, LenProperties DEF TrailsFit

\* Appending an event adds one place for it and none for another event.
LEMMA AppendedEvent ==
    ASSUME NEW trail \in Seq(Marks), NEW event \in Marks, NEW other
    PROVE  /\ event # other => Places(Append(trail, event), other) = Places(trail, other)
           /\ event = other /\ Places(trail, other) = {} => Once(Places(Append(trail, event), other))
<1> DEFINE n == Len(trail) + 1
           longer == Append(trail, event)
<1>1. /\ longer \in Seq(Marks) /\ Len(longer) = n /\ longer[n] = event
      /\ \A m \in 1 .. Len(trail) : longer[m] = trail[m]
    BY AppendProperties
<1>2. Len(trail) \in Nat /\ DOMAIN trail = 1 .. Len(trail) /\ DOMAIN longer = 1 .. n
    BY <1>1, LenProperties
<1>3. DOMAIN longer = DOMAIN trail \cup {n} /\ n \notin DOMAIN trail
    BY <1>2
<1> HIDE DEF n, longer
<1>4. ASSUME event # other
      PROVE  {m \in DOMAIN longer : longer[m] = other} = {m \in DOMAIN trail : trail[m] = other}
    BY <1>1, <1>2, <1>3, <1>4
<1>5. ASSUME event = other, {m \in DOMAIN trail : trail[m] = other} = {}
      PROVE  {m \in DOMAIN longer : longer[m] = other} = {n}
    BY <1>1, <1>2, <1>3, <1>5
<1> QED BY <1>4, <1>5 DEF Once, Places, longer

\* Steps that write no audit event, start no review and queue no run of one.
LEMMA QuietTrail ==
    ASSUME IInv, Trail, JobsKept, UNCHANGED <<audit, reservations>>,
           \A i \in DOMAIN jobs : jobs'[i].error = "WORKER_RESTARTED" => jobs'[i] = jobs[i],
           \A h \in Handlers : handlers'[h].review => handlers'[h] = handlers[h],
           \A i \in DOMAIN jobs : Unreviewed(i) => Unreviewed(i)'
    PROVE  Trail'
<1>1. \A i, event : Times(i, event)' = Times(i, event)
    BY DEF Times
<1>2. TrailsFit'
    BY DEF Trail, TrailsFit, JobsKept
<1>3. InterruptionsFit'
    BY <1>1 DEF Trail, InterruptionsFit, JobsKept
<1>4. \A r \in reservations : r.job \in DOMAIN jobs
    BY DEF IInv, KeysAreSound
<1>5. ReviewsFit'
    BY <1>1, <1>4 DEF Trail, ReviewsFit
<1> QED BY <1>2, <1>3, <1>5 DEF Trail

LEMMA RequestTrail ==
    ASSUME IInv, Ownership, Trail, NEW h \in Handlers, Request(h)
    PROVE  Trail'
<1>1. PICK kind, key, request, review :
          CreateJob(h, kind, key, request, review) /\ (key \notin Keys \cup {NoKey} => review)
    BY DEF Request, StartSnapshot, StartRun, StartScenario, ReviewEvents
<1>0. PICK n : n = Len(jobs) + 1
    OBVIOUS
<1>2. JobAdded(NewJob(kind, request)) /\ JobsAreASequence
    BY <1>1, AppendedJob DEF CreateJob, IInv
<1>3. /\ DOMAIN jobs' = DOMAIN jobs \cup {n} /\ n \notin DOMAIN jobs /\ n # NoJob
      /\ jobs'[n].error = "none" /\ jobs'[n].status = "queued"
      /\ \A i \in DOMAIN jobs : jobs'[i] = jobs[i]
    BY <1>0, <1>2, JobNumbers DEF JobAdded, NewJob, NoJob
<1>4. Len(jobs) = Len(audit) /\ Len(audit) \in Nat
    BY <1>2, JobNumbers, LenProperties DEF Trail, TrailsFit
<1>5. /\ audit' \in Seq(Seq(Marks)) /\ DOMAIN audit' = DOMAIN jobs'
      /\ audit'[n] = <<>> /\ \A i \in DOMAIN jobs : audit'[i] = audit[i]
    <2>1. <<>> \in Seq(Marks) /\ audit' = Append(audit, <<>>)
        BY <1>1, EmptySeq DEF CreateJob
    <2>2. /\ audit' \in Seq(Seq(Marks)) /\ Len(audit') = n /\ audit'[n] = <<>>
          /\ \A i \in 1 .. Len(audit) : audit'[i] = audit[i]
        BY <2>1, <1>0, <1>4, AppendProperties DEF Trail, TrailsFit
    <2>3. DOMAIN audit' = 1 .. n /\ DOMAIN jobs = 1 .. Len(audit)
        BY <2>2, <1>4, LenProperties DEF Trail, TrailsFit
    <2>4. 1 .. n = (1 .. Len(audit)) \cup {n}
        BY <1>0, <1>4
    <2> QED BY <2>2, <2>3, <2>4, <1>3
<1>6. \A event : Times(n, event)' = {} /\ \A i \in DOMAIN jobs : Times(i, event)' = Times(i, event)
    <2>1. DOMAIN <<>> = {}
        OBVIOUS
    <2>2. \A event : Places(<<>>, event) = {}
        BY <2>1 DEF Places
    <2> QED BY <1>5, <2>2 DEF Times
<1>7. InterruptionsFit'
    BY <1>3, <1>6 DEF Trail, InterruptionsFit
<1>8. /\ handlers'[h] = [job |-> n, review |-> review]
      /\ \A g \in Handlers : g # h => handlers'[g] = handlers[g]
    BY <1>0, <1>1 DEF CreateJob, IInv, OneHand
<1>9. Queued' = Queued /\ AtWork' = AtWork /\ n \notin Queued \cup AtWork
    BY <1>1, <1>3 DEF CreateJob, Queued, AtWork, IInv, OneHand, OpenJobs
<1>10. \A g \in Handlers : handlers[g].job # n
    BY <1>3 DEF IInv, OneHand, InHand, OpenJobs
<1>11. ReviewsFit'
    <2>1. ASSUME NEW r \in reservations', r.key \notin Keys
          PROVE  \/ Once(Times(r.job, "classification_review")')
                 \/ Times(r.job, "classification_review")' = {} /\ Unreviewed(r.job)'
        <3>1. CASE r \in reservations
            <4>1. r.job \in DOMAIN jobs
                BY <3>1 DEF IInv, KeysAreSound
            <4>2. Unreviewed(r.job) => Unreviewed(r.job)'
                BY <1>3, <1>8, <1>9, <4>1 DEF Unreviewed
            <4> QED BY <1>6, <2>1, <3>1, <4>1, <4>2 DEF Trail, ReviewsFit
        <3>2. CASE r \notin reservations
            <4>1. r.job = n /\ r.key = key /\ key # NoKey
                BY <1>0, <1>1, <3>2 DEF CreateJob
            <4>2. review
                BY <1>1, <2>1, <4>1
            <4>3. Unreviewed(n)'
                BY <1>3, <1>8, <1>9, <1>10, <4>2 DEF Unreviewed
            <4> QED BY <1>6, <4>1, <4>3
        <3> QED BY <3>1, <3>2
    <2>2. ASSUME NEW g \in Handlers, handlers'[g].review
          PROVE  (Times(handlers[g].job, "classification_review") = {})'
        <3>1. CASE g = h
            BY <1>6, <1>8, <3>1
        <3>2. CASE g # h
            <4>1. handlers'[g] = handlers[g] /\ handlers[g].job \in DOMAIN jobs
                BY <1>8, <2>2, <3>2 DEF Ownership, IInv, OneHand, InHand, OpenJobs
            <4> QED BY <1>6, <2>2, <4>1 DEF Trail, ReviewsFit
        <3> QED BY <3>1, <3>2
    <2> QED BY <2>1, <2>2 DEF ReviewsFit
<1> QED BY <1>5, <1>7, <1>11 DEF Trail, TrailsFit

\* The event of a review is written once, while its handler holds the run.
LEMMA AuditReviewTrail ==
    ASSUME IInv, Ownership, Trail, NEW h \in Handlers, AuditReview(h)
    PROVE  Trail'
<1>0. PICK i : i = handlers[h].job
    OBVIOUS
<1> DEFINE longer == Append(audit[i], "classification_review")
<1>1. i \in DOMAIN jobs /\ i # NoJob
    BY <1>0 DEF AuditReview, Ownership, IInv, OneHand, InHand, OpenJobs
<1>2. audit[i] \in Seq(Marks) /\ longer \in Seq(Marks)
    BY <1>1, TrailOfJob, AppendProperties DEF Trail, Marks
<1>3. /\ audit' \in Seq(Seq(Marks)) /\ DOMAIN audit' = DOMAIN audit
      /\ audit'[i] = longer /\ \A j \in DOMAIN jobs : j # i => audit'[j] = audit[j]
    <2>1. audit' = [audit EXCEPT ![i] = longer] /\ audit \in Seq(Seq(Marks)) /\ DOMAIN audit = 1 .. Len(audit)
        BY <1>0, LenProperties DEF AuditReview, Trail, TrailsFit
    <2>2. i \in 1 .. Len(audit) /\ DOMAIN jobs = DOMAIN audit
        BY <1>1, <2>1 DEF Trail, TrailsFit
    <2> HIDE DEF longer
    <2>3. /\ audit' \in Seq(Seq(Marks)) /\ Len(audit') = Len(audit)
          /\ \A j \in 1 .. Len(audit) : audit'[j] = IF j = i THEN longer ELSE audit[j]
        BY <1>2, <2>1, <2>2, ExceptSeq
    <2> QED BY <2>1, <2>2, <2>3, LenProperties
<1>4. UNCHANGED <<jobs, reservations, queue, worker>>
    BY DEF AuditReview
<1>5. /\ Once(Times(i, "classification_review")')
      /\ Times(i, "interrupted_on_restart")' = Times(i, "interrupted_on_restart")
    <2>1. Times(i, "classification_review") = {}
        BY <1>0 DEF AuditReview, Trail, ReviewsFit
    <2>2. \A event : Times(i, event) = Places(audit[i], event) /\ Times(i, event)' = Places(longer, event)
        BY <1>3 DEF Times
    <2>3. "classification_review" \in Marks
        BY DEF Marks
    <2> QED BY <1>2, <2>1, <2>2, <2>3, AppendedEvent
<1>6. \A j \in DOMAIN jobs : j # i => \A event : Times(j, event)' = Times(j, event)
    BY <1>3 DEF Times
<1>7. InterruptionsFit'
    BY <1>4, <1>5, <1>6 DEF Trail, InterruptionsFit
<1>8. \A g \in Handlers : /\ handlers'[g].job = handlers[g].job
                          /\ handlers'[g].review => g # h /\ handlers[g].review
    BY DEF AuditReview, IInv, OneHand
<1>9. ReviewsFit'
    <2>1. ASSUME NEW r \in reservations, r.key \notin Keys, r.job # i
          PROVE  \/ Once(Times(r.job, "classification_review")')
                 \/ Times(r.job, "classification_review")' = {} /\ Unreviewed(r.job)'
        <3>1. r.job \in DOMAIN jobs
            BY DEF IInv, KeysAreSound
        <3>2. \A g \in Handlers : g # h => handlers'[g] = handlers[g]
            BY DEF AuditReview, IInv, OneHand
        <3>3. Unreviewed(r.job) => Unreviewed(r.job)'
            BY <1>0, <1>4, <1>8, <2>1, <3>2 DEF Unreviewed, Queued, AtWork
        <3> QED BY <1>6, <2>1, <3>1, <3>3 DEF Trail, ReviewsFit
    <2>2. ASSUME NEW g \in Handlers, handlers'[g].review
          PROVE  (Times(handlers[g].job, "classification_review") = {})'
        <3>1. g # h /\ handlers[g].review /\ handlers'[g].job = handlers[g].job
            BY <1>8, <2>2
        <3>2. handlers[g].job # i /\ handlers[g].job \in DOMAIN jobs
            BY <1>0, <1>1, <3>1 DEF Ownership, IInv, OneHand, InHand, OpenJobs
        <3> QED BY <1>6, <1>8, <3>1, <3>2 DEF Trail, ReviewsFit
    <2> QED BY <1>4, <1>5, <2>1, <2>2 DEF ReviewsFit
<1> QED BY <1>3, <1>4, <1>7, <1>9 DEF Trail, TrailsFit

\* Every interrupted job fails with one event; nothing was interrupted twice.
LEMMA StartTrail == ASSUME IInv, Trail, Start PROVE Trail'
<1> DEFINE longer(i) == Append(audit[i], "interrupted_on_restart")
<1>1. /\ DOMAIN jobs' = DOMAIN jobs /\ DOMAIN audit' = DOMAIN audit /\ DOMAIN audit = DOMAIN jobs
      /\ \A i \in DOMAIN jobs : jobs'[i] = IF Interrupted(i) THEN RecoveredJob(i) ELSE jobs[i]
      /\ \A i \in DOMAIN jobs : audit'[i] = IF Interrupted(i) THEN longer(i) ELSE audit[i]
    BY DEF Start, Trail, TrailsFit
<1>2. UNCHANGED <<reservations, handlers, queue, worker>> /\ queue = <<>> /\ worker = IdleWorker
    BY DEF Start, IInv, StoppedIsIdle
<1>3. \A i \in DOMAIN jobs : audit[i] \in Seq(Marks) /\ longer(i) \in Seq(Marks)
    BY TrailOfJob, AppendProperties DEF Trail, Marks
<1>4. audit' \in Seq(Seq(Marks))
    <2>1. Len(audit) \in Nat /\ DOMAIN audit = 1 .. Len(audit)
        BY LenProperties DEF Trail, TrailsFit
    <2>2. audit' = [i \in 1 .. Len(audit) |-> IF Interrupted(i) THEN longer(i) ELSE audit[i]]
        BY <2>1 DEF Start
    <2>3. audit' \in [1 .. Len(audit) -> Seq(Marks)]
        BY <1>1, <1>3, <2>1, <2>2
    <2> QED BY <2>1, <2>3
<1>5. \A i \in DOMAIN jobs : Interrupted(i) =>
          /\ jobs[i].error # "WORKER_RESTARTED"
          /\ jobs'[i].error = "WORKER_RESTARTED" /\ jobs'[i].status = "failed"
    <2>1. \A i \in DOMAIN jobs : RecoveredJob(i).error = "WORKER_RESTARTED" /\ RecoveredJob(i).status = "failed"
        BY DEF RecoveredJob
    <2>2. \A i \in DOMAIN jobs : Interrupted(i) => jobs[i].error # "WORKER_RESTARTED"
        BY DEF Trail, InterruptionsFit, Interrupted
    <2> QED BY <1>1, <2>1, <2>2
<1>6. ASSUME NEW i \in DOMAIN jobs
      PROVE  /\ Times(i, "classification_review")' = Times(i, "classification_review")
             /\ IF Interrupted(i) THEN Once(Times(i, "interrupted_on_restart")')
                ELSE Times(i, "interrupted_on_restart")' = Times(i, "interrupted_on_restart")
    <2>1. CASE Interrupted(i)
        <3>1. \A event : Times(i, event)' = Places(longer(i), event)
            BY <1>1, <2>1 DEF Times
        <3>2. \A event : Times(i, event) = Places(audit[i], event)
            BY DEF Times
        <3>3. Times(i, "interrupted_on_restart") = {}
            BY <1>5, <2>1 DEF Trail, InterruptionsFit
        <3>4. "interrupted_on_restart" \in Marks
            BY DEF Marks
        <3> QED BY <1>3, <2>1, <3>1, <3>2, <3>3, <3>4, AppendedEvent
    <2>2. CASE ~ Interrupted(i)
        BY <1>1, <2>2 DEF Times
    <2> QED BY <2>1, <2>2
<1>7. InterruptionsFit'
    <2>1. ASSUME NEW i \in DOMAIN jobs
          PROVE  IF jobs'[i].error = "WORKER_RESTARTED"
                 THEN jobs'[i].status \notin Open /\ Once(Times(i, "interrupted_on_restart")')
                 ELSE Times(i, "interrupted_on_restart")' = {}
        <3>1. CASE Interrupted(i)
            BY <1>5, <1>6, <3>1 DEF Open
        <3>2. CASE ~ Interrupted(i)
            BY <1>1, <1>6, <3>2 DEF Trail, InterruptionsFit
        <3> QED BY <3>1, <3>2
    <2> QED BY <1>1, <2>1 DEF InterruptionsFit
<1>8. \A i \in DOMAIN jobs : Unreviewed(i) => Unreviewed(i)'
    BY <1>1, <1>2, <1>5 DEF Unreviewed, Queued, AtWork
<1>9. ReviewsFit'
    <2>1. \A r \in reservations : r.job \in DOMAIN jobs
        BY DEF IInv, KeysAreSound
    <2>2. \A h \in Handlers : handlers[h] = IdleHandler
        BY DEF Start, IInv, StoppedIsIdle
    <2>3. \A h \in Handlers : ~ handlers[h].review
        BY <2>2 DEF IdleHandler
    <2> QED BY <1>2, <1>6, <1>8, <2>1, <2>3 DEF Trail, ReviewsFit
<1> QED BY <1>1, <1>4, <1>7, <1>9 DEF Trail, TrailsFit

LEMMA HandlerTrail ==
    ASSUME IInv, Ownership, Trail, NEW h \in Handlers, HandlerStep(h)
    PROVE  Trail'
<1>1. CASE AuditReview(h)
    BY <1>1, AuditReviewTrail
<1>2. CASE ReviewAuditFails(h)
    <2>1. UNCHANGED <<jobs, audit, reservations, queue, worker>>
        BY <1>2 DEF ReviewAuditFails, tables
    <2>2. \A g \in Handlers : handlers'[g] = IF g = h THEN IdleHandler ELSE handlers[g]
        BY <1>2 DEF ReviewAuditFails, IInv, OneHand
    <2>3. NoJob \notin DOMAIN jobs
        BY JobNumbers DEF IInv, NoJob
    <2>4. \A i \in DOMAIN jobs : Unreviewed(i) => Unreviewed(i)'
        BY <2>1, <2>2, <2>3 DEF Unreviewed, Queued, AtWork, IdleHandler
    <2>5. \A g \in Handlers : handlers'[g].review => handlers'[g] = handlers[g]
        BY <2>2 DEF IdleHandler
    <2> QED BY <2>1, <2>4, <2>5, SameJobs, QuietTrail
<1>3. CASE Submit(h)
    <2>1. UNCHANGED <<jobs, audit, reservations, worker>> /\ AtWork' = AtWork
        BY <1>3 DEF Submit, tables, AtWork
    <2>2. \A g \in Handlers : handlers'[g] = IF g = h THEN IdleHandler ELSE handlers[g]
        BY <1>3 DEF Submit, IInv, OneHand
    <2>3. NoJob \notin DOMAIN jobs
        BY JobNumbers DEF IInv, NoJob
    <2>4. Queued' \subseteq Queued \cup {handlers[h].job}
        <3>1. queue \in Seq(DOMAIN jobs) /\ handlers[h].job \in DOMAIN jobs /\ queue' = Append(queue, handlers[h].job)
            BY <1>3 DEF Submit, ReadyToSubmit, IInv, OneHand, InHand, OpenJobs
        <3>2. /\ Len(queue) \in Nat /\ DOMAIN queue = 1 .. Len(queue) /\ DOMAIN queue' = 1 .. Len(queue) + 1
              /\ queue'[Len(queue) + 1] = handlers[h].job
              /\ \A n \in 1 .. Len(queue) : queue'[n] = queue[n]
            BY <3>1, AppendProperties, LenProperties
        <3> QED BY <3>2 DEF Queued
    <2>5. \A i \in DOMAIN jobs : Unreviewed(i) => i # handlers[h].job
        BY <1>3 DEF Unreviewed, Submit, ReadyToSubmit
    <2>6. \A i \in DOMAIN jobs : Unreviewed(i) => Unreviewed(i)'
        BY <2>1, <2>2, <2>3, <2>4, <2>5 DEF Unreviewed, IdleHandler
    <2>7. \A g \in Handlers : handlers'[g].review => handlers'[g] = handlers[g]
        BY <2>2 DEF IdleHandler
    <2> QED BY <2>1, <2>6, <2>7, SameJobs, QuietTrail
<1> QED BY <1>1, <1>2, <1>3 DEF HandlerStep

\* What the worker does to its own job leaves the runs alone that nobody has queued.
LEMMA WorkersTrail ==
    ASSUME IInv, Trail, JobsKept, UNCHANGED <<audit, reservations, handlers, queue>>,
           worker.job # NoJob, worker'.job \in {worker.job, NoJob},
           \A i \in DOMAIN jobs : i # worker.job => jobs'[i] = jobs[i],
           jobs'[worker.job].error \in {Job.error, "failure"}
    PROVE  Trail'
<1>1. Job.error # "WORKER_RESTARTED"
    BY DEF IInv, OneHand, AtWork, OpenJobs, Job, Trail, InterruptionsFit
<1>2. \A i \in DOMAIN jobs : jobs'[i].error = "WORKER_RESTARTED" => jobs'[i] = jobs[i]
    BY <1>1
<1>3. Queued' = Queued /\ AtWork = {worker.job} /\ AtWork' \subseteq AtWork
    BY DEF Queued, AtWork
<1>4. \A i \in DOMAIN jobs : Unreviewed(i) => Unreviewed(i)'
    BY <1>3 DEF Unreviewed
<1> QED BY <1>2, <1>4, QuietTrail

LEMMA WorkerTrail == ASSUME IInv, Trail, WorkerStep PROVE Trail'
<1>1. CASE TakeJob
    <2>1. UNCHANGED <<jobs, audit, reservations, handlers>>
        BY <1>1 DEF TakeJob, tables
    <2>2. Queued' \cup AtWork' = Queued \cup AtWork
        BY <1>1, TakeJobHands
    <2>3. \A i \in DOMAIN jobs : Unreviewed(i) => Unreviewed(i)'
        BY <2>1, <2>2 DEF Unreviewed
    <2> QED BY <2>1, <2>3, SameJobs, QuietTrail
<1>2. CASE ReadJob
    <2>1. worker.job # NoJob
        BY <1>2, WorkerStepShape DEF ReadJob
    <2>2. worker'.job = worker.job /\ UNCHANGED <<jobs, audit, reservations, handlers, queue>>
        BY <1>2 DEF ReadJob, tables
    <2>3. jobs'[worker.job].error = Job.error
        BY <2>2 DEF Job
    <2> QED BY <2>1, <2>2, <2>3, SameJobs, WorkersTrail
<1>3. CASE UpdateJob
    <2>1. worker.job # NoJob
        BY <1>3, WorkerStepShape DEF UpdateJob
    <2>2. UpdatedJob.kind = Job.kind /\ UpdatedJob.request = Job.request
        BY <1>3 DEF UpdatedJob, UpdateJob, UpdateStages
    <2>3. /\ JobsKept /\ jobs'[worker.job] = UpdatedJob
          /\ \A i \in DOMAIN jobs : i # worker.job => jobs'[i] = jobs[i]
        BY <1>3, <2>1, <2>2, WorkersJobChanged DEF UpdateJob
    <2>4. UpdatedJob.error \in {Job.error, "failure"}
        BY <1>3 DEF UpdatedJob, UpdateJob, UpdateStages
    <2>5. UNCHANGED <<audit, reservations, handlers, queue>> /\ worker'.job \in {worker.job, NoJob}
        BY <1>3 DEF UpdateJob, IdleWorker
    <2> QED BY <2>1, <2>3, <2>4, <2>5, WorkersTrail
<1>4. CASE \E id \in SnapshotIds, content \in Contents : PublishSnapshot(id, content)
    <2>1. worker.job # NoJob
        BY <1>4, WorkerStepShape DEF PublishSnapshot
    <2>2. worker'.job = worker.job /\ UNCHANGED <<jobs, audit, reservations, handlers, queue>>
        BY <1>4 DEF PublishSnapshot
    <2>3. jobs'[worker.job].error = Job.error
        BY <2>2 DEF Job
    <2> QED BY <2>1, <2>2, <2>3, SameJobs, WorkersTrail
<1>5. CASE \E id \in ForecastIds, content \in Contents : PublishRun(id, content)
    <2>1. PICK id \in ForecastIds, content \in Contents : PublishRun(id, content)
        BY <1>5
    <2>2. worker.job # NoJob
        BY <2>1, WorkerStepShape DEF PublishRun
    <2>3. /\ PublishedJob(id, content).kind = Job.kind /\ PublishedJob(id, content).request = Job.request
          /\ PublishedJob(id, content).error = Job.error
        BY DEF PublishedJob
    <2>4. /\ JobsKept /\ jobs'[worker.job] = PublishedJob(id, content)
          /\ \A i \in DOMAIN jobs : i # worker.job => jobs'[i] = jobs[i]
        BY <2>1, <2>2, <2>3, WorkersJobChanged DEF PublishRun
    <2>5. worker'.job = NoJob /\ UNCHANGED <<audit, reservations, handlers, queue>>
        BY <2>1 DEF PublishRun, IdleWorker
    <2> QED BY <2>2, <2>3, <2>4, <2>5, WorkersTrail
<1>6. CASE Raise \/ FailureIsLost
    <2>1. worker.job # NoJob
        BY <1>6 DEF Raise, FailureIsLost, IdleWorker, IInv, WorkerKnowsItsJob
    <2>2. UNCHANGED <<jobs, audit, reservations, handlers, queue>> /\ jobs'[worker.job].error = Job.error
        BY <1>6 DEF Raise, FailureIsLost, tables, Job
    <2>3. worker'.job \in {worker.job, NoJob}
        <3>1. Raise => worker'.job = worker.job
            BY DEF Raise
        <3>2. FailureIsLost => worker'.job = NoJob
            BY DEF FailureIsLost, IdleWorker
        <3> QED BY <1>6, <3>1, <3>2
    <2> QED BY <2>1, <2>2, <2>3, SameJobs, WorkersTrail
<1> QED BY <1>1, <1>2, <1>3, <1>4, <1>5, <1>6 DEF WorkerStep

LEMMA TrailKept == IInv /\ Ownership /\ Trail /\ [Next]_vars => Trail'
<1> SUFFICES ASSUME IInv, Ownership, Trail, [Next]_vars PROVE Trail'
    OBVIOUS
<1>1. CASE \E h \in Handlers : Request(h)
    BY <1>1, RequestTrail
<1>2. CASE \E h \in Handlers : HandlerStep(h)
    BY <1>2, HandlerTrail
<1>3. CASE WorkerStep
    BY <1>3, WorkerTrail
<1>4. CASE Crash
    <2>1. UNCHANGED <<jobs, audit, reservations>> /\ queue' = <<>> /\ worker' = IdleWorker
        BY <1>4 DEF Crash, ClearMemory, tables
    <2>2. \A h \in Handlers : handlers'[h] = IdleHandler
        BY <1>4 DEF Crash, ClearMemory
    <2>3. Queued' = {} /\ AtWork' = {} /\ NoJob \notin DOMAIN jobs
        BY <2>1, JobNumbers DEF Queued, AtWork, IdleWorker, IInv, NoJob
    <2>4. \A i \in DOMAIN jobs : Unreviewed(i) => Unreviewed(i)'
        BY <2>1, <2>2, <2>3 DEF Unreviewed, IdleHandler
    <2>5. \A h \in Handlers : ~ handlers'[h].review
        BY <2>2 DEF IdleHandler
    <2> QED BY <2>1, <2>4, <2>5, SameJobs, QuietTrail
<1>5. CASE Start
    BY <1>5, StartTrail
<1>6. CASE BeginShutdown \/ FinishShutdown \/ UNCHANGED vars
    <2>1. UNCHANGED <<jobs, audit, reservations, handlers, queue, worker>>
        BY <1>6 DEF BeginShutdown, FinishShutdown, vars, tables, memory
    <2>2. \A i \in DOMAIN jobs : Unreviewed(i) => Unreviewed(i)'
        BY <2>1 DEF Unreviewed, Queued, AtWork
    <2> QED BY <2>1, <2>2, SameJobs, QuietTrail
<1> QED BY <1>1, <1>2, <1>3, <1>4, <1>5, <1>6 DEF Next

\* A run that a review asked for is under way only after the review was audited, and a job
\* carries WORKER_RESTARTED exactly when one interruption was audited, however handlers,
\* worker, crashes and starts interleave (review_events, recover_running_jobs).
THEOREM AuditTellsTheStory == Spec => []AuditExplainsJobs
<1>1. Spec => [](IInv /\ Ownership /\ Trail)
    BY InvariantHolds, OwnershipInit, OwnershipKept, TrailInit, TrailKept, PTL DEF Spec
<1>2. IInv /\ Ownership /\ Trail => AuditExplainsJobs
    <2> SUFFICES ASSUME IInv, Trail PROVE AuditExplainsJobs
        OBVIOUS
    <2>1. \A times : /\ Once(times) => Cardinality(times) = 1
                     /\ times = {} => Cardinality(times) = 0
        BY FS_Singleton, FS_EmptySet DEF Once
    <2>2. \A r \in reservations : r.key \notin Keys /\ jobs[r.job].status \in {"running", "succeeded"}
              => Once(Times(r.job, "classification_review"))
        BY DEF Trail, ReviewsFit, Unreviewed
    <2>3. \A i \in DOMAIN jobs : IF jobs[i].error = "WORKER_RESTARTED"
              THEN Once(Times(i, "interrupted_on_restart"))
              ELSE Times(i, "interrupted_on_restart") = {}
        BY DEF Trail, InterruptionsFit
    <2> QED BY <2>1, <2>2, <2>3 DEF AuditExplainsJobs, Count, Times, Places
<1> QED BY <1>1, <1>2, PTL

--------------------------------------------------------------------------------
(* Versions.                                                                *)

\* Where the worker is with a job of each kind, and the version the job has there.
AtStage(kind, step, version) ==
    \/ step = "failed" /\ version \in 1 .. 4
    \/ step = "loading" /\ version = 1
    \/ kind = "snapshot" /\ step \in {"publish", "complete"} /\ version = 2
    \/ kind = "run" /\ \/ step = "forecast" /\ version = 2
                       \/ step = "planning" /\ version = 3
                       \/ step = "publish" /\ version = 4
    \/ kind = "scenario" /\ \/ step = "replanning" /\ version = 2
                            \/ step = "complete" /\ version = 3

\* Every stage costs a version, and no job before its first stage has cost any.
VersionsFit ==
    /\ \A i \in DOMAIN jobs :
          /\ jobs[i].kind \in Kinds /\ jobs[i].version \in 1 .. 5
          /\ jobs[i].status \in Open => jobs[i].version \in 1 .. 4
    /\ \A i \in Queued \cup InHand : jobs[i].version = 1
    /\ worker.job # NoJob => AtStage(Job.kind, worker.step, Job.version)
    /\ worker.step = "publish" => worker.seen = 0

LEMMA VersionsInit == Init => VersionsFit
PROOF BY EmptySeq DEF Init, VersionsFit, Queued, InHand, IdleHandler, IdleWorker

\* Steps that change no job and hand out none.
LEMMA QuietVersions ==
    ASSUME VersionsFit, UNCHANGED jobs, Queued' \cup InHand' \subseteq Queued \cup InHand,
           worker' = worker \/ worker' = IdleWorker
    PROVE  VersionsFit'
PROOF BY DEF VersionsFit, Job, IdleWorker

LEMMA CreateJobVersions ==
    ASSUME IInv, VersionsFit, NEW h \in Handlers, NEW kind \in Kinds, NEW key, NEW request, NEW review,
           CreateJob(h, kind, key, request, review)
    PROVE  VersionsFit'
<1> DEFINE n == Len(jobs) + 1
<1>1. JobAdded(NewJob(kind, request))
    BY AppendedJob DEF CreateJob
<1>2. /\ DOMAIN jobs' = DOMAIN jobs \cup {n} /\ n \notin DOMAIN jobs
      /\ \A i \in DOMAIN jobs : jobs'[i] = jobs[i]
      /\ jobs'[n].kind = kind /\ jobs'[n].version = 1
    BY <1>1 DEF JobAdded, NewJob
<1>3. InHand' \subseteq InHand \cup {n} /\ Queued' = Queued /\ worker' = worker
    BY DEF CreateJob, InHand, Queued, IInv, OneHand
<1>4. Queued \cup InHand \subseteq DOMAIN jobs /\ (worker.job # NoJob => worker.job \in DOMAIN jobs)
    BY DEF IInv, OneHand, AtWork, OpenJobs
<1>5. \A i \in Queued' \cup InHand' : jobs'[i].version = 1
    BY <1>2, <1>3, <1>4 DEF VersionsFit
<1>6. worker.job # NoJob => Job' = Job
    BY <1>2, <1>3, <1>4 DEF Job
<1> QED BY <1>2, <1>3, <1>5, <1>6 DEF VersionsFit

\* A step of the worker that keeps or lets go of its job leaves those of the others alone.
LEMMA WorkersVersions ==
    ASSUME IInv, VersionsFit, JobsKept, UNCHANGED <<queue, handlers>>,
           worker.job # NoJob, worker'.job \in {worker.job, NoJob},
           \A i \in DOMAIN jobs : i # worker.job => jobs'[i] = jobs[i],
           jobs'[worker.job].version \in 1 .. 5,
           jobs'[worker.job].status \in Open => jobs'[worker.job].version \in 1 .. 4,
           worker'.job # NoJob => AtStage(Job.kind, worker'.step, jobs'[worker.job].version),
           worker'.step = "publish" => worker'.seen = 0
    PROVE  VersionsFit'
<1>1. Queued' = Queued /\ InHand' = InHand
    BY DEF Queued, InHand
<1>2. worker.job \notin Queued \cup InHand /\ Queued \cup InHand \subseteq DOMAIN jobs
    BY DEF IInv, OneHand, AtWork, OpenJobs
<1>3. \A i \in Queued' \cup InHand' : jobs'[i].version = 1
    BY <1>1, <1>2 DEF VersionsFit
<1>4. \A i \in DOMAIN jobs : /\ jobs'[i].kind \in Kinds /\ jobs'[i].version \in 1 .. 5
                             /\ jobs'[i].status \in Open => jobs'[i].version \in 1 .. 4
    BY DEF VersionsFit, JobsKept
<1>5. worker'.job # NoJob => Job'.kind = Job.kind /\ Job'.version = jobs'[worker.job].version
    BY DEF Job, JobsKept, IInv, OneHand, AtWork, OpenJobs
<1> QED BY <1>3, <1>4, <1>5 DEF VersionsFit, JobsKept

\* The stage that follows, and the version it finds.
LEMMA NextStage ==
    ASSUME NEW kind \in Kinds, NEW step \in UpdateStages \ {"complete", "failed"}, NEW version,
           AtStage(kind, step, version)
    PROVE  /\ version \in 1 .. 3
           /\ AtStage(kind, Following[kind][step], version + 1)
           /\ step = "loading" => Following[kind][step] \in {"publish", "forecast", "replanning"}
           /\ step = "forecast" => Following[kind][step] = "planning"
           /\ step = "planning" => Following[kind][step] = "publish"
           /\ step = "replanning" => Following[kind][step] = "complete"
<1>1. CASE kind = "snapshot"
    <2>1. step = "loading" /\ version = 1
        BY <1>1 DEF AtStage, UpdateStages
    <2>2. Following[kind][step] = "publish"
        BY <1>1, <2>1 DEF Following
    <2> QED BY <1>1, <2>1, <2>2 DEF AtStage
<1>2. CASE kind = "run"
    <2>1. \/ step = "loading" /\ version = 1 /\ Following[kind][step] = "forecast"
          \/ step = "forecast" /\ version = 2 /\ Following[kind][step] = "planning"
          \/ step = "planning" /\ version = 3 /\ Following[kind][step] = "publish"
        BY <1>2 DEF AtStage, UpdateStages, Following
    <2> QED BY <1>2, <2>1 DEF AtStage
<1>3. CASE kind = "scenario"
    <2>1. \/ step = "loading" /\ version = 1 /\ Following[kind][step] = "replanning"
          \/ step = "replanning" /\ version = 2 /\ Following[kind][step] = "complete"
        BY <1>3 DEF AtStage, UpdateStages, Following
    <2> QED BY <1>3, <2>1 DEF AtStage
<1> QED BY <1>1, <1>2, <1>3 DEF Kinds

LEMMA UpdateVersions == ASSUME IInv, VersionsFit, UpdateJob PROVE VersionsFit'
<1> DEFINE w == worker.job
<1>1. w # NoJob /\ w \in DOMAIN jobs /\ Job.status \in Open
    BY WorkerStepShape DEF UpdateJob, OpenJobs
<1>2. UpdatedJob.kind = Job.kind /\ UpdatedJob.request = Job.request /\ UpdatedJob.version = Job.version + 1
    BY DEF UpdatedJob, UpdateJob, UpdateStages
<1>3. /\ JobsKept /\ jobs'[w] = UpdatedJob
      /\ \A i \in DOMAIN jobs : i # w => jobs'[i] = jobs[i]
    BY <1>1, <1>2, WorkersJobChanged DEF UpdateJob
<1>4. Job.version \in 1 .. 4 /\ Job.kind \in Kinds /\ AtStage(Job.kind, worker.step, Job.version)
    BY <1>1 DEF VersionsFit, Job
<1>5. CASE worker.step \in {"complete", "failed"}
    <2>1. worker'.job = NoJob /\ worker'.step # "publish"
        BY <1>5 DEF UpdateJob, IdleWorker
    <2>2. UpdatedJob.status \notin Open
        BY <1>5 DEF UpdatedJob, Open
    <2> QED BY <1>1, <1>2, <1>3, <1>4, <2>1, <2>2, WorkersVersions DEF UpdateJob
<1>6. CASE worker.step \notin {"complete", "failed"}
    <2>1. /\ worker'.job = w /\ worker'.step = Following[Job.kind][worker.step] /\ worker'.seen = 0
          /\ worker.step \in UpdateStages \ {"complete", "failed"}
        BY <1>6 DEF UpdateJob
    <2>2. Job.version \in 1 .. 3 /\ AtStage(Job.kind, worker'.step, Job.version + 1)
        BY <1>4, <2>1, NextStage
    <2> QED BY <1>1, <1>2, <1>3, <2>1, <2>2, WorkersVersions DEF UpdateJob
<1> QED BY <1>5, <1>6

LEMMA WorkerVersions == ASSUME IInv, VersionsFit, WorkerStep PROVE VersionsFit'
<1>1. CASE TakeJob
    <2> DEFINE i == Head(queue)
    <2>1. /\ i \in Queued /\ Queued' = Queued \ {i} /\ InHand' = InHand
        BY <1>1, TakeJobHands
    <2>2. worker'.job = i /\ worker'.step = "loading" /\ jobs' = jobs
        BY <1>1 DEF TakeJob, tables, IdleWorker
    <2>3. Job'.version = 1
        BY <2>1, <2>2 DEF Job, VersionsFit
    <2> QED BY <2>1, <2>2, <2>3 DEF VersionsFit, AtStage
<1>2. CASE ReadJob
    <2>1. worker'.job = worker.job /\ worker'.step = worker.step /\ worker.step # "publish"
        BY <1>2 DEF ReadJob, UpdateStages
    <2>2. jobs' = jobs /\ Queued' = Queued /\ InHand' = InHand
        BY <1>2 DEF ReadJob, tables, Queued, InHand
    <2> QED BY <2>1, <2>2 DEF VersionsFit, Job
<1>3. CASE \E id \in SnapshotIds, content \in Contents : PublishSnapshot(id, content)
    <2>1. /\ Job.kind = "snapshot" /\ worker.step = "publish"
          /\ worker'.job = worker.job /\ worker'.step = "complete"
        BY <1>3 DEF PublishSnapshot
    <2>2. jobs' = jobs /\ Queued' = Queued /\ InHand' = InHand
        BY <1>3 DEF PublishSnapshot, Queued, InHand
    <2>3. worker.job # NoJob
        BY <2>1, WorkerStepShape
    <2>4. Job.version = 2
        BY <2>1, <2>3 DEF VersionsFit, AtStage
    <2> QED BY <2>1, <2>2, <2>4 DEF VersionsFit, Job, AtStage
<1>4. CASE \E id \in ForecastIds, content \in Contents : PublishRun(id, content)
    <2>1. PICK id \in ForecastIds, content \in Contents : PublishRun(id, content)
        BY <1>4
    <2> DEFINE job == PublishedJob(id, content)
    <2>2. worker.job # NoJob /\ worker.job \in DOMAIN jobs /\ Job.status \in Open
        BY <2>1, WorkerStepShape DEF PublishRun, OpenJobs
    <2>3. /\ job.kind = Job.kind /\ job.request = Job.request /\ job.version = Job.version + 1
          /\ job.status \notin Open
        BY DEF PublishedJob, Open
    <2>4. /\ JobsKept /\ jobs'[worker.job] = job
          /\ \A i \in DOMAIN jobs : i # worker.job => jobs'[i] = jobs[i]
        BY <2>1, <2>2, <2>3, WorkersJobChanged DEF PublishRun
    <2>5. Job.version \in 1 .. 4
        BY <2>2 DEF VersionsFit, Job
    <2>6. worker'.job = NoJob /\ worker'.step # "publish" /\ UNCHANGED <<queue, handlers>>
        BY <2>1 DEF PublishRun, IdleWorker
    <2> QED BY <2>2, <2>3, <2>4, <2>5, <2>6, WorkersVersions
<1>5. CASE Raise
    <2>1. worker.job # NoJob
        BY <1>5 DEF Raise, IInv, WorkerKnowsItsJob
    <2>2. Job.version \in 1 .. 4
        BY <2>1 DEF VersionsFit, IInv, OneHand, AtWork, OpenJobs, Job
    <2>3. worker'.job = worker.job /\ worker'.step = "failed"
        BY <1>5 DEF Raise
    <2>4. jobs' = jobs /\ Queued' = Queued /\ InHand' = InHand
        BY <1>5 DEF Raise, tables, Queued, InHand
    <2> QED BY <2>2, <2>3, <2>4 DEF VersionsFit, Job, AtStage
<1>6. CASE FailureIsLost
    <2>1. jobs' = jobs /\ Queued' = Queued /\ InHand' = InHand /\ worker' = IdleWorker
        BY <1>6 DEF FailureIsLost, tables, Queued, InHand
    <2> QED BY <2>1, QuietVersions
<1> QED BY <1>1, <1>2, <1>3, <1>4, <1>5, <1>6, UpdateVersions DEF WorkerStep

LEMMA VersionsKept == IInv /\ VersionsFit /\ [Next]_vars => VersionsFit'
<1> SUFFICES ASSUME IInv, VersionsFit, [Next]_vars PROVE VersionsFit'
    OBVIOUS
<1>1. CASE \E h \in Handlers : Request(h)
    BY <1>1, CreateJobVersions DEF Request, StartSnapshot, StartRun, StartScenario, ReviewEvents, Kinds
<1>2. CASE \E h \in Handlers : HandlerStep(h)
    <2>1. PICK h \in Handlers : HandlerStep(h)
        BY <1>2
    <2>2. UNCHANGED <<jobs, worker>>
        BY <2>1 DEF HandlerStep, AuditReview, ReviewAuditFails, Submit, tables
    <2>3. Queued' \cup InHand' \subseteq Queued \cup InHand
        <3>1. CASE Submit(h)
            BY <3>1, SubmitHands
        <3>2. CASE AuditReview(h) \/ ReviewAuditFails(h)
            <4>1. \A g \in Handlers : handlers'[g].job \in {handlers[g].job, NoJob}
                <5>1. DOMAIN handlers = Handlers
                    BY DEF IInv, OneHand
                <5>2. AuditReview(h) => \A g \in Handlers : handlers'[g].job = handlers[g].job
                    BY <5>1 DEF AuditReview
                <5>3. ReviewAuditFails(h) =>
                          \A g \in Handlers : handlers'[g] = IF g = h THEN IdleHandler ELSE handlers[g]
                    BY <5>1 DEF ReviewAuditFails
                <5> QED BY <3>2, <5>2, <5>3 DEF IdleHandler
            <4>2. queue' = queue
                BY <3>2 DEF AuditReview, ReviewAuditFails
            <4> QED BY <4>1, <4>2 DEF Queued, InHand
        <3> QED BY <2>1, <3>1, <3>2 DEF HandlerStep
    <2> QED BY <2>2, <2>3, QuietVersions
<1>3. CASE WorkerStep
    BY <1>3, WorkerVersions
<1>4. CASE Crash
    <2>1. UNCHANGED jobs /\ worker' = IdleWorker
        BY <1>4 DEF Crash, ClearMemory, tables
    <2>2. Queued' = {} /\ InHand' = {}
        BY <1>4 DEF Crash, ClearMemory, Queued, InHand, IdleHandler
    <2> QED BY <2>1, <2>2, QuietVersions
<1>5. CASE Start
    <2>1. worker' = IdleWorker /\ queue' = <<>> /\ \A h \in Handlers : handlers'[h] = IdleHandler
        BY <1>5 DEF Start, IInv, StoppedIsIdle
    <2>2. Queued' = {} /\ InHand' = {} /\ worker'.job = NoJob /\ worker'.step # "publish"
        BY <2>1 DEF Queued, InHand, IdleHandler, IdleWorker
    <2>3. \A i \in DOMAIN jobs : jobs'[i] = IF Interrupted(i) THEN RecoveredJob(i) ELSE jobs[i]
        BY <1>5 DEF Start
    <2>4. \A i \in DOMAIN jobs : Interrupted(i) =>
              /\ RecoveredJob(i).kind = jobs[i].kind /\ RecoveredJob(i).version = jobs[i].version + 1
              /\ RecoveredJob(i).status \notin Open /\ jobs[i].version \in 1 .. 4
        BY DEF RecoveredJob, Interrupted, Open, VersionsFit
    <2>5. DOMAIN jobs' = DOMAIN jobs
        BY <1>5 DEF Start
    <2>6. \A i \in DOMAIN jobs : /\ jobs'[i].kind \in Kinds /\ jobs'[i].version \in 1 .. 5
                                 /\ jobs'[i].status \in Open => jobs'[i].version \in 1 .. 4
        BY <2>3, <2>4 DEF VersionsFit
    <2> QED BY <2>2, <2>5, <2>6 DEF VersionsFit
<1>6. CASE BeginShutdown \/ FinishShutdown \/ UNCHANGED vars
    <2>1. UNCHANGED <<jobs, handlers, queue, worker>>
        BY <1>6 DEF BeginShutdown, FinishShutdown, vars, tables, memory
    <2> QED BY <2>1, QuietVersions DEF Queued, InHand
<1> QED BY <1>1, <1>2, <1>3, <1>4, <1>5, <1>6 DEF Next

--------------------------------------------------------------------------------
(* Why jobs finish.                                                         *)

\* The steps the worker has left with a job when it is at `step`; an update is two steps,
\* the reading of the version and the writing, and any of them may raise, which leaves the two
\* that store the failure.
StepWork(step, seen) ==
    LET toRead == IF seen = 0 THEN 1 ELSE 0
    IN  CASE step = "loading"                    -> 10 + toRead
          [] step = "forecast"                   -> 8 + toRead
          [] step \in {"planning", "replanning"} -> 6 + toRead
          [] step = "publish"                    -> 5
          [] step = "complete"                   -> 3 + toRead
          [] step = "failed"                     -> 1 + toRead
          [] OTHER -> 0

\* The place of a job in a queue, 0 when it is not queued.
Place(q, i) == IF \E n \in DOMAIN q : q[n] = i THEN CHOOSE n \in DOMAIN q : q[n] = i ELSE 0

\* The steps of the worker until it is done with a job, its predecessors in the queue
\* included: taking a job up is a step more than the eleven at most that follow.
StepsLeft(i) == 12 * Place(queue, i) + StepWork(worker.step, worker.seen)

\* A job that is finished, or that the worker has given up.
Settled(i) == i \notin OpenJobs \/ i \in abandoned

LEMMA PlaceIs ==
    ASSUME NEW q, \A m, n \in DOMAIN q : q[m] = q[n] => m = n
    PROVE  /\ \A n \in DOMAIN q : Place(q, q[n]) = n
           /\ \A i : (\A n \in DOMAIN q : q[n] # i) => Place(q, i) = 0
PROOF BY DEF Place

\* The work of a worker that is busy.
LEMMA StepWorkIs ==
    ASSUME NEW seen \in Nat
    PROVE  /\ StepWork("loading", 0) = 11 /\ StepWork("idle", seen) = 0
           /\ \A step : StepWork(step, seen) \in 0 .. 11
           /\ \A step \in UpdateStages : seen # 0 => StepWork(step, 0) = StepWork(step, seen) + 1
           /\ \A step \in UpdateStages \cup {"publish"} :
                 /\ StepWork(step, seen) > 0
                 /\ step # "failed" => StepWork("failed", 0) < StepWork(step, seen)
           /\ \A next \in {"publish", "forecast", "replanning"} :
                 StepWork(next, 0) < StepWork("loading", seen)
           /\ StepWork("planning", 0) < StepWork("forecast", seen)
           /\ StepWork("publish", 0) < StepWork("planning", seen)
           /\ StepWork("complete", 0) < StepWork("replanning", seen)
           /\ StepWork("complete", 0) < StepWork("publish", seen)
PROOF BY DEF StepWork, UpdateStages

\* Every step of the worker but taking a job up brings the job it has nearer to its end, or ends it.
LEMMA WorkIsDone ==
    ASSUME IInv, VersionsFit, WorkerStep, ~ TakeJob, NEW i, i = worker.job
    PROVE  /\ UNCHANGED queue /\ worker.seen \in Nat /\ worker'.seen \in Nat
           /\ StepWork(worker'.step, worker'.seen) < StepWork(worker.step, worker.seen)
           /\ worker'.job = i \/ Settled(i)'
<1>1. worker.job # NoJob
    BY WorkerStepShape DEF WorkerStep, ReadJob, UpdateJob, PublishSnapshot, PublishRun, Raise, FailureIsLost,
                           IInv, WorkerKnowsItsJob, UpdateStages
<1>2. /\ worker.job \in DOMAIN jobs /\ Job.status \in Open /\ Job.version \in 1 .. 4 /\ Job.kind \in Kinds
      /\ AtStage(Job.kind, worker.step, Job.version)
    BY <1>1 DEF VersionsFit, IInv, OneHand, AtWork, OpenJobs, Job
<1>3. worker.seen \in Nat
    BY <1>2 DEF IInv, WorkerKnowsItsJob, NoUpdateConflict, Job
<1>4. worker.step \in UpdateStages \cup {"publish"}
    BY <1>2 DEF AtStage, UpdateStages
<1> DEFINE work == StepWork(worker.step, worker.seen)
<1>5. work \in Nat /\ work > 0
    BY <1>3, <1>4, StepWorkIs
<1>6. CASE ReadJob
    <2>1. worker'.step = worker.step /\ worker'.job = worker.job /\ worker'.seen = Job.version /\ queue' = queue
        BY <1>6 DEF ReadJob
    <2>2. worker.seen = 0 /\ worker.step \in UpdateStages /\ Job.version \in Nat /\ Job.version # 0
        BY <1>2, <1>6 DEF ReadJob
    <2>3. StepWork(worker.step, 0) = StepWork(worker.step, Job.version) + 1 /\ StepWork(worker.step, Job.version) \in Nat
        BY <2>2, StepWorkIs
    <2> QED BY <1>3, <2>1, <2>2, <2>3
<1>7. CASE UpdateJob
    <2>1. queue' = queue
        BY <1>7 DEF UpdateJob
    <2>2. CASE worker.step \in {"complete", "failed"}
        <3>1. worker'.step = "idle" /\ worker'.seen = 0
            BY <1>7, <2>2 DEF UpdateJob, IdleWorker
        <3>2. StepWork(worker'.step, worker'.seen) = 0
            BY <3>1, StepWorkIs
        <3>3. Settled(i)'
            <4>1. UpdatedJob.kind = Job.kind /\ UpdatedJob.request = Job.request /\ UpdatedJob.status \notin Open
                BY <2>2 DEF UpdatedJob, Open
            <4>2. jobs'[worker.job] = UpdatedJob
                BY <1>1, <1>7, <4>1, WorkersJobChanged DEF UpdateJob
            <4> QED BY <4>1, <4>2 DEF Settled, OpenJobs
        <3> QED BY <1>3, <1>5, <2>1, <3>1, <3>2, <3>3
    <2>3. CASE worker.step \notin {"complete", "failed"}
        <3>1. /\ worker'.job = worker.job /\ worker'.seen = 0 /\ worker'.step = Following[Job.kind][worker.step]
              /\ worker.step \in {"loading", "forecast", "planning", "replanning"}
            BY <1>7, <2>3 DEF UpdateJob, UpdateStages
        <3>2. worker.step \in UpdateStages \ {"complete", "failed"}
            BY <3>1 DEF UpdateStages
        <3>3. StepWork(worker'.step, 0) < work
            BY <1>2, <1>3, <3>1, <3>2, NextStage, StepWorkIs
        <3> QED BY <1>3, <2>1, <3>1, <3>3
    <2> QED BY <2>2, <2>3
<1>8. CASE \E id \in SnapshotIds, content \in Contents : PublishSnapshot(id, content)
    <2>1. /\ worker.step = "publish" /\ queue' = queue
          /\ worker'.step = "complete" /\ worker'.job = worker.job /\ worker'.seen = worker.seen
        BY <1>8 DEF PublishSnapshot
    <2>2. worker.seen = 0
        BY <2>1 DEF VersionsFit
    <2> QED BY <1>3, <2>1, <2>2, StepWorkIs
<1>9. CASE \E id \in ForecastIds, content \in Contents : PublishRun(id, content)
    <2>1. PICK id \in ForecastIds, content \in Contents : PublishRun(id, content)
        BY <1>9
    <2> DEFINE job == PublishedJob(id, content)
    <2>2. job.kind = Job.kind /\ job.request = Job.request /\ job.status \notin Open
        BY DEF PublishedJob, Open
    <2>3. jobs'[worker.job] = job
        BY <1>1, <2>1, <2>2, WorkersJobChanged DEF PublishRun
    <2>4. Settled(i)'
        BY <2>2, <2>3 DEF Settled, OpenJobs
    <2>5. worker'.step = "idle" /\ worker'.seen = 0 /\ queue' = queue
        BY <2>1 DEF PublishRun, IdleWorker
    <2> QED BY <1>3, <1>5, <2>4, <2>5, StepWorkIs
<1>10. CASE Raise
    <2>1. worker'.step = "failed" /\ worker'.seen = 0 /\ worker'.job = worker.job /\ queue' = queue
        BY <1>10 DEF Raise
    <2>2. worker.step # "failed"
        BY <1>10 DEF Raise
    <2> QED BY <1>3, <1>4, <2>1, <2>2, StepWorkIs
<1>11. CASE FailureIsLost
    <2>1. worker'.step = "idle" /\ worker'.seen = 0 /\ queue' = queue /\ worker.job \in abandoned'
        BY <1>11 DEF FailureIsLost, IdleWorker
    <2>2. Settled(i)'
        BY <2>1 DEF Settled
    <2> QED BY <1>3, <1>5, <2>1, <2>2, StepWorkIs
<1> QED BY <1>6, <1>7, <1>8, <1>9, <1>10, <1>11 DEF WorkerStep

\* Taking a job up brings it and those behind it one place forward.
LEMMA TakingUpIsNearer ==
    ASSUME IInv, TakeJob, NEW i \in Queued \cup AtWork
    PROVE  i \in Queued' \cup AtWork' /\ StepsLeft(i)' < StepsLeft(i)
<1>1. queue \in Seq(DOMAIN jobs) /\ queue # <<>> /\ queue' = Tail(queue) /\ worker = IdleWorker
    BY DEF IInv, OneHand, TakeJob
<1>2. /\ DOMAIN queue = 1 .. Len(queue) /\ Len(queue) \in Nat /\ Len(queue) > 0
      /\ DOMAIN queue' = 1 .. Len(queue) - 1 /\ Head(queue) = queue[1]
      /\ \A n \in 1 .. Len(queue) - 1 : queue'[n] = queue[n + 1]
    BY <1>1, HeadTailProperties, LenProperties, EmptySeq
<1>3. /\ \A m, n \in DOMAIN queue : queue[m] = queue[n] => m = n
      /\ \A m, n \in DOMAIN queue' : queue'[m] = queue'[n] => m = n
    BY TakeJobHands DEF IInv, OneHand
<1>4. PICK n \in DOMAIN queue : queue[n] = i
    BY TakeJobHands DEF Queued
<1>5. Place(queue, i) = n /\ n \in Nat
    BY <1>2, <1>3, <1>4, PlaceIs
<1>6. StepsLeft(i) = 12 * n
    BY <1>1, <1>5, StepWorkIs DEF StepsLeft, IdleWorker
<1>7. worker'.step = "loading" /\ worker'.seen = 0 /\ worker'.job = Head(queue) /\ Head(queue) # NoJob
    BY TakeJobHands DEF TakeJob, IdleWorker
<1>8. StepsLeft(i)' = 12 * Place(queue', i) + 11
    BY <1>7, StepWorkIs DEF StepsLeft
<1>9. CASE n = 1
    <2>1. \A m \in DOMAIN queue' : queue'[m] # i
        BY <1>2, <1>3, <1>4, <1>9
    <2>2. Place(queue', i) = 0
        BY <1>3, <2>1, PlaceIs
    <2>3. i \in AtWork'
        BY <1>2, <1>4, <1>7, <1>9 DEF AtWork
    <2> QED BY <1>6, <1>8, <1>9, <2>2, <2>3
<1>10. CASE n # 1
    <2>1. n - 1 \in DOMAIN queue' /\ queue'[n - 1] = i
        BY <1>2, <1>4, <1>10
    <2>2. Place(queue', i) = n - 1
        BY <1>3, <2>1, PlaceIs
    <2>3. i \in Queued'
        BY <2>1 DEF Queued
    <2> QED BY <1>5, <1>6, <1>8, <2>2, <2>3
<1> QED BY <1>9, <1>10

\* A request leaves the queue and the worker alone, and other handlers too.
LEMMA RequestFrame ==
    ASSUME NEW h \in Handlers, Request(h)
    PROVE  /\ UNCHANGED <<queue, worker>> /\ handlers[h] = IdleHandler
           /\ \E hand : handlers' = [handlers EXCEPT ![h] = hand]
PROOF BY DEF Request, StartSnapshot, StartRun, StartScenario, ReviewEvents, CreateJob

\* The worker leaves the handlers alone.
LEMMA WorkerFrame == WorkerStep => UNCHANGED handlers
<1>1. TakeJob \/ ReadJob \/ UpdateJob \/ Raise \/ FailureIsLost => UNCHANGED handlers
    BY DEF TakeJob, ReadJob, UpdateJob, Raise, FailureIsLost
<1>2. \A id, content : PublishSnapshot(id, content) \/ PublishRun(id, content) => UNCHANGED handlers
    BY DEF PublishSnapshot, PublishRun
<1> QED BY <1>1, <1>2 DEF WorkerStep

\* A submission puts its job behind those that wait.
LEMMA SubmissionWaits ==
    ASSUME IInv, NEW h \in Handlers, Submit(h), NEW i \in Queued \cup AtWork
    PROVE  i \in Queued' \cup AtWork' /\ Place(queue', i) = Place(queue, i)
<1>1. queue \in Seq(DOMAIN jobs) /\ handlers[h].job \in DOMAIN jobs /\ queue' = Append(queue, handlers[h].job)
    BY DEF Submit, ReadyToSubmit, IInv, OneHand, InHand, OpenJobs
<1>2. /\ Len(queue) \in Nat /\ DOMAIN queue = 1 .. Len(queue) /\ DOMAIN queue' = 1 .. Len(queue) + 1
      /\ \A n \in 1 .. Len(queue) : queue'[n] = queue[n]
      /\ queue'[Len(queue) + 1] = handlers[h].job
    BY <1>1, AppendProperties, LenProperties
<1>3. /\ \A m, n \in DOMAIN queue : queue[m] = queue[n] => m = n
      /\ \A m, n \in DOMAIN queue' : queue'[m] = queue'[n] => m = n
    BY SubmitHands DEF IInv, OneHand
<1>4. CASE i \in Queued
    <2>1. PICK n \in DOMAIN queue : queue[n] = i
        BY <1>4 DEF Queued
    <2>2. n \in DOMAIN queue' /\ queue'[n] = i
        BY <1>2, <2>1
    <2> QED BY <1>3, <2>1, <2>2, PlaceIs DEF Queued
<1>5. CASE i \in AtWork
    <2>1. i \in AtWork' /\ i \notin Queued /\ i \notin Queued'
        BY <1>5, SubmitHands DEF IInv, OneHand
    <2>2. (\A n \in DOMAIN queue : queue[n] # i) /\ (\A n \in DOMAIN queue' : queue'[n] # i)
        BY <2>1 DEF Queued
    <2> QED BY <1>3, <2>1, <2>2, PlaceIs
<1> QED BY <1>4, <1>5

\* Nobody but the worker and a crash changes what the worker has left to do.
LEMMA OthersDoNotDelay ==
    ASSUME IInv, [Next]_vars, ~ WorkerStep, ~ Crash, NEW i \in Queued \cup AtWork
    PROVE  i \in Queued' \cup AtWork' /\ StepsLeft(i)' = StepsLeft(i)
<1>1. worker' = worker
    <2>1. CASE \E h \in Handlers : Request(h)
        BY <2>1, RequestFrame
    <2>2. CASE \E h \in Handlers : HandlerStep(h)
        BY <2>2 DEF HandlerStep, AuditReview, ReviewAuditFails, Submit
    <2>3. CASE BeginShutdown \/ FinishShutdown \/ Start \/ UNCHANGED vars
        BY <2>3 DEF BeginShutdown, FinishShutdown, Start, vars, memory
    <2> QED BY <2>1, <2>2, <2>3 DEF Next
<1>2. CASE \E h \in Handlers : Submit(h)
    BY <1>1, <1>2, SubmissionWaits DEF StepsLeft
<1>3. CASE ~ \E h \in Handlers : Submit(h)
    <2>1. queue' = queue
        <3>1. CASE \E h \in Handlers : Request(h)
            BY <3>1, RequestFrame
        <3>2. CASE \E h \in Handlers : HandlerStep(h)
            BY <1>3, <3>2 DEF HandlerStep, AuditReview, ReviewAuditFails
        <3>3. CASE BeginShutdown \/ FinishShutdown \/ Start \/ UNCHANGED vars
            BY <3>3 DEF BeginShutdown, FinishShutdown, Start, vars, memory
        <3> QED BY <3>1, <3>2, <3>3 DEF Next
    <2> QED BY <1>1, <2>1 DEF StepsLeft, Queued, AtWork
<1> QED BY <1>2, <1>3

\* A handler that holds a job gives it up, audits the review or queues the job, and nobody
\* else but a crash takes it away.
HandLetsGo(h) ==
    LET i == handlers[h].job
    IN  /\ HandlerStep(h) => \/ handlers[h].review /\ ~ handlers'[h].review /\ handlers'[h].job = i
                             \/ handlers'[h] = IdleHandler /\ (i \in abandoned' \/ i \in Queued')
        /\ ~ HandlerStep(h) => Crash \/ handlers'[h] = handlers[h]

LEMMA HandsLetGo ==
    ASSUME IInv, [Next]_vars, NEW h \in Handlers, handlers[h].job # NoJob
    PROVE  HandLetsGo(h)
<1> DEFINE i == handlers[h].job
<1>0. DOMAIN handlers = Handlers /\ handlers[h] # IdleHandler
    BY DEF IInv, OneHand, IdleHandler
<1>1. CASE AuditReview(h)
    BY <1>0, <1>1 DEF AuditReview, HandLetsGo, HandlerStep
<1>2. CASE ReviewAuditFails(h)
    BY <1>0, <1>2 DEF ReviewAuditFails, HandLetsGo, HandlerStep
<1>3. CASE Submit(h)
    <2>1. i \in Queued' /\ handlers'[h] = IdleHandler
        BY <1>0, <1>3, SubmitHands DEF Submit
    <2> QED BY <1>3, <2>1 DEF HandLetsGo, HandlerStep
<1>4. CASE ~ HandlerStep(h) /\ ~ Crash
    <2>1. ASSUME NEW g \in Handlers, Request(g) PROVE handlers'[h] = handlers[h]
        BY <1>0, <2>1, RequestFrame
    <2>2. ASSUME NEW g \in Handlers, HandlerStep(g) PROVE handlers'[h] = handlers[h]
        BY <1>0, <1>4, <2>2 DEF HandlerStep, AuditReview, ReviewAuditFails, Submit
    <2>3. BeginShutdown \/ FinishShutdown \/ Start \/ UNCHANGED vars => UNCHANGED handlers
        BY DEF BeginShutdown, FinishShutdown, Start, vars, memory
    <2>4. handlers'[h] = handlers[h]
        BY <1>4, <2>1, <2>2, <2>3, WorkerFrame DEF Next
    <2> QED BY <1>4, <2>4 DEF HandLetsGo
<1>5. CASE ~ HandlerStep(h) /\ Crash
    BY <1>5 DEF HandLetsGo
<1> QED BY <1>1, <1>2, <1>3, <1>4, <1>5 DEF HandlerStep

\* What is left to do is a number, for it to run out.
LEMMA StepsLeftIsNatural ==
    ASSUME IInv, VersionsFit, NEW i
    PROVE  StepsLeft(i) \in Nat /\ worker.seen \in Nat /\ Place(queue, i) \in Nat
<1>1. worker.seen \in Nat
    <2>1. CASE worker.job = NoJob
        BY <2>1 DEF IInv, WorkerKnowsItsJob, IdleWorker
    <2>2. CASE worker.job # NoJob
        BY <2>2 DEF IInv, WorkerKnowsItsJob, NoUpdateConflict, OneHand, AtWork, OpenJobs, VersionsFit
    <2> QED BY <2>1, <2>2
<1>2. Place(queue, i) \in Nat
    <2>1. \A n \in DOMAIN queue : n \in Nat
        BY LenProperties DEF IInv, OneHand
    <2> QED BY <2>1 DEF Place
<1> QED BY <1>1, <1>2, StepWorkIs DEF StepsLeft

LEMMA WorkerComesNearer ==
    ASSUME IInv, VersionsFit, WorkerStep, NEW i \in Queued \cup AtWork
    PROVE  Settled(i)' \/ (i \in Queued' \cup AtWork' /\ StepsLeft(i)' < StepsLeft(i))
<1>1. CASE TakeJob
    BY <1>1, TakingUpIsNearer
<1>2. CASE ~ TakeJob
    <2>1. UNCHANGED queue /\ StepWork(worker'.step, worker'.seen) < StepWork(worker.step, worker.seen)
        BY <1>2, WorkIsDone
    <2>2. StepsLeft(i)' = 12 * Place(queue, i) + StepWork(worker'.step, worker'.seen)
        BY <2>1 DEF StepsLeft
    <2>3. StepsLeft(i)' < StepsLeft(i)
        <3>1. worker.seen \in Nat /\ worker'.seen \in Nat /\ Place(queue, i) \in Nat
            BY <1>2, WorkIsDone, StepsLeftIsNatural
        <3>2. StepWork(worker.step, worker.seen) \in Nat /\ StepWork(worker'.step, worker'.seen) \in Nat
            BY <3>1, StepWorkIs
        <3> QED BY <2>1, <2>2, <3>1, <3>2 DEF StepsLeft
    <2>4. CASE i \in Queued
        BY <2>1, <2>3, <2>4 DEF Queued
    <2>5. CASE i \in AtWork
        <3>1. i = worker.job
            BY <2>5 DEF AtWork
        <3> QED BY <1>2, <2>3, <2>5, <3>1, WorkIsDone DEF AtWork
    <2> QED BY <2>4, <2>5
<1> QED BY <1>1, <1>2

\* What a step may do to a job that is not finished.
JobsAdvance ==
    /\ \A i \in Queued \cup AtWork :
          /\ WorkerStep => Settled(i)' \/ (i \in Queued' \cup AtWork' /\ StepsLeft(i)' < StepsLeft(i))
          /\ ~ WorkerStep /\ ~ Crash => i \in Queued' \cup AtWork' /\ StepsLeft(i)' = StepsLeft(i)
    /\ \A h \in Handlers : handlers[h].job # NoJob => HandLetsGo(h)
    /\ Start => OpenJobs' = {}

LEMMA EveryStepAdvances == IInv /\ VersionsFit /\ [Next]_vars => JobsAdvance
<1> SUFFICES ASSUME IInv, VersionsFit, [Next]_vars PROVE JobsAdvance
    OBVIOUS
<1>1. ASSUME Start PROVE OpenJobs' = {}
    <2>1. /\ DOMAIN jobs' = DOMAIN jobs
          /\ \A i \in DOMAIN jobs : jobs'[i] = IF Interrupted(i) THEN RecoveredJob(i) ELSE jobs[i]
        BY <1>1 DEF Start
    <2>2. \A i \in DOMAIN jobs : RecoveredJob(i).status \notin Open
        BY DEF RecoveredJob, Open
    <2> QED BY <2>1, <2>2 DEF OpenJobs, Interrupted
<1> QED BY <1>1, WorkerComesNearer, OthersDoNotDelay, HandsLetGo DEF JobsAdvance

\* The safety half of OpenJobsFinish: whatever else goes on, every step of the worker ends a
\* job that is queued or at work, gives it up or brings it nearer to its end, no other step
\* but a crash takes it back or delays it, a handler lets its job go in two steps at most,
\* and a start leaves no job open (_guarded, recover_running_jobs).
THEOREM JobsComeNearer ==
    Spec => [](\A i \in Queued \cup AtWork : StepsLeft(i) \in Nat) /\ [][JobsAdvance]_vars
<1>1. Spec => [](IInv /\ VersionsFit)
    BY InvariantHolds, VersionsInit, VersionsKept, PTL DEF Spec
<1>2. IInv /\ VersionsFit => \A i \in Queued \cup AtWork : StepsLeft(i) \in Nat
    BY StepsLeftIsNatural
<1>3. IInv /\ VersionsFit /\ [Next]_vars => [JobsAdvance]_vars
    BY EveryStepAdvances
<1> QED BY <1>1, <1>2, <1>3, PTL DEF Spec

--------------------------------------------------------------------------------
(* Types.                                                                   *)

\* What IInv and VersionsFit leave open of TypeOK.
Shapes ==
    /\ up \in {"up", "stopping", "down"}
    /\ \A i \in DOMAIN jobs :
          /\ jobs[i].status \in Open \cup {"succeeded", "failed"}
          /\ jobs[i].result \in Results
          /\ jobs[i].error \in {"none", "failure", "WORKER_RESTARTED"}
    /\ DOMAIN snapshots \subseteq SnapshotIds /\ DOMAIN forecasts \subseteq ForecastIds
    /\ worker.result \in Results

LEMMA ShapesInit == Init => Shapes
PROOF BY EmptySeq DEF Init, Shapes, IdleWorker, NoResult, Results

\* A step that keeps the tables' shape.
LEMMA JobShapes ==
    ASSUME Shapes, JobsKept,
           \A i \in DOMAIN jobs :
              jobs'[i] = jobs[i] \/ /\ jobs'[i].status \in Open \cup {"succeeded", "failed"}
                                    /\ jobs'[i].result \in Results
                                    /\ jobs'[i].error \in {"none", "failure", "WORKER_RESTARTED"},
           up' \in {"up", "stopping", "down"}, worker'.result \in Results,
           DOMAIN snapshots' \subseteq SnapshotIds, DOMAIN forecasts' \subseteq ForecastIds
    PROVE  Shapes'
PROOF BY DEF Shapes, JobsKept

LEMMA RequestShapes ==
    ASSUME IInv, Shapes, NEW h \in Handlers, Request(h)
    PROVE  Shapes'
<1>1. PICK kind, request : jobs' = Append(jobs, NewJob(kind, request))
    BY DEF Request, StartSnapshot, StartRun, StartScenario, ReviewEvents, CreateJob
<1>2. UNCHANGED <<up, snapshots, forecasts, worker>>
    BY DEF Request, StartSnapshot, StartRun, StartScenario, ReviewEvents, CreateJob
<1>3. JobAdded(NewJob(kind, request))
    BY <1>1, AppendedJob
<1>4. \A i \in DOMAIN jobs' : jobs'[i] = NewJob(kind, request) \/ (i \in DOMAIN jobs /\ jobs'[i] = jobs[i])
    BY <1>3 DEF JobAdded
<1>5. /\ NewJob(kind, request).status = "queued" /\ NewJob(kind, request).error = "none"
      /\ NewJob(kind, request).result \in Results
    BY DEF NewJob, NoResult, Results
<1> QED BY <1>2, <1>4, <1>5 DEF Shapes, Open

LEMMA UpdateShapes ==
    ASSUME IInv, Publication, Resolution, Shapes, UpdateJob
    PROVE  Shapes'
<1> DEFINE w == worker.job
<1>1. w # NoJob /\ w \in DOMAIN jobs /\ Job.status \in Open
    BY WorkerStepShape DEF UpdateJob, OpenJobs
<1>2. UpdatedJob.kind = Job.kind /\ UpdatedJob.request = Job.request
    BY DEF UpdatedJob, UpdateJob, UpdateStages
<1>3. /\ JobsKept /\ jobs'[w] = UpdatedJob
      /\ \A i \in DOMAIN jobs : i # w => jobs'[i] = jobs[i]
    BY <1>1, <1>2, WorkersJobChanged DEF UpdateJob
<1>4. Job.result \in Results /\ Job.error \in {"none", "failure", "WORKER_RESTARTED"}
    BY <1>1 DEF Shapes, Job
<1>5. UpdatedJob.status \in Open \cup {"succeeded", "failed"}
    BY <1>1 DEF UpdatedJob, Open
<1>6. UpdatedJob.error \in {"none", "failure", "WORKER_RESTARTED"}
    BY <1>4 DEF UpdatedJob, UpdateJob, UpdateStages
<1>7. UpdatedJob.result \in Results
    <2>0. ASSUME worker.step = "complete" PROVE UpdatedJob.result = ResultOfWork
        <3>1. UpdatedJob = [Job EXCEPT !.version = @ + 1, !.status = "succeeded", !.result = ResultOfWork]
            BY <2>0 DEF UpdatedJob
        <3> QED BY <3>1
    <2>1. CASE worker.step # "complete"
        BY <1>4, <2>1 DEF UpdatedJob, UpdateJob, UpdateStages
    <2>2. CASE worker.step = "complete" /\ Job.kind = "scenario"
        <3> DEFINE b == Job.request.base
        <3>1. b \in DOMAIN jobs /\ jobs[b].kind = "run" /\ b \in Reported
            BY <1>1, <2>2 DEF Resolution, FinishedRuns, Job
        <3>2. UpdatedJob.result = [id |-> jobs[b].result.id, content |-> forecasts[jobs[b].result.id]]
            BY <2>0, <2>2 DEF ResultOfWork
        <3>3. UpdatedJob.result = jobs[b].result
            BY <3>1, <3>2 DEF Reported
        <3> QED BY <3>1, <3>3 DEF Shapes
    <2>3. CASE worker.step = "complete" /\ Job.kind # "scenario"
        BY <2>0, <2>3 DEF ResultOfWork, Shapes
    <2> QED BY <2>1, <2>2, <2>3
<1>8. worker'.result \in Results
    <2>1. IdleWorker.result \in Results
        BY DEF IdleWorker, NoResult, Results
    <2> QED BY <2>1 DEF UpdateJob, Shapes
<1>9. UNCHANGED <<up, snapshots, forecasts>>
    BY DEF UpdateJob
<1> QED BY <1>3, <1>5, <1>6, <1>7, <1>8, <1>9, JobShapes DEF Shapes

LEMMA WorkerShapes ==
    ASSUME IInv, Publication, Resolution, Shapes, WorkerStep
    PROVE  Shapes'
<1>0. IdleWorker.result \in Results /\ NoResult \in Results
    BY DEF IdleWorker, NoResult, Results
<1>1. CASE TakeJob
    <2>1. UNCHANGED <<up, jobs, snapshots, forecasts>> /\ worker'.result \in Results
        BY <1>0, <1>1 DEF TakeJob, tables, IdleWorker
    <2> QED BY <2>1 DEF Shapes
<1>2. CASE ReadJob
    <2>1. UNCHANGED <<up, jobs, snapshots, forecasts>> /\ worker'.result = worker.result
        BY <1>2 DEF ReadJob, tables
    <2> QED BY <2>1 DEF Shapes
<1>3. CASE \E id \in SnapshotIds, content \in Contents : PublishSnapshot(id, content)
    <2>1. PICK id \in SnapshotIds, content \in Contents : PublishSnapshot(id, content)
        BY <1>3
    <2>2. /\ UNCHANGED <<up, jobs, forecasts>> /\ DOMAIN snapshots' = DOMAIN snapshots \cup {id}
          /\ worker'.result = [id |-> id, content |-> content]
        BY <2>1, WorkerStepShape DEF PublishSnapshot, Stored, IInv, WorkerKnowsItsJob
    <2>3. worker'.result \in Results
        BY <2>2 DEF Results
    <2> QED BY <2>2, <2>3 DEF Shapes
<1>4. CASE \E id \in ForecastIds, content \in Contents : PublishRun(id, content)
    <2>1. PICK id \in ForecastIds, content \in Contents : PublishRun(id, content)
        BY <1>4
    <2> DEFINE job == PublishedJob(id, content)
    <2>2. worker.job # NoJob /\ worker.job \in DOMAIN jobs
        BY <2>1, WorkerStepShape DEF PublishRun, OpenJobs
    <2>3. /\ job.kind = Job.kind /\ job.request = Job.request /\ job.error = Job.error
          /\ job.status = "succeeded" /\ job.result = [id |-> id, content |-> content]
        BY DEF PublishedJob
    <2>4. /\ JobsKept /\ jobs'[worker.job] = job
          /\ \A i \in DOMAIN jobs : i # worker.job => jobs'[i] = jobs[i]
        BY <2>1, <2>2, <2>3, WorkersJobChanged DEF PublishRun
    <2>5. job.result \in Results
        BY <2>3 DEF Results
    <2>6. job.error \in {"none", "failure", "WORKER_RESTARTED"}
        BY <2>2, <2>3 DEF Shapes, Job
    <2>7. /\ UNCHANGED <<up, snapshots>> /\ DOMAIN forecasts' = DOMAIN forecasts \cup {id}
          /\ worker'.result \in Results
        BY <1>0, <2>1 DEF PublishRun, Stored
    <2> QED BY <2>3, <2>4, <2>5, <2>6, <2>7, JobShapes DEF Shapes
<1>5. CASE Raise
    <2>1. UNCHANGED <<up, jobs, snapshots, forecasts>> /\ worker'.result = NoResult
        BY <1>5 DEF Raise, tables, IInv, WorkerKnowsItsJob
    <2> QED BY <1>0, <2>1 DEF Shapes
<1>6. CASE FailureIsLost
    <2>1. UNCHANGED <<up, jobs, snapshots, forecasts>> /\ worker'.result \in Results
        BY <1>0, <1>6 DEF FailureIsLost, tables
    <2> QED BY <2>1 DEF Shapes
<1> QED BY <1>1, <1>2, <1>3, <1>4, <1>5, <1>6, UpdateShapes DEF WorkerStep

LEMMA ShapesKept == IInv /\ Publication /\ Resolution /\ Shapes /\ [Next]_vars => Shapes'
<1> SUFFICES ASSUME IInv, Publication, Resolution, Shapes, [Next]_vars PROVE Shapes'
    OBVIOUS
<1>0. IdleWorker.result \in Results
    BY DEF IdleWorker, NoResult, Results
<1>1. CASE \E h \in Handlers : Request(h)
    BY <1>1, RequestShapes
<1>2. CASE (\E h \in Handlers : HandlerStep(h)) \/ BeginShutdown \/ FinishShutdown \/ UNCHANGED vars
    <2>1. UNCHANGED <<jobs, snapshots, forecasts, worker>> /\ up' \in {up, "stopping", "down"}
        BY <1>2 DEF HandlerStep, AuditReview, ReviewAuditFails, Submit, BeginShutdown, FinishShutdown,
                    vars, tables, memory
    <2> QED BY <2>1 DEF Shapes
<1>3. CASE WorkerStep
    BY <1>3, WorkerShapes
<1>4. CASE Crash
    <2>1. UNCHANGED <<jobs, snapshots, forecasts>> /\ worker'.result \in Results /\ up' = "down"
        BY <1>0, <1>4 DEF Crash, ClearMemory, tables
    <2> QED BY <2>1 DEF Shapes
<1>5. CASE Start
    <2>1. /\ JobsKept /\ UNCHANGED <<snapshots, forecasts, worker>> /\ up' = "up"
          /\ \A i \in DOMAIN jobs : jobs'[i] = IF Interrupted(i) THEN RecoveredJob(i) ELSE jobs[i]
        BY <1>5, RecoveredJobs DEF Start
    <2>2. \A i \in DOMAIN jobs : /\ RecoveredJob(i).status = "failed" /\ RecoveredJob(i).error = "WORKER_RESTARTED"
                                 /\ RecoveredJob(i).result = jobs[i].result
        BY DEF RecoveredJob
    <2> QED BY <2>1, <2>2, JobShapes DEF Shapes
<1> QED BY <1>1, <1>2, <1>3, <1>4, <1>5 DEF Next

\* Tables and memory of the coordinator keep their shape, and a job never costs more than
\* five versions, whatever errors, crashes and starts it meets.
THEOREM TypeCorrect == Spec => []TypeOK
<1>1. Spec => [](IInv /\ Ownership /\ Publication /\ Resolution /\ Trail)
    BY InvariantHolds, OwnershipInit, OwnershipKept, PublicationInit, PublicationKept, ResolutionInit,
       ResolutionKept, TrailInit, TrailKept, PTL DEF Spec
<1>2. Spec => [](VersionsFit /\ Shapes)
    BY <1>1, VersionsInit, VersionsKept, ShapesInit, ShapesKept, PTL DEF Spec
<1>3. IInv /\ Trail /\ VersionsFit /\ Shapes => TypeOK
    <2> SUFFICES ASSUME IInv, Trail, VersionsFit, Shapes PROVE TypeOK
        OBVIOUS
    <2>1. \A kind \in Kinds : kind \in DOMAIN Following
        BY DEF Kinds, Following
    <2>2. worker.job \in DOMAIN jobs \cup {NoJob} /\ \A h \in Handlers : handlers[h].job \in DOMAIN jobs \cup {NoJob}
        BY DEF IInv, OneHand, InHand, AtWork, OpenJobs
    <2>3. worker.step \in UpdateStages \cup {"publish", "idle"}
        <3>1. CASE worker.job = NoJob
            BY <3>1 DEF IInv, WorkerKnowsItsJob, IdleWorker
        <3>2. CASE worker.job # NoJob
            BY <3>2 DEF VersionsFit, AtStage, UpdateStages
        <3> QED BY <3>1, <3>2
    <2>4. worker.seen \in 0 .. 5
        <3>1. CASE worker.job = NoJob
            BY <3>1 DEF IInv, WorkerKnowsItsJob, IdleWorker
        <3>2. CASE worker.job # NoJob
            BY <2>2, <3>2 DEF VersionsFit, IInv, WorkerKnowsItsJob, NoUpdateConflict
        <3> QED BY <3>1, <3>2
    <2> QED BY <2>1, <2>2, <2>3, <2>4 DEF TypeOK, IInv, OneHand, Trail, TrailsFit, VersionsFit, Shapes
<1> QED BY <1>1, <1>2, <1>3, PTL

================================================================================
