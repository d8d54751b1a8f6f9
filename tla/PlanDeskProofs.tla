------------------------------ MODULE PlanDeskProofs ------------------------------
(***************************************************************************)
(* However many sessions, clicks, lost answers and late requests there are, *)
(* a session starts one job for one request, and its plan, its data, its    *)
(* drafts and its comparison belong together.  What carries the proofs: a   *)
(* key says which session and request it is of, wherever the call is - in a *)
(* job or still on its way - and the server knows every key it has used;    *)
(* jobs keep their request and data; and a session only ever waits for a    *)
(* run that it may select.                                                  *)
(***************************************************************************)
EXTENDS PlanDesk, SequenceTheorems, WellFoundedInduction, TLAPS

\* A key is of the request it is sent with.
WellKeyed(call) ==
    call.key # None => call.key = [session |-> call.key.session, request |-> call.request]

IInv ==
    /\ \E S : jobs \in Seq(S)
    /\ \A i \in DOMAIN jobs : WellKeyed(jobs[i].call)
    /\ \A call \in late : WellKeyed(call)
    /\ \A i, j \in DOMAIN jobs :
          jobs[i].call.key # None /\ jobs[i].call.key = jobs[j].call.key => i = j

\* The jobs stay those they were; only their status or their orders change.
SameCalls ==
    /\ \E S : jobs' \in Seq(S)
    /\ DOMAIN jobs' = DOMAIN jobs
    /\ \A i \in DOMAIN jobs :
          jobs'[i].call = jobs[i].call /\ jobs'[i].kind = jobs[i].kind /\ jobs'[i].snapshot = jobs[i].snapshot
    /\ late' \subseteq late

\* One call arrives, waits on its way, or gets lost.
OneCall ==
    \E call :
        /\ WellKeyed(call)
        /\ jobs' = jobs \/ Accepted(call)
        /\ late' \subseteq late \cup {call}

LEMMA KeyedIsWellKeyed == ASSUME NEW request PROVE WellKeyed(Keyed(request))
PROOF BY DEF WellKeyed, Keyed, RequestKey

LEMMA UnkeyedIsWellKeyed == ASSUME NEW request PROVE WellKeyed(Unkeyed(request))
PROOF BY DEF WellKeyed, Unkeyed

\* Both ends of a request, known or not, are one call.
LEMMA SentIsOneCall ==
    ASSUME NEW call, WellKeyed(call), Answered(call) \/ Unanswered(call)
    PROVE  OneCall
PROOF BY DEF OneCall, Answered, Unanswered

LEMMA WaitIsOneCall == ASSUME NEW request, WaitForRun(Keyed(request)) PROVE OneCall
PROOF BY KeyedIsWellKeyed, SentIsOneCall DEF WaitForRun

LEMMA InitHolds == Init => IInv
<1> SUFFICES ASSUME Init PROVE IInv
    OBVIOUS
<1>1. jobs \in Seq({}) /\ DOMAIN jobs = {}
    BY EmptySeq DEF Init
<1> QED BY <1>1 DEF Init, IInv

LEMMA SameCallsKeep == ASSUME IInv, SameCalls PROVE IInv'
PROOF BY DEF IInv, SameCalls, WellKeyed

\* A new job has the key of a call that no job has yet.
LEMMA OneCallKeeps == ASSUME IInv, OneCall PROVE IInv'
<1>1. PICK call : /\ WellKeyed(call) /\ (jobs' = jobs \/ Accepted(call))
                  /\ late' \subseteq late \cup {call}
    BY DEF OneCall
<1>2. (\A c \in late : WellKeyed(c))'
    BY <1>1 DEF IInv, WellKeyed
<1>3. CASE jobs' = jobs
    BY <1>2, <1>3 DEF IInv, WellKeyed
<1>4. CASE jobs' # jobs
    <2> DEFINE job == NewJob(call)
    <2> DEFINE n == Len(jobs)
    <2>1. jobs' = Append(jobs, job) /\ Known(call) = {}
        BY <1>1, <1>4 DEF Accepted
    <2>2. PICK S : jobs \in Seq(S)
        BY DEF IInv
    <2> DEFINE T == S \cup {job}
    <2>3. jobs \in Seq(T) /\ job \in T
        BY <2>2, SeqMonotonic
    <2>4. n \in Nat /\ DOMAIN jobs = 1 .. n
        BY <2>3, LenProperties
    <2>5. /\ jobs' \in Seq(T) /\ Len(jobs') = n + 1
          /\ \A i \in 1 .. n : jobs'[i] = jobs[i]
          /\ jobs'[n + 1] = job
        BY <2>1, <2>3, AppendProperties
    <2>6. DOMAIN jobs' = 1 .. n + 1
        BY <2>5, LenProperties
    <2>7. \A i \in DOMAIN jobs' : i \in DOMAIN jobs \/ i = n + 1
        BY <2>4, <2>6
    <2>8. job.call = call
        BY DEF NewJob
    <2>9. \A i \in DOMAIN jobs : call.key # None => jobs[i].call.key # call.key
        BY <2>1 DEF Known
    <2>10. (\A i \in DOMAIN jobs : WellKeyed(jobs[i].call))'
        <3> SUFFICES ASSUME NEW i \in DOMAIN jobs' PROVE WellKeyed(jobs'[i].call)
            BY DEF WellKeyed
        <3>1. CASE i \in DOMAIN jobs
            BY <3>1, <2>4, <2>5 DEF IInv
        <3>2. CASE i = n + 1
            BY <3>2, <2>5, <2>8, <1>1
        <3> QED BY <3>1, <3>2, <2>7
    <2>11. (\A i, j \in DOMAIN jobs :
              jobs[i].call.key # None /\ jobs[i].call.key = jobs[j].call.key => i = j)'
        <3> SUFFICES ASSUME NEW i \in DOMAIN jobs', NEW j \in DOMAIN jobs',
                            jobs'[i].call.key # None, jobs'[i].call.key = jobs'[j].call.key
                     PROVE  i = j
            OBVIOUS
        <3>1. CASE i \in DOMAIN jobs /\ j \in DOMAIN jobs
            BY <3>1, <2>4, <2>5 DEF IInv
        <3>2. CASE i \in DOMAIN jobs /\ j = n + 1
            BY <3>2, <2>4, <2>5, <2>8, <2>9
        <3>3. CASE i = n + 1 /\ j \in DOMAIN jobs
            BY <3>3, <2>4, <2>5, <2>8, <2>9
        <3> QED BY <3>1, <3>2, <3>3, <2>7
    <2> QED BY <1>2, <2>5, <2>10, <2>11 DEF IInv
<1> QED BY <1>3, <1>4

\* A step that leaves the jobs and the requests on their way alone.
LEMMA QuietIsOneCall == ASSUME UNCHANGED <<jobs, late>> PROVE OneCall
<1>1. WellKeyed(Unkeyed(None))
    BY UnkeyedIsWellKeyed
<1> QED BY <1>1 DEF OneCall

\* A change of one job that is not its call, its kind or its data.
LEMMA ChangedJob ==
    ASSUME IInv, NEW i \in DOMAIN jobs, NEW job, job.call = jobs[i].call,
           job.kind = jobs[i].kind, job.snapshot = jobs[i].snapshot,
           jobs' = [jobs EXCEPT ![i] = job], UNCHANGED late
    PROVE  SameCalls
<1>1. PICK S : jobs \in Seq(S)
    BY DEF IInv
<1> DEFINE T == S \cup {job}
<1>2. jobs \in Seq(T) /\ job \in T
    BY <1>1, SeqMonotonic
<1>3. DOMAIN jobs = 1 .. Len(jobs)
    BY <1>2, LenProperties
<1>4. jobs' \in Seq(T) /\ Len(jobs') = Len(jobs)
    BY <1>2, <1>3, ExceptSeq
<1>5. DOMAIN jobs' = DOMAIN jobs
    BY <1>3, <1>4, LenProperties
<1>6. \A j \in DOMAIN jobs :
         jobs'[j].call = jobs[j].call /\ jobs'[j].kind = jobs[j].kind /\ jobs'[j].snapshot = jobs[j].snapshot
    OBVIOUS
<1> QED BY <1>4, <1>5, <1>6 DEF SameCalls

LEMMA FinishJobStep == ASSUME IInv, NEW i \in DOMAIN jobs, FinishJob(i) PROVE SameCalls
<1> DEFINE job == [jobs[i] EXCEPT !.status = "succeeded"]
<1>1. jobs' = [jobs EXCEPT ![i] = job] /\ UNCHANGED late
    BY DEF FinishJob
<1>2. job.call = jobs[i].call /\ job.kind = jobs[i].kind /\ job.snapshot = jobs[i].snapshot
    OBVIOUS
<1> QED BY <1>1, <1>2, ChangedJob

LEMMA AbandonJobStep == ASSUME IInv, NEW i \in DOMAIN jobs, AbandonJob(i) PROVE SameCalls
<1> DEFINE job == [jobs[i] EXCEPT !.status = "abandoned"]
<1>1. jobs' = [jobs EXCEPT ![i] = job] /\ UNCHANGED late
    BY DEF AbandonJob
<1>2. job.call = jobs[i].call /\ job.kind = jobs[i].kind /\ job.snapshot = jobs[i].snapshot
    OBVIOUS
<1> QED BY <1>1, <1>2, ChangedJob

LEMMA RestartStep == ASSUME IInv, Restart PROVE SameCalls
<1>1. PICK S : jobs \in Seq(S)
    BY DEF IInv
<1>2. Len(jobs) \in Nat /\ DOMAIN jobs = 1 .. Len(jobs)
    BY <1>1, LenProperties
<1> DEFINE job(i) == IF Open(i) THEN [jobs[i] EXCEPT !.status = "interrupted"] ELSE jobs[i]
<1> DEFINE T == {job(i) : i \in 1 .. Len(jobs)}
<1>3. jobs' = [i \in 1 .. Len(jobs) |-> job(i)] /\ UNCHANGED late
    BY <1>2 DEF Restart
<1>4. jobs' \in [1 .. Len(jobs) -> T]
    BY <1>3
<1>5. jobs' \in Seq(T)
    BY <1>2, <1>4
<1>6. \A i \in 1 .. Len(jobs) :
         job(i).call = jobs[i].call /\ job(i).kind = jobs[i].kind /\ job(i).snapshot = jobs[i].snapshot
    OBVIOUS
<1>7. \A i \in DOMAIN jobs :
         jobs'[i].call = jobs[i].call /\ jobs'[i].kind = jobs[i].kind /\ jobs'[i].snapshot = jobs[i].snapshot
    BY <1>2, <1>3, <1>6
<1> QED BY <1>2, <1>3, <1>4, <1>5, <1>7 DEF SameCalls

LEMMA WorkOnOrdersStep == ASSUME IInv, WorkOnOrders PROVE SameCalls \/ OneCall
<1>1. CASE jobs' = jobs
    BY <1>1, QuietIsOneCall DEF WorkOnOrders
<1>2. CASE jobs' # jobs
    <2> DEFINE job == [jobs[run] EXCEPT !.edits = @ + 1]
    <2>1. jobs' = [jobs EXCEPT ![run] = job] /\ UNCHANGED late
        BY <1>2 DEF WorkOnOrders
    <2>2. job.call = jobs[run].call /\ job.kind = jobs[run].kind /\ job.snapshot = jobs[run].snapshot
        OBVIOUS
    <2>3. run \in DOMAIN jobs
        <3>1. PICK S : jobs \in Seq(S)
            BY DEF IInv
        <3>2. jobs = [i \in DOMAIN jobs |-> jobs[i]]
            BY <3>1, LenProperties
        <3> QED BY <1>2, <2>1, <3>2
    <2> QED BY <2>1, <2>2, <2>3, ChangedJob
<1> QED BY <1>1, <1>2

\* What the session asks for.
LEMMA RequestStep ==
    ASSUME \/ \E s \in Importable, policy \in Policies : SubmitImport(s, policy)
           \/ \E policy \in Policies : Recalculate(policy)
           \/ ReviewSale \/ ApplyScenario
           \/ \E policy \in Terms : Compare(policy)
           \/ \E policy \in Policies : PlanHere(policy)
    PROVE  OneCall
<1>1. CASE \E s \in Importable, policy \in Policies : SubmitImport(s, policy)
    BY <1>1, KeyedIsWellKeyed, SentIsOneCall DEF SubmitImport
<1>2. CASE \E policy \in Policies : Recalculate(policy)
    BY <1>2, WaitIsOneCall DEF Recalculate
<1>3. CASE ReviewSale
    BY <1>3, WaitIsOneCall DEF ReviewSale
<1>4. CASE ApplyScenario
    BY <1>4, KeyedIsWellKeyed, SentIsOneCall DEF ApplyScenario
<1>5. CASE \E policy \in Terms : Compare(policy)
    BY <1>5, KeyedIsWellKeyed, SentIsOneCall DEF Compare
<1>6. CASE \E policy \in Policies : PlanHere(policy)
    BY <1>6, KeyedIsWellKeyed, SentIsOneCall DEF PlanHere
<1> QED BY <1>1, <1>2, <1>3, <1>4, <1>5, <1>6

LEMMA ImportOnceStep == ASSUME NEW s, ImportOnce(s) PROVE OneCall
<1>1. CASE s \in DOMAIN imported
    BY <1>1, QuietIsOneCall DEF ImportOnce, server
<1>2. CASE s \notin DOMAIN imported
    BY <1>2, UnkeyedIsWellKeyed, SentIsOneCall DEF ImportOnce
<1> QED BY <1>1, <1>2

LEMMA SaveInputsStep == ASSUME SaveInputs PROVE OneCall
<1> DEFINE s == PreparedAs[snapshot]
<1> DEFINE policy == IF pending = None THEN DefaultPolicy ELSE pending
<1>1. \/ WaitForRun(Keyed(Plan(s, policy, FALSE)))
      \/ jobs' = jobs /\ late' \subseteq late \cup {Unkeyed(Save(s))}
    BY DEF SaveInputs
<1>2. CASE WaitForRun(Keyed(Plan(s, policy, FALSE)))
    BY <1>2, WaitIsOneCall
<1>3. CASE jobs' = jobs /\ late' \subseteq late \cup {Unkeyed(Save(s))}
    BY <1>3, UnkeyedIsWellKeyed DEF OneCall
<1> QED BY <1>1, <1>2, <1>3

LEMMA ProgressStep == ASSUME Progress PROVE OneCall
<1> DEFINE s == jobs[flow.job].snapshot
<1>1. PlanFollows(Keyed(Plan(s, flow.policy, FALSE))) \/ UNCHANGED server
    BY DEF Progress
<1>2. CASE PlanFollows(Keyed(Plan(s, flow.policy, FALSE)))
    BY <1>2, WaitIsOneCall DEF PlanFollows
<1>3. CASE UNCHANGED server
    BY <1>3, QuietIsOneCall DEF server
<1> QED BY <1>1, <1>2, <1>3

LEMMA LateStep == ASSUME IInv, NEW call \in late, LateRequest(call) \/ LateSave(call) PROVE OneCall
<1>1. WellKeyed(call)
    BY DEF IInv
<1> QED BY <1>1 DEF LateRequest, LateSave, OneCall

\* The rest asks the server for nothing.
LEMMA OtherStep ==
    ASSUME \/ (\E p \in Pages : SwitchPage(p)) \/ NewSession \/ RestoreWorkspace \/ ResetFlow \/ ViewScenario \/ UseImported
           \/ \E r \in ReadyRuns : OpenSavedPlan(r)
           \/ \E i \in DOMAIN jobs : WatchImport(i)
           \/ \E s \in Stored : ChooseById(s)
           \/ UNCHANGED vars
    PROVE  OneCall
<1>1. UNCHANGED server
    BY DEF SwitchPage, NewSession, RestoreWorkspace, ResetFlow, ViewScenario, UseImported,
           OpenSavedPlan, WatchImport, ChooseById, vars
<1> QED BY <1>1, QuietIsOneCall DEF server

LEMMA StepShape == ASSUME IInv, [Next]_vars PROVE SameCalls \/ OneCall
<1>1. CASE FinishAnyJob \/ \E i \in DOMAIN jobs : AbandonJob(i)
    BY <1>1, FinishJobStep, AbandonJobStep DEF FinishAnyJob
<1>2. CASE Restart
    BY <1>2, RestartStep
<1>3. CASE WorkOnOrders
    BY <1>3, WorkOnOrdersStep
<1>4. CASE \E call \in late : LateRequest(call) \/ LateSave(call)
    BY <1>4, LateStep
<1>5. CASE Progress
    BY <1>5, ProgressStep
<1>6. CASE SaveInputs
    BY <1>6, SaveInputsStep
<1>7. CASE \E s \in Importable : ImportOnce(s)
    BY <1>7, ImportOnceStep
<1> QED BY <1>1, <1>2, <1>3, <1>4, <1>5, <1>6, <1>7, RequestStep, OtherStep DEF Next

LEMMA StepKeeps == IInv /\ [Next]_vars => IInv'
PROOF BY StepShape, SameCallsKeep, OneCallKeeps

LEMMA InvariantHolds == Spec => []IInv
PROOF BY InitHolds, StepKeeps, PTL DEF Spec

\* Equal requests of one session have equal keys, and a key names one job.
LEMMA KeysSuffice == IInv => OneJobPerRequest
<1> SUFFICES ASSUME IInv, NEW i \in DOMAIN jobs, NEW j \in DOMAIN jobs,
                    jobs[i].call.key # None, jobs[j].call.key # None,
                    jobs[i].call.key.session = jobs[j].call.key.session,
                    jobs[i].call.request = jobs[j].call.request
             PROVE  i = j
    BY DEF OneJobPerRequest
<1>1. jobs[i].call.key = [session |-> jobs[i].call.key.session, request |-> jobs[i].call.request]
    BY DEF IInv, WellKeyed
<1>2. jobs[j].call.key = [session |-> jobs[j].call.key.session, request |-> jobs[j].call.request]
    BY DEF IInv, WellKeyed
<1>3. jobs[i].call.key = jobs[j].call.key
    BY <1>1, <1>2
<1> QED BY <1>3 DEF IInv

\* "Retain a key across reruns and ambiguous retries of the same request": whatever the
\* data sets and policies, however many answers are lost and whenever the requests behind
\* them arrive, one job answers one keyed request of a session (_request_key, _new_job).
THEOREM RequestsStartOneJob == Spec => []OneJobPerRequest
PROOF BY InvariantHolds, KeysSuffice, PTL

--------------------------------------------------------------------------------
(* The jobs a session refers to.                                            *)

\* Jobs do what their requests ask for.
JobsFit ==
    \A i \in DOMAIN jobs :
        LET request == jobs[i].call.request
        IN  /\ request.op \in {"plan", "review"} => jobs[i].kind = "run"
            /\ request.op = "plan" => jobs[i].snapshot = request.snapshot

\* They keep their number, their request and their data.
JobsGrow ==
    \A i \in DOMAIN jobs :
        /\ i \in DOMAIN jobs'
        /\ jobs'[i].call = jobs[i].call /\ jobs'[i].kind = jobs[i].kind /\ jobs'[i].snapshot = jobs[i].snapshot

LEMMA AcceptedGrow ==
    ASSUME IInv, JobsFit, NEW call, Accepted(call)
    PROVE  JobsGrow /\ JobsFit'
<1>1. CASE Known(call) # {}
    BY <1>1 DEF Accepted, JobsGrow, JobsFit
<1>2. CASE Known(call) = {}
    <2> DEFINE n == Len(jobs)
    <2> DEFINE job == NewJob(call)
    <2>1. n \in Nat /\ DOMAIN jobs = 1 .. n
        BY LenProperties DEF IInv
    <2>2. /\ DOMAIN jobs' = 1 .. n + 1 /\ jobs'[n + 1] = job
          /\ \A i \in 1 .. n : jobs'[i] = jobs[i]
        <3>1. PICK S : jobs \in Seq(S)
            BY DEF IInv
        <3>2. jobs \in Seq(S \cup {job}) /\ job \in S \cup {job}
            BY <3>1, SeqMonotonic
        <3>3. jobs' = Append(jobs, job)
            BY <1>2 DEF Accepted
        <3> QED BY <3>2, <3>3, AppendProperties, LenProperties
    <2>3. /\ job.call = call
          /\ call.request.op \in {"plan", "review"} => job.kind = "run"
          /\ call.request.op = "plan" => job.snapshot = call.request.snapshot
        BY DEF NewJob
    <2> HIDE DEF job
    <2>4. \A i \in DOMAIN jobs' : i \in DOMAIN jobs \/ i = n + 1
        BY <2>1, <2>2
    <2>5. JobsGrow
        BY <2>1, <2>2 DEF JobsGrow
    <2>6. JobsFit'
        BY <2>1, <2>2, <2>3, <2>4 DEF JobsFit
    <2> QED BY <2>5, <2>6
<1> QED BY <1>1, <1>2

LEMMA StepGrows == ASSUME IInv, JobsFit, [Next]_vars PROVE JobsGrow /\ JobsFit'
<1>1. CASE SameCalls
    BY <1>1 DEF SameCalls, JobsGrow, JobsFit
<1>2. CASE OneCall
    <2>1. PICK call : jobs' = jobs \/ Accepted(call)
        BY <1>2 DEF OneCall
    <2>2. CASE jobs' = jobs
        BY <2>2 DEF JobsGrow, JobsFit
    <2> QED BY <2>1, <2>2, AcceptedGrow
<1> QED BY <1>1, <1>2, StepShape

\* The job that answers a keyed request was accepted for this request.
LEMMA JobAnswers ==
    ASSUME IInv, NEW request, Answered(Keyed(request))
    PROVE  JobFor(Keyed(request)) \in DOMAIN jobs' /\ jobs'[JobFor(Keyed(request))].call.request = request
<1> DEFINE call == Keyed(request)
<1>1. call.request = request /\ call.key = [session |-> session, request |-> request]
    BY DEF Keyed, RequestKey
<1>2. CASE Known(call) = {}
    <2> DEFINE n == Len(jobs)
    <2>1. JobFor(call) = n + 1
        BY <1>2 DEF JobFor
    <2>2. n + 1 \in DOMAIN jobs' /\ jobs'[n + 1] = NewJob(call)
        <3>1. PICK S : jobs \in Seq(S)
            BY DEF IInv
        <3>2. jobs \in Seq(S \cup {NewJob(call)}) /\ NewJob(call) \in S \cup {NewJob(call)}
            BY <3>1, SeqMonotonic
        <3>3. jobs' = Append(jobs, NewJob(call))
            BY <1>2 DEF Answered, Accepted
        <3> HIDE DEF call
        <3> QED BY <3>2, <3>3, AppendProperties, LenProperties
    <2>3. NewJob(call).call = call
        BY DEF NewJob
    <2> HIDE DEF call
    <2> QED BY <1>1, <2>1, <2>2, <2>3 DEF call
<1>3. CASE Known(call) # {}
    <2>1. JobFor(call) \in Known(call) /\ jobs' = jobs
        BY <1>3 DEF JobFor, Answered, Accepted
    <2> DEFINE j == JobFor(call)
    <2>2. j \in DOMAIN jobs /\ jobs[j].call.key = call.key /\ call.key # None
        BY <2>1 DEF Known
    <2>3. jobs[j].call.key = [session |-> jobs[j].call.key.session, request |-> jobs[j].call.request]
        BY <2>2 DEF IInv, WellKeyed
    <2>4. jobs[j].call.request = request
        BY <1>1, <2>2, <2>3
    <2> QED BY <2>1, <2>2, <2>4
<1> QED BY <1>2, <1>3

--------------------------------------------------------------------------------
(* Plan, data, drafts and comparison.                                       *)

PlanFits ==
    run # None =>
        /\ run \in DOMAIN jobs /\ jobs[run].kind = "run" /\ jobs[run].snapshot = snapshot
        /\ work \in {None, run}

ScenarioFits ==
    scenario # None =>
        /\ run # None /\ scenario.job \in DOMAIN jobs
        /\ jobs[scenario.job].call.request = Scenario(run, scenario.policy)

\* What a session waits for can be selected as its plan.
FlowFits ==
    flow # None /\ flow.stage = "run" => flow.job \in DOMAIN jobs /\ jobs[flow.job].kind = "run"

ShownFits ==
    shown # None => ComparisonHasItsBase /\ shown.scenario.job \in DOMAIN jobs

Belonging == JobsFit /\ PlanFits /\ ScenarioFits /\ FlowFits /\ ShownFits

LEMMA BelongingInit == Init => Belonging
PROOF BY EmptySeq DEF Init, Belonging, JobsFit, PlanFits, ScenarioFits, FlowFits, ShownFits

\* The plan stays, other data are chosen, or a run is selected with its data.
LEMMA ContextStep ==
    ASSUME Belonging, JobsGrow,
           \/ SameContext
           \/ \E s : SelectSnapshot(s)
           \/ \E r \in DOMAIN jobs' : jobs'[r].kind = "run" /\ SelectRun(jobs'[r].snapshot, r)
    PROVE  PlanFits' /\ ScenarioFits'
<1>1. CASE SameContext
    BY <1>1 DEF SameContext, Belonging, PlanFits, ScenarioFits, JobsGrow
<1>2. CASE \E s : SelectSnapshot(s)
    <2>1. PICK s : SelectSnapshot(s)
        BY <1>2
    <2>2. CASE s = snapshot
        BY <2>1, <2>2 DEF SelectSnapshot, Belonging, PlanFits, ScenarioFits, JobsGrow
    <2>3. CASE s # snapshot
        BY <2>1, <2>3 DEF SelectSnapshot, PlanFits, ScenarioFits
    <2> QED BY <2>2, <2>3
<1>3. CASE \E r \in DOMAIN jobs' : jobs'[r].kind = "run" /\ SelectRun(jobs'[r].snapshot, r)
    <2>1. PICK r \in DOMAIN jobs' : jobs'[r].kind = "run" /\ SelectRun(jobs'[r].snapshot, r)
        BY <1>3
    <2>2. CASE r = run
        BY <2>1, <2>2 DEF SelectRun, Belonging, PlanFits, ScenarioFits, JobsGrow
    <2>3. CASE r # run
        BY <2>1, <2>3 DEF SelectRun, PlanFits, ScenarioFits
    <2> QED BY <2>2, <2>3
<1> QED BY <1>1, <1>2, <1>3

\* A click that leads to another screen, on the same page or on another.
LEMMA NewScreenStep ==
    ASSUME Belonging, JobsGrow, JobsFit', FlowFits', shown' = None,
           \/ SameContext
           \/ \E s : SelectSnapshot(s)
           \/ \E r \in DOMAIN jobs' : jobs'[r].kind = "run" /\ SelectRun(jobs'[r].snapshot, r)
    PROVE  Belonging'
<1>1. PlanFits' /\ ScenarioFits'
    BY ContextStep
<1>2. ShownFits'
    BY DEF ShownFits
<1> QED BY <1>1, <1>2 DEF Belonging

LEMMA FlowKept == ASSUME Belonging, JobsGrow, flow' \in {flow, None} PROVE FlowFits'
<1>1. CASE flow' = flow
    BY <1>1 DEF Belonging, FlowFits, JobsGrow
<1>2. CASE flow' = None
    BY <1>2 DEF FlowFits
<1> QED BY <1>1, <1>2

\* What the server does on its own.
LEMMA ServerStep ==
    ASSUME Belonging, JobsGrow, JobsFit', UNCHANGED <<snapshot, run, work, scenario, shown, flow>>
    PROVE  Belonging'
<1>1. PlanFits' /\ ScenarioFits'
    BY ContextStep DEF SameContext
<1>2. FlowFits'
    BY FlowKept
<1>3. ShownFits'
    BY DEF Belonging, ShownFits, ComparisonHasItsBase, Scenario, JobsGrow
<1> QED BY <1>1, <1>2, <1>3 DEF Belonging

\* To apply a comparison is to wait for the plan it asks for.
LEMMA AppliedWaits == ASSUME ApplyScenario
                      PROVE  WaitForRun(Keyed(Plan(snapshot, scenario.policy, Reviewed(run))))
PROOF BY DEF ApplyScenario, WaitForRun

\* Waiting for a plan, or for nothing new if the answer is missing.
LEMMA WaitFits ==
    ASSUME IInv, Belonging, JobsGrow, JobsFit', NEW request, request.op \in {"plan", "review"},
           WaitForRun(Keyed(request))
    PROVE  FlowFits'
<1>1. CASE Answered(Keyed(request)) /\ flow' = Waiting("run", JobFor(Keyed(request)), None)
    <2> DEFINE j == JobFor(Keyed(request))
    <2>1. j \in DOMAIN jobs' /\ jobs'[j].call.request = request
        BY <1>1, JobAnswers
    <2>2. flow'.job = j
        BY <1>1 DEF Waiting
    <2> HIDE DEF j
    <2> QED BY <2>1, <2>2 DEF JobsFit, FlowFits
<1>2. CASE UNCHANGED flow
    BY <1>2, FlowKept
<1> QED BY <1>1, <1>2 DEF WaitForRun

\* Clicks after which a plan is waited for.
LEMMA PlanningClicks ==
    ASSUME IInv, Belonging, JobsGrow, JobsFit',
           \/ \E policy \in Policies : Recalculate(policy)
           \/ ReviewSale \/ ApplyScenario
    PROVE  Belonging'
<1>1. SameContext /\ shown' = None
    BY DEF Recalculate, ReviewSale, ApplyScenario, NewScreen, Draw
<1>2. \A s, policy, reviewed : Plan(s, policy, reviewed).op = "plan"
    BY DEF Plan
<1>3. Review(run).op = "review"
    BY DEF Review
<1>4. ASSUME NEW request, request.op \in {"plan", "review"}, WaitForRun(Keyed(request))
      PROVE  FlowFits'
    BY <1>4, WaitFits
<1>5. ASSUME NEW policy, Recalculate(policy) PROVE FlowFits'
    <2> DEFINE request == Plan(snapshot, policy, FALSE)
    <2>1. WaitForRun(Keyed(request)) /\ request.op = "plan"
        BY <1>2, <1>5 DEF Recalculate
    <2> HIDE DEF request
    <2> QED BY <1>4, <2>1
<1>6. ASSUME ReviewSale PROVE FlowFits'
    <2> DEFINE request == Review(run)
    <2>1. WaitForRun(Keyed(request)) /\ request.op = "review"
        BY <1>3, <1>6 DEF ReviewSale
    <2> HIDE DEF request
    <2> QED BY <1>4, <2>1
<1>7. ASSUME ApplyScenario PROVE FlowFits'
    <2> DEFINE request == Plan(snapshot, scenario.policy, Reviewed(run))
    <2>1. WaitForRun(Keyed(request)) /\ request.op = "plan"
        BY <1>2, <1>7, AppliedWaits
    <2> HIDE DEF request
    <2> QED BY <1>4, <2>1
<1> QED BY <1>1, <1>5, <1>6, <1>7, NewScreenStep

LEMMA SubmitImportClick ==
    ASSUME Belonging, JobsGrow, JobsFit', NEW s, NEW policy, SubmitImport(s, policy)
    PROVE  Belonging'
<1>1. FlowFits'
    <2>1. flow' = flow \/ flow' = Waiting("snapshot", JobFor(Keyed(Import(s))), policy)
        BY DEF SubmitImport
    <2>2. CASE flow' = Waiting("snapshot", JobFor(Keyed(Import(s))), policy)
        BY <2>2 DEF Waiting, FlowFits
    <2> QED BY <2>1, <2>2, FlowKept
<1> QED BY <1>1, NewScreenStep DEF SubmitImport, NewScreen, Draw

LEMMA SaveInputsClick ==
    ASSUME IInv, Belonging, JobsGrow, JobsFit', SaveInputs
    PROVE  Belonging'
<1> DEFINE s == PreparedAs[snapshot]
<1> DEFINE policy == IF pending = None THEN DefaultPolicy ELSE pending
<1> DEFINE request == Plan(s, policy, FALSE)
<1>1. request.op = "plan"
    BY DEF Plan
<1>2. /\ shown' = None
      /\ \/ SelectSnapshot(s) /\ WaitForRun(Keyed(request))
         \/ SameContext /\ UNCHANGED flow
    BY DEF SaveInputs, NewScreen, Draw
<1> HIDE DEF s, policy, request
<1>3. FlowFits'
    BY <1>1, <1>2, WaitFits, FlowKept
<1> QED BY <1>2, <1>3, NewScreenStep

\* A tick selects the run that was waited for, or the data that an import gave.
LEMMA ProgressTick ==
    ASSUME IInv, Belonging, JobsGrow, JobsFit', Progress
    PROVE  Belonging'
<1> DEFINE s == jobs[flow.job].snapshot
<1> DEFINE request == Plan(s, flow.policy, FALSE)
<1>1. request.op = "plan"
    BY DEF Plan
<1>2. /\ shown' = None /\ flow # None
      /\ \/ WaitForRun(Keyed(request)) /\ SameContext
         \/ SelectSnapshot(s) /\ flow' = None
         \/ flow.stage = "run" /\ SelectRun(s, flow.job) /\ flow' = None
    BY DEF Progress, PlanFollows, NewScreen, Draw
<1>3. FlowFits'
    <2> HIDE DEF request
    <2> QED BY <1>1, <1>2, WaitFits, FlowKept
<1>4. CASE flow.stage = "run" /\ SelectRun(s, flow.job)
    <2>1. flow.job \in DOMAIN jobs' /\ jobs'[flow.job].kind = "run" /\ jobs'[flow.job].snapshot = s
        BY <1>2, <1>4 DEF Belonging, FlowFits, JobsGrow
    <2>2. \E r \in DOMAIN jobs' : jobs'[r].kind = "run" /\ SelectRun(jobs'[r].snapshot, r)
        BY <1>4, <2>1
    <2> QED BY <1>2, <1>3, <2>2, NewScreenStep
<1>5. CASE SameContext \/ SelectSnapshot(s)
    <2> HIDE DEF s
    <2> QED BY <1>2, <1>3, <1>5, NewScreenStep
<1> QED BY <1>2, <1>4, <1>5

LEMMA NewestExists ==
    ASSUME NEW n \in Nat, NEW S, S \subseteq 1 .. n, S # {}
    PROVE  Newest(S) \in S
<1> DEFINE Rel == OpToRel(<, Nat)
<1> DEFINE T == {n - i : i \in S}
<1>1. T \subseteq Nat /\ T # {}
    <2>1. \A i \in S : n - i \in Nat
        OBVIOUS
    <2> QED BY <2>1
<1>2. IsWellFoundedOn(Rel, Nat)
    BY NatLessThanWellFounded
<1>3. \A x, y \in Nat : y < x => <<y, x>> \in Rel
    BY DEF OpToRel
<1> HIDE DEF Rel
<1>4. PICK x \in T : \A y \in T : ~ (<<y, x>> \in Rel)
    BY <1>1, <1>2, WFMin
<1>5. PICK i \in S : x = n - i
    BY <1>4
<1>6. ASSUME NEW j \in S PROVE j <= i
    <2>1. ~ (n - j < n - i)
        BY <1>1, <1>3, <1>4, <1>5
    <2> QED BY <2>1
<1> QED BY <1>6 DEF Newest

\* What is restored is a run with its data, a run to wait for, or data without a plan.
LEMMA RestoreStep ==
    ASSUME IInv, Belonging, JobsGrow, JobsFit', RestoreWorkspace
    PROVE  Belonging'
<1> DEFINE relevant == {i \in DOMAIN jobs : jobs[i].kind = "run" /\ (Open(i) \/ Ready(i))}
<1> DEFINE newest == Newest(relevant)
<1>1. ASSUME relevant # {}
      PROVE  newest \in DOMAIN jobs /\ jobs[newest].kind = "run"
    <2>1. Len(jobs) \in Nat /\ DOMAIN jobs = 1 .. Len(jobs)
        BY LenProperties DEF IInv
    <2>2. relevant \subseteq 1 .. Len(jobs)
        BY <2>1
    <2> HIDE DEF relevant
    <2>3. newest \in relevant
        BY <1>1, <2>1, <2>2, NewestExists
    <2> QED BY <2>3 DEF relevant
<1>2. shown' = None
    BY DEF RestoreWorkspace, NewScreen, Draw
<1>3. \/ SameContext /\ UNCHANGED flow
      \/ (\E s : SelectSnapshot(s)) /\ UNCHANGED flow
      \/ relevant # {} /\ SelectSnapshot(jobs[newest].snapshot) /\ flow' = Waiting("run", newest, None)
      \/ relevant # {} /\ SelectRun(jobs[newest].snapshot, newest) /\ UNCHANGED flow
    BY DEF RestoreWorkspace
<1> HIDE DEF relevant, newest
<1>4. CASE (SameContext \/ \E s : SelectSnapshot(s)) /\ UNCHANGED flow
    BY <1>2, <1>4, FlowKept, NewScreenStep
<1>5. CASE relevant # {} /\ SelectSnapshot(jobs[newest].snapshot) /\ flow' = Waiting("run", newest, None)
    <2>1. newest \in DOMAIN jobs' /\ jobs'[newest].kind = "run" /\ flow'.job = newest
        BY <1>1, <1>5 DEF JobsGrow, Waiting
    <2>2. FlowFits'
        BY <2>1 DEF FlowFits
    <2> QED BY <1>2, <1>5, <2>2, NewScreenStep
<1>6. CASE relevant # {} /\ SelectRun(jobs[newest].snapshot, newest) /\ UNCHANGED flow
    <2>1. /\ newest \in DOMAIN jobs' /\ jobs'[newest].kind = "run"
          /\ jobs'[newest].snapshot = jobs[newest].snapshot
        BY <1>1, <1>6 DEF JobsGrow
    <2>2. \E r \in DOMAIN jobs' : jobs'[r].kind = "run" /\ SelectRun(jobs'[r].snapshot, r)
        BY <1>6, <2>1
    <2> QED BY <1>2, <1>6, <2>2, FlowKept, NewScreenStep
<1> QED BY <1>3, <1>4, <1>5, <1>6

\* The other clicks, in either mode.
LEMMA OtherClicks ==
    ASSUME IInv, Belonging, JobsGrow, JobsFit',
           \/ (\E p \in Pages : SwitchPage(p)) \/ ResetFlow \/ UseImported
           \/ \E s : ImportOnce(s) \/ ChooseById(s)
           \/ \E i : WatchImport(i)
           \/ \E r \in ReadyRuns : OpenSavedPlan(r)
    PROVE  Belonging'
<1>1. shown' = None /\ flow' \in {flow, None}
    BY DEF SwitchPage, ResetFlow, UseImported, ImportOnce, ChooseById, WatchImport, OpenSavedPlan,
           NewScreen, Draw
<1>2. FlowFits'
    BY <1>1, FlowKept
<1>3. CASE \E r \in ReadyRuns : OpenSavedPlan(r)
    <2>1. PICK r \in ReadyRuns : OpenSavedPlan(r)
        BY <1>3
    <2>2. r \in DOMAIN jobs /\ jobs[r].kind = "run"
        BY DEF ReadyRuns
    <2>3. /\ r \in DOMAIN jobs' /\ jobs'[r].kind = "run"
          /\ SelectRun(jobs'[r].snapshot, r)
        BY <2>1, <2>2 DEF OpenSavedPlan, JobsGrow
    <2> QED BY <1>1, <1>2, <2>3, NewScreenStep
<1>4. CASE \/ (\E p \in Pages : SwitchPage(p)) \/ ResetFlow \/ UseImported
           \/ \E s : ImportOnce(s) \/ ChooseById(s)
           \/ \E i : WatchImport(i)
    <2>1. SameContext \/ \E s : SelectSnapshot(s)
        BY <1>4 DEF SwitchPage, ResetFlow, UseImported, ImportOnce, ChooseById, WatchImport
    <2> QED BY <1>1, <1>2, <2>1, NewScreenStep
<1> QED BY <1>3, <1>4

LEMMA PlanHereClick ==
    ASSUME IInv, Belonging, JobsGrow, JobsFit', NEW policy, PlanHere(policy)
    PROVE  Belonging'
<1> DEFINE request == Plan(snapshot, policy, FALSE)
<1> DEFINE j == JobFor(Keyed(request))
<1>1. request.op = "plan" /\ request.snapshot = snapshot
    BY DEF Plan
<1>2. /\ shown' = None /\ UNCHANGED flow
      /\ \/ Answered(Keyed(request)) /\ SelectRun(snapshot, j)
         \/ SameContext
    BY DEF PlanHere, NewScreen, Draw
<1>3. FlowFits'
    BY <1>2, FlowKept
<1>4. CASE Answered(Keyed(request)) /\ SelectRun(snapshot, j)
    <2>1. j \in DOMAIN jobs' /\ jobs'[j].call.request = request
        <3> HIDE DEF request
        <3> QED BY <1>4, JobAnswers
    <2> HIDE DEF j, request
    <2>2. jobs'[j].kind = "run" /\ jobs'[j].snapshot = snapshot
        BY <1>1, <2>1 DEF JobsFit
    <2>3. \E r \in DOMAIN jobs' : jobs'[r].kind = "run" /\ SelectRun(jobs'[r].snapshot, r)
        BY <1>4, <2>1, <2>2
    <2> QED BY <1>2, <1>3, <2>3, NewScreenStep
<1> QED BY <1>2, <1>3, <1>4, NewScreenStep

\* What is drawn for a comparison is the comparison that is kept.
LEMMA ComparedFits ==
    ASSUME Belonging, JobsGrow, JobsFit', UNCHANGED <<snapshot, run, work, flow>>, run # None,
           NEW selected, Compared(selected),
           selected # None =>
              /\ selected.edits = jobs[run].edits /\ selected.job \in DOMAIN jobs'
              /\ jobs'[selected.job].call.request = Scenario(run, selected.policy)
    PROVE  Belonging'
<1>1. FlowFits' /\ PlanFits'
    BY FlowKept DEF Belonging, PlanFits, JobsGrow
<1>2. ScenarioFits'
    BY DEF Compared, ScenarioFits, Scenario
<1>3. ShownFits'
    <2> SUFFICES ASSUME shown' # None
                 PROVE  ComparisonHasItsBase' /\ shown'.scenario.job \in DOMAIN jobs'
        BY DEF ShownFits
    <2>1. shown' = [scenario |-> selected, run |-> run, edits |-> jobs[run].edits] /\ selected # None
        BY DEF Compared
    <2> QED BY <2>1 DEF ComparisonHasItsBase, Scenario
<1> QED BY <1>1, <1>2, <1>3 DEF Belonging

LEMMA ComparisonClicks ==
    ASSUME IInv, Belonging, JobsGrow, JobsFit', ViewScenario \/ \E policy \in Terms : Compare(policy)
    PROVE  Belonging'
<1>1. UNCHANGED <<snapshot, run, work, flow>> /\ run # None
    BY DEF ViewScenario, Compare, BaseReady, Ready
<1>2. CASE Compared(None)
    BY <1>1, <1>2, ComparedFits
<1>3. CASE Compared(KeptScenario)
    <2> DEFINE selected == KeptScenario
    <2>1. selected # None =>
              /\ selected.edits = jobs[run].edits /\ selected.job \in DOMAIN jobs'
              /\ jobs'[selected.job].call.request = Scenario(run, selected.policy)
        BY DEF KeptScenario, Belonging, ScenarioFits, JobsGrow
    <2> HIDE DEF selected
    <2> QED BY <1>1, <1>3, <2>1, ComparedFits DEF selected
<1>4. ASSUME NEW policy, Compare(policy), ~ Compared(None) PROVE Belonging'
    <2> DEFINE request == Scenario(run, policy)
    <2> DEFINE j == JobFor(Keyed(request))
    <2> DEFINE selected == [job |-> j, policy |-> policy, edits |-> jobs[run].edits]
    <2>1. Answered(Keyed(request)) /\ Compared(selected)
        BY <1>4 DEF Compare
    <2>2. j \in DOMAIN jobs' /\ jobs'[j].call.request = request
        <3> HIDE DEF request
        <3> QED BY <2>1, JobAnswers
    <2>3. selected.job = j /\ selected.policy = policy /\ selected.edits = jobs[run].edits
        OBVIOUS
    <2> HIDE DEF j, selected
    <2> QED BY <1>1, <2>1, <2>2, <2>3, ComparedFits
<1> QED BY <1>2, <1>3, <1>4 DEF ViewScenario

LEMMA WorkStep ==
    ASSUME Belonging, JobsGrow, JobsFit', WorkOnOrders
    PROVE  Belonging'
<1>1. UNCHANGED <<snapshot, run, scenario, flow>> /\ work' = run /\ NewScreen
    BY DEF WorkOnOrders
<1>2. PlanFits' /\ ScenarioFits'
    BY <1>1 DEF Belonging, PlanFits, ScenarioFits, Scenario, JobsGrow
<1>3. FlowFits' /\ ShownFits'
    BY <1>1, FlowKept DEF NewScreen, Draw, ShownFits
<1> QED BY <1>2, <1>3 DEF Belonging

LEMMA NewSessionStep == ASSUME JobsFit', NewSession PROVE Belonging'
PROOF BY DEF NewSession, Draw, Belonging, PlanFits, ScenarioFits, FlowFits, ShownFits

LEMMA BelongingKept == IInv /\ Belonging /\ [Next]_vars => Belonging'
<1> SUFFICES ASSUME IInv, Belonging, [Next]_vars PROVE Belonging'
    OBVIOUS
<1>1. JobsGrow /\ JobsFit'
    BY StepGrows DEF Belonging
<1>2. CASE \/ FinishAnyJob \/ Restart
           \/ \E i \in DOMAIN jobs : AbandonJob(i)
           \/ \E call \in late : LateRequest(call) \/ LateSave(call)
           \/ UNCHANGED vars
    <2>1. UNCHANGED <<snapshot, run, work, scenario, shown, flow>>
        BY <1>2 DEF FinishAnyJob, FinishJob, AbandonJob, Restart, LateRequest, LateSave, vars, context
    <2> QED BY <1>1, <2>1, ServerStep
<1>3. CASE \/ (\E p \in Pages : SwitchPage(p)) \/ ResetFlow \/ UseImported
           \/ \E s \in Importable : ImportOnce(s)
           \/ \E s \in Stored : ChooseById(s)
           \/ \E i \in DOMAIN jobs : WatchImport(i)
           \/ \E r \in ReadyRuns : OpenSavedPlan(r)
    BY <1>1, <1>3, OtherClicks
<1>4. CASE \/ \E policy \in Policies : Recalculate(policy)
           \/ ReviewSale \/ ApplyScenario
    BY <1>1, <1>4, PlanningClicks
<1>5. CASE \/ \E s \in Importable, policy \in Policies : SubmitImport(s, policy)
           \/ \E policy \in Policies : PlanHere(policy)
           \/ SaveInputs \/ Progress
    BY <1>1, <1>5, SubmitImportClick, PlanHereClick, SaveInputsClick, ProgressTick
<1>6. CASE NewSession \/ RestoreWorkspace \/ WorkOnOrders
    BY <1>1, <1>6, NewSessionStep, RestoreStep, WorkStep
<1>7. CASE ViewScenario \/ \E policy \in Terms : Compare(policy)
    BY <1>1, <1>7, ComparisonClicks
<1> QED BY <1>2, <1>3, <1>4, <1>5, <1>6, <1>7 DEF Next

LEMMA BelongingHolds == Spec => []Belonging
PROOF BY BelongingInit, BelongingKept, InvariantHolds, PTL DEF Spec

\* "Change context together": in either mode, for any data sets, policies, lost answers,
\* late requests, reloads and restarts, the plan on the screens is of the data on the
\* screens, and drafts and comparison are of that plan (activate_run, _select_snapshot).
THEOREM PlansKeepTheirData == Spec => []PlansBelongToTheirData
<1>1. Belonging => PlansBelongToTheirData
    BY DEF Belonging, PlanFits, ScenarioFits, Scenario, PlansBelongToTheirData
<1> QED BY <1>1, BelongingHolds, PTL

\* A comparison on the screen is of the plan, the order versions and the terms it is drawn
\* with, although one job answers every repetition of its request (base_versions,
\* wrong_base).
THEOREM ComparisonsKeepTheirBase == Spec => []ComparisonHasItsBase
<1>1. Belonging => ComparisonHasItsBase
    BY DEF Belonging, ShownFits, ComparisonHasItsBase
<1> QED BY <1>1, BelongingHolds, PTL

--------------------------------------------------------------------------------
(* Why flows end.                                                           *)

Statuses == {"open", "abandoned", "succeeded", "interrupted"}

FlowShape ==
    /\ \A i \in DOMAIN jobs : jobs[i].status \in Statuses
    /\ flow # None => flow.stage \in {"snapshot", "run"} /\ flow.job \in DOMAIN jobs
    /\ faults \in 0 .. MaxFaults

\* The steps a flow has left at a stage whose job has some status, as long as no more
\* answers are lost and jobs given up than `patience` says.  A job that was interrupted
\* ends the flow; one that was given up has nothing before it but that.
FlowWork(stage, status, patience) ==
    IF status = "interrupted" THEN 0
    ELSE patience + (IF stage = "snapshot" THEN 2 ELSE 0) + (IF status = "open" THEN 2 ELSE 1)

StepsLeft == IF flow = None THEN 0 ELSE FlowWork(flow.stage, jobs[flow.job].status, MaxFaults - faults)

\* Clicks that leave the wait for something else.
AnotherPlan == ReviewSale \/ ApplyScenario \/ RestoreWorkspace \/ NewSession

\* A job is settled once, perhaps by a start after it was given up, and a new one is open.
JobsSettle ==
    /\ \A i \in DOMAIN jobs :
          /\ i \in DOMAIN jobs'
          /\ \/ jobs'[i].status = jobs[i].status
             \/ jobs[i].status = "open" /\ jobs'[i].status \in {"succeeded", "abandoned", "interrupted"}
             \/ jobs[i].status = "abandoned" /\ jobs'[i].status = "interrupted"
    /\ \A i \in DOMAIN jobs' \ DOMAIN jobs : jobs'[i].status = "open"

LEMMA AcceptedSettles == ASSUME IInv, NEW call, Accepted(call) PROVE JobsSettle
<1>1. CASE Known(call) # {}
    BY <1>1 DEF Accepted, JobsSettle
<1>2. CASE Known(call) = {}
    <2> DEFINE n == Len(jobs)
    <2> DEFINE job == NewJob(call)
    <2>1. jobs' = Append(jobs, job) /\ job.status = "open"
        BY <1>2 DEF Accepted, NewJob
    <2>2. PICK S : jobs \in Seq(S)
        BY DEF IInv
    <2> HIDE DEF job
    <2>3. jobs \in Seq(S \cup {job}) /\ job \in S \cup {job}
        BY <2>2, SeqMonotonic
    <2>4. n \in Nat /\ DOMAIN jobs = 1 .. n
        BY <2>3, LenProperties
    <2>5. /\ DOMAIN jobs' = 1 .. n + 1 /\ jobs'[n + 1] = job
          /\ \A i \in 1 .. n : jobs'[i] = jobs[i]
        BY <2>1, <2>3, AppendProperties, LenProperties
    <2>6. \A i \in DOMAIN jobs' \ DOMAIN jobs : i = n + 1
        BY <2>4, <2>5
    <2> QED BY <2>1, <2>4, <2>5, <2>6 DEF JobsSettle
<1> QED BY <1>1, <1>2

\* Sessions only add jobs; their status is the server's.
LEMMA WhoChangesJobs ==
    ASSUME IInv, [Next]_vars
    PROVE  OneCall \/ FinishAnyJob \/ (\E i \in DOMAIN jobs : AbandonJob(i)) \/ Restart \/ WorkOnOrders
<1>1. CASE \E call \in late : LateRequest(call) \/ LateSave(call)
    BY <1>1, LateStep
<1>2. CASE Progress \/ SaveInputs \/ \E s \in Importable : ImportOnce(s)
    BY <1>2, ProgressStep, SaveInputsStep, ImportOnceStep
<1> QED BY <1>1, <1>2, RequestStep, OtherStep DEF Next

LEMMA StepSettles == ASSUME IInv, [Next]_vars PROVE JobsSettle
<1>1. CASE OneCall
    <2>1. PICK call : jobs' = jobs \/ Accepted(call)
        BY <1>1 DEF OneCall
    <2>2. CASE jobs' = jobs
        BY <2>2 DEF JobsSettle
    <2> QED BY <2>1, <2>2, AcceptedSettles
<1>2. CASE FinishAnyJob
    <2>1. PICK i \in DOMAIN jobs : FinishJob(i)
        BY <1>2 DEF FinishAnyJob
    <2> DEFINE job == [jobs[i] EXCEPT !.status = "succeeded"]
    <2>2. jobs' = [jobs EXCEPT ![i] = job] /\ jobs[i].status = "open"
        BY <2>1 DEF FinishJob
    <2>3. job.status = "succeeded"
        OBVIOUS
    <2> HIDE DEF job
    <2> QED BY <2>2, <2>3 DEF JobsSettle
<1>3. CASE Restart
    <2> DEFINE job(i) == [jobs[i] EXCEPT !.status = "interrupted"]
    <2>1. jobs' = [i \in DOMAIN jobs |-> IF Open(i) THEN job(i) ELSE jobs[i]]
        BY <1>3 DEF Restart
    <2>2. \A i \in DOMAIN jobs : job(i).status = "interrupted"
        OBVIOUS
    <2> HIDE DEF job
    <2> QED BY <2>1, <2>2 DEF JobsSettle, Open
<1>4. CASE WorkOnOrders
    <2> DEFINE job == [jobs[run] EXCEPT !.edits = @ + 1]
    <2>1. jobs' = jobs \/ jobs' = [jobs EXCEPT ![run] = job]
        BY <1>4 DEF WorkOnOrders
    <2>2. job.status = jobs[run].status
        OBVIOUS
    <2> HIDE DEF job
    <2> QED BY <2>1, <2>2 DEF JobsSettle
<1>5. CASE \E i \in DOMAIN jobs : AbandonJob(i)
    <2>1. PICK i \in DOMAIN jobs : AbandonJob(i)
        BY <1>5
    <2> DEFINE job == [jobs[i] EXCEPT !.status = "abandoned"]
    <2>2. jobs' = [jobs EXCEPT ![i] = job] /\ jobs[i].status = "open"
        BY <2>1 DEF AbandonJob
    <2>3. job.status = "abandoned"
        OBVIOUS
    <2> HIDE DEF job
    <2> QED BY <2>2, <2>3 DEF JobsSettle
<1> QED BY <1>1, <1>2, <1>3, <1>4, <1>5, WhoChangesJobs

\* Answers that were lost stay lost, and jobs given up stay given up.
LEMMA FaultsGrow == ASSUME FlowShape, [Next]_vars PROVE faults' \in faults .. MaxFaults
<1>0. MaxFaults \in Nat /\ faults \in 0 .. MaxFaults
    BY PlanDeskAssumption DEF FlowShape
<1>1. ASSUME NEW call, Answered(call) \/ Unanswered(call) PROVE faults' \in faults .. MaxFaults
    <2>1. faults' = faults \/ (faults < MaxFaults /\ faults' = faults + 1)
        BY <1>1 DEF Answered, Unanswered
    <2> QED BY <1>0, <2>1
<1>2. ASSUME NEW call, WaitForRun(call) PROVE faults' \in faults .. MaxFaults
    BY <1>1, <1>2 DEF WaitForRun
<1>3. ASSUME UNCHANGED faults PROVE faults' \in faults .. MaxFaults
    BY <1>0, <1>3
<1>4. CASE \/ FinishAnyJob \/ Restart
           \/ \E call \in late : LateRequest(call) \/ LateSave(call)
           \/ WorkOnOrders \/ UNCHANGED vars
    BY <1>3, <1>4 DEF FinishAnyJob, FinishJob, Restart, LateRequest, LateSave, WorkOnOrders, vars, server
<1>5. CASE \/ (\E p \in Pages : SwitchPage(p)) \/ NewSession \/ RestoreWorkspace \/ ResetFlow \/ ViewScenario \/ UseImported
           \/ \E r \in ReadyRuns : OpenSavedPlan(r)
           \/ \E i \in DOMAIN jobs : WatchImport(i)
           \/ \E s \in Stored : ChooseById(s)
    BY <1>3, <1>5 DEF SwitchPage, NewSession, RestoreWorkspace, ResetFlow, ViewScenario, UseImported,
                      OpenSavedPlan, WatchImport, ChooseById, server
<1>6. CASE \/ \E s \in Importable, policy \in Policies : SubmitImport(s, policy)
           \/ \E policy \in Terms : Compare(policy)
           \/ \E policy \in Policies : PlanHere(policy)
    BY <1>1, <1>6 DEF SubmitImport, Compare, PlanHere
<1>7. CASE ApplyScenario \/ ReviewSale \/ \E policy \in Policies : Recalculate(policy)
    BY <1>1, <1>2, <1>7 DEF Recalculate, ReviewSale, ApplyScenario
<1>8. CASE \E s \in Importable : ImportOnce(s)
    BY <1>1, <1>3, <1>8 DEF ImportOnce, server
<1>9. CASE SaveInputs
    <2> DEFINE s == PreparedAs[snapshot]
    <2> DEFINE policy == IF pending = None THEN DefaultPolicy ELSE pending
    <2>1. WaitForRun(Keyed(Plan(s, policy, FALSE))) \/ (faults < MaxFaults /\ faults' = faults + 1)
        BY <1>9 DEF SaveInputs
    <2>2. CASE WaitForRun(Keyed(Plan(s, policy, FALSE)))
        <3> HIDE DEF s, policy
        <3> QED BY <1>2, <2>2
    <2>3. CASE faults < MaxFaults /\ faults' = faults + 1
        BY <1>0, <2>3
    <2> QED BY <2>1, <2>2, <2>3
<1>10. CASE Progress
    <2>1. (\E request : WaitForRun(Keyed(request))) \/ UNCHANGED server
        BY <1>10 DEF Progress, PlanFollows
    <2> QED BY <1>2, <1>3, <2>1 DEF server
<1>11. CASE \E i \in DOMAIN jobs : AbandonJob(i)
    <2>1. faults < MaxFaults /\ faults' = faults + 1
        BY <1>11 DEF AbandonJob
    <2> QED BY <1>0, <2>1
<1> QED BY <1>4, <1>5, <1>6, <1>7, <1>8, <1>9, <1>10, <1>11 DEF Next

\* A session goes on waiting, stops waiting, waits for another job because it did not
\* wait or took up another plan, or goes from its import to its plan.
FlowMoves ==
    \/ flow' \in {flow, None}
    \/ /\ flow'.stage \in {"snapshot", "run"} /\ flow'.job \in DOMAIN jobs'
       /\ \/ flow = None \/ AnotherPlan
          \/ flow.stage = "snapshot" /\ Ready(flow.job) /\ flow'.stage = "run"

LEMMA WaitMoves ==
    ASSUME IInv, NEW request, WaitForRun(Keyed(request))
    PROVE  \/ flow' = flow /\ faults' = faults + 1
           \/ flow'.stage = "run" /\ flow'.job \in DOMAIN jobs'
<1>1. CASE Unanswered(Keyed(request)) /\ UNCHANGED flow
    BY <1>1 DEF Unanswered
<1>2. CASE Answered(Keyed(request)) /\ flow' = Waiting("run", JobFor(Keyed(request)), None)
    <2> DEFINE j == JobFor(Keyed(request))
    <2>1. j \in DOMAIN jobs'
        BY <1>2, JobAnswers
    <2>2. flow'.stage = "run" /\ flow'.job = j
        BY <1>2 DEF Waiting
    <2> QED BY <2>1, <2>2
<1> QED BY <1>1, <1>2 DEF WaitForRun

LEMMA SubmitMoves ==
    ASSUME IInv, NEW s, NEW policy, SubmitImport(s, policy)
    PROVE  FlowMoves
<1> DEFINE j == JobFor(Keyed(Import(s)))
<1>1. flow = None /\ (flow' = flow \/ (Answered(Keyed(Import(s))) /\ flow' = Waiting("snapshot", j, policy)))
    BY DEF SubmitImport
<1>2. ASSUME Answered(Keyed(Import(s))), flow' = Waiting("snapshot", j, policy) PROVE FlowMoves
    <2>1. j \in DOMAIN jobs'
        BY <1>2, JobAnswers
    <2>2. flow'.stage = "snapshot" /\ flow'.job = j
        BY <1>2 DEF Waiting
    <2> QED BY <1>1, <2>1, <2>2 DEF FlowMoves
<1> QED BY <1>1, <1>2 DEF FlowMoves

LEMMA SaveInputsMoves == ASSUME IInv, SaveInputs PROVE FlowMoves
<1>1. flow = None /\ ((\E request : WaitForRun(Keyed(request))) \/ UNCHANGED flow)
    BY DEF SaveInputs
<1> QED BY <1>1, WaitMoves DEF FlowMoves

\* A tick takes an answer, loses one, or ends the flow.
LEMMA ProgressMoves ==
    ASSUME IInv, Progress
    PROVE  /\ flow # None /\ Ready(flow.job)
           /\ \/ flow' = None \/ (flow' = flow /\ faults' = faults + 1)
              \/ flow.stage = "snapshot" /\ flow'.stage = "run" /\ flow'.job \in DOMAIN jobs'
<1>1. /\ flow # None /\ Ready(flow.job)
      /\ flow' = None \/ (flow.stage = "snapshot" /\ \E request : WaitForRun(Keyed(request)))
    BY DEF Progress, PlanFollows
<1> QED BY <1>1, WaitMoves

LEMMA RestoreMoves == ASSUME IInv, RestoreWorkspace PROVE FlowMoves
<1> DEFINE relevant == {i \in DOMAIN jobs : jobs[i].kind = "run" /\ (Open(i) \/ Ready(i))}
<1> DEFINE newest == Newest(relevant)
<1>1. UNCHANGED <<flow, jobs>> \/ (UNCHANGED jobs /\ relevant # {} /\ flow' = Waiting("run", newest, None))
    BY DEF RestoreWorkspace, server
<1>2. ASSUME relevant # {} PROVE newest \in DOMAIN jobs
    <2>1. Len(jobs) \in Nat /\ DOMAIN jobs = 1 .. Len(jobs)
        BY LenProperties DEF IInv
    <2>2. relevant \subseteq 1 .. Len(jobs)
        BY <2>1
    <2> HIDE DEF relevant
    <2>3. newest \in relevant
        BY <1>2, <2>1, <2>2, NewestExists
    <2> QED BY <2>1, <2>2, <2>3
<1> HIDE DEF relevant, newest
<1> QED BY <1>1, <1>2 DEF FlowMoves, AnotherPlan, Waiting

LEMMA StepMoves == ASSUME IInv, [Next]_vars PROVE FlowMoves
<1>1. CASE UNCHANGED flow \/ flow' = None
    BY <1>1 DEF FlowMoves
<1>2. CASE \/ FinishAnyJob \/ Restart \/ WorkOnOrders \/ UNCHANGED vars
           \/ \E i \in DOMAIN jobs : AbandonJob(i)
           \/ \E call \in late : LateRequest(call) \/ LateSave(call)
    BY <1>1, <1>2 DEF FinishAnyJob, FinishJob, AbandonJob, Restart, WorkOnOrders, LateRequest, LateSave, vars
<1>3. CASE \/ (\E p \in Pages : SwitchPage(p)) \/ NewSession \/ ResetFlow \/ ViewScenario \/ UseImported
           \/ \E r \in ReadyRuns : OpenSavedPlan(r)
           \/ \E i \in DOMAIN jobs : WatchImport(i)
           \/ \E s \in Stored : ChooseById(s)
           \/ \E s \in Importable : ImportOnce(s)
           \/ \E policy \in Terms : Compare(policy)
           \/ \E policy \in Policies : PlanHere(policy)
    BY <1>1, <1>3 DEF SwitchPage, NewSession, ResetFlow, ViewScenario, UseImported, OpenSavedPlan,
                      WatchImport, ChooseById, ImportOnce, Compare, PlanHere
<1>4. CASE \/ RestoreWorkspace \/ SaveInputs
           \/ \E s \in Importable, policy \in Policies : SubmitImport(s, policy)
    BY <1>4, RestoreMoves, SaveInputsMoves, SubmitMoves
<1>5. CASE ReviewSale \/ ApplyScenario
    <2>1. \E request : WaitForRun(Keyed(request))
        BY <1>5, AppliedWaits DEF ReviewSale
    <2> QED BY <1>5, <2>1, WaitMoves DEF FlowMoves, AnotherPlan
<1>6. CASE \E policy \in Policies : Recalculate(policy)
    <2>1. flow = None /\ \E request : WaitForRun(Keyed(request))
        BY <1>6 DEF Recalculate
    <2> QED BY <2>1, WaitMoves DEF FlowMoves
<1>7. CASE Progress
    BY <1>7, ProgressMoves DEF FlowMoves
<1> QED BY <1>2, <1>3, <1>4, <1>5, <1>6, <1>7 DEF Next

LEMMA FlowShapeInit == Init => FlowShape
<1> SUFFICES ASSUME Init PROVE FlowShape
    OBVIOUS
<1>1. DOMAIN jobs = {} /\ flow = None /\ faults = 0
    BY EmptySeq DEF Init
<1> QED BY <1>1, PlanDeskAssumption DEF FlowShape

LEMMA FlowShapeKept == IInv /\ FlowShape /\ [Next]_vars => FlowShape'
<1> SUFFICES ASSUME IInv, FlowShape, [Next]_vars PROVE FlowShape'
    OBVIOUS
<1>1. JobsSettle /\ FlowMoves /\ faults' \in faults .. MaxFaults
    BY StepSettles, StepMoves, FaultsGrow
<1>2. \A i \in DOMAIN jobs' : jobs'[i].status \in Statuses
    BY <1>1 DEF FlowShape, JobsSettle, Statuses
<1>3. flow' # None => flow'.stage \in {"snapshot", "run"} /\ flow'.job \in DOMAIN jobs'
    BY <1>1 DEF FlowShape, FlowMoves, JobsSettle
<1>4. faults' \in 0 .. MaxFaults
    BY <1>1, PlanDeskAssumption DEF FlowShape
<1> QED BY <1>2, <1>3, <1>4 DEF FlowShape

\* The measure is a number, and it is used up when the flow ended with a failed job.
FlowMeasured ==
    flow # None =>
        /\ StepsLeft \in Nat
        /\ StepsLeft = 0 <=> jobs[flow.job].status = "interrupted"

LEMMA WorkIsNatural ==
    ASSUME NEW stage \in {"snapshot", "run"}, NEW status \in Statuses, NEW patience \in Nat
    PROVE  /\ FlowWork(stage, status, patience) \in Nat
           /\ FlowWork(stage, status, patience) = 0 <=> status = "interrupted"
PROOF BY DEF FlowWork, Statuses

\* The steps of each stage, and how they fall when patience does not grow.
LEMMA WorkOfStage ==
    ASSUME NEW p \in Nat
    PROVE  /\ \A stage : FlowWork(stage, "interrupted", p) = 0
           /\ FlowWork("snapshot", "open", p) = p + 4 /\ FlowWork("snapshot", "succeeded", p) = p + 3
           /\ FlowWork("run", "open", p) = p + 2 /\ FlowWork("run", "succeeded", p) = p + 1
           /\ FlowWork("snapshot", "abandoned", p) = p + 3 /\ FlowWork("run", "abandoned", p) = p + 1
PROOF BY DEF FlowWork

LEMMA WorkFalls ==
    ASSUME NEW p \in Nat, NEW q \in Nat, q <= p, NEW stage \in {"snapshot", "run"}
    PROVE  /\ \A status \in Statuses : FlowWork(stage, status, q) <= FlowWork(stage, status, p)
           /\ FlowWork(stage, "succeeded", q) < FlowWork(stage, "open", p)
           /\ FlowWork(stage, "interrupted", q) <= FlowWork(stage, "open", p)
           /\ FlowWork(stage, "interrupted", q) <= FlowWork(stage, "abandoned", p)
           /\ FlowWork(stage, "abandoned", q) <= FlowWork(stage, "open", p)
           /\ q < p => FlowWork(stage, "succeeded", q) < FlowWork(stage, "succeeded", p)
           /\ \A status \in Statuses : FlowWork("run", status, q) < FlowWork("snapshot", "succeeded", p)
<1>1. CASE stage = "snapshot"
    BY <1>1, WorkOfStage DEF Statuses
<1>2. CASE stage = "run"
    BY <1>2, WorkOfStage DEF Statuses
<1> QED BY <1>1, <1>2

\* Patience is a number, and a lost answer takes one of it.
LEMMA PatienceFalls ==
    ASSUME NEW m \in Nat, NEW before \in 0 .. m, NEW after \in before .. m
    PROVE  /\ m - before \in Nat /\ m - after \in Nat /\ m - after <= m - before
           /\ after = before + 1 => m - after < m - before
OBVIOUS

LEMMA ShapeMeasures == FlowShape => FlowMeasured
<1> SUFFICES ASSUME FlowShape, flow # None
             PROVE  /\ StepsLeft \in Nat
                    /\ StepsLeft = 0 <=> jobs[flow.job].status = "interrupted"
    BY DEF FlowMeasured
<1>1. MaxFaults - faults \in Nat
    BY PlanDeskAssumption DEF FlowShape
<1>2. flow.stage \in {"snapshot", "run"} /\ jobs[flow.job].status \in Statuses
    BY DEF FlowShape
<1> QED BY <1>1, <1>2, WorkIsNatural DEF StepsLeft

\* Losing answers, and the settling of the job, never cost a step.
LEMMA WaitingOn ==
    ASSUME FlowShape, FlowShape', JobsSettle, faults' \in faults .. MaxFaults, flow # None, flow' = flow
    PROVE  /\ StepsLeft' <= StepsLeft
           /\ jobs[flow.job].status = "open" /\ jobs'[flow.job].status = "succeeded" => StepsLeft' < StepsLeft
           /\ jobs[flow.job].status = "succeeded" /\ faults' = faults + 1 => StepsLeft' < StepsLeft
<1> DEFINE before == jobs[flow.job].status
<1> DEFINE after == jobs'[flow.job].status
<1>1. /\ StepsLeft = FlowWork(flow.stage, before, MaxFaults - faults)
      /\ StepsLeft' = FlowWork(flow.stage, after, MaxFaults - faults')
    BY DEF StepsLeft
<1>2. /\ before \in Statuses /\ after \in Statuses
      /\ \/ after = before \/ (before = "open" /\ after \in {"succeeded", "abandoned", "interrupted"})
         \/ before = "abandoned" /\ after = "interrupted"
    BY DEF FlowShape, JobsSettle
<1>3. /\ MaxFaults \in Nat /\ faults \in 0 .. MaxFaults /\ faults' \in faults .. MaxFaults
      /\ flow.stage \in {"snapshot", "run"}
    BY PlanDeskAssumption DEF FlowShape
<1> HIDE DEF before, after
<1>4. /\ FlowWork(flow.stage, after, MaxFaults - faults') <= FlowWork(flow.stage, before, MaxFaults - faults)
      /\ before = "open" /\ after = "succeeded"
            => FlowWork(flow.stage, after, MaxFaults - faults') < FlowWork(flow.stage, before, MaxFaults - faults)
      /\ before = "succeeded" /\ after = before /\ faults' = faults + 1
            => FlowWork(flow.stage, after, MaxFaults - faults') < FlowWork(flow.stage, before, MaxFaults - faults)
    <2> DEFINE p == MaxFaults - faults
    <2> DEFINE q == MaxFaults - faults'
    <2>1. /\ p \in Nat /\ q \in Nat /\ q <= p
          /\ faults' = faults + 1 => q < p
        BY <1>3, PatienceFalls
    <2> HIDE DEF p, q
    <2>2. /\ \A status \in Statuses : FlowWork(flow.stage, status, q) <= FlowWork(flow.stage, status, p)
          /\ FlowWork(flow.stage, "succeeded", q) < FlowWork(flow.stage, "open", p)
          /\ FlowWork(flow.stage, "interrupted", q) <= FlowWork(flow.stage, "open", p)
          /\ FlowWork(flow.stage, "interrupted", q) <= FlowWork(flow.stage, "abandoned", p)
          /\ FlowWork(flow.stage, "abandoned", q) <= FlowWork(flow.stage, "open", p)
          /\ q < p => FlowWork(flow.stage, "succeeded", q) < FlowWork(flow.stage, "succeeded", p)
        BY <1>3, <2>1, WorkFalls
    <2>3. /\ FlowWork(flow.stage, "succeeded", q) \in Nat
          /\ FlowWork(flow.stage, "open", p) \in Nat
        BY <1>3, <2>1, WorkIsNatural DEF Statuses
    <2>4. FlowWork(flow.stage, after, q) <= FlowWork(flow.stage, before, p)
        BY <1>2, <2>2, <2>3
    <2>5. /\ before = "open" /\ after = "succeeded" => FlowWork(flow.stage, after, q) < FlowWork(flow.stage, before, p)
          /\ before = "succeeded" /\ after = before /\ faults' = faults + 1
                => FlowWork(flow.stage, after, q) < FlowWork(flow.stage, before, p)
        BY <2>1, <2>2
    <2> QED BY <2>4, <2>5 DEF p, q
<1>5. before = "succeeded" => after = before
    BY <1>2
<1> QED BY <1>1, <1>4, <1>5 DEF before, after

\* From the import to its plan.
LEMMA OnToThePlan ==
    ASSUME FlowShape, FlowShape', faults' \in faults .. MaxFaults, flow # None, Ready(flow.job),
           flow.stage = "snapshot", flow' # None, flow'.stage = "run"
    PROVE  StepsLeft' < StepsLeft
<1> DEFINE after == jobs'[flow'.job].status
<1>1. /\ StepsLeft = FlowWork("snapshot", "succeeded", MaxFaults - faults)
      /\ StepsLeft' = FlowWork("run", after, MaxFaults - faults')
    BY DEF StepsLeft, Ready
<1>2. after \in Statuses
    BY DEF FlowShape
<1>3. MaxFaults \in Nat /\ faults \in 0 .. MaxFaults /\ faults' \in faults .. MaxFaults
    BY PlanDeskAssumption DEF FlowShape
<1> HIDE DEF after
<1>4. FlowWork("run", after, MaxFaults - faults') < FlowWork("snapshot", "succeeded", MaxFaults - faults)
    <2>1. MaxFaults - faults \in Nat /\ MaxFaults - faults' \in Nat /\ MaxFaults - faults' <= MaxFaults - faults
        BY <1>3, PatienceFalls
    <2> QED BY <1>2, <2>1, WorkFalls
<1> QED BY <1>1, <1>4

LEMMA MeasuredNext == FlowShape' => FlowMeasured'
PROOF BY ShapeMeasures, PTL

LEMMA FlowOver == ASSUME FlowShape, flow # None, flow' = None
                  PROVE  StepsLeft' <= StepsLeft /\ (Ready(flow.job) => StepsLeft' < StepsLeft)
<1>1. StepsLeft' = 0
    BY DEF StepsLeft
<1>2. StepsLeft \in Nat /\ (Ready(flow.job) => StepsLeft # 0)
    BY ShapeMeasures DEF FlowMeasured, Ready
<1> QED BY <1>1, <1>2

\* What a step does for a session that waits.
FlowAdvances ==
    flow # None =>
        /\ Progress => StepsLeft' < StepsLeft
        /\ FinishJob(flow.job) => StepsLeft' < StepsLeft
        /\ ~ AnotherPlan => StepsLeft' <= StepsLeft

LEMMA StepAdvances == ASSUME IInv, FlowShape, [Next]_vars PROVE FlowAdvances
<1> SUFFICES ASSUME flow # None
             PROVE  /\ Progress => StepsLeft' < StepsLeft
                    /\ FinishJob(flow.job) => StepsLeft' < StepsLeft
                    /\ ~ AnotherPlan => StepsLeft' <= StepsLeft
    BY DEF FlowAdvances
<1>1. FlowShape' /\ JobsSettle /\ FlowMoves /\ faults' \in faults .. MaxFaults
    BY FlowShapeKept, StepSettles, StepMoves, FaultsGrow
<1>2. StepsLeft \in Int /\ (flow' # None => StepsLeft' \in Int)
    BY <1>1, ShapeMeasures, MeasuredNext DEF FlowMeasured
<1>3. ASSUME Progress PROVE StepsLeft' < StepsLeft
    <2>1. CASE flow' = None
        BY <1>3, <2>1, ProgressMoves, FlowOver
    <2>2. CASE flow' = flow /\ faults' = faults + 1
        BY <1>1, <1>3, <2>2, ProgressMoves, WaitingOn DEF Ready
    <2>3. CASE flow' # None /\ flow.stage = "snapshot" /\ flow'.stage = "run"
        BY <1>1, <1>3, <2>3, ProgressMoves, OnToThePlan
    <2> QED BY <1>3, <2>1, <2>2, <2>3, ProgressMoves
<1>4. ASSUME FinishJob(flow.job) PROVE StepsLeft' < StepsLeft
    <2>1. flow' = flow /\ jobs[flow.job].status = "open"
        BY <1>4 DEF FinishJob
    <2>2. jobs'[flow.job].status = "succeeded"
        <3> DEFINE job == [jobs[flow.job] EXCEPT !.status = "succeeded"]
        <3>1. jobs' = [jobs EXCEPT ![flow.job] = job] /\ flow.job \in DOMAIN jobs
            BY <1>4 DEF FinishJob, FlowShape
        <3>2. job.status = "succeeded"
            OBVIOUS
        <3> HIDE DEF job
        <3> QED BY <3>1, <3>2
    <2> QED BY <1>1, <2>1, <2>2, WaitingOn
<1>5. ASSUME ~ AnotherPlan PROVE StepsLeft' <= StepsLeft
    <2>1. CASE flow' = None
        BY <2>1, FlowOver
    <2>2. CASE flow' = flow
        BY <1>1, <2>2, WaitingOn
    <2>3. CASE flow' # None /\ flow.stage = "snapshot" /\ Ready(flow.job) /\ flow'.stage = "run"
        <3>1. StepsLeft' < StepsLeft
            BY <1>1, <2>3, OnToThePlan
        <3> QED BY <1>2, <2>3, <3>1
    <2> QED BY <1>1, <1>5, <2>1, <2>2, <2>3 DEF FlowMoves
<1> QED BY <1>3, <1>4, <1>5

\* The safety half of FlowsEnd, for any number of lost answers and of jobs given up:
\* whoever waits has a natural number of steps left, none exactly when the job has failed;
\* every tick that finds the job finished and the end of the job itself use some up, and no
\* fault, late request, restart or click adds any, unless the buyer asks for another plan
\* or opens another session (render_progress).
THEOREM FlowsComeNearer == Spec => []FlowMeasured /\ [][FlowAdvances]_vars
<1>1. Spec => [](IInv /\ FlowShape)
    BY InvariantHolds, FlowShapeInit, FlowShapeKept, PTL DEF Spec
<1>2. FlowShape => FlowMeasured
    BY ShapeMeasures
<1>3. IInv /\ FlowShape /\ [Next]_vars => [FlowAdvances]_vars
    BY StepAdvances
<1> QED BY <1>1, <1>2, <1>3, PTL DEF Spec

================================================================================
