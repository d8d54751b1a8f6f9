-------------------------------- MODULE PlanDesk --------------------------------
(* From data to plans in one browser session: apps/buyer_ui/workspace.py,      *)
(* secondary_views.py, procurement_inputs.py and app.py over HttpClient.       *)
(*                                                                             *)
(* The session remembers which data, which plan and which comparison the buyer *)
(* looks at and which job it waits for; the server only knows jobs.  Answers   *)
(* are lost, requests arrive late, scripts are interrupted before they use an  *)
(* answer, the browser is reloaded, the coordinator restarts.  One action is   *)
(* one click, or one tick of render_progress, with the script run it causes.   *)
(* In developer mode other screens change the same session.  The jobs are      *)
(* those of PlanningJobs as a client can observe them.  The few writes to the   *)
(* session by which data or a plan are selected are one step: that no click    *)
(* stops the script between two of them is taken as given.                     *)
EXTENDS Naturals, Sequences, FiniteSets, TLC

CONSTANTS
    Snapshots,      \* data sets that can be imported or prepared
    Importable,     \* those that importing a source gives
    Plannable,      \* those whose quality allows a plan
    PreparedAs,     \* data set that saving the buyer's inputs for another one gives
    Policies,       \* policies a plan can be asked for with
    Terms,          \* policies a plan can be compared with
    DefaultPolicy,  \* policy of a plan that follows saved inputs
    None,           \* "absent"
    MaxJobs, MaxFaults, MaxSessions, MaxEdits   \* bounds

ASSUME PlanDeskAssumption ==
    /\ Importable \subseteq Snapshots /\ Plannable \subseteq Snapshots
    /\ PreparedAs \in [DOMAIN PreparedAs -> Plannable] /\ DOMAIN PreparedAs \subseteq Snapshots
    /\ DefaultPolicy \in Policies
    /\ MaxFaults \in Nat

VARIABLES
    jobs,           \* the server: jobs as accepted, a run with the edits its orders had
    late,           \* requests on their way that nobody waits for any more
    faults,         \* answers lost and jobs given up so far
    prepared,       \* data sets saved from inputs, with the number of jobs before them
    developer,      \* BUYER_DEVELOPER_MODE
    session,        \* which browser session; its request keys are its own
    restored,       \* buyer_workspace_restored
    page,           \* workspace_page: which page of the app is drawn
    snapshot, run,  \* snapshot_id and run_id: what every screen is about
    work,           \* run that order_drafts, reviewed:... and order_download are of
    flow,           \* buyer_flow: the job the session waits for
    pending,        \* buyer_pending_policy
    scenario,       \* _secondary_scenario
    shown,          \* comparison on the screen
    imported,       \* _secondary_snapshot_submissions
    observed        \* _secondary_snapshot_job

server == <<jobs, late, faults>>
setting == <<prepared, developer, session, restored>>
context == <<page, snapshot, run, work, scenario, shown>>
imports == <<imported, observed>>
vars == <<server, setting, context, flow, pending, imports>>

--------------------------------------------------------------------------------
(* Requests and their answers.                                                 *)

\* Faulty variant: a request has a new key whenever it is sent.
FreshKey(request) == [session |-> session, request |-> request, sent |-> Len(jobs)]

\* _request_key: one key for equal requests of a session.
RequestKey(request) == [session |-> session, request |-> request]

Keyed(request) == [key |-> RequestKey(request), request |-> request]
Unkeyed(request) == [key |-> None, request |-> request]

Import(s) == [op |-> "import", snapshot |-> s]
Plan(s, policy, reviewed) == [op |-> "plan", snapshot |-> s, policy |-> policy, reviewed |-> reviewed]
Scenario(base, policy) == [op |-> "scenario", base |-> base, policy |-> policy]
Review(base) == [op |-> "review", base |-> base]
Save(s) == [op |-> "save", snapshot |-> s]

\* The job that an accepted request stands for.
NewJob(call) ==
    LET r == call.request
    IN  [call |-> call, status |-> "open", edits |-> 0,
         kind |-> CASE r.op = "import" -> "snapshot" [] r.op = "scenario" -> "scenario" [] OTHER -> "run",
         snapshot |-> IF r.op \in {"import", "plan"} THEN r.snapshot ELSE jobs[r.base].snapshot]

Known(call) == {i \in DOMAIN jobs : call.key # None /\ jobs[i].call.key = call.key}

\* The job that the answer names: the one the key was first used for, or a new one.
JobFor(call) == IF Known(call) = {} THEN Len(jobs) + 1 ELSE CHOOSE i \in Known(call) : TRUE

Accepted(call) ==
    jobs' = IF Known(call) = {} THEN Append(jobs, NewJob(call)) ELSE jobs

\* Bounds on what buyers ask for: a plan with compared terms and a late request may be one
\* job more, and the plan that follows an import comes on top.
Room == Len(jobs) < MaxJobs
RoomForOneMore == Len(jobs) <= MaxJobs

\* The API answers in time and the script goes on with the answer.
Answered(call) == Accepted(call) /\ UNCHANGED <<late, faults>>

\* HttpClient._call ends without a usable answer (timeout, broken connection, HTTP 5xx,
\* unreadable body), or the next click interrupts the script at the end of the spinner:
\* the request was handled, will be handled later, or never.
Unanswered(call) ==
    /\ faults < MaxFaults /\ faults' = faults + 1
    /\ \/ Accepted(call) /\ UNCHANGED late
       \/ late' = late \cup {call} /\ UNCHANGED jobs
       \/ UNCHANGED <<jobs, late>>

\* What the coordinator does on its own.
LateRequest(call) ==
    /\ call.request.op # "save" /\ RoomForOneMore
    /\ late' = late \ {call}
    /\ Accepted(call)
    /\ UNCHANGED <<faults, setting, context, flow, pending, imports>>

\* Saving the same inputs again gives the data set that is there.
Saved(s) == prepared' = IF s \in DOMAIN prepared THEN prepared ELSE (s :> Len(jobs)) @@ prepared

LateSave(call) ==
    /\ call.request.op = "save"
    /\ late' = late \ {call}
    /\ Saved(call.request.snapshot)
    /\ UNCHANGED <<jobs, faults, developer, session, restored, context, flow, pending, imports>>

FinishJob(i) ==
    /\ jobs[i].status = "open"
    /\ jobs' = [jobs EXCEPT ![i].status = "succeeded"]
    /\ UNCHANGED <<late, faults, setting, context, flow, pending, imports>>

\* The handler or the worker gives up on a job that it leaves queued or running (abandoned
\* of PlanningJobs): to a client it stays open, and its key is answered with it.
AbandonJob(i) ==
    /\ jobs[i].status = "open" /\ faults < MaxFaults /\ faults' = faults + 1
    /\ jobs' = [jobs EXCEPT ![i].status = "abandoned"]
    /\ UNCHANGED <<late, setting, context, flow, pending, imports>>

\* What a client sees as queued or running.
Open(i) == jobs[i].status \in {"open", "abandoned"}

\* A start of the coordinator fails what the last process left open.  To the session a
\* job that failed on its own is the same.
Restart ==
    /\ \E i \in DOMAIN jobs : Open(i)
    /\ jobs' = [i \in DOMAIN jobs |->
                  IF Open(i) THEN [jobs[i] EXCEPT !.status = "interrupted"] ELSE jobs[i]]
    /\ UNCHANGED <<late, faults, setting, context, flow, pending, imports>>

Ready(i) == i # None /\ jobs[i].status = "succeeded"
\* The plan of the screens is complete and of their data.
BaseReady == Ready(run) /\ jobs[run].snapshot = snapshot

ReadyRuns == {i \in DOMAIN jobs : jobs[i].kind = "run" /\ Ready(i)}

--------------------------------------------------------------------------------
(* Changing what the screens are about.                                        *)

\* Faulty variant: the plan stays selected when other data are chosen.
SnapshotSelectedAlone(s) ==
    /\ snapshot' = s
    /\ scenario' = IF s = snapshot THEN scenario ELSE None
    /\ UNCHANGED <<run, work>>

\* _select_snapshot: other data have no plan yet; drafts wait for the next plan.
SelectSnapshot(s) ==
    /\ snapshot' = s
    /\ run' = IF s = snapshot THEN run ELSE None
    /\ scenario' = IF s = snapshot THEN scenario ELSE None
    /\ work' = work

\* _select_run after _select_snapshot: activate_run.
SelectRun(s, r) ==
    /\ snapshot' = s /\ run' = r
    /\ scenario' = IF r = run THEN scenario ELSE None
    /\ work' = IF r = run THEN work ELSE None

SameContext == UNCHANGED <<snapshot, run, work, scenario>>

Pages == {"orders", "comparison", "data"}

\* The script draws a page; pending_page names another than the last.
Draw(p) == page' = p /\ shown' = None
NewScreen == Draw(page)

\* Another page of the app, or the same one without the answers it needs.
SwitchPage(p) == Draw(p) /\ SameContext /\ UNCHANGED <<server, setting, flow, pending, imports>>

\* A new browser session, or _clear_context after another connection was chosen.
NewSession ==
    /\ session < MaxSessions /\ session' = session + 1
    /\ restored' = FALSE
    /\ snapshot' = None /\ run' = None /\ work' = None /\ scenario' = None /\ Draw("orders")
    /\ flow' = None /\ pending' = None /\ imported' = <<>> /\ observed' = None
    /\ UNCHANGED <<server, prepared, developer>>

Waiting(stage, job, policy) == [stage |-> stage, job |-> job, policy |-> policy]

Newest(S) == CHOOSE i \in S : \A j \in S : j <= i

Imports(s) == {i \in DOMAIN jobs : jobs[i].kind = "snapshot" /\ Ready(i) /\ jobs[i].snapshot = s}

Stored == {s \in Snapshots : s \in DOMAIN prepared \/ Imports(s) # {}}

\* Data count from their last import, saved inputs from the moment they were saved,
\* which lies between two jobs.
Recency(s) == IF Imports(s) # {} THEN 2 * Newest(Imports(s)) ELSE 2 * prepared[s] + 1

\* latest_snapshot_id of workspace()
LatestSnapshot == {s \in Stored : \A t \in Stored : Recency(t) <= Recency(s)}

\* restore_workspace: once per session, as soon as the list of saved work can be read,
\* which may be after the buyer went on without it.
RestoreWorkspace ==
    /\ ~developer /\ ~restored /\ restored' = TRUE
    /\ LET relevant == {i \in DOMAIN jobs : jobs[i].kind = "run" /\ (Open(i) \/ Ready(i))}
           newest == Newest(relevant)
       IN  \/ /\ run # None
              /\ SameContext /\ NewScreen /\ UNCHANGED flow
           \/ /\ run = None /\ relevant # {} /\ Open(newest)
              /\ SelectSnapshot(jobs[newest].snapshot) /\ Draw("data")
              /\ flow' = Waiting("run", newest, None)
           \/ /\ run = None /\ relevant # {} /\ Ready(newest)
              /\ \E latest \in LatestSnapshot :
                    IF latest # jobs[newest].snapshot THEN SelectSnapshot(latest) /\ Draw("data")
                    ELSE SelectRun(jobs[newest].snapshot, newest) /\ NewScreen
              /\ UNCHANGED flow
           \/ /\ run = None /\ relevant = {}
              /\ IF Stored = {} THEN SameContext /\ NewScreen
                 ELSE \E latest \in LatestSnapshot : SelectSnapshot(latest) /\ Draw("data")
              /\ UNCHANGED flow
    /\ UNCHANGED <<server, prepared, developer, session, pending, imports>>

\* render_saved_work
OpenSavedPlan(r) ==
    /\ ~developer
    /\ SelectRun(jobs[r].snapshot, r) /\ Draw("orders")
    /\ UNCHANGED <<server, setting, flow, pending, imports>>

\* Drafts, reviews and downloads of the order screen (OrderDesk); an edit that the server
\* accepts makes a new version of an order of the run.
WorkOnOrders ==
    /\ page = "orders" /\ Ready(run)
    /\ work' = run /\ NewScreen
    /\ \/ jobs' = jobs
       \/ jobs[run].edits < MaxEdits /\ jobs' = [jobs EXCEPT ![run].edits = @ + 1]
    /\ UNCHANGED <<late, faults, setting, snapshot, run, scenario, flow, pending, imports>>

--------------------------------------------------------------------------------
(* From sources to a plan: render_new_plan, render_progress, start_plan.       *)

\* start_plan and every other click whose answer is a run to wait for.
WaitForRun(call) ==
    \/ Answered(call) /\ flow' = Waiting("run", JobFor(call), None)
    \/ Unanswered(call) /\ UNCHANGED flow

SubmitImport(s, policy) ==
    LET call == Keyed(Import(s))
    IN  /\ ~developer /\ page = "data" /\ flow = None /\ s \in Importable /\ Room
        /\ \/ Answered(call) /\ flow' = Waiting("snapshot", JobFor(call), policy)
           \/ Unanswered(call) /\ UNCHANGED flow
        /\ SameContext /\ NewScreen
        /\ UNCHANGED <<setting, pending, imports>>

\* Faulty variant: the plan that follows an import is asked for, but not waited for.
StayInFlow(call) == (Answered(call) \/ Unanswered(call)) /\ UNCHANGED flow

\* The plan that follows an import.
PlanFollows(call) == WaitForRun(call)

\* One tick of render_progress, which only the page of the data draws; while the job is
\* open it changes nothing.
Progress ==
    /\ ~developer /\ page = "data" /\ flow # None /\ Ready(flow.job)
    /\ LET s == jobs[flow.job].snapshot
       IN  \/ /\ flow.stage = "snapshot" /\ s \in Plannable
              /\ PlanFollows(Keyed(Plan(s, flow.policy, FALSE)))
              /\ SameContext /\ NewScreen /\ UNCHANGED pending
           \/ /\ flow.stage = "snapshot" /\ s \notin Plannable
              /\ SelectSnapshot(s) /\ Draw("data") /\ pending' = flow.policy /\ flow' = None
              /\ UNCHANGED server
           \/ /\ flow.stage = "run"
              /\ SelectRun(s, flow.job) /\ Draw("orders") /\ flow' = None
              /\ UNCHANGED <<server, pending>>
    /\ UNCHANGED <<setting, imports>>

\* "Back to the choice of data", after a failure.
ResetFlow ==
    /\ ~developer /\ page = "data" /\ flow # None /\ ~Open(flow.job) /\ flow' = None
    /\ NewScreen /\ SameContext
    /\ UNCHANGED <<server, setting, pending, imports>>

\* render_buyer_data: a new plan from the data of the current one.
Recalculate(policy) ==
    /\ ~developer /\ page = "data" /\ flow = None /\ Room /\ snapshot \in Plannable
    /\ WaitForRun(Keyed(Plan(snapshot, policy, FALSE)))
    /\ SameContext /\ NewScreen
    /\ UNCHANGED <<setting, pending, imports>>

\* render_procurement_inputs: two requests, the second from the answer of the first.
SaveInputs ==
    /\ ~developer /\ page = "data" /\ flow = None /\ Room /\ snapshot \in DOMAIN PreparedAs
    /\ LET s == PreparedAs[snapshot]
           policy == IF pending = None THEN DefaultPolicy ELSE pending
           call == Unkeyed(Save(s))
       IN  \/ /\ Saved(s) /\ SelectSnapshot(s)
              /\ WaitForRun(Keyed(Plan(s, policy, FALSE)))
           \/ /\ faults < MaxFaults /\ faults' = faults + 1
              /\ \/ Saved(s) /\ UNCHANGED late
                 \/ late' = late \cup {call} /\ UNCHANGED prepared
                 \/ UNCHANGED <<late, prepared>>
              /\ SameContext /\ UNCHANGED <<jobs, flow>>
    /\ NewScreen
    /\ UNCHANGED <<developer, session, restored, pending, imports>>

\* _render_event_review: the sale is classified in a new run.
ReviewSale ==
    /\ page = "data" /\ BaseReady /\ Room
    /\ WaitForRun(Keyed(Review(run)))
    /\ SameContext /\ NewScreen
    /\ UNCHANGED <<setting, pending, imports>>

--------------------------------------------------------------------------------
(* Comparing plans: _render_scenario_workspace.                                *)

\* Faulty variant: a comparison stays although an order of the plan was edited since.
ScenarioAlwaysKept == scenario

\* A comparison made for other versions of the orders is put aside.
KeptScenario ==
    IF scenario # None /\ scenario.edits # jobs[run].edits THEN None ELSE scenario

\* The rest of the screen: the comparison, once it is there; one of another plan or of
\* other data is put aside.
Compared(selected) ==
    LET there == selected # None /\ selected.job \in DOMAIN jobs
        wrong == /\ there
                 /\ \/ jobs[selected.job].call.request.base # run
                    \/ jobs[selected.job].snapshot # snapshot
    IN  /\ scenario' = IF wrong THEN None ELSE selected
        /\ shown' = IF there /\ ~wrong /\ Ready(selected.job)
                    THEN [scenario |-> selected, run |-> run, edits |-> jobs[run].edits] ELSE None

\* The screen forgets the comparison when another order was opened in the meantime.
ViewScenario ==
    /\ page = "comparison" /\ BaseReady
    /\ Compared(KeptScenario) \/ Compared(None)
    /\ UNCHANGED <<server, setting, page, snapshot, run, work, flow, pending, imports>>

Compare(policy) ==
    LET call == Keyed(Scenario(run, policy))
    IN  /\ page = "comparison" /\ BaseReady /\ Room
        /\ \/ Answered(call) /\ Compared([job |-> JobFor(call), policy |-> policy, edits |-> jobs[run].edits])
           \/ Unanswered(call) /\ Compared(None)
        /\ UNCHANGED <<setting, page, snapshot, run, work, flow, pending, imports>>

\* A plan keeps the reviews of sales of the plan it was derived from.
Reviewed(i) ==
    LET r == jobs[i].call.request IN r.op = "review" \/ (r.op = "plan" /\ r.reviewed)

\* "Apply": a plan of its own with the terms that were compared.
ApplyScenario ==
    /\ page = "comparison" /\ shown # None /\ KeptScenario # None /\ RoomForOneMore
    /\ LET call == Keyed(Plan(snapshot, scenario.policy, Reviewed(run)))
       IN  \/ Answered(call) /\ flow' = Waiting("run", JobFor(call), None) /\ Draw("data")
           \/ Unanswered(call) /\ UNCHANGED flow /\ NewScreen
    /\ SameContext
    /\ UNCHANGED <<setting, pending, imports>>

--------------------------------------------------------------------------------
(* Developer mode: _render_sources_and_import, _render_snapshot_job,           *)
(* _render_planning and the choice of data by id.                              *)

\* Imports are sent without a key; a second click relies on what the session remembers,
\* which is nothing when the script was interrupted at the end of its spinner.
ImportOnce(s) ==
    LET call == Unkeyed(Import(s))
    IN  /\ developer /\ page = "data" /\ s \in Importable /\ Room
        /\ IF s \in DOMAIN imported
           THEN /\ observed' = IF imported[s] = None THEN observed ELSE imported[s]
                /\ UNCHANGED <<server, imported>>
           ELSE \/ /\ Answered(call)
                   /\ imported' = (s :> JobFor(call)) @@ imported /\ observed' = JobFor(call)
                \/ /\ Unanswered(call)
                   /\ imported' \in {(s :> None) @@ imported, imported} /\ UNCHANGED observed
        /\ SameContext /\ NewScreen
        /\ UNCHANGED <<setting, flow, pending>>

WatchImport(i) ==
    /\ developer /\ page = "data" /\ jobs[i].kind = "snapshot" /\ observed' = i
    /\ SameContext /\ NewScreen
    /\ UNCHANGED <<server, setting, flow, pending, imported>>

\* "Use these data": of the import that is watched.
UseImported ==
    /\ developer /\ page = "data" /\ Ready(observed)
    /\ SelectSnapshot(jobs[observed].snapshot) /\ NewScreen
    /\ UNCHANGED <<server, setting, flow, pending, imports>>

\* The form that takes the id of any data set.
ChooseById(s) ==
    /\ developer /\ page = "data"
    /\ SelectSnapshot(s) /\ NewScreen
    /\ UNCHANGED <<server, setting, flow, pending, imports>>

\* The run is selected as soon as it is accepted.
PlanHere(policy) ==
    LET call == Keyed(Plan(snapshot, policy, FALSE))
    IN  /\ developer /\ page = "data" /\ Room /\ snapshot \in Plannable
        /\ \/ Answered(call) /\ SelectRun(snapshot, JobFor(call))
           \/ Unanswered(call) /\ SameContext
        /\ NewScreen
        /\ UNCHANGED <<setting, flow, pending, imports>>

--------------------------------------------------------------------------------
Init ==
    /\ jobs = <<>> /\ late = {} /\ faults = 0 /\ prepared = <<>>
    /\ developer \in BOOLEAN /\ session = 1 /\ restored = FALSE
    /\ page = "orders" /\ snapshot = None /\ run = None /\ work = None
    /\ flow = None /\ pending = None /\ scenario = None /\ shown = None
    /\ imported = <<>> /\ observed = None

FinishAnyJob == \E i \in DOMAIN jobs : FinishJob(i)

Next ==
    \/ FinishAnyJob \/ Restart
    \/ \E i \in DOMAIN jobs : AbandonJob(i)
    \/ \E call \in late : LateRequest(call) \/ LateSave(call)
    \/ \E p \in Pages : SwitchPage(p)
    \/ NewSession \/ RestoreWorkspace
    \/ \E r \in ReadyRuns : OpenSavedPlan(r)
    \/ WorkOnOrders
    \/ \E s \in Importable, policy \in Policies : SubmitImport(s, policy)
    \/ Progress \/ ResetFlow
    \/ \E policy \in Policies : Recalculate(policy)
    \/ SaveInputs \/ ReviewSale
    \/ ViewScenario \/ ApplyScenario
    \/ \E policy \in Terms : Compare(policy)
    \/ \E s \in Importable : ImportOnce(s)
    \/ \E i \in DOMAIN jobs : WatchImport(i)
    \/ UseImported
    \/ \E s \in Stored : ChooseById(s)
    \/ \E policy \in Policies : PlanHere(policy)

Spec == Init /\ [][Next]_vars

\* The fragment that watches a flow runs every second while its page is drawn (run_every=1),
\* and an accepted job that nobody gave up on is finished (OpenJobsFinish of PlanningJobs).
\* Buyers and the network owe nothing.
Fairness == WF_vars(Progress) /\ WF_vars(FinishAnyJob)

FairSpec == Spec /\ Fairness

--------------------------------------------------------------------------------
(* Properties.                                                                 *)

\* "Retain a key across reruns and ambiguous retries of the same request": however often
\* a click or a tick repeats a request whose answer is missing, and whenever the first
\* one arrives, the server starts one job for it (_request_key, start_plan).
OneJobPerRequest ==
    \A i, j \in DOMAIN jobs :
        LET a == jobs[i].call  b == jobs[j].call
        IN  a.key # None /\ b.key # None /\ a.key.session = b.key.session /\ a.request = b.request
              => i = j

\* "Change context together; never carry an approval or draft to another plan": the plan
\* on the screens is of the data on the screens, the drafts, reviews and downloads are of
\* that plan, and a comparison that was kept is of that plan (activate_run, _select_run,
\* _select_snapshot, restore_workspace).
PlansBelongToTheirData ==
    run # None =>
        /\ jobs[run].kind = "run" /\ jobs[run].snapshot = snapshot
        /\ work \in {None, run}
        /\ scenario # None => jobs[scenario.job].call.request.base = run

\* A comparison on the screen is of the plan and the order versions it is drawn with, and
\* of the terms it is labelled with, although one job answers every repetition of the
\* request (_render_scenario_workspace: base_versions, wrong_base).
ComparisonHasItsBase ==
    shown # None =>
        /\ shown.run = run /\ shown.edits = shown.scenario.edits
        /\ jobs[shown.scenario.job].call.request = Scenario(run, shown.scenario.policy)

\* Whoever waits for a plan on the page of the data, and stays there, does not wait for
\* ever: the flow ends with a plan or with data to complete, or shows that its job has
\* failed, unless the server gave up on that job (render_progress).
FlowsEnd ==
    (~developer /\ page = "data" /\ flow # None) ~>
        (page # "data" \/ flow = None \/ jobs[flow.job].status \in {"interrupted", "abandoned"})

================================================================================
