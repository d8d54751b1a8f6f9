# Formal verification of the IEK purchasing assistant

TLA+ models of the buyer's purchasing assistant in this repository (`src/ekt`, `apps/buyer_ui`,
`scripts`), TLC configurations that check them on small instances, and TLAPS proofs of what matters most
for every instance. Paths below are relative to the repository root.

## 1. The system

A coordinator process (FastAPI over one SQLite database, `src/ekt/api`, `src/ekt/storage`) imports
data into immutable **snapshots**, plans **runs** (forecast, then one supplier order, "proposal", per
supplier, warehouse and currency), lets a buyer **edit, approve and export** each order, and compares
**scenarios**. A Streamlit client (`apps/buyer_ui`) is the buyer's screen, and `scripts/run_app.py`
starts and stops both.

| component | state it keeps | operations | properties that make it correct |
|---|---|---|---|
| order lifecycle (`Service.edit/approve/export`) | rows, version history, audit trail, idempotency keys, CSV exports | edit, approve, export | a CSV leaves only after an approval of exactly that version and content; edits revoke approvals; history is immutable; ledger and run budget hold under concurrent edits; retries repeat nothing |
| planning jobs (`Service.start_*`, `_guarded`, `_run`, `_scenario`, `_build_snapshot`, `Store.recover_running_jobs`) | job rows, reservations, artifacts, executor queue, the worker's local version | accept, submit, work, publish, fail, stop, crash, recover | one owner per unfinished job; results appear atomically; finished jobs are final; every job ends |
| store (`storage/store.py`) | tables items, item_versions, audit_events, idempotency | create, update, mutate, reserve, append_audit | all-or-nothing transactions, optimistic versions, write-once history |
| HTTP API (`api/app.py`, `contracts/models.py`) | none | routes, lifespan | requests reach handlers validated; start recovers before the first request |
| buyer preparation (`api/procurement.py`) | reservation, derived snapshot and its files | prepare | a retried preparation yields one snapshot; files and rows agree |
| planning engine (`planning/engine.py`) | none (pure) | build_proposals, revalidate_line_quantity | quantities respect MOQ, pack, quantum and cover; the budget is kept; no article with a forecast or a stock is lost |
| artifact storage (`data/artifacts.py`, `data/snapshot.py`, `contracts/io.py`) | files | write once, read, stage and rename | a published file never changes; a crash leaves nothing half-published under its final name |
| data import, forecast, demo data | none (pure transformations) | parse, assess, forecast | external providers of planning jobs |
| buyer UI, order screen (`views.py`, `workflow.py`) | drafts, reviewed identity, prepared CSV, export keys | look, type, save, rebase, approve, export | nothing is sent that the buyer did not have on the screen |
| buyer UI, from data to plans (`workspace.py`, `secondary_views.py`, `procurement_inputs.py`, `app.py`, `client.py`) | selected data and plan, flow, comparison, request keys | import, complete, plan, review a sale, compare, restore | one job per request; plan, data, drafts and comparison belong together; waiting for a job the server does not give up ends |
| launcher (`scripts/run_app.py`) | two child processes | start, health, supervise, stop, kill | nothing is orphaned; both services get the grace period; stopping ends |

How they interact: the UI calls the API over HTTP and may retry; handlers run on a thread pool and share
the SQLite database through `BEGIN IMMEDIATE` transactions; handlers hand job ids to one executor thread
through its in-memory queue; the worker calls the snapshot, forecast and planning providers between its
transactions; the only recovery is `recover_running_jobs` when a coordinator is constructed. Every click
makes Streamlit run the whole UI script again, and a click while one runs stops it.

What is hard here: two buyers on one order or one budget; answers lost and requests sent again or handled
late; a script that stops between a request and the use of its answer; drafts and comparisons that outlive
what they were made for; the gap between the two transactions of `_update_job`; a kill between any two
transactions; a failure that cannot be stored; a handler that dies between creating a job and queueing
it; files written inside a database transaction that then rolls back; exact-fraction rounding that applies
four constraints in turn; signals and dying children at any point of the launcher. `PROJECT.json` lists
each of these hazards at its line with the properties that would catch it.

## 2. Modules

| module | what it is |
|---|---|
| `OrderLifecycle`, `MCOrderLifecycle` | the three handlers on the rows of one published run |
| `ReleaseContract` | the abstract promise that `OrderLifecycle` implements |
| `PlanningJobs`, `MCPlanningJobs` | acceptance, worker, publication, stop, crash and recovery of jobs |
| `Replenishment`, `MCReplenishment` | `build_proposals`: what to order, article by article, then the budget, then the orders |
| `BuyerPreparation`, `MCBuyerPreparation` | `procurement.prepare`: rows in a transaction, files in place |
| `ForecastFiles`, `MCForecastFiles` | the five files of a forecast, published by hard link |
| `SnapshotDirectories`, `MCSnapshotDirectories` | the directory of an imported snapshot, published by rename |
| `WriteOnce` | the abstract promise of both: a place is empty or holds one value for ever |
| `OrderDesk`, `MCOrderDesk` | one buyer's order screen against an API that others use too |
| `PlanDesk`, `MCPlanDesk` | one browser session from sources to plans and comparisons |
| `Launcher`, `MCLauncher` | one start of the application, with processes, groups, ports and signals |
| `OrderLifecycleProofs`, `PlanningJobsProofs`, `ReplenishmentProofs`, `OrderDeskProofs`, `PlanDeskProofs`, `LauncherProofs` | inductive invariants and theorems of the module they are named after |
| `ArtifactProofs` | those of `BuyerPreparation`, `ForecastFiles` and `SnapshotDirectories` |
| `SumTheorems` | facts about the sum of a function over a finite set, for the proofs of orders and engine |

How they compose: `PlanningJobs` decides when a snapshot, forecast or plan is computed and whether its rows
become visible; `SnapshotDirectories`, `ForecastFiles` and `Replenishment` are what its external providers
do, and they establish what `PlanningJobs` takes from a provider: an identifier whose files are complete
and stay. `Replenishment` ends with the orders that `OrderLifecycle` starts from: `PlansAreApprovable`
says of every published order what `OrderLifecycle` assumes of its lines. `BuyerPreparation` is a
second source of snapshots for `PlanningJobs`. The two desks carry the server as far as a client can
observe it: `OrderDesk` has the row of `OrderLifecycle` with version, quantities and approval, `PlanDesk`
the jobs of `PlanningJobs` with their keys and ends; its `AbandonJob` is what `PlanningJobs` records in
`abandoned`, and its fairness of `FinishAnyJob`, which is about the other jobs, is the property
`OpenJobsFinish` of `PlanningJobs`. `Launcher` is why there is one coordinator for one data directory after
an orderly stop, which `PlanningJobs` assumes.

### OrderLifecycle

Each handler runs wholly inside one `Store.transaction` (`BEGIN IMMEDIATE`, rolled back on any
exception), so a handler is one action and whole requests interleave. A client is not modelled by state:
any version, any content hash that ever existed and any key may be sent at any time, which covers stale
screens, concurrent buyers, lost answers and retries. Requests that are refused, and replays that return
the stored answer, change nothing and are stutters.

| TLA+ | code |
|---|---|
| `proposals` | `items` of kind `proposals` |
| `versions` | `item_versions` (what `create_item` and each versioned `update_item` append) |
| `approvalKeys`, `exportKeys` | `idempotency`, scopes `approval` (key `<id>:<version>`) and `export` |
| `exports` | `items` of kind `exports` |
| `audit` | `audit_events` of the order, in sequence |
| `Edit`, `Approve`, `Export` | `Service.edit`, `approve`, `export` with every call they make |
| `Approvable` | `_validate_approvable`, which approval and export both run |

Decimals are integers scaled by their step, digests are the content they cover (no collisions), uuid4
identifiers are fresh. The explanation ledger of a line is reduced to its planned sum and its manual
override, which is all that reconciliation looks at. A line's `conversion` and `unit_cost` multiply as
they do in the code.

### PlanningJobs

Actions are the transactions, plus the two in-memory steps between which a thread may be preempted
(`TakeJob`, `Submit`). `ReadJob` and `UpdateJob` are the two halves of `_update_job`. `Raise` lets any
step of the worker fail, `FailureIsLost` lets even the storing of the failure fail, `ReviewAuditFails`
lets the audit write of a review fail. `Crash` loses the memory (handlers, queue, worker) and keeps the
tables; `Start` is `recover_running_jobs`. What a snapshot or forecast contains is the free choice of an
external provider, which may also return an identifier that is already stored with other content.
`abandoned` is a history variable: the jobs whose handler or worker gave up on them in this process, so
that "every open job has an owner" can be stated without hiding that exception.

### Replenishment

`build_proposals` is sequential; its loops are rounds of one action each, so that an early `continue` is a
guard of its own and every article can be followed to where it ends.

| TLA+ | code |
|---|---|
| `Read` | the loop over `pipeline_lines` (a repeated receipt refuses the whole run) |
| `InForce`, `Conflict`, `Latest` | the effective-date lookup of stock counts and supplier terms; records of one moment that disagree are no record |
| `Plan` = `Exclude`, `RefuseArticle`, `AddLine` | one round of the loop over the forecast series |
| `SafetyStock`, `Quantile` | the deviation, or the quantile of the demand scenarios over the whole period |
| `Rounded`, `Capped` | increment, MOQ, pack, quantum; the cover limit |
| `Expected`, `Arrival`, `Stockout` | netting and the day-by-day projection |
| `StartAllocation`, `Allocate`, `FinishAllocation` | the budget loop |
| `Review`, `Horizon` | the review interval of the policy, or of the terms; the protection period |
| `Publish` | stock that no forecast mentions becomes an exclusion; the grouping by supplier, warehouse and currency |

`InventorySnapshot`, `SupplierTerms`, `PipelineLine`, `PlanningPolicy` and `Article` are what the contracts
of `contracts/models.py` admit of each record; the inputs of the runs and of the theorems are taken from them.
Decimals are whole numbers of the smallest step; scenario demand is scaled so that the interpolation of the
quantile is exact. The quantile of the normal distribution is an input. Of the reasons why an article is
left out, those that depend on its records (none in force, contradicting ones, too few or too short
scenarios) are modelled and the others are one flag, `blocked`: their branches differ in the message only.
A receipt with no usable date has `eta < 0`. That costs and open receipts are not negative is checked by
the contracts before the engine is called. The three rounding entries of the explanation ledger are
merged.

### BuyerPreparation

An open transaction is a state here, not an action, because files are written while it is open. `lock` is
SQLite's write lock; `OpenFile` and `CloseFile` are the two ends of `pq.write_table` on the final path;
`Raise` is an exception anywhere in the transaction, `Crash` a kill. Rows that are not committed are seen
by nobody and are not variables. The contents of the derived tables are determined by the inputs that
name the snapshot, so a file is absent, partial or whole.

### ForecastFiles and SnapshotDirectories

Both let every builder compute any result for one identity: a forecast is named by its inputs and a model
version, a snapshot by its sources and mapping, not by the release of the program. `Link` and `Rename` are
the system calls that publish; what happens under a temporary name is seen by nobody and is not modelled
for files, and is a stage of its own for directories, where the order of tables and manifest matters.
`FindSame` and `FindOther` are the two outcomes of `FileExistsError`; `RenameFails` is `OSError`, whether
another build was first or the file system refused. A failed directory build starts again by recursion,
as the code does.

### OrderDesk

One action is a click with the script run it causes, cut where the script talks to the API: between the
read that draws the order, the second read of `refresh_review` and the request itself other buyers act.

| TLA+ | code |
|---|---|
| `run`, `order`, `line` | `run_id`, `proposal_id`, `line_picker` of the session |
| `drafts` | `order_drafts`: the version, quantity and original quantity, and whether the outcome of a save is unknown |
| `reviewed`, `download`, `keys` | `reviewed:<id>`, `order_download`, `export_keys` |
| `step`, `screen` | where the running script is, and the proposal it has read |
| `Look`, `Type`, `OpenRun`, `Rerun`, `ReadFails` | what makes the script draw again |
| `Rebase`, `Discard`, `Save`, `SaveEnds` | `_edit` |
| `ClickApprove` … `ExportEnds` | `_approval_and_export`, `_prepare_download`, `workflow.py` |
| `Answered`, `Refused`, `Unknown` | the outcomes of `HttpClient._call` |
| `late`, `LateRequest` | requests whose answer nobody waits for any more |
| `Interrupted` | a click stops the script when the answer is there: what it would have done with it does not happen |
| `OtherBuyerEdits`, `OtherBuyerApproves` | other sessions |

`clicked` and `seen` are history: the identity that was on the screen when a button was pressed, and the
versions that were drawn to the end.

### PlanDesk

| TLA+ | code |
|---|---|
| `page`, `Draw`, `SwitchPage` | `workspace_page` and `pending_page`: only one page is drawn, and only what it shows runs |
| `snapshot`, `run` | `snapshot_id`, `run_id` |
| `work` | the run that drafts, reviews and the download are of |
| `flow`, `pending` | `buyer_flow`, `buyer_pending_policy` |
| `scenario`, `shown` | `_secondary_scenario`, and the comparison that is drawn |
| `imported`, `observed` | `_secondary_snapshot_submissions`, `_secondary_snapshot_job` |
| `jobs`, `late`, `prepared` | the server: jobs with the key of their request, requests on their way, saved inputs |
| `faults` | a count for the bound `MaxFaults`: answers lost and jobs given up |
| `AbandonJob`, `Open` | a job that its handler or worker gives up on, and that a client goes on seeing as queued or running |
| `RestoreWorkspace` | `restore_workspace` over `workspace()`: the newest run that is open or done, the newest data |
| `Progress`, `ResetFlow` | a tick of `render_progress`, which only the page of the data draws; leaving a flow |
| `SubmitImport`, `Recalculate`, `SaveInputs`, `ReviewSale`, `Compare`, `ApplyScenario` | the buyer's requests |
| `ImportOnce` … `PlanHere` | the screens of developer mode, which change the same session |

A request key is the session and the request it is for (`_request_key`); the server answers a known key
with its job. Saving inputs is a request without a key whose result is named by its content. Data count from
their last import, saved inputs from the moment they were saved, which is how `workspace()` orders
them. An interrupted script is a request without an answer. `_select_snapshot` and `activate_run` write several
keys of the session one after the other; each is one step here, so that a click stops the script between two
of these writes is outside the model (section 6).

### Launcher

`pc` and `service` are the place in `main()` and the service it is about. `Wait` and `Ask` are the two halves
of a round of `wait_healthy`; `Stop` and `Fail` are the ways into the `finally` clause, and `Terminate`,
`Await`, `Kill` the three loops of `stop_children`, newest service first. A service is absent, booting,
serving, stopping, exited (a zombie) or reaped, and may have started processes of its own that live in
its group. Another program may hold a port, which also makes it the one that answers a health request.
Time is abstract: the eight seconds have passed or not. Only POSIX behaviour is modelled.

## 3. Runs

| run | instance | what it shows |
|---|---|---|
| `orders` | 2 orders, 3 lines (one in packs of two with conversion 3 and quantum 3), 3 versions, 2 export keys, quantities 0..2, budget 8 | all invariants and action properties of the order lifecycle, and that it implements `ReleaseContract` |
| `jobs` | 2 request threads, 1 client key, 3 jobs, 2 contents per artifact id, under `FairSpec` | ownership, atomic publication, idempotency, audit order, no version conflict, final jobs; every accepted job ends unless it was given up in this process |
| `snapshot_publication` | 1 request thread, 2 jobs | the first finding of section 5 |
| `engine` | one article: 69,120 combinations of demand, stock, receipts, terms and policy; two articles with missing, outdated or contradicting records, or with neither forecast nor stock; 3 articles of 2 suppliers and 2 warehouses with budgets absent, 0, 4, 7 or in another currency | the ordered quantity is the least that covers the need and obeys MOQ, pack and quantum; the cover limit; the projection; every published line can be approved; the budget is kept; urgent lines come first; no article with a forecast or a stock is lost |
| `forecast_files` | 2 builders, 2 values of each part of a result, 2 encoders | a sealed forecast is whole; write-once |
| `forecast_encoding` | the same with 1 value of the series | the second finding of section 5 |
| `snapshot_directories` | 2 builders, 2 ids, 2 results, 2 tables, under `FairSpec` | directories appear whole and stay, what is returned is stored, builds end |
| `preparation` | 2 threads, 3 keys, 3 inputs, 2 tables | files and rows agree, files of stored snapshots are never rewritten, keys |
| `order_desk` | 2 plans, orders of two lines and of one, quantities 0..1, versions up to 2 and 1, 1 request late | approvals are of what was on the screen, edits replace what was seen, the CSV fits the screen |
| `unsaved_quantity` | the same | the third finding of section 5 |
| `plan_desk` | 1 source that can be planned and 1 to complete, 2 policies to compare with, 3 jobs (plus those that follow), 1 fault (a lost answer or a job given up), 2 sessions, 1 edit, 3 pages, both modes, under `FairSpec` | one job per request; plan, data, drafts and comparison belong together; flows end for whoever stays on their page, unless the server gave up on the job |
| `launcher` | both services, both signals, 1 foreign port, under `FairSpec` | nothing is orphaned, the grace period is given, stopping ends |

Why the bounds are enough. Three versions let an order be edited after approval, approved again and
edited again, which is the longest chain the handlers tell apart (they only compare a version with the
current one). Two orders are needed for the shared budget and for a key reused across orders; the budget
of 8 is reached by two edits that each fit alone. Two export keys tell "same key again" from "other key".
Three jobs give a snapshot, a run on it and a review, scenario or second run on that; two threads and one
key race for a reservation. One version chain of a job has at most five values (created, loading,
forecast, planning, published), so no bound cuts it.

A three-day horizon has a day inside the protection period, its last day and a day
behind it; the terms include packs, quanta and MOQs that divide each other and that do not. Three
articles make a budget that serves one, skips one and serves a cheaper one. Two builders are all that a
race for a name can tell apart, since the third finds what the second found; two tables tell a first
from a last file. Three keys and inputs give a key used twice, an input asked for under two keys, and a
bystander.

At the order screen one newer version is enough for a screen, a draft, a review and a CSV to be stale;
two lines make a draft that is not on the screen, a second plan one that is left and come back to. One
late request overtakes everything the session does next. In `plan_desk` three jobs are an import and two
plans or a plan and two comparisons (a late request and a plan with compared terms may come on top of them,
`RoomForOneMore`), one lost answer separates a request from its repetition, a second
session has other keys and finds the work of the first. Both services and both signals of the launcher
are all there are.

`CHECK_DEADLOCK FALSE` in `orders`, where with all versions used and all keys taken nothing is left to do
in the bounded model, in `engine`, where a run ends when it has published or was refused, and in
`launcher`, which returns. In the job runs the coordinator can always crash and start, at the desks a
page can always be drawn again, so deadlock is checked.

Fairness. `jobs`: weak fairness of the worker and of each handler, both threads that the operating
system keeps scheduling and whose providers are assumed to return, and of `Start`, since `compose.yaml` has
`restart: unless-stopped`. `snapshot_directories`: weak fairness of each build's own steps; a rename may
fail every time. `plan_desk`: weak fairness of `Progress`, a fragment with `run_every=1` that is drawn only while the
page is "Данные" (`app.py:146-151`, `workspace.py:201-203`; `Progress` is disabled on the others, and `FlowsEnd` is
about whoever stays), and of `FinishAnyJob`, which `OpenJobsFinish` justifies: like it, it leaves out the jobs
that were given up, and so does `FlowsEnd`. `launcher`: weak fairness of the launcher's own steps,
the passing of its deadline among them; services owe nothing. Requests, clicks, crashes, signals and
the network have no fairness anywhere.

Each property has a mutant in `PROJECT.json`: a faulty variant of a mapped definition (a dropped guard, a
missing reset, a swapped order), defined next to the original and marked "Faulty variant", under which
the property fails on the same instance.

## 4. Proofs

Each theorem holds for every value of the constants that satisfies the named assumptions of its module:
any number of orders, lines, versions, keys, threads, jobs, builders, files, plans and quantities. The
bounds of the runs (`MaxJobs`, `MaxVersion`, `MaxLate`, `MaxFaults`, …) are constants too, so the theorems
hold for all of them.

| module | theorem | statement |
|---|---|---|
| `OrderLifecycleProofs` | `InvariantHolds`, `TypeCorrect` | `[]IInv`; rows, histories and exports keep their shape |
| | `ApprovalsAreAudited` | `[]ApprovalMatchesAudit` |
| | `LedgersReconcile` | `[]LedgerReconciles` |
| | `HistoryIsImmutable` | `HistoryOnlyGrows` |
| | `ExportsAreSigned`, `ExportsAreNotRepeated` | `[]ExportsWereSigned`, `[]ExportKeysNameOneCsv` |
| | `RunKeepsItsBudget` | `[]RunWithinBudget` |
| | `OrdersImplementContract` | `ImplementsReleaseContract` |
| `PlanningJobsProofs` | `KeysNameOneJob` | `[]KeyNamesOneJob` |
| | `UpdatesNeverConflict` | `[]NoUpdateConflict` |
| | `FinishedJobsAreFinal` | `FinishedJobsStay` |
| | `RunsArePublishedWhole` | `[]PublishedTogether` |
| | `JobsHaveOneOwner` | `[]OpenJobsAreOwned` |
| | `ResultsAreStored` | `[]ResultsResolve` |
| | `AuditTellsTheStory` | `[]AuditExplainsJobs` |
| | `JobsComeNearer`, `TypeCorrect` | the worker's steps left fall and are never given back; `[]TypeOK` |
| `ReplenishmentProofs` | `TypeCorrect` | `[]TypeOK` |
| | `OrdersAreLeast` | `[]LeastSufficientOrder` |
| | `CoverLimitIsExact` | `[]CoverLimitKept` |
| | `OrdersProtect` | `[]ProtectionHolds` |
| | `PlansCanBeApproved` | `[]PlansAreApprovable` |
| | `BudgetIsKept` | `[]BudgetKept` |
| | `UrgentLinesComeFirst` | `[]UrgentLinesAreServedFirst` |
| | `NothingIsDropped` | `[]NothingDropped` |
| `ArtifactProofs` | `SnapshotsAreWhole` | `[]StoredSnapshotsAreWhole` |
| | `KeysNameSnapshots` | `[]KeysNameStoredSnapshots` |
| | `FilesAreNeverRewritten` | `StoredFilesAreNeverRewritten` |
| | `FilesInvariant`, `SealedIsWhole` | the files a builder has passed hold what it computed; `[]SealedForecastIsWhole` |
| | `ReturnedStay`, `FilesAreWrittenOnce` | returned files stay; `ImplementsWriteOnce` |
| | `BuildsInvariant`, `ReturnedIsStored` | the invariant of the builds; `[]ReturnedSnapshotIsStored` |
| | `DirectoriesAreWrittenOnce` | `SnapshotsAppearWholeAndStay` |
| | `BuildsComeNearer` | every step of a build lowers its distance to the end |
| `OrderDeskProofs` | `ApprovalsAreReviewed` | `[]ApprovedAsReviewed` |
| | `EditsAreSeen` | `[]EditsReplaceWhatWasSeen` |
| | `CsvMatchesScreen` | `[]OfferedCsvMatchesScreen` |
| `PlanDeskProofs` | `RequestsStartOneJob` | `[]OneJobPerRequest` |
| | `PlansKeepTheirData` | `[]PlansBelongToTheirData` |
| | `ComparisonsKeepTheirBase` | `[]ComparisonHasItsBase` |
| | `FlowsComeNearer` | the steps a waiting session has left fall, unless the buyer asks for another plan |
| `LauncherProofs` | `NothingIsOrphaned` | `[]NothingOutlivesTheLauncher` |
| | `GraceIsGiven` | `[]GraceBeforeKill` |
| | `StopComesNearer` | the launcher's steps left fall once it is on its way out |

None of these properties is inductive; what each needs beside it is the argument.

*Orders.* From "an order is approved exactly when its version has an approval in
the audit trail" alone one cannot show that editing keeps it: nothing says that the *next* version was
never approved before. `IInv` adds what the code relies on: approval keys are taken exactly for the
versions the audit trail approves and never for a version to come; the stored hash is the hash of the
row; the last history entry is the row; each ledger sums. One lemma per handler shows that it keeps
`IInv`. `ExportsWereSigned` is then an induction of its own on top of `[]IInv`, because a CSV must stay
justified while later edits move the row on: signatures in the trail are shown never to disappear
(`SignaturesKept`). `ExportKeysNameOneCsv` counts: the reservation of a key names a CSV, no two reservations
name the same one, and no CSV is without. The refinement maps an order to its version and nonzero lines,
signatures to the approval events, releases to the CSVs; `Edit` is `Revise`, `Approve` is `Sign`, `Export`
is `Release`, each for the order it names. `RunKeepsItsBudget` is about a sum over all orders of the run: an
edit changes one summand, and what the code compares with the budget, the other orders as stored and the
edited one, is that sum after the edit (`CostOfRun`), since nobody else writes between its read and its
write.

*Jobs.* The centre is `OneHand`: an open job is in the queue once, with one handler or with the worker,
and never in two of these. With `WorkerKnowsItsJob` and `StoppedIsIdle` nobody but the worker can write
the job whose version it has read, so versions never conflict and finished jobs stay. Three inductions
rest on it: `Publication` (a run at work is never at a step that reports success without publishing),
`Ownership` (no open job is in no hand at all, unless it was given up) and `Resolution` (a scenario's
base run is finished, hence final; an import about to report has stored what it reports; the tables only
grow). `AuditTellsTheStory` adds `Trail`: an interruption is in the trail of a job exactly when its row carries
it, and such a job is finished, so that no second start interrupts it again (`InterruptionsFit`); a review
that is not in the trail yet belongs to a handler that is still before that step, or its job never left the
start, is in no queue and with no worker (`ReviewsFit`, which needs `OneHand`).

*Engine.* Rounding is arithmetic of multiples: `Increment` divides exactly what whole packs and the stock
quantum both divide (`LcmDivides`, `OrderableIsOnIncrement`), so rounding up is the least orderable
quantity (`CeilIsLeast`, `RoundedIsLeast`) and cutting down the largest (`FloorIsMost`, `CutIsMost`), which
would be false if packs and quantum were rounded to in turn. `Sorted` finds its value in every list, and at least the asked
share of the scenarios lies at or below the quantile (`QuantileReachesShare`). The day-by-day projection and
the netted total are two computations of one balance (`ProjectionIsNetted`, by induction over the days), which
is why the first day of shortage is the truth about the netted balance too. The inductive invariant has two
parts: `Lines` says that a line is what `PlannedLine` makes of its facts until the budget round is done with
it, and then its funded part; `Money` that what remains is the budget less what the served lines cost and never negative.
`UrgentLinesComeFirst` adds `NoneSoonerWaits` (whoever was served was not behind anyone who still waits)
and that a line was cut only when the money of its turn did not reach the next step. `NothingIsDropped` adds
`Accountable` (the articles with a forecast or a stock) and `Placed` (the budget round starts when no forecast
article is left to plan, and what is published has every accountable one as a line or an exclusion).

*Files.* For a forecast, that forecast.json comes last is not enough: a builder might
have been overtaken at any earlier file. The invariant says of every builder that the files it has
passed hold what *it* computed, whoever published them; a name is only ever filled when it is free, so
no step of another builder can take that away. For a snapshot directory the invariant is that stages are
their builder's own (`StagesAreOwn`) and that what a builder has found is there (`FoundIsThere`). For
prepared snapshots it is the write lock: `BuildIsAlone`, and the files an open transaction has
passed are whole (`FilesPassed`), which carries over a rollback because a stored snapshot is reused and not
built again.

*Order screen.* `ScreenIsReviewed`, `ClickIsReviewed` and `LateIsSound` tie the session to what was drawn:
the reviewed identity of the order on a complete screen is the screen, a click carries that identity, and
so does every request on its way. The CSV needs the server's side too: a version has one content for
ever (`VersionsHaveOneContent`), a CSV has the content of its version (`CsvsFit`), and the prepared one is of
the identity it was asked for (`DownloadFits`).

*Requests.* A key says which session and request it is of, wherever the call is, in a job or still on its
way, and the server knows every key it has used. On top of it `Belonging` ties the session to the jobs: a job
keeps its request, kind and data (`JobsGrow`) and answers the request it was accepted for (`JobAnswers`), so a
session that waits for a plan waits for a run (`FlowFits`); every way to select a plan takes its data with it
(`PlanFits`) and drops a scenario of another plan (`ScenarioFits`); and a comparison is shown only by the script
run that has compared its base with the orders, and taken down by every other click (`ShownFits`).

*Launcher.* Every service that has a process is in `children` (`StartedIsRemembered`, the reason why
`Popen` and `append` come before the message that may fail); what a loop has visited was told, awaited
or is gone (`AllAreTold`, `AllAreAwaited`, `VisitedAreGone`).

*Why things end.* Behind each liveness property there is a measure, a natural number that the steps the
fairness speaks of lower and that nothing else may raise; that half of the argument is proved. Jobs: the row of
a job has one version for every stage it has passed (`VersionsFit`), from which the steps the worker still owes
it can be counted, and a job in the queue adds twelve for each place; a handler lets go of its job in two
steps, and a start leaves no job open (`JobsComeNearer`). Builds: the one way back, the new start after a failed
rename, happens only if the directory is there, so the next look finds it (`RetryIsNearer`). Flows: an import
has more left than the plan that follows it, and every tick that gets no answer uses up one of the answers that
can be lost; a job that is given up has no more before it than one that is done; only a click that asks for another plan, the restoring of saved work or a new session starts
again (`StepMoves`, `FlowsComeNearer`). Stopping: a launcher on its way out stays on its way out, starts each
service once at most (`StartedOnce`), and the one loop that waits for others has a deadline
(`StopComesNearer`).

*Sums and recursion.* The induction theorems of the library take an operator and cannot be used here, so
`SumTheorems` proves induction over *sets* of numbers from the well-foundedness of the naturals
(`InductionOnNat`) and from it what `SumFunctionOnSet` computes: the empty sum, a sum with one element
more or less, comparisons, and a set in two parts. The recursion over days in `Projection` is handled by the
same induction.

Assumptions. `OrderLifecycle`: lines of an order are known lines with whole quantities, bounds are naturals,
gate flags are Booleans, the null value is not a reservation; a run has finitely many orders and lines,
prices are nonnegative or absent, and a run with a budget is published priced and within it (`BudgetAssumption`),
which is what `StartAllocation` and `BudgetKept` of `Replenishment` establish. `Replenishment`: finitely many
series; inputs satisfy the contracts (`ContractAssumption`); the null values are no numbers.
`ForecastFiles`, `SnapshotDirectories`: no content is the value that stands for absence; a snapshot has finitely
many tables. `BuyerPreparation`: the
derived tables come in a fixed order. `OrderDesk`: pickers start with an order of the run and a line of the
order, the null value is no identity. `PlanDesk`: saved inputs can be planned, and the bound on faults is a natural
number. `Launcher`: no signal is the null value. All are named `ASSUME`s, which
TLC evaluates in the runs.

Only model-checked: of the four liveness properties `OpenJobsFinish`, `BuildsEnd`, `FlowsEnd` and `StopEnds`
the half that needs fairness (that the steps which lower the measure are enabled and are taken), since the
prover has neither fairness nor `ENABLED`; and the three counterexamples of section 5. Every invariant, action property and
refinement of the passing runs is a theorem.

## 5. Findings

`_build_snapshot` stores the snapshot in one transaction (`service.py:192-197`) and marks its job
succeeded in the next (`service.py:198`), while `docs/mvp/contracts.md:165` says of job results
"результат публикуется atomically". The run `snapshot_publication` shows the behaviour: the snapshot is
stored, the second transaction fails or the process dies, and a failed import leaves a snapshot that
`GET /v1/workspace` offers and `start_run` accepts. Runs do publish atomically (`PublishedTogether`).

`write_records` says "Reusing a path with identical records is safe" (`data/artifacts.py:49`), but compares
the encoded bytes. A Parquet file names the release of the library that wrote it, and `pyproject.toml:15`
allows `pyarrow>=17,<24`. The run `forecast_encoding` shows the effect: a forecast published, wholly or in
part, before an upgrade is refused as `ARTIFACT_CONFLICT` when the same records are published after it.
With one encoder conflicts only mean different records.

`docs/demo/ui-simplification.md:41` says "Несохранённое количество нужно сохранить или отменить перед
утверждением/выгрузкой." (an unsaved quantity has to be saved or discarded before approval or export).
"Use the current version" (`views.py:148`) moves a draft to the newer version of the order but keeps the
quantity it started from, so the field may show a quantity that was never saved for this version and
still count as clean (`_draft_dirty`, `views.py:21-26`). The run `unsaved_quantity` shows it without a key
pressed or a quantity saved by the buyer: the field of a line is drawn from version 1 and holds 1; another
buyer changes the line to 0, which makes version 2; the page, drawn again, says that the draft is of an older
version, and the buyer takes over the current one; the field still holds 1, and since that is the
`original_qty` it was drawn with, the draft counts as clean and the page offers to approve. The buyer
approves a line of 0 next to a field of 1. What is approved is still what the order itself, drawn beside the
field, shows (`ApprovedAsReviewed`).

## 6. Not modelled, and why

Read-only routes, status codes, pagination, filters, entry checks, wording and formatting (no state that a
property is about). `MockClient` is a fixture. Import, assessment, classification, recovery and forecasting are
sequential computations over spreadsheets and real numbers: their results are the free choice of a
provider. Demo data is a fixture. Build, profiling and smoke scripts are linear tools.

Known limits of the program that the models take as given: two coordinators on one data directory
are excluded by assumption (`docs/mvp/contracts.md:59`; `Launcher` shows that an orderly stop leaves none, but a
start while a killed launcher's API still runs on another port is not prevented). A repeated request is
answered, within its session, with the job a restart has failed (`secondary_views.py:24`): the flow ends and says
so, but the same plan needs a new session or another policy.
It is also answered with a job that the server gave up on (a review whose audit event could not be written,
`service.py:491-494`; a failure that could not be stored): the flow then waits, and says so, until the coordinator
starts again, which is why `FlowsEnd` leaves such jobs out. A flow makes no progress while another page is
drawn. The session writes by which data or a plan are selected (`secondary_views.py:38-53`, `workspace.py:15-24`)
are taken as one step; a click that Streamlit lets in between them would leave new data with the plan, or a new
plan with the drafts, of before. An article with master data, terms or receipts but neither a forecast nor a
row of inventory is in no order and among no exclusions, and nothing says so (`engine.py:420-422`, although
`docs/mvp/contracts.md:177` lets no row be lost): `Publish` does the same and `NothingDropped` says so. The atomicity
of a SQLite transaction (`store.py:306-314`) is taken as given, except where files are written inside one
(`BuyerPreparation`): that a mutation with its history and audit event, or a publication with its proposals, leaves
nothing behind when one of its statements fails is an assumption of the models and not a result. Imports of developer mode carry no key. A
kill while a workbook is unpacked leaves a truncated file that the next start keeps (`run_app.py:55`). The busy
timeout of SQLite is the possibility that any write fails, without its ten seconds.

## 7. Plan

Done in this order: orders and their contract; jobs, crash and recovery; the engine; files; the screens;
the launcher; the proofs of each. What would come next:

1. `Transactions`: the store statement by statement with write lock, busy timeout and rollback, shown to
   implement the atomic operations the other modules use.
2. `OrderDesk` composed with `OrderLifecycle` instead of its observable summary.
