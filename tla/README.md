# Verification of Microfixd

TLA+ modules, TLC runs and TLAPS proofs about the parts of Microfixd whose
correctness depends on the order of events: leases, restarts, lost answers,
approvals, budgets, queues. The reference is the code; every definition that
translates code is listed with its lines in `PROJECT.json` ("map").

## 1. The system

Microfixd is a TypeScript/Express server with a React UI, a Supabase (Postgres)
store and a few external services. Its core is the *execution spine*
(`server/planner/*`, `supabase/execution_spine_*.sql`): missions are rows in the
database, a worker in every server process picks them up, plans them, executes
their steps through models and tools, and finishes them with an audited artifact.
Around it stand services with state of their own: some durable (acquisition
jobs, repair incidents, OBD sessions), most in the memory of one process.

| component | state | operations | talks to |
|---|---|---|---|
| Spine store (`supabase/execution_spine_*.sql`) | `spine_rows` (missions, tasks, subtasks, artifacts, messages), `spine_leases`, `spine_approvals`, `spine_tool_runs`, `spine_agent_results`, `spine_budgets`, `spine_model_runs` | `spine_lease`, `spine_commit`, `spine_start_tool`, `spine_finish_tool`, `spine_agent_complete`, `spine_reserve_call`, `spine_settle_call`, `spine_decide`, `spine_renew_approval`, `spine_reconcile`, `spine_resume` | called by workers and the router |
| Spine worker (`executionSpine.ts`, `supabaseRuntime.ts`) | a process: rows it has read, the attempt counter, the output it holds | `planAndExecuteMission`, one awaited call after the other; a heartbeat timer beside it | store, tools, models |
| Governed tools (`governedTools.ts`) | the receipt and run ledgers of the store | `executeTool`, `recoverTool` | store, outside world |
| Router and tick (`plannerRouter.ts`) | a cursor | `submitMission`, decide, renew, resume, reconcile, `startPlannerWorker` | store, worker |
| Evaluation (`evaluationEngine.ts`, `missionAudit.ts`) | none | `evaluateMission`, `auditMission` | called before a mission succeeds |
| Completion review (`completionReview.ts`, the end of `planAndExecuteMission`) | persisted review messages | complete, continue, blocked | model, store |
| Model calls (`groqRetry.ts`, `llmFallback.ts`, `modelCall` of `supabaseRuntime.ts`) | the variables of one call; the token ledger | `spine_reserve_call`, dispatch, `spine_settle_call` | store, four model providers |
| Acquisition queue (`automotive/ingestion-worker.ts`, `functions/automotive-acquire`, `automotive_ingestion_worker.sql`) | `automotive_ingestion_jobs`, `automotive_source_records` | enqueue, `automotive_claim_job`, fetch and store, `automotive_finish_job`, the weekly refresh | public vehicle data services |
| Source repair (`engineering/*`, `source_repair_incidents.sql`) | incidents, two git refs, the phase of a repair | `enqueue_source_repair`, `executeSourceRepair`, `readCompletedRepair`, `recoverWaitingRepairs` | spine, GitHub, repair runner, production |
| Mission dispatcher (`core/missionDispatcher.ts`, `governedAdapterRuntime.ts`) | a cursor shared by the workers of a batch, outcomes, `mission_dispatch_logs` | dispatch, retry, log | adapters |
| Human review (`hitl/*`, `sandbox/codeRunner.ts`, `autonomyRouter.ts`) | queue, parked actions, consumed approvals, running executions, all in memory | trigger, decide, run, restart | operators |
| Orchestration and organs (`orchestration/*`, `organs/*`) | registry of organs, stored answers and feedback | `runCommand`, `dispatchOrgan`, isolate, reset, heal | providers, memory, UI |
| Client voice (`src/voice/*`, `outputDelivery.ts`) | transcript, timers, playback queue, deliveries | listen, submit, speak, interrupt, acknowledge | `/api/command` |
| OBD bridge (`integrations/obd-bridge`, `automotive/obd/*`) | a sequence number; the session row | upload with retries, store | server |
| Browser manager, crawler (`playwright/*`, `crawl/*`) | the shared browser; a crawl session | start, stop, walk | Chromium, web |
| Governance engine (`microfixd/backend/core/governance`) | dual-key status, approval requests | check, approve, revoke, evaluate | agents, UI |
| Client agents, evolution, memory, security middleware, GitHub memory, UI | see "Not modelled" | | |

What is hard here: a worker's lease may end while it is inside a call, and it is
not told; its rows are stale; the heartbeat may take the lease back afterwards;
a process may die between starting an action and recording its outcome; an
answer may be lost although the database did the work; the administrator acts
between two runs; receipts expire; git refs move between a check and an update;
a playback is interrupted while its acknowledgment is under way; a browser that
was stopped reports its end when its successor is in use. `PROJECT.json`
("hazards") lists each such place with its line and the properties that cover it.

## 2. The execution spine

### Modules

- `SpineStore` - the tables of ONE mission (missions do not share rows, and every
  query carries tenant and mission) and the database functions. A function runs
  in one transaction, so it is one step. Rows of the plan are numbers; rows a
  second plan inserts are further numbers with another `PlanOf`. Hashes become
  tags, JSON outputs become members of `Results`, of which `ValidResults` satisfy
  the task's schema.
- `SpineWorker` - `planAndExecuteMission`. One action per awaited call; `pc[w]`
  names the call worker `w` is about to make, `snap[w]` the rows it has read and
  will not read again. Errors follow the code: inside the `try` of the attempt
  loop they end in the failed step, outside of it they leave through the
  `finally` that releases the lease.
- `Spine` - workers, administrator and clock together; the properties; the fairness.
- `GovernedAction` - what the ledgers promise about the action of a step, without
  leases, workers or lost answers. `Spine` implements it (`ActionsGoverned`).
- `SpineInvariant` - the inductive invariant; `MCSpine` - the instances for TLC.
- `SpineTypeProofs` (types; what each store operator keeps), `SpineProofs` (the
  invariant; which steps write what; the two properties of one worker) and
  `SpineRefinement` (what succeeded is kept; the refinement) - the proofs.

| code | model |
|---|---|
| `spine_lease` | `CanTake`, `TakeLease`, `DropLease`; its time as `ExpireLease` |
| `spine_commit`, `spine_validate_row` | `Refused` / `Accepted` around each write; the guards `MissionOpen`, `TaskOpen`, `SubOpen` are `TERMINAL_STATE`, the guard of `CloseTask` is `INCOMPLETE_SUBTASKS` |
| `withMissionLock` | `Acquire`, `SendBeat`, `ReceiveBeat`, `Release` |
| planning | `Open`, `LoadTasks`, `Plan`, `CommitPlan`, `Reload`, `Run`, `Abort`, `Park` |
| loops over tasks and subtasks | `EnterTask`, `LoadSubs`, `Visit`, `Recover`, `Attempt`, `Retry`, `StopAtDeadline` |
| `executeTool` | `Assign`, `Prior`, `Receipt`, `StartTool`, `Effect`, `FinishTool`, `Candidate` |
| `invokeAgent` | `Invoke`, `Model`, `Checkpoint` |
| ends of a step | `Store`, `Pause`, `Uncertain`, `Fail` |
| supervision, review, evaluation | `Supervise`, `CloseTask`, `Gather`, `Review`, `Evaluate`, `Record`, `Finalize` |
| operator controls | `Decide`, `Renew`, `Reconcile`, `Resume` |
| process death, lost calls, lost answers | `Crash`, `Drop`, the second disjunct of `Reply` |

Merged or left out, with the reason: `updateTaskStatus` and
`incrementTaskAttempts` of a task are one step (nothing reads the task's
counter); `Invoke` is the assignment message and the cache read, `Checkpoint` the
candidate message and `spine_agent_complete`, `Supervise` the artifact read and
the decision message (the message writes no row modelled here and only needs the
lease); argument checks that reject a request before any ledger is touched;
token reservations (`Model` may run out of budget at any time; the ledger itself
is section 3); the rounds of the completion review, which have a model of their
own (`CompletionRounds`, section 7); the recovery of `repair_source_code`, which is
part of `SourceRepair` (section 5); attempt counters of tasks; message contents.

### Runs

Small, but every interesting case happens: two workers are enough for one to be
overtaken by another; two rows are enough for an order between steps, for two
tasks and for two plans; one or two faults are enough for a crash plus a lost
answer. `CHECK_DEADLOCK FALSE` because the system really stops: a mission that
has failed or succeeded is never touched again, and a waiting one needs the administrator.

| run | shows |
|---|---|
| `shared_task` | two workers in one task of a read tool and a guarded tool, invalid results, one fault: no action twice (`EffectAtMostOnce`), nothing recorded out of order (`StepsInOrder`), receipts spent on exactly the runs that exist (`EffectAuthorized`), artifact, stored output and ledger of a tool step agree (`ToolEvidence`), and the inductive invariant of the proofs (`SpineInv`) |
| `approval` | one worker, an approval, an agent step with bad outputs, deadline, resumes that change the constraints: types, `SuccessIsComplete`, `AttemptsBounded`, `FinalEvidence`; every step refines `GovernedAction` (`ActionsGoverned`) |
| `settles` | two workers race on agent steps, one of them possibly with a second plan: what succeeded is kept (`CompletedStepsRetained`), and a queued or running mission is put to rest (`Settles`) |
| `uncertain`, `resumed` | one sentence of the documentation each, which the code does not keep (section 8) |

`SuccessIsComplete` and `AttemptsBounded` are claimed for one worker only: an
overtaken worker that holds the lease again may add rows to a mission after it was
evaluated (the cause is that of finding `continued`), and two workers add up
their attempts on one row.

### Fairness

`FairSpec` assumes weak fairness of each worker's next step or tick (the tick
fires every five seconds and awaits nothing else; each call is answered, refused
or times out), of the delivery of a heartbeat already sent, and of the end of a
lease whose owner is not running (sixty seconds). Nothing is assumed of the
administrator, of deadlines or of faults. Under it `Settles` holds with two
workers, a crash and a late second plan. Its run has valid results only: a recorded
tool result of the wrong shape is recovered and refused by every later run, and the
mission stays running (section 8).

### Proofs

For every number of workers, every plan, every set of results and every bound:

- `TypeCorrect` - `Spec => []TypeOK`. The type of the attempt counter is an
  invariant and not a formality: `Pause` writes `attempt - 1` of the worker's loop,
  so `LocalInv` (a worker inside an attempt counts from one) is proved with it.
- `InvariantHolds` - `Spec => []SpineInv`, from which `EffectsHappenOnce`,
  `EffectsAuthorized`, `StepsHappenInOrder`, `ToolEvidenceAgrees` and
  `MissionsEndOnEvidence` follow.
- `CompletedWorkIsKept` - the action property `CompletedStepsRetained`.
- `SpineGovernsActions` - `Spec => Governance!Spec`, the refinement.

The argument. None of the safety properties is inductive: each needs to know
what workers with stale rows and no lease still believe. `SpineInv` says that,
call by call: whoever is about to perform an action has inserted its run and
nobody else is about to perform the same one (`EffectInv`); a row has an artifact
exactly when it succeeded (`ArtifactInv`); every row before a worker's current
row has succeeded, now and not only when it was read, because success is final
(`OrderInv`); a worker that holds a tool's output holds the one in the ledger
(`ResultInv`); gathered artifacts exist and, once evaluated, carry one tag
(`SourceInv`). Monotonicity of the store - nothing that succeeded is taken back -
is what makes stale knowledge sound; `SpineTypeProofs` states it operator by
operator. The proofs assume `StoreAssumption` and `WorkerAssumption` only.

`SuccessesAreComplete` and `AttemptsStayInBudget` are proved under the hypothesis
`OneWorker`: one process runs the mission at a time, and after each crash another
life of it does. Each has an invariant of its own on top of `SpineInv`.
`CompleteInv`: a run past the planning goes on only while the mission has not
succeeded and has a plan, and what passed the evaluation is every row there is -
which a second worker, adding its own plan, makes false. `AttemptInv`: the rows
ahead were not tried since they were read, and the loop's counter is level with the
row's or one ahead of it between two attempts, so a crash between charging and
trying loses an attempt and never grants one. Without the hypothesis neither holds.

Only model-checked: liveness (`Settles`), which TLAPS cannot prove, nor `ENABLED`;
and the two documentation properties, which fail.

## 3. Model calls and the token ledger

- `TokenBudget` - the ledger of one mission: `spine_budgets` (`spent`),
  `spine_model_runs` (`runs`), the two functions that write them, and as much of
  the lease and of `spine_resume` as they see. Runs, which the code names by
  random ids, are numbered in the order they are reserved.
- `ModelCalls` - the calls of several workers over that ledger. One action per
  awaited call; `call[c]` holds the local variables of `modelCall`,
  `completeTextWithFallback` and `executeGroqWithRetry`.
- `MCModelCalls`, `ModelCallsProofs` - the instance and the proofs.

| code | model |
|---|---|
| the order OpenRouter, Groq, Gemini, Cloudflare; keys and preference | `Order`, `Usable`, `Skip`, `Exhaust`, `NextProvider` |
| `beforeAttempt` and what it throws | `Refuse`, `Dispatch`, `LoseGrant`, `Abort` |
| an answer, and the failure of a provider that is tried once | `Answer`, `FailOnce` |
| the catch block of `executeGroqWithRetry`, branch by branch | `Reject`, `SwitchModel`, `OutOfModels`, `Wait`, `LongWait`, `RetrySame` |
| attempts, tried models, `currentMaxTokens` | `Again`, `Repeated`, `Untried`, `Clamped` |
| errors `completeTextWithFallback` rethrows | `Fatal`, `GiveUp` |
| `spine_reserve_call`, `spine_settle_call` | `ReserveRun`, `SettleRun`, with `LeaseLost`, `Exhausted` |

Abstracted: prompts, delays and debug logs; the byte length of a prompt is the
constant `Overhead`; error texts are the classes `Errors`. Assumed of the
providers: the usage they report is at most the prompt's bytes plus the output
asked for, which is what makes the reservation an upper bound; the code does not
check it (`Usages`).

Run `model_calls`: two callers, Groq with two models and two attempts plus
Cloudflare, budgets of two and three tokens. Two callers exhaust a budget between
them; two attempts are enough for every pair of errors in sequence; three runs are
what a maximum of three can grant. It shows that every dispatch has its own
reservation (`DispatchesReserved`), that the ledger is the sum of its rows
(`LedgerAgrees`), and that failover terminates (`DispatchesBounded`).
Callers are interchangeable, so the run uses symmetry; no liveness is checked
with it. The calls may stop for want of budget or of a lease, hence no deadlock check.

Proved for any number of callers, models and retries: `DispatchesReserved` and
`DispatchesBounded`; and, without a run of their own, that unanswered dispatches
stay charged (`FailedAttemptsCharged`), that the budget grows only up to the
maximum of the moment, also after the administrator lowered it
(`BudgetGrowsWithinMaximum`), that a refused reservation ends the call through both
error handlers (`RefusedCallsStop`), and that a dead model is not asked again
(`DeadModelsNotAsked`). The invariant
`CallsInv` says what a caller knows between two awaited calls: its reservation is
the run it dispatched under and nobody else's, that run is still reserved until it
settles, every model it found dead is among the tried ones and never the current
one, and its dispatches stay within its attempts. 

`LedgerIsTheSumOfRuns` is `LedgerAgrees` for any number of runs, although no code
adds the rows up. The sum is a recursive function of the number of runs; what it
computes is proved without an induction rule, by looking at the least number of
runs for which a lemma would fail (`LeastNat`): running totals exist, the sum is
the last of them, and a run whose charge changes by `d` changes it by `d`
(`SumChanges`). Since every run costs a token, `RunsNeverRunOut` follows: there are
never more runs than tokens spent, and the bound `MaxRuns` of the model keeps no
caller from a dispatch the database would grant. `BudgetAssumption`, in
`TokenBudget`, and `CallAssumption`, in `ModelCalls`, are all that is assumed.

## 4. The acquisition queue

- `IngestionQueue` - the table `automotive_ingestion_jobs` with its two database
  functions, the producers, and two kinds of workers: the timer of a server
  process and the edge function, which differ in that the edge function rejects
  catalog jobs after claiming them. A lease token is a number drawn in order;
  time is the passing of a lease, a backoff or a week.
- `MCIngestionQueue`, `IngestionQueueProofs` - the instance and the proofs.

| code | model |
|---|---|
| `enqueueNhtsa`, "enqueue" of the edge function, inserts of `syncCatalog` | `Enqueue` |
| the update of `syncCatalog` | `Refresh` over `Stale` |
| `automotive_claim_job` | `Claimable`, `Claim` |
| `runOneIngestionJob`, `run` | `Fetch`, `StoreSome`, `StoreRest`, `Fail` |
| `automotive_finish_job` and its answer | `Owned`, `Outcome`, `Finish`, `FinishLate` |
| death, or a finish that never arrives | `Crash` |
| clocks | `Lapse`, `Overrun`, `BecomeDue`, `Age` |

Run `ingestion`: one worker of each kind, one job of each kind, two attempts
instead of five, two faults (`MaxFaults` bounds crashes and leases that end under
a working claim; leases of dead workers end without a bound), one refresh. Two
workers are enough for one to finish after the other took its job over, also
twice. It shows that only the last claimer of a job finishes it
(`NewestClaimDecides`); that completed means stored (`CompletedStored`); that
attempts are bounded by the maximum plus the claims taken over
(`AttemptsAccounted`); and that every job ends (`JobsEnd`). Fairness: each
worker's own steps (requests time out after fifteen seconds), the claims of server
processes (the timer is set again in `finally`), clocks. Nothing is assumed of the
edge function's callers, so a single server process must be able to do all the
work. The queue stops when every job has ended, hence no deadlock check.

Proved for any number of workers and jobs: everything but `JobsEnd`, and also that
one worker at most can finish a job (`JobsHaveOneOwner`) and that what ended is
not reopened (`EndedJobsStay`). The invariant: busy workers hold distinct tokens
that were drawn; the token in a running row is the newest of that job; whoever is
about to report success has seen all records stored.

## 5. Source repair

`SourceRepair` models incidents, controllers, recovery, the two refs, the isolated
runner and production; `MCSourceRepair` is its instance, `SourceRepairProofs` has
the proofs. A commit is named by the
repair or release that made it; it has a tree (the changes its content has) and an
ancestry (what a fast-forward to it may start from), and keeping these apart is
the point: a candidate commit has two parents and the content of one.

| code | model |
|---|---|
| `enqueue_source_repair`: advisory lock, fingerprint, hourly and daily quota | `Enqueue`, `QuotaLeft`, `Ages` |
| a repair an administrator submits | `Submit` |
| `executeSourceRepair`, awaited call by awaited call | `Start`, `CheckBase`, `Create`, `Publish`, `Prove`, `Recheck`, `Promote`, `Finish` |
| `authorize` before the writes; errors, refusals, timeouts | `Authorized`, `RegainLease`, `LoseLease`, `Stop` |
| a ref update without `force` | `FastForwards` |
| `readCompletedRepair`, `recoverTool`, `recoverWaitingRepairs` | `Observed`, `TakeOver`, `RecoverWaiting` |
| people, the runner, the deployment | `Release`, `Verify`, `Deploy` |

Run `repair`: two repairs and one release, quotas of one per hour and one per day.
Two repairs are enough for one to start from the other's base and to have the
other among its ancestors; one release is enough to fall between any two steps; a
limit of one is reached by the first incident. It shows that quotas hold
(`QuotasKept`); that main only moves to what the runner verified
(`OnlyVerifiedPromoted`); that no repair takes a release of people off main
(`ReleasesKept`), although the check of main and its update are two calls: a
release that comes between them is no ancestor of the candidate, so the update is
refused, and the check refuses a candidate of an older base; that a repair counted
as completed was served by production, whichever of three ways completed it
(`CompletedWasServed`); and that a repair whose effect stays visible is completed
in the end, once no more repairs wait than one scan of the recovery reads
(`EffectsObserved`). The same does not hold between two repairs: finding `promoted`.

The recovery reads four of the waiting repairs, in no order (`Scans`; `ScanLimit` is
four in the code and one in the runs, so that two waiting repairs exceed it). While
more wait than that, repairs that never complete may fill every scan and starve one
whose effect is visible; without `AllScanned` in it, `EffectsObserved` fails on the
instance of the run for this reason.

Fairness: a takeover, which the worker's tick tries every five seconds; and, while a
scan reads all that wait, that it completes one of those it finds done, since each
tick scans again. It is fairness of the scan: none is assumed of a repair that a scan
may pass over. Nothing is assumed of the runner, production, people or GitHub. Merged: the four
reads of `readCompletedRepair` are one observation, and a takeover is one step.
Left out: the patch a model writes, its validation, and poll intervals.

Proved for any repairs, releases and quotas: every safety property of the run. The
inductive invariant `RepairInv` has four parts besides them. `StepsInv`: a
controller that has not created its candidate finds none of it, so a commit is
made once. `GraphInv`: ancestors exist and the ancestry is transitive, which is
what lets a fast-forward say anything about content. `BeliefInv`: what a controller
believes between two calls - its base was on main, its candidate has all the base
has, a proven one was verified, and after the second check of main it has the
content of each release among its ancestors. `ReleasesBelow`: every release is an
ancestor of main. `ReleasesKept` follows from the last two: a release pushed
between check and update is no ancestor of the candidate, so the update is refused.
`RepairAssumption` says that names of repairs, releases, the root and `None` differ,
and that there are finitely many repairs, which `QuotasKept` counts. Only
model-checked: `EffectsObserved`; and `PromotionsKept`, which fails.

## 6. Spoken delivery

`SpokenDelivery` follows an answer from the microphone or the palette to the record
that it was heard; `MCSpokenDelivery` is its instance, `SpokenDeliveryProofs` has the
proofs.

| code | model |
|---|---|
| `sttEngine.ts`: transcript, silence timer | `Hear`, `Silence` |
| `conversationTimer.ts`: states, pause, reset | `talk`, `pause`, `Submit`, `ResetPlayback` |
| `speechEngine.ts`: switch of the voice loop, failed commands | `SwitchOff`, `SwitchOn`, `Fails` |
| `FloatingCommandPalette.tsx`: a typed command, speaking it once more | `Type`, `Retry` |
| `ttsEngine.ts`: queue, chunks, interruption | `Play`, `ChunkEnds`, `NextChunk`, `TaskEnds`, `Interrupted`, `CutPlayback` |
| `runCommand` in spoken mode, errors of the request | `Answer`, `Refuse` |
| `deliverSpokenResponse`, the acknowledgment route, `ack_output` | `Ack`, `Lookup`, `Store`, `Acked`, `AckLost` |

Run `delivery`: one spoken and one typed command, answers of two chunks, two
switches of the voice loop, the spoken answer delivered up to twice. Two chunks are
enough to be cut between, after and within them; two requests are enough for one to
wait behind the other in the queue; two switches are off and on again. It shows
that a command is announced complete only after an uninterrupted playback of all
of its answer (`CompletionAfterPlayback`), and that every delivery and the
conversation with it come to an end (`DeliveriesSettle`). Fairness: timers fire,
chunks end or time out after 120 seconds, requests are answered or fail. Nothing
makes anybody speak, type, stop a playback or switch the loop.

Proved for any requests, chunks and switches: the types, and
`CompletionAfterPlayback`. The invariant `SpokenInv` relates what lies apart in the
code: only answers that were handed to the player are queued or playing; a chunk
sounds only while chunks are left, and nothing is left of a playback that is over;
an acknowledgment under way as "played" is of an answer heard to its end. The last is
what the server relies on when a copy of it arrives late. Only model-checked:
`DeliveriesSettle`.

## 7. The services around the planner

Nine small modules share no state with one another. `Services` puts them side by
side: a behaviour picks one of them and takes only its steps, so their state
spaces add up and one run (`services`, instance `MCServices`) checks all of them;
`ServicesProofs` has the proofs. All bounds are those of
`Services.cfg`. It states safety only, hence no fairness, and each service may
run out of inputs, hence no deadlock check.

| module | code | what may happen | bounds | property |
|---|---|---|---|---|
| `MissionIntake` | `submitMission`, `spine_commit` insert, `spine_resume` | requests of one idempotency key at once, leases that end before the insert, lost answers, restarts, a worker, resumes | three requests, two objectives, two token limits | `AcceptedUnchanged`: a mission answered 202 keeps the objective it was accepted with |
| `MissionDispatch` | `missionDispatcher.ts`, `governedAdapterRuntime.ts`, `dispatcherTrackingHook.ts`, `orchestratorApp.ts` | workers of a batch share a cursor, calls and persistence fail with or without effect, the batch is sent again | three tasks (one retry-safe, one malformed), two workers, one retry, two batches | `DispatchedOnce`: calls per task are bounded, success has evidence, results are returned only if the log holds exactly them |
| `HumanReview` | `hitlManager.ts`, `codeRunner.ts`, the approval routes of `autonomyRouter.ts` | concurrent decisions and uses, late decisions, an approval brought with another path or to the other route, failed writes and starts, restarts | three reviews of any kind, two programs or contents, two paths, two slots | `ReviewedOnce`: nothing is done without an approval, each approval is good for one deed at most, within what the code checks of the proposal; no more executions than slots taken, nor slots than there are |
| `OrganDispatch` | `dispatch.ts`, `organRegistry.ts`, `commandCenter.ts`, `commandFailure.ts`, `feedbackLoop.ts` | isolation and reset during calls, failures at every stage | one dispatched organ, memory and brain, two calls, two commands (one spoken) | `IsolationShown`: status and counter tell the truth; `CommandsTold`: complete and error events say what was stored |
| `CrawlWalk` | `startCrawl`, `crawlPage` | any web of four pages with up to three links, pages that fail | fanout and depth two, three results | `BreadthFirst`: every page once, at its least distance, nothing forgotten |
| `BrowserSession` | `BrowserManager` | concurrent starts and stops, failed launches, crashes, late `disconnected` events | three processes, three requests | `BrowsersAccounted`: one launch at a time, the page held is one that was not closed, no browser is left running but in the case named there |
| `CompletionRounds` | the end of `planAndExecuteMission`, its stored reviews, `spine_resume` | crashes, leases that lapse and are taken back by a heartbeat, takeovers, resumes between review and commit | two processes, two rounds, four tasks, one resume | `SuccessJudged`: success rests on a stored review of exactly the tasks there were and their artifacts, and a task added after that is an overtaken run's; `RoundsCounted`: no process continues more than twice, nor all together but for overtaken runs |
| `ObdUplink` | `bridge.py`, `obdRouter.ts`, `repository.ts` | copies of an upload arrive late, twice or side by side, answers are lost, the bridge is interrupted | two attempts instead of three, four samples, a history of two instead of 120 | `SamplesStored`: the history is the confirmed samples in order, each once, followed by one unconfirmed at most |
| `DualKeys` | `governance/engine.ts` | checks, approvals, revocation, expiry, bypass and requests in any order | two actions, two listed requests instead of 30 | `DecisionsGrounded`: the stored authorization never outlives what it stands for |

In `HumanReview` a record keeps what was proposed, and `done` what was done on its
approval. Both routes of `autonomyRouter.ts` ask only whether the parked action exists
and its record is approved: the path of a write is the request's, and the kind of
the parked action is not looked at. `Within` says what is left of "only what was
proposed": of sandbox code the code (its digest is compared), of a file the parked
content at any path or a rebuild, of a rebuild a rebuild or any write. The counter of
the sandbox goes up before the `try` block that brings it down, so a failing audit
line keeps a slot until the process ends (`FailStart`): `active` is at least the
number of executions, and not equal to it.

`CompletionRounds` is checked twice, with the same actions: a heartbeat takes back any
free lease, as `spine_lease` allows. In `services` the properties say what holds all
the same; in `continued` the sentence of the code is checked (`CompletionReviewed`)
and fails: a finding. Two history variables keep apart what a stale run did: `rounds`,
the continuations each process committed, and `late`, the tasks added by a run that
had been overtaken (tasks or reviews were stored since it read them). A task is run
in one step, since `SpineWorker` has its inside.

### Proofs

All eleven properties are theorems of `ServicesSpec`, for every value of the
constants; the runs' webs, batches and histories are small, those of the theorems
are not. Each service has an inductive invariant of its own, and since the services
share nothing, a step of one is a stuttering step of the others (`StepsOfServices`).

| theorem | what the invariant adds to the property |
|---|---|
| `AcceptedMissionsKept` | a worker holds the mission only when its row is there, so no insert finds the row replaced |
| `TasksAreDispatchedOnce` | a task is in one worker's hands at most, was called once per attempt, and nothing at or behind the cursor was touched |
| `ApprovalsAreUsedOnce` | where each approval has gone: parked, consumed, or lost with the process that knew it; what was done on it so far; running executions are consumed and at most as many as slots are taken |
| `IsolationIsShown` | the counter of an organ is the number of calls that execute it |
| `CommandsAnnounceTheTruth` | a command that has not ended has announced nothing; answer and feedback are stored by the time they are announced |
| `CrawlsAreBreadthFirst` | the queue is in order of depth and spans two levels; it lies below the pages found; what is in it is reached from a page one level above; and what a found page leads to was tried or waits early enough in it |
| `NoBrowserIsLost` | types only: the property is inductive |
| `SuccessesAreJudged`, `RoundsAreCounted` | what each run has read, with or without the lease, stays true of the tasks it knew (`RunKnows`), since stored reviews, tasks and successes only grow (`Grown`); a run has continued at most as often as it knows reviews; there is a stored review for each round that is not late |
| `SamplesAreStoredOnce` | the row is the bridge's number or one ahead; a copy under way carries no number the bridge has not reached, and read the present row or one of a lower number |
| `AllowedActionsHaveGrounds` | the stored authorization is the passed check and an approval, which has an end |

The loop over a page's links is a recursive function (`Pushed`) and its properties
are proved like those of the sum in section 3. Assumptions: names that
differ; numbers that are naturals; that the tasks of a batch are distinct, which
the dispatcher checks before it starts (as it compares ids before they are trimmed,
two tasks may still share one afterwards: the batch of the theorem is that of
distinct trimmed ids); that links of a page are URLs.

## 8. Findings

Sentences of the documentation the code does not keep, each with a run:

1. `uncertain` - a tool that reports failure leaves an uncertain run nobody can reconcile.
2. `resumed` - resuming with another budget invalidates the artifacts completed before.
3. `continued` - a worker that lost its lease during the review gets it back and
   adds tasks to a mission that has succeeded. The same cause breaks "At most two
   continuation rounds" (`docs/execution-spine.md:54`): the rounds are counted in the
   reviews a run has read (`executionSpine.ts:294`, 311), so one that read them before
   others were stored may add a third. As an invariant of the instance `continued`,
   `Len(tasks) <= 1 + MaxRounds` fails with a trace of 19 states: two runs read the empty list, one
   continues twice and loses the lease, the other takes it back and continues once
   more. `RoundsCounted` is the bound that is kept.
4. `promoted` - two repairs of one base: the second takes the content of the first
   off main by a fast-forward.

Differences noticed while modelling, without a run of their own:

- Spine: an agent step's artifact may differ from its checkpoint if two workers
  store it; an approved receipt that expires unused keeps a mission from being
  resumed; a recorded tool result of the wrong shape is recovered and refused for
  ever; a second plan may be committed through a regained lease (the cause of `continued`).
- Completion: a mission may succeed although the stored review of what it consists of
  says "blocked": the run that was told "complete" finds one stored by another under
  the same hash, and goes by its own answer.
- Human review: an approved write goes to the path of the request that brings the
  approval while the answer and the event name the approved one
  (`autonomyRouter.ts:410`, 436-438); an approved rebuild may write any content
  anywhere in the repository, and an approved write may rebuild (356-361, 430-436); a
  sandbox slot is lost if the audit line fails (`codeRunner.ts:32-33`).
- Repair: more than four waiting repairs that cannot complete may starve the recovery
  of others (`repairRecovery.ts:32`).
- Intake: after a resume changed `max_tokens` the same request is answered 409, and
  after its `deadline_at` has passed 400.
- Acquisition: "max five attempts" (`docs/automotive-acquisition-operations.md:22`)
  holds for attempts that report back, since a claim of a lapsed job does not compare
  attempts (`AttemptsAccounted` states the bound that holds); "resumes unfinished
  model jobs" (`vehicleCatalog.ts:32`) does not reach catalog jobs that have failed.
- Voice: the interruption of `reset()` comes a moment later and cancels the notice
  just spoken and queued answers; a lost "played" acknowledgment resets the
  conversation while another command is processed; the transcript is cleared on
  silence also when it is ignored; a second utterance during the pause drops the
  first; an answer under way is spoken after the loop was switched off.
- Dispatcher: the controller removes `retrySafety`, so tasks that come over HTTP are
  never retried; `idempotencyKey` is not consulted, so a batch sent again repeats its
  effects and is then answered 503; duplicates are looked for before ids are trimmed.
- Commands: memory and brain set their status without counting; feedback that fails
  after the answer was stored reports a failure while the row stays
  `response_ready`; blocked commands send no end event.
- Browser: an older browser's `disconnected` drops the new one, which stays running
  (`cutOff` in `BrowserSession`). The crawler has a browser of its own whose start is
  not shared, and a failed start leaves the job running.
- OBD: a sample that was stored and not confirmed makes the bridge's next report a
  conflict; a copy that arrives beside another may be answered 409 though stored.
- Governance: an approved request may be used any number of times, a decided one
  decided again, and the engine starts with one approved.

## 9. Not modelled

- Plan output, schemas, specialists: pure parsing and validation of model text. The
  spine takes a plan and a verdict as inputs.
- Task continuity, automotive data, memory and knowledge: reads, rankings and single
  inserts under keys of their own; nothing modelled reads them. The row that
  `rememberCompletion` writes is one of these.
- Security middleware: filters that end within one request over counters of the
  process.
- Evolution: proposals scored and listed in memory; each call is complete in itself.
- Client agents: one queue per agent in a single-threaded browser over simulated
  work. Read and not modelled: `recordTaskComplete` counts twice if `onResult`
  throws, and the watchdog may mark a running agent idle.
- GitHub shared memory: one conditional update.
- Parts of modelled components: adapters of external services, page actions of the
  browser, the sandbox worker's inside, the OBD adapter's protocol, session creation
  and its retries, the crawl queue's list of jobs, the simulated execution engine,
  the event log, argument contracts of tools, routes that only read.
- User interface: rendering. What it does to deliveries is in `SpokenDelivery`.

## 10. What is proved and what is not

Every safety and action property a passing run checks is also a theorem, for all
values of the constants: `PROJECT.json` ("theorems") pairs them. Two kinds of
hypotheses restrict them: the named assumptions on constants; and `OneWorker` for
`SuccessIsComplete` and `AttemptsBounded`, where with more workers the code allows
more and the weaker statements are the true ones.

With TLC only: liveness (`Settles`, `JobsEnd`, `EffectsObserved`,
`DeliveriesSettle`), since TLAPS proves neither liveness under fairness nor `ENABLED`;
and the properties of section 8, which the code does not keep.

Left to prove:

1. Abstract specifications for the acquisition queue (a job is done once by its
   last claimer) and for spoken delivery, as `GovernedAction` is for the spine.
2. What holds of the spine with several workers in place of `AttemptsBounded`: an
   attempt per life of a worker and budget.
3. That a second plan is harmless to what succeeded before it, stated as a
   refinement and not only as `CompletedStepsRetained`.
