-------------------------------- MODULE Spine ---------------------------------
(***************************************************************************)
(* The execution spine: workers, the administrator and the environment over *)
(* the tables of one mission, and what the whole promises.                  *)
(***************************************************************************)
EXTENDS SpineWorker

Init == StoreInit /\ WorkerInit

(* One step of the run of worker w, in the order of planAndExecuteMission. *)
Step(w) ==
    \/ Acquire(w) \/ Open(w) \/ LoadTasks(w) \/ Plan(w) \/ CommitPlan(w) \/ Reload(w)
    \/ Run(w) \/ EnterTask(w) \/ LoadSubs(w) \/ Visit(w) \/ Recover(w) \/ Attempt(w)
    \/ Assign(w) \/ Prior(w) \/ Receipt(w) \/ StartTool(w) \/ Effect(w) \/ FinishTool(w)
    \/ Candidate(w) \/ Invoke(w) \/ Model(w) \/ Checkpoint(w)
    \/ Pause(w) \/ Uncertain(w) \/ Fail(w) \/ StopAtDeadline(w) \/ Retry(w) \/ Store(w)
    \/ BlockTask(w) \/ Park(w) \/ Abort(w)
    \/ Supervise(w) \/ CloseTask(w) \/ Gather(w) \/ Review(w) \/ Evaluate(w) \/ Record(w)
    \/ Finalize(w) \/ Release(w)

Administrator ==
    /\ \/ \E s \in Subs, d \in {"approved", "rejected"} : Decide(s, d)
       \/ \E s \in Subs : Renew(s)
       \/ \E s \in Subs, r \in ValidResults : Reconcile(s, r)
       \/ \E tag \in Tags : Resume(tag)
    /\ UNCHANGED <<local, env, effects>>

Clock ==
    \/ \E s \in Subs : ExpireReceipt(s) /\ UNCHANGED <<local, env, effects>>
    \/ ExpireLease
    \/ PassDeadline

Next ==
    \/ \E w \in Workers : Begin(w) \/ Step(w) \/ SendBeat(w) \/ ReceiveBeat(w)
                          \/ Drop(w) \/ Crash(w)
    \/ Administrator
    \/ Clock

(* The tick fires every five seconds, calls are answered or time out, and a *)
(* lease nobody renews ends.  Nothing is assumed of the administrator, of   *)
(* the deadline or of faults.                                               *)
Fairness ==
    /\ \A w \in Workers : WF_vars(Begin(w) \/ Step(w))
    /\ \A w \in Workers : WF_vars(ReceiveBeat(w))
    /\ WF_vars(ExpireLease /\ UNCHANGED faults)

Spec == Init /\ [][Next]_vars
FairSpec == Spec /\ Fairness

-----------------------------------------------------------------------------
TypeOK == StoreTypeOK /\ WorkerTypeOK

(* The action of a row reaches the outside world at most once, whatever      *)
(* crashes, lost answers, retries, resumes and overtaken workers do          *)
(* (spine_start_tool, executeTool, recoverTool).                            *)
EffectAtMostOnce == \A s \in Subs : effects[s] <= 1

(* A protected action was approved, and its receipt was spent on the one run *)
(* the ledger holds: a receipt is consumed exactly when a run exists         *)
(* (spine_start_tool consumes and inserts together).                        *)
EffectAuthorized ==
    \A s \in Subs : Protected(s) =>
        /\ effects[s] > 0 => run[s].status # "absent"
        /\ run[s].status # "absent" <=> approval[s].consumed
        /\ approval[s].consumed => approval[s].status = "approved"

(* Steps run in plan order: anything recorded for a row - a tool run, an     *)
(* agent checkpoint, an artifact - means every earlier row has succeeded     *)
(* (the loops of planAndExecuteMission), whichever worker recorded it.       *)
StepsInOrder ==
    \A s, t \in Subs :
        s < t /\ (run[t].status # "absent" \/ checkpoint[t] # NoResult \/ HasArtifact(t))
            => sub[s].status = "succeeded"

(* The evidence of a tool step is what its ledger says: artifact and stored  *)
(* output agree with the result of the finished run (setSubtaskOutputs       *)
(* overwrites, createArtifact does not, and several workers may call both). *)
ToolEvidence ==
    \A s \in Subs : IsTool(s) =>
        /\ HasArtifact(s) => run[s] = [status |-> "succeeded", result |-> artifact[s].content]
        /\ sub[s].output # NoResult => sub[s].output = run[s].result

(* What executeTool, spine_start_tool, spine_decide and spine_reconcile do to *)
(* the action of each tool step implements GovernedAction: granted, spent by  *)
(* starting, performed at most once.                                          *)
PermitOf(a) ==
    IF a.status = "absent" THEN "none"
    ELSE IF a.status = "pending" THEN "pending"
    ELSE IF a.status = "rejected" THEN "denied"
    ELSE IF a.consumed THEN "spent" ELSE "granted"

Governance == INSTANCE GovernedAction WITH
    Steps <- Subs,
    Guarded <- {s \in Subs : Protected(s)},
    permit <- [s \in Subs |-> PermitOf(approval[s])],
    ledger <- [s \in Subs |-> run[s].status],
    applied <- effects

ActionsGoverned == Governance!Spec

(* A mission succeeds on evidence of one policy: every source of its final   *)
(* artifact is a succeeded step with a schema-valid artifact, and all of     *)
(* them were made under the same constraints (evaluateMission, auditMission).*)
FinalEvidence ==
    mission.status = "succeeded" =>
        /\ \A s \in mission.sources : /\ sub[s].status = "succeeded"
                                      /\ artifact[s].content \in ValidResults
        /\ \A s, t \in mission.sources : artifact[s].tag = artifact[t].tag

(* A completed step is kept: its row stays succeeded and its artifact is     *)
(* never replaced, by no worker, restart or administrator.                  *)
CompletedStepsRetained ==
    [][\A s \in Subs : sub[s].status = "succeeded" =>
          sub'[s].status = "succeeded" /\ artifact'[s] = artifact[s]]_vars

(* With one worker: a success leaves no row of the plan behind. *)
SuccessIsComplete ==
    mission.status = "succeeded" =>
        plans > 0 /\ \A s \in Subs : Exists(s) => s \in mission.sources

(* With one worker: the attempts of a row stay within the budget over         *)
(* crashes, pauses and restarts (incrementSubtaskAttempts is persisted before *)
(* the attempt, and the loop starts from the persisted counter).              *)
AttemptsBounded == \A s \in Subs : sub[s].attempts <= MaxAttempts

(* A queued or running mission is eventually put to rest: finished, failed,  *)
(* or waiting for the administrator (startPlannerWorker keeps ticking).      *)
Settles == mission.status \in {"queued", "running"} ~>
           mission.status \in {"waiting", "failed", "succeeded"}

-----------------------------------------------------------------------------
(* What the documentation says and the code does not keep.                  *)

(* docs/execution-spine.md: "Uncertain effects wait for administrator         *)
(* reconciliation": at rest, the administrator can reconcile them.            *)
AtRest == mission.status = "waiting" /\ ~lease.live
UncertainReconcilable ==
    AtRest => \A s \in Subs : run[s].status = "running" => CanReconcile(s)

(* docs/execution-spine.md: "resume the affected mission ...; do not ...      *)
(* discard completed artifacts": work completed before a resume counts.       *)
ResumedWorkAccepted ==
    \A w \in Workers :
        pc[w] = "evaluate" /\ ExecutionComplete /\ plans = snap[w].plans => AuditPasses(w)
=============================================================================
