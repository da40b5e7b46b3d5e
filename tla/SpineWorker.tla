----------------------------- MODULE SpineWorker ------------------------------
(***************************************************************************)
(* planAndExecuteMission (server/planner/executionSpine.ts) as the worker   *)
(* of plannerRouter.ts runs it, with the adapters of supabaseRuntime.ts     *)
(* and governedTools.ts.  A step of a worker is one awaited call: a         *)
(* database read, a transaction, or an external effect.  Between two steps  *)
(* anything may happen: the lease may end, another worker or the            *)
(* administrator may act, the process may die.                              *)
(*                                                                         *)
(* A call may fail in two ways: it was never performed (Drop), or it was    *)
(* performed and its answer is lost (the second disjunct of Reply).  Both,  *)
(* and crashes, are bounded by MaxFaults.                                   *)
(***************************************************************************)
EXTENDS SpineStore

CONSTANTS
    MaxAttempts,    \* budget.max_attempts
    Deadline,       \* whether the mission carries deadline_at
    MaxFaults       \* bound on crashes, lost calls and lost leases

ASSUME WorkerAssumption ==
    /\ MaxAttempts \in Nat \ {0}
    /\ Deadline \in BOOLEAN
    /\ MaxFaults \in Nat

VARIABLES
    pc,             \* pc[w]: the call worker w is about to make
    snap,           \* snap[w]: rows w has read and not read again since
    cur,            \* cur[w]: the row w is working on
    attempt,        \* attempt[w]: the attempt counter of its loop
    out,            \* out[w]: the output it holds and has not stored
    beat,           \* beat[w]: a heartbeat is on its way to the database
    late,           \* deadline_at has passed
    faults,         \* faults so far
    effects         \* effects[s]: times the action of row s reached the outside world

local == <<pc, snap, cur, attempt, out>>
env == <<beat, late, faults>>
vars == <<store, local, env, effects>>

(* Calls made inside the try of the attempt loop: their errors are caught,  *)
(* recorded and treated as a failed attempt.                                *)
TryCalls == {"assign", "prior", "receipt", "start", "effect", "finish", "candidate",
             "invoke", "model", "checkpoint"}
(* Calls whose errors leave planAndExecuteMission through its finally. *)
Calls == {"open", "tasks", "plan", "commitPlan", "reload", "run", "task", "subs", "recover",
          "attempt", "deadline", "retry", "pause", "uncertain", "fail", "store",
          "supervise", "closeTask", "gather", "review", "evaluate", "record", "finalize",
          "blockTask", "park", "abort"}
Labels == {"idle", "acquire", "sub", "release"} \cup TryCalls \cup Calls

Active(w) == pc[w] \notin {"idle", "acquire"}

SubSnap == [status : SubStatus, attempts : Nat]
Snapshots == [tag : Tags, plans : 0..MaxPlans, tasks : [Tasks -> TaskStatus],
              subs : [Subs -> SubSnap], sources : SUBSET Subs]
Blank == [tag |-> FirstTag, plans |-> 0, tasks |-> [t \in Tasks |-> "queued"],
          subs |-> [s \in Subs |-> [status |-> "queued", attempts |-> 0]], sources |-> {}]

WorkerTypeOK ==
    /\ pc \in [Workers -> Labels]
    /\ snap \in [Workers -> Snapshots]
    /\ cur \in [Workers -> Subs]
    /\ attempt \in [Workers -> Nat]
    /\ out \in [Workers -> Outputs]
    /\ beat \in [Workers -> BOOLEAN]
    /\ late \in BOOLEAN
    /\ faults \in 0..MaxFaults
    /\ effects \in [Subs -> Nat]

WorkerInit ==
    /\ pc = [w \in Workers |-> "idle"]
    /\ snap = [w \in Workers |-> Blank]
    /\ cur = [w \in Workers |-> 1]
    /\ attempt = [w \in Workers |-> 0]
    /\ out = [w \in Workers |-> NoResult]
    /\ beat = [w \in Workers |-> FALSE]
    /\ late = FALSE
    /\ faults = 0
    /\ effects = [s \in Subs |-> 0]

-----------------------------------------------------------------------------
(* Moving a worker. *)

Goto(w, label) == pc' = [pc EXCEPT ![w] = label]

(* Where an error goes: the catch of the attempt loop, the finally of       *)
(* withMissionLock, or straight out when the lease was never taken.         *)
OnError(label) == IF label \in TryCalls THEN "fail"
                  ELSE IF label = "acquire" THEN "idle" ELSE "release"
Throw(w) == Goto(w, OnError(pc[w])) /\ UNCHANGED faults

(* A call that succeeded in the database: its answer arrives, or is lost. *)
Reply(w, label) ==
    \/ Goto(w, label) /\ UNCHANGED faults
    \/ faults < MaxFaults /\ faults' = faults + 1 /\ Goto(w, OnError(pc[w]))

(* Forget everything a finished run had read. *)
Reset(w) ==
    /\ snap' = [snap EXCEPT ![w] = Blank]
    /\ cur' = [cur EXCEPT ![w] = 1]
    /\ attempt' = [attempt EXCEPT ![w] = 0]
    /\ out' = [out EXCEPT ![w] = NoResult]

KeepLocal == UNCHANGED <<snap, cur, attempt, out>>
KeepEnv == UNCHANGED <<beat, late, effects>>

(* A transaction: refused by the lease or by a row guard, it writes nothing *)
(* and raises; accepted, it writes and answers.                             *)
Refused(w, guard) == ~(Holds(w) /\ guard) /\ Throw(w) /\ UNCHANGED store
Accepted(w, guard, label) == Holds(w) /\ guard /\ Reply(w, label)

TaskAt(w) == TaskOf[cur[w]]
(* The last row of the task list w has read, and of the task it is in. *)
AtListEnd(w) == \A s \in Subs : s > cur[w] => PlanOf[s] > snap[w].plans
AtTaskEnd(w) == \A s \in Subs : s > cur[w] => TaskOf[s] # TaskAt(w)
Advance(w) == cur' = [cur EXCEPT ![w] = IF AtTaskEnd(w) THEN @ ELSE @ + 1]
AfterSub(w) == IF AtTaskEnd(w) THEN "supervise" ELSE "sub"

-----------------------------------------------------------------------------
(* The lease: acquire, heartbeat, release. *)

(* Mutant: missions left running by a dead worker are not listed. *)
BeginQueued(w) ==
    /\ pc[w] = "idle" /\ ~beat[w] /\ ~Holds(w)
    /\ mission.status = "queued"
    /\ Goto(w, "acquire")
    /\ KeepLocal /\ KeepEnv /\ UNCHANGED <<store, faults>>

(* The tick lists a queued or running mission and builds a new runtime. *)
Begin(w) ==
    /\ pc[w] = "idle" /\ ~beat[w] /\ ~Holds(w)
    /\ mission.status \in {"queued", "running"}
    /\ Goto(w, "acquire")
    /\ KeepLocal /\ KeepEnv /\ UNCHANGED <<store, faults>>

Acquire(w) ==
    /\ pc[w] = "acquire"
    /\ \/ CanTake(w) /\ TakeLease(w) /\ Reply(w, "open")
       \/ ~CanTake(w) /\ Goto(w, "idle") /\ UNCHANGED <<lease, faults>>
    /\ KeepLocal /\ KeepEnv /\ UNCHANGED <<rows, ledgers>>

(* setInterval sends the call and does not wait for it. *)
SendBeat(w) ==
    /\ Active(w) /\ pc[w] # "release" /\ ~beat[w]
    /\ beat' = [beat EXCEPT ![w] = TRUE]
    /\ UNCHANGED <<store, local, late, faults, effects>>

ReceiveBeat(w) ==
    /\ beat[w]
    /\ beat' = [beat EXCEPT ![w] = FALSE]
    /\ IF CanTake(w) THEN TakeLease(w) ELSE UNCHANGED lease
    /\ UNCHANGED <<rows, ledgers, local, late, faults, effects>>

Release(w) ==
    /\ pc[w] = "release"
    /\ DropLease(w)
    /\ Goto(w, "idle")
    /\ Reset(w)
    /\ UNCHANGED <<rows, ledgers, beat, late, faults, effects>>

-----------------------------------------------------------------------------
(* From the lock to the first task. *)

(* createMission inserts nothing (the row exists) but checks the lease; then *)
(* the mission row is read, and its constraints are not read again.          *)
Open(w) ==
    /\ pc[w] = "open"
    /\ \/ ~Holds(w) /\ Throw(w) /\ UNCHANGED snap
       \/ /\ Holds(w)
          /\ snap' = [snap EXCEPT ![w].tag = mission.tag]
          /\ Goto(w, IF mission.status \notin {"queued", "running"} THEN "release"
                     ELSE IF late THEN "park" ELSE "tasks")
          /\ UNCHANGED faults
    /\ KeepEnv /\ UNCHANGED <<store, cur, attempt, out>>

ReadTasks(w) == snap' = [snap EXCEPT ![w].plans = plans, ![w].tasks = task]

LoadTasks(w) ==
    /\ pc[w] = "tasks"
    /\ IF plans = 0 THEN Goto(w, "plan") /\ UNCHANGED snap
                    ELSE Goto(w, "run") /\ ReadTasks(w)
    /\ KeepEnv /\ UNCHANGED <<store, cur, attempt, out, faults>>

(* The planner's model call: a plan; no tokens or no provider left; or any  *)
(* other failure, which fails the mission.                                  *)
Plan(w) ==
    /\ pc[w] = "plan"
    /\ \E label \in {"commitPlan", "park", "abort"} : Goto(w, label)
    /\ KeepLocal /\ KeepEnv /\ UNCHANGED <<store, faults>>

CommitPlan(w) ==
    /\ pc[w] = "commitPlan" /\ plans < MaxPlans
    /\ \/ Refused(w, MissionOpen)
       \/ /\ Accepted(w, MissionOpen, "reload")
          /\ InsertPlan
          /\ UNCHANGED <<lease, ledgers>>
    /\ KeepLocal /\ KeepEnv

Reload(w) ==
    /\ pc[w] = "reload"
    /\ Goto(w, "task") /\ ReadTasks(w)
    /\ KeepEnv /\ UNCHANGED <<store, cur, attempt, out, faults>>

(* Transactions that write the mission row only. *)
WriteMission(w, status, label) ==
    /\ \/ Refused(w, MissionOpen)
       \/ /\ Accepted(w, MissionOpen, label)
          /\ SetMission(status)
          /\ UNCHANGED <<lease, plans, task, sub, artifact, ledgers>>
    /\ KeepLocal /\ KeepEnv

Run(w) == pc[w] = "run" /\ WriteMission(w, "running", "task")
Park(w) == pc[w] = "park" /\ WriteMission(w, "waiting", "release")
Abort(w) == pc[w] = "abort" /\ WriteMission(w, "failed", "release")

-----------------------------------------------------------------------------
(* The loop over tasks and subtasks. *)

WriteTask(w, status, label) ==
    /\ \/ Refused(w, TaskOpen(TaskAt(w)))
       \/ /\ Accepted(w, TaskOpen(TaskAt(w)), label)
          /\ SetTask(TaskAt(w), status)
          /\ UNCHANGED <<lease, mission, plans, sub, artifact, ledgers>>
    /\ KeepLocal /\ KeepEnv

(* The status is the one read with the task list. *)
EnterTask(w) ==
    /\ pc[w] = "task"
    /\ LET status == snap[w].tasks[TaskAt(w)] IN
       \/ status \in {"blocked", "failed", "succeeded"}
          /\ Goto(w, IF status = "succeeded" THEN "subs" ELSE "park")
          /\ KeepLocal /\ KeepEnv /\ UNCHANGED <<store, faults>>
       \/ status \in {"queued", "running"} /\ WriteTask(w, "running", "subs")

BlockTask(w) == pc[w] = "blockTask" /\ WriteTask(w, "blocked", "park")

LoadSubs(w) ==
    /\ pc[w] = "subs"
    /\ Goto(w, "sub")
    /\ snap' = [snap EXCEPT ![w].subs =
                  [s \in Subs |-> IF TaskOf[s] = TaskAt(w)
                                  THEN [status |-> sub[s].status, attempts |-> sub[s].attempts]
                                  ELSE [status |-> "queued", attempts |-> 0]]]
    /\ KeepEnv /\ UNCHANGED <<store, cur, attempt, out, faults>>

(* Mutant: a waiting row is passed over. *)
VisitPastWaiting(w) ==
    /\ pc[w] = "sub"
    /\ LET status == snap[w].subs[cur[w]].status IN
       \/ status \in {"succeeded", "waiting_input"} /\ Advance(w) /\ Goto(w, AfterSub(w))
       \/ status = "failed" /\ Goto(w, "blockTask") /\ UNCHANGED cur
       \/ status \in {"queued", "running"} /\ Goto(w, "recover") /\ UNCHANGED cur
    /\ KeepEnv /\ UNCHANGED <<store, snap, attempt, out, faults>>

Visit(w) ==
    /\ pc[w] = "sub"
    /\ LET status == snap[w].subs[cur[w]].status IN
       \/ status = "succeeded" /\ Advance(w) /\ Goto(w, AfterSub(w))
       \/ status \in {"waiting_input", "failed"} /\ Goto(w, "blockTask") /\ UNCHANGED cur
       \/ status \in {"queued", "running"} /\ Goto(w, "recover") /\ UNCHANGED cur
    /\ KeepEnv /\ UNCHANGED <<store, snap, attempt, out, faults>>

(* recoverTool and recoverAgent: what an earlier run left in the ledger. *)
Recorded(s) == IF IsTool(s) THEN run[s].result ELSE checkpoint[s]

(* Mutant: each restart counts its attempts from one. *)
RecoverFresh(w) ==
    /\ pc[w] = "recover"
    /\ LET s == cur[w] IN
       \/ /\ Recorded(s) # NoResult
          /\ out' = [out EXCEPT ![w] = Recorded(s)]
          /\ Goto(w, IF Recorded(s) \in ValidResults THEN "store" ELSE "release")
          /\ UNCHANGED attempt
       \/ /\ Recorded(s) = NoResult /\ run[s].status = "running"
          /\ Goto(w, "uncertain")
          /\ UNCHANGED <<attempt, out>>
       \/ /\ Recorded(s) = NoResult /\ run[s].status # "running"
          /\ Goto(w, "attempt")
          /\ attempt' = [attempt EXCEPT ![w] = 1]
          /\ UNCHANGED out
    /\ KeepEnv /\ UNCHANGED <<store, snap, cur, faults>>

Recover(w) ==
    /\ pc[w] = "recover"
    /\ LET s == cur[w] IN
       \/ /\ Recorded(s) # NoResult
          /\ out' = [out EXCEPT ![w] = Recorded(s)]
          /\ Goto(w, IF Recorded(s) \in ValidResults THEN "store" ELSE "release")
          /\ UNCHANGED attempt
       \/ /\ Recorded(s) = NoResult /\ run[s].status = "running"
          /\ Goto(w, "uncertain")
          /\ UNCHANGED <<attempt, out>>
       \/ /\ Recorded(s) = NoResult /\ run[s].status # "running"
          /\ Goto(w, "attempt")
          /\ attempt' = [attempt EXCEPT ![w] = snap[w].subs[s].attempts + 1]
          /\ UNCHANGED out
    /\ KeepEnv /\ UNCHANGED <<store, snap, cur, faults>>

(* The head of the attempt loop. *)
Attempt(w) ==
    /\ pc[w] = "attempt"
    /\ \/ /\ attempt[w] > MaxAttempts \/ late
          /\ Goto(w, IF attempt[w] > MaxAttempts THEN "fail" ELSE "deadline")
          /\ UNCHANGED <<store, faults>>
       \/ /\ attempt[w] <= MaxAttempts /\ ~late
          /\ \/ Refused(w, SubOpen(cur[w]))
             \/ /\ Accepted(w, SubOpen(cur[w]), IF IsTool(cur[w]) THEN "assign" ELSE "invoke")
                /\ sub' = [sub EXCEPT ![cur[w]].status = "running", ![cur[w]].attempts = @ + 1]
                /\ UNCHANGED <<lease, mission, plans, task, artifact, ledgers>>
    /\ KeepLocal /\ KeepEnv

-----------------------------------------------------------------------------
(* executeTool. *)

(* A message published before or after the action: a commit that changes    *)
(* no row modelled here, but that needs the lease.                          *)
Publish(w, label) ==
    /\ \/ Refused(w, TRUE)
       \/ Accepted(w, TRUE, label) /\ UNCHANGED store
    /\ KeepEnv

Assign(w) == pc[w] = "assign" /\ Publish(w, "prior") /\ KeepLocal

(* The run ledger is read a second time, without the lease. *)
Prior(w) ==
    /\ pc[w] = "prior"
    /\ LET s == cur[w] IN
       \/ /\ run[s].status = "absent"
          /\ Goto(w, IF Protected(s) THEN "receipt" ELSE "start") /\ UNCHANGED out
       \/ run[s].status = "running" /\ Goto(w, "uncertain") /\ UNCHANGED out
       \/ /\ run[s].status = "succeeded"
          /\ Goto(w, "candidate") /\ out' = [out EXCEPT ![w] = run[s].result]
    /\ KeepEnv /\ UNCHANGED <<store, snap, cur, attempt, faults>>

Receipt(w) ==
    /\ pc[w] = "receipt"
    /\ RecordReceipt(cur[w]) /\ Reply(w, "start")
    /\ KeepLocal /\ KeepEnv /\ UNCHANGED <<lease, rows, run, checkpoint>>

(* The consumed receipt is looked at before the run: without a usable one   *)
(* the function answers false, and a run that is there already raises.      *)
StartTool(w) ==
    /\ pc[w] = "start"
    /\ LET s == cur[w] IN
       \/ /\ ~Holds(w) \/ (run[s].status # "absent" /\ (Protected(s) => ReceiptUsable(s)))
          /\ Throw(w) /\ UNCHANGED store
       \/ /\ Holds(w) /\ Protected(s) /\ ~ReceiptUsable(s)
          /\ Goto(w, "pause") /\ UNCHANGED <<store, faults>>
       \/ /\ Holds(w) /\ StartRun(s) /\ Reply(w, "effect")
          /\ UNCHANGED <<lease, rows, checkpoint>>
    /\ KeepLocal /\ KeepEnv

(* The outside world.  It returns an output; or reports failure, which      *)
(* throws without touching the ledger; or the adapter throws, before or     *)
(* after the action took place.                                             *)
Perform(s, n) == effects' = [effects EXCEPT ![s] = @ + n]

Effect(w) ==
    /\ pc[w] = "effect"
    /\ LET s == cur[w] IN
       \/ /\ Perform(s, 1) /\ Goto(w, "finish")
          /\ \E r \in Results : out' = [out EXCEPT ![w] = r]
       \/ Perform(s, 1) /\ Goto(w, "fail") /\ UNCHANGED out
       \/ /\ \E n \in {0, 1} : Perform(s, n)
          /\ Protected(s) /\ Goto(w, "uncertain") /\ UNCHANGED out
       \/ /\ \E n \in {0, 1} : Perform(s, n)
          /\ ~Protected(s) /\ UNCHANGED out
          /\ \/ Goto(w, "fail")
             \/ attempt[w] < MaxAttempts /\ Goto(w, "retry")
    /\ UNCHANGED <<store, snap, cur, attempt, beat, late, faults>>

FinishTool(w) ==
    /\ pc[w] = "finish"
    /\ \/ Refused(w, run[cur[w]].status = "running")
       \/ /\ Holds(w) /\ FinishRun(cur[w], out[w]) /\ Reply(w, "candidate")
          /\ UNCHANGED <<lease, rows, approval, checkpoint>>
    /\ KeepLocal /\ KeepEnv

Validated(w) == IF out[w] \in ValidResults THEN "store" ELSE "fail"

Candidate(w) == pc[w] = "candidate" /\ Publish(w, Validated(w)) /\ KeepLocal

-----------------------------------------------------------------------------
(* invokeAgent. *)

Invoke(w) ==
    /\ pc[w] = "invoke"
    /\ IF Holds(w) /\ checkpoint[cur[w]] # NoResult
       THEN /\ out' = [out EXCEPT ![w] = checkpoint[cur[w]]]
            /\ Goto(w, IF checkpoint[cur[w]] \in ValidResults THEN "store" ELSE "fail")
            /\ UNCHANGED <<store, faults, snap, cur, attempt>> /\ KeepEnv
       ELSE Publish(w, "model") /\ KeepLocal

(* The model answers, and the call is settled under the lease; the token     *)
(* budget or the providers are exhausted; the error is one that retryable()  *)
(* accepts; or it is any other error.                                       *)
Model(w) ==
    /\ pc[w] = "model"
    /\ \/ /\ Holds(w) /\ Goto(w, "checkpoint")
          /\ \E r \in Results : out' = [out EXCEPT ![w] = r]
       \/ \E label \in {"pause", "fail"} : Goto(w, label) /\ UNCHANGED out
       \/ attempt[w] < MaxAttempts /\ Goto(w, "retry") /\ UNCHANGED out
    /\ KeepEnv /\ UNCHANGED <<store, snap, cur, attempt, faults>>

(* An existing checkpoint is kept, and the caller goes on with its own output. *)
Checkpoint(w) ==
    /\ pc[w] = "checkpoint"
    /\ \/ Refused(w, TRUE)
       \/ /\ Accepted(w, TRUE, Validated(w))
          /\ SaveCheckpoint(cur[w], out[w])
          /\ UNCHANGED <<lease, rows, approval, run>>
    /\ KeepLocal /\ KeepEnv

-----------------------------------------------------------------------------
(* How an attempt ends. *)

(* Subtask, task and mission leave the running state in one transaction. *)
SuspendStep(w, row) ==
    /\ \/ Refused(w, StepOpen(cur[w]))
       \/ /\ Accepted(w, StepOpen(cur[w]), "release")
          /\ sub' = [sub EXCEPT ![cur[w]] = row]
          /\ SetTask(TaskAt(w), "blocked")
          /\ SetMission("waiting")
          /\ UNCHANGED <<lease, plans, artifact, ledgers>>
    /\ KeepLocal /\ KeepEnv

(* Mutant: the counter read before the attempt is taken back once more. *)
PauseStale(w) == pc[w] = "pause" /\
    SuspendStep(w, [sub[cur[w]] EXCEPT !.status = "waiting_input",
                                       !.attempts = snap[w].subs[cur[w]].attempts - 1])

(* Waiting for an approval, for tokens or for a provider: not an attempt. *)
Pause(w) == pc[w] = "pause" /\
    SuspendStep(w, [sub[cur[w]] EXCEPT !.status = "waiting_input", !.attempts = attempt[w] - 1])
Uncertain(w) == pc[w] = "uncertain" /\
    SuspendStep(w, [sub[cur[w]] EXCEPT !.status = "waiting_input"])
Fail(w) == pc[w] = "fail" /\
    SuspendStep(w, [sub[cur[w]] EXCEPT !.status = "failed"])

(* The subtask keeps its status. *)
StopAtDeadline(w) ==
    /\ pc[w] = "deadline"
    /\ LET guard == TaskOpen(TaskAt(w)) /\ MissionOpen IN
       \/ Refused(w, guard)
       \/ /\ Accepted(w, guard, "release")
          /\ SetTask(TaskAt(w), "blocked") /\ SetMission("waiting")
          /\ UNCHANGED <<lease, plans, sub, artifact, ledgers>>
    /\ KeepLocal /\ KeepEnv

Retry(w) ==
    /\ pc[w] = "retry"
    /\ \/ Refused(w, SubOpen(cur[w])) /\ UNCHANGED attempt
       \/ /\ Accepted(w, SubOpen(cur[w]), "attempt")
          /\ SetSub(cur[w], "queued")
          /\ attempt' = [attempt EXCEPT ![w] = @ + 1]
          /\ UNCHANGED <<lease, mission, plans, task, artifact, ledgers>>
    /\ KeepEnv /\ UNCHANGED <<snap, cur, out>>

Store(w) ==
    /\ pc[w] = "store"
    /\ \/ Refused(w, TRUE) /\ UNCHANGED <<cur, out>>
       \/ /\ Accepted(w, TRUE, AfterSub(w))
          /\ StoreOutput(cur[w], out[w], snap[w].tag)
          /\ Advance(w)
          /\ out' = [out EXCEPT ![w] = NoResult]
          /\ UNCHANGED <<lease, mission, plans, task, ledgers>>
    /\ KeepEnv /\ UNCHANGED <<snap, attempt>>

-----------------------------------------------------------------------------
(* Supervision and completion. *)

(* Every subtask of the task has a schema-valid artifact: the decision is    *)
(* published, and the task closed or blocked.                               *)
Supervise(w) ==
    /\ pc[w] = "supervise"
    /\ Publish(w, IF \A s \in SubsOf(TaskAt(w)) : artifact[s].content \in ValidResults
                  THEN "closeTask" ELSE "blockTask")
    /\ KeepLocal

(* INCOMPLETE_SUBTASKS is the guard of spine_validate_row. *)
CloseTask(w) ==
    /\ pc[w] = "closeTask"
    /\ LET guard == \A s \in SubsOf(TaskAt(w)) : sub[s].status = "succeeded" IN
       \/ Refused(w, guard) /\ UNCHANGED cur
       \/ /\ Accepted(w, guard, IF AtListEnd(w) THEN "gather" ELSE "task")
          /\ SetTask(TaskAt(w), "succeeded")
          /\ cur' = [cur EXCEPT ![w] = IF AtListEnd(w) THEN @ ELSE @ + 1]
          /\ UNCHANGED <<lease, mission, plans, sub, artifact, ledgers>>
    /\ KeepEnv /\ UNCHANGED <<snap, attempt, out>>

Gather(w) ==
    /\ pc[w] = "gather"
    /\ Goto(w, "review")
    /\ snap' = [snap EXCEPT ![w].sources = {s \in Subs : HasArtifact(s)}]
    /\ KeepEnv /\ UNCHANGED <<store, cur, attempt, out, faults>>

(* The review says complete, blocked, or fails. *)
Review(w) ==
    /\ pc[w] = "review"
    /\ \/ ~late /\ Publish(w, "evaluate")
       \/ Goto(w, "park") /\ KeepEnv /\ UNCHANGED <<store, faults>>
    /\ KeepLocal

(* evaluateMission over the rows as they are now, the constraints as they    *)
(* were read by Open and the artifacts as they were read by Gather.         *)
ExecutionComplete ==
    /\ \A s \in Subs : Exists(s) => sub[s].status = "succeeded"
    /\ \A s \in Subs : Exists(s) => task[TaskOf[s]] = "succeeded"
(* Mutant: policy fingerprints are not compared. *)
AuditIgnoringPolicy(w) ==
    /\ plans = snap[w].plans
    /\ \A s \in Subs : Exists(s) => s \in snap[w].sources

AuditPasses(w) ==
    /\ plans = snap[w].plans
    /\ \A s \in Subs : Exists(s) => s \in snap[w].sources
    /\ \A s \in snap[w].sources : artifact[s].tag = snap[w].tag

Evaluate(w) ==
    /\ pc[w] = "evaluate"
    /\ Goto(w, IF ExecutionComplete /\ AuditPasses(w) THEN "record" ELSE "park")
    /\ KeepLocal /\ KeepEnv /\ UNCHANGED <<store, faults>>

(* The evaluation is published before the mission is finished. *)
Record(w) == pc[w] = "record" /\ Publish(w, "finalize") /\ KeepLocal

(* Mutant: the final artifact is assembled from the last task alone. *)
FinalizeLastTask(w) ==
    /\ pc[w] = "finalize"
    /\ \/ Refused(w, TRUE)
       \/ /\ Accepted(w, TRUE, "release")
          /\ InsertFinal(snap[w].sources \cap SubsOf(TaskAt(w)))
          /\ UNCHANGED <<lease, plans, task, sub, artifact, ledgers>>
    /\ KeepLocal /\ KeepEnv

Finalize(w) ==
    /\ pc[w] = "finalize"
    /\ \/ Refused(w, TRUE)
       \/ /\ Accepted(w, TRUE, "release")
          /\ InsertFinal(snap[w].sources)
          /\ UNCHANGED <<lease, plans, task, sub, artifact, ledgers>>
    /\ KeepLocal /\ KeepEnv

-----------------------------------------------------------------------------
(* Faults and time. *)

Fault == faults < MaxFaults /\ faults' = faults + 1

Drop(w) ==
    /\ pc[w] \in ({"acquire"} \cup Calls \cup TryCalls) \ {"effect", "model", "plan"}
    /\ Fault /\ Goto(w, OnError(pc[w]))
    /\ KeepLocal /\ KeepEnv /\ UNCHANGED store

(* The process dies.  Its lease stays until it ends by itself. *)
Crash(w) ==
    /\ pc[w] # "idle"
    /\ Fault /\ Goto(w, "idle") /\ Reset(w)
    /\ UNCHANGED <<store, beat, late, effects>>

(* Sixty seconds pass without a heartbeat: a fault unless nobody would send one. *)
ExpireLease ==
    /\ lease.live
    /\ lease' = [lease EXCEPT !.live = FALSE]
    /\ IF lease.owner \in Workers /\ Active(lease.owner) THEN Fault ELSE UNCHANGED faults
    /\ UNCHANGED <<rows, ledgers, local, beat, late, effects>>

PassDeadline ==
    /\ Deadline /\ ~late /\ late' = TRUE
    /\ UNCHANGED <<store, local, beat, faults, effects>>
=============================================================================
