------------------------------ MODULE SpineStore ------------------------------
(***************************************************************************)
(* The tables of the execution spine for ONE mission, and the database     *)
(* functions that change them (supabase/execution_spine_*.sql).  Every     *)
(* function runs in one transaction: it either performs all its writes or  *)
(* raises, and a raised function has written nothing.  The functions an    *)
(* operator reaches through plannerRouter.ts are actions of this module;   *)
(* the ones a worker calls are operators that SpineWorker.tla combines     *)
(* with the worker's own step.                                             *)
(*                                                                         *)
(* A step of the plan is a row number in Subs.  The rows of one committed  *)
(* plan are the numbers s with the same PlanOf[s]: a planner that commits  *)
(* twice inserts a second set of rows, because the row ids are random.     *)
(***************************************************************************)
EXTENDS Naturals

CONSTANTS
    Workers,        \* runtime instances; each one is a fresh lease owner
    Nobody,         \* the owner of a lease nobody has taken yet
    NSubs,          \* number of subtask rows that can ever exist (bound)
    MaxPlans,       \* number of plans that can ever be committed (bound)
    PlanOf,         \* PlanOf[s]: the plan that inserts row s
    TaskOf,         \* TaskOf[s]: the task row s belongs to
    KindOf,         \* KindOf[s]: who executes row s, see Kinds
    Results,        \* outputs an agent or a tool can return
    ValidResults,   \* those that satisfy the task's expected_output_schema
    NoResult,       \* the null of an output column
    Tags,           \* hashes of constraints, one per max_tokens value
    FirstTag        \* the hash of the constraints the mission was submitted with

Subs == 1..NSubs
Tasks == {TaskOf[s] : s \in Subs}

(***************************************************************************)
(* "agent"  reasoning step, no tool request                                *)
(* "read"   one of the three tools the database runs without a receipt     *)
(* "auto"   needs a receipt, which policy approves when it is recorded     *)
(* "manual" needs a receipt that an administrator decides                  *)
(***************************************************************************)
Kinds == {"agent", "read", "auto", "manual"}

ASSUME StoreAssumption ==
    /\ NSubs \in Nat \ {0}
    /\ MaxPlans \in Nat \ {0}
    /\ PlanOf \in [Subs -> 1..MaxPlans]
    /\ TaskOf \in [Subs -> Nat]
    /\ KindOf \in [Subs -> Kinds]
    /\ \A s, t \in Subs : s <= t => PlanOf[s] <= PlanOf[t] /\ TaskOf[s] <= TaskOf[t]
    /\ \A s, t \in Subs : TaskOf[s] = TaskOf[t] => PlanOf[s] = PlanOf[t]
    /\ ValidResults \subseteq Results
    /\ NoResult \notin Results
    /\ Nobody \notin Workers
    /\ FirstTag \in Tags

VARIABLES
    lease,          \* spine_leases: the owner, and whether expires_at > now()
    mission,        \* the mission row: status, hash of its constraints, sources of the final artifact
    plans,          \* how many plans have been inserted
    task,           \* task rows: status
    sub,            \* subtask rows: status, attempts, normalized_output
    artifact,       \* artifact rows: content and evidence.constraints_hash
    approval,       \* spine_approvals
    run,            \* spine_tool_runs
    checkpoint      \* spine_agent_results

store == <<lease, mission, plans, task, sub, artifact, approval, run, checkpoint>>
rows == <<mission, plans, task, sub, artifact>>
ledgers == <<approval, run, checkpoint>>

MissionStatus == {"queued", "running", "waiting", "failed", "succeeded"}
TaskStatus == {"queued", "running", "blocked", "failed", "succeeded"}
SubStatus == {"queued", "running", "waiting_input", "failed", "succeeded"}
ApprovalStatus == {"absent", "pending", "approved", "rejected"}
RunStatus == {"absent", "running", "succeeded"}

Outputs == Results \cup {NoResult}
Leases == [owner : Workers \cup {Nobody}, live : BOOLEAN]
MissionRows == [status : MissionStatus, tag : Tags, sources : SUBSET Subs]
SubRows == [status : SubStatus, attempts : Nat, output : Outputs]
ArtifactRows == [content : Outputs, tag : Tags]
ApprovalRows == [status : ApprovalStatus, expired : BOOLEAN, consumed : BOOLEAN]
RunRows == [status : RunStatus, result : Outputs]

StoreTypeOK ==
    /\ lease \in Leases
    /\ mission \in MissionRows
    /\ plans \in 0..MaxPlans
    /\ task \in [Tasks -> TaskStatus]
    /\ sub \in [Subs -> SubRows]
    /\ artifact \in [Subs -> ArtifactRows]
    /\ approval \in [Subs -> ApprovalRows]
    /\ run \in [Subs -> RunRows]
    /\ checkpoint \in [Subs -> Outputs]

StoreInit ==
    /\ lease = [owner |-> Nobody, live |-> FALSE]
    /\ mission = [status |-> "queued", tag |-> FirstTag, sources |-> {}]
    /\ plans = 0
    /\ task = [t \in Tasks |-> "queued"]
    /\ sub = [s \in Subs |-> [status |-> "queued", attempts |-> 0, output |-> NoResult]]
    /\ artifact = [s \in Subs |-> [content |-> NoResult, tag |-> FirstTag]]
    /\ approval = [s \in Subs |-> [status |-> "absent", expired |-> FALSE, consumed |-> FALSE]]
    /\ run = [s \in Subs |-> [status |-> "absent", result |-> NoResult]]
    /\ checkpoint = [s \in Subs |-> NoResult]

IsTool(s) == KindOf[s] # "agent"
Protected(s) == KindOf[s] \in {"auto", "manual"}
Exists(s) == PlanOf[s] <= plans
HasArtifact(s) == artifact[s].content # NoResult
SubsOf(t) == {s \in Subs : TaskOf[s] = t}

-----------------------------------------------------------------------------
(* The lease.  Only the owner is compared: an owner whose lease has ended,  *)
(* or was taken and given back by somebody else, may take it again.         *)

Holds(w) == lease.live /\ lease.owner = w
CanTake(w) == ~lease.live \/ lease.owner = w
TakeLease(w) == lease' = [owner |-> w, live |-> TRUE]
DropLease(w) == lease' = IF lease.owner = w THEN [lease EXCEPT !.live = FALSE] ELSE lease

-----------------------------------------------------------------------------
(* Row writes of spine_commit.  spine_validate_row refuses to move a row    *)
(* out of 'succeeded' (TERMINAL_STATE); the Open operators are its guards.  *)

MissionOpen == mission.status # "succeeded"
TaskOpen(t) == task[t] # "succeeded"
SubOpen(s) == sub[s].status # "succeeded"
StepOpen(s) == SubOpen(s) /\ TaskOpen(TaskOf[s]) /\ MissionOpen

SetMission(status) == mission' = [mission EXCEPT !.status = status]
SetTask(t, status) == task' = [task EXCEPT ![t] = status]
SetSub(s, status) == sub' = [sub EXCEPT ![s].status = status]

(* Insert the rows of the next plan, and mark the mission running. *)
InsertPlan ==
    /\ plans' = plans + 1
    /\ SetMission("running")
    /\ UNCHANGED <<task, sub, artifact>>

(* Mutant: the artifact is upserted like the outputs. *)
UpsertOutput(s, result, tag) ==
    /\ sub' = [sub EXCEPT ![s].status = "succeeded", ![s].output = result]
    /\ artifact' = [artifact EXCEPT ![s] = [content |-> result, tag |-> tag]]

(* Outputs are overwritten; the artifact has a deterministic id and is      *)
(* inserted only when it is not there yet.                                  *)
StoreOutput(s, result, tag) ==
    /\ sub' = [sub EXCEPT ![s].status = "succeeded", ![s].output = result]
    /\ artifact' = IF HasArtifact(s) THEN artifact
                   ELSE [artifact EXCEPT ![s] = [content |-> result, tag |-> tag]]

(* The last transaction of a mission: the final artifact, then 'succeeded'. *)
InsertFinal(sources) ==
    mission' = [mission EXCEPT !.status = "succeeded",
                               !.sources = IF @ = {} THEN sources ELSE @]

-----------------------------------------------------------------------------
(* The ledgers. *)

(* Mutant: a receipt that is there is recorded anew. *)
UpsertReceipt(s) ==
    approval' = [approval EXCEPT ![s].status =
                   IF KindOf[s] = "auto" THEN "approved" ELSE "pending"]

(* executeTool records the receipt without any lease and keeps an existing one. *)
RecordReceipt(s) ==
    approval' = IF approval[s].status # "absent" THEN approval
                ELSE [approval EXCEPT ![s].status =
                        IF KindOf[s] = "auto" THEN "approved" ELSE "pending"]

ReceiptUsable(s) ==
    approval[s].status = "approved" /\ ~approval[s].expired /\ ~approval[s].consumed

(* Mutant: no primary key on the run. *)
StartRunAgain(s) ==
    /\ Protected(s) => ReceiptUsable(s)
    /\ approval' = IF Protected(s) THEN [approval EXCEPT ![s].consumed = TRUE] ELSE approval
    /\ run' = [run EXCEPT ![s].status = "running"]

(* Mutant: the receipt is looked at and not consumed. *)
StartRunUnspent(s) ==
    /\ run[s].status = "absent"
    /\ Protected(s) => ReceiptUsable(s)
    /\ run' = [run EXCEPT ![s].status = "running"]
    /\ UNCHANGED approval

(* spine_start_tool consumes the receipt and inserts the run together. *)
StartRun(s) ==
    /\ run[s].status = "absent"
    /\ Protected(s) => ReceiptUsable(s)
    /\ approval' = IF Protected(s) THEN [approval EXCEPT ![s].consumed = TRUE] ELSE approval
    /\ run' = [run EXCEPT ![s].status = "running"]

(* Mutant: the update has no condition on the status. *)
FinishRunAgain(s, result) ==
    run' = [run EXCEPT ![s] = [status |-> "succeeded", result |-> result]]

FinishRun(s, result) ==
    /\ run[s].status = "running"
    /\ run' = [run EXCEPT ![s] = [status |-> "succeeded", result |-> result]]

SaveCheckpoint(s, result) ==
    checkpoint' = IF checkpoint[s] # NoResult THEN checkpoint
                  ELSE [checkpoint EXCEPT ![s] = result]

-----------------------------------------------------------------------------
(* The administrator's functions.  Each one refuses (MISSION_BUSY) while a  *)
(* lease is live.                                                           *)

(* Subtask, task and mission change their status together. *)
MoveAll(s, status) ==
    /\ SetSub(s, status)
    /\ SetTask(TaskOf[s], status)
    /\ SetMission(status)

Decide(s, decision) ==
    /\ ~lease.live
    /\ approval[s].status = "pending" /\ ~approval[s].expired
    /\ sub[s].status = "waiting_input"
    /\ StepOpen(s)
    /\ approval' = [approval EXCEPT ![s].status = decision]
    /\ MoveAll(s, IF decision = "approved" THEN "queued" ELSE "failed")
    /\ UNCHANGED <<lease, plans, artifact, run, checkpoint>>

Renew(s) ==
    /\ ~lease.live
    /\ approval[s].status = "pending" /\ approval[s].expired
    /\ approval' = [approval EXCEPT ![s].expired = FALSE]
    /\ UNCHANGED <<lease, rows, run, checkpoint>>

(* The router has checked the result against the task's schema. *)
CanReconcile(s) ==
    /\ ~lease.live
    /\ run[s].status = "running"
    /\ sub[s].status = "waiting_input"
    /\ StepOpen(s)

Reconcile(s, result) ==
    /\ CanReconcile(s)
    /\ run' = [run EXCEPT ![s] = [status |-> "succeeded", result |-> result]]
    /\ MoveAll(s, "queued")
    /\ UNCHANGED <<lease, plans, artifact, approval, checkpoint>>

CanResume ==
    /\ ~lease.live
    /\ \A s \in Subs : run[s].status # "running"
    /\ \A s \in Subs : \/ approval[s].status = "absent"
                       \/ approval[s].status = "approved" /\ approval[s].consumed
    /\ mission.status = "waiting"

(* Mutant: every row is queued again. *)
ResumeEverything(tag) ==
    /\ CanResume
    /\ mission' = [mission EXCEPT !.status = "queued", !.tag = tag]
    /\ sub' = [s \in Subs |-> [sub[s] EXCEPT !.status = "queued", !.attempts = 0]]
    /\ task' = [t \in Tasks |-> IF task[t] = "blocked" THEN "queued" ELSE task[t]]
    /\ UNCHANGED <<lease, plans, artifact, ledgers>>

Resume(tag) ==
    /\ CanResume
    /\ mission' = [mission EXCEPT !.status = "queued", !.tag = tag]
    /\ sub' = [s \in Subs |->
                 IF sub[s].status \in {"waiting_input", "failed"}
                 THEN [sub[s] EXCEPT !.status = "queued", !.attempts = 0]
                 ELSE sub[s]]
    /\ task' = [t \in Tasks |-> IF task[t] = "blocked" THEN "queued" ELSE task[t]]
    /\ UNCHANGED <<lease, plans, artifact, ledgers>>

(* An hour passes before a receipt is decided or consumed. *)
ExpireReceipt(s) ==
    /\ approval[s].status \in {"pending", "approved"}
    /\ ~approval[s].consumed /\ ~approval[s].expired
    /\ approval' = [approval EXCEPT ![s].expired = TRUE]
    /\ UNCHANGED <<lease, rows, run, checkpoint>>
=============================================================================
