--------------------------- MODULE SpineTypeProofs ----------------------------
(***************************************************************************)
(* Type correctness of Spine, for every plan, every number of workers and   *)
(* any number of faults.  An attempt counter is decremented when a step is  *)
(* paused, so types need to know that it is positive while an attempt is in *)
(* progress; together with the other facts a worker has about its own       *)
(* variables this is LocalInv.                                              *)
(***************************************************************************)
EXTENDS SpineInvariant, TLAPS

------------------------------------------------------------------------------
(* What each write of SpineStore does to the row it writes and to the others. *)

LEMMA StatusFacts ==
    /\ {"queued", "running", "waiting", "failed", "succeeded"} = MissionStatus
    /\ {"queued", "running", "blocked", "failed", "succeeded"} = TaskStatus
    /\ {"queued", "running", "waiting_input", "failed", "succeeded"} = SubStatus
    /\ {"absent", "pending", "approved", "rejected"} = ApprovalStatus
    /\ {"absent", "running", "succeeded"} = RunStatus
BY DEF MissionStatus, TaskStatus, SubStatus, ApprovalStatus, RunStatus

LEMMA TasksOfSubs == \A s \in Subs : TaskOf[s] \in Tasks
BY DEF Tasks

LEMMA OutputFacts ==
    /\ NoResult \in Outputs
    /\ \A r \in Results : r \in Outputs /\ r # NoResult
    /\ \A r \in Outputs : r # NoResult => r \in Results
    /\ \A r \in ValidResults : r \in Results /\ r \in Outputs /\ r # NoResult
BY StoreAssumption DEF Outputs

(* Nothing written, nothing changed. *)
LEMMA StoreKept ==
    ASSUME StoreTypeOK, UNCHANGED store
    PROVE  StoreTypeOK'
BY DEF StoreTypeOK, store

LEMMA LeaseType ==
    ASSUME StoreTypeOK, NEW w \in Workers, TakeLease(w) \/ DropLease(w)
    PROVE  lease' \in Leases
<1>1. CASE TakeLease(w)
  BY <1>1 DEF TakeLease, Leases
<1>2. CASE DropLease(w)
  <2>1. [lease EXCEPT !.live = FALSE] \in Leases
    BY DEF StoreTypeOK, Leases
  <2> QED
    BY <1>2, <2>1 DEF StoreTypeOK, DropLease
<1> QED
  BY <1>1, <1>2

LEMMA MissionWritten ==
    ASSUME StoreTypeOK, NEW status \in MissionStatus, SetMission(status)
    PROVE  /\ mission' \in MissionRows
           /\ mission'.status = status
           /\ mission'.sources = mission.sources
BY DEF StoreTypeOK, SetMission, MissionRows

LEMMA FinalWritten ==
    ASSUME StoreTypeOK, NEW sources \in SUBSET Subs, InsertFinal(sources)
    PROVE  /\ mission' \in MissionRows
           /\ mission'.sources = IF mission.sources = {} THEN sources ELSE mission.sources
BY StatusFacts DEF StoreTypeOK, InsertFinal, MissionRows

LEMMA TaskWritten ==
    ASSUME StoreTypeOK, NEW t \in Tasks, NEW status \in TaskStatus, SetTask(t, status)
    PROVE  task' \in [Tasks -> TaskStatus]
BY DEF StoreTypeOK, SetTask

LEMMA SubWritten ==
    ASSUME StoreTypeOK, NEW s \in Subs, NEW status \in SubStatus, SetSub(s, status)
    PROVE  /\ sub' \in [Subs -> SubRows]
           /\ \A t \in Subs : t # s => sub'[t] = sub[t]
           /\ sub'[s].status = status
           /\ sub'[s].output = sub[s].output
BY DEF StoreTypeOK, SetSub, SubRows

LEMMA AttemptWritten ==
    ASSUME StoreTypeOK, NEW s \in Subs,
           sub' = [sub EXCEPT ![s].status = "running", ![s].attempts = @ + 1]
    PROVE  /\ sub' \in [Subs -> SubRows]
           /\ \A t \in Subs : t # s => sub'[t] = sub[t]
           /\ sub'[s].status = "running" /\ sub'[s].output = sub[s].output
<1>1. "running" \in SubStatus
  BY StatusFacts
<1> QED
  BY <1>1 DEF StoreTypeOK, SubRows

(* The row of a subtask and its artifact after StoreOutput. *)
LEMMA OutputWritten ==
    ASSUME StoreTypeOK, NEW s \in Subs, NEW result \in Results, NEW tag \in Tags,
           StoreOutput(s, result, tag)
    PROVE  /\ sub' \in [Subs -> SubRows]
           /\ artifact' \in [Subs -> ArtifactRows]
           /\ \A t \in Subs : t # s => sub'[t] = sub[t] /\ artifact'[t] = artifact[t]
           /\ sub'[s].status = "succeeded" /\ sub'[s].output = result
           /\ artifact'[s] = IF HasArtifact(s) THEN artifact[s]
                             ELSE [content |-> result, tag |-> tag]
<1>1. result \in Outputs /\ "succeeded" \in SubStatus
  BY OutputFacts, StatusFacts
<1>2. /\ sub' \in [Subs -> SubRows]
      /\ \A t \in Subs : t # s => sub'[t] = sub[t]
      /\ sub'[s].status = "succeeded" /\ sub'[s].output = result
  BY <1>1 DEF StoreTypeOK, StoreOutput, SubRows
<1>3. /\ artifact' \in [Subs -> ArtifactRows]
      /\ \A t \in Subs : t # s => artifact'[t] = artifact[t]
      /\ artifact'[s] = IF HasArtifact(s) THEN artifact[s]
                        ELSE [content |-> result, tag |-> tag]
  BY <1>1 DEF StoreTypeOK, StoreOutput, ArtifactRows
<1> QED
  BY <1>2, <1>3

LEMMA ReceiptRecorded ==
    ASSUME StoreTypeOK, NEW s \in Subs, RecordReceipt(s)
    PROVE  /\ approval' \in [Subs -> ApprovalRows]
           /\ \A t \in Subs : t # s => approval'[t] = approval[t]
           /\ approval'[s].consumed = approval[s].consumed
           /\ approval'[s].status # approval[s].status =>
                 approval[s].status = "absent" /\ approval'[s].status \in {"approved", "pending"}
<1>1. {"approved", "pending"} \subseteq ApprovalStatus
  BY StatusFacts
<1> QED
  BY <1>1 DEF StoreTypeOK, RecordReceipt, ApprovalRows

LEMMA RunStarted ==
    ASSUME StoreTypeOK, NEW s \in Subs, StartRun(s)
    PROVE  /\ run' \in [Subs -> RunRows] /\ approval' \in [Subs -> ApprovalRows]
           /\ \A t \in Subs : t # s => run'[t] = run[t] /\ approval'[t] = approval[t]
           /\ run[s].status = "absent" /\ run'[s].status = "running"
           /\ run'[s].result = run[s].result
           /\ IF Protected(s) THEN /\ approval[s].status = "approved" /\ ~approval[s].consumed
                                   /\ approval'[s].status = "approved" /\ approval'[s].consumed
              ELSE approval' = approval
<1>1. "running" \in RunStatus
  BY StatusFacts
<1> QED
  BY <1>1 DEF StoreTypeOK, StartRun, ReceiptUsable, RunRows, ApprovalRows

LEMMA RunFinished ==
    ASSUME StoreTypeOK, NEW s \in Subs, NEW result \in Results, FinishRun(s, result)
    PROVE  /\ run' \in [Subs -> RunRows]
           /\ \A t \in Subs : t # s => run'[t] = run[t]
           /\ run[s].status = "running"
           /\ run'[s] = [status |-> "succeeded", result |-> result]
<1>1. "succeeded" \in RunStatus /\ result \in Outputs
  BY StatusFacts, OutputFacts
<1> QED
  BY <1>1 DEF StoreTypeOK, FinishRun, RunRows

LEMMA CheckpointSaved ==
    ASSUME StoreTypeOK, NEW s \in Subs, NEW result \in Results, SaveCheckpoint(s, result)
    PROVE  /\ checkpoint' \in [Subs -> Outputs]
           /\ \A t \in Subs : t # s => checkpoint'[t] = checkpoint[t]
BY OutputFacts DEF StoreTypeOK, SaveCheckpoint

LEMMA AllMoved ==
    ASSUME StoreTypeOK, NEW s \in Subs, NEW status \in SubStatus,
           MoveAll(s, status), status \in TaskStatus, status \in MissionStatus
    PROVE  /\ mission' \in MissionRows /\ mission'.sources = mission.sources
           /\ task' \in [Tasks -> TaskStatus]
           /\ sub' \in [Subs -> SubRows]
           /\ \A t \in Subs : t # s => sub'[t] = sub[t]
           /\ sub'[s].status = status /\ sub'[s].output = sub[s].output
BY MissionWritten, TaskWritten, SubWritten, TasksOfSubs DEF MoveAll

(* The administrator's functions keep the types, and move no succeeded row. *)
LEMMA DecideType ==
    ASSUME StoreTypeOK, NEW s \in Subs, NEW decision \in {"approved", "rejected"},
           Decide(s, decision)
    PROVE  /\ StoreTypeOK'
           /\ \A t \in Subs : /\ sub[t].status = "succeeded" <=> sub'[t].status = "succeeded"
                             /\ sub'[t].output = sub[t].output
           /\ \A t \in Subs : t # s => approval'[t] = approval[t]
           /\ approval[s].status = "pending" /\ approval'[s].status = decision
           /\ approval'[s].consumed = approval[s].consumed
<1> DEFINE status == IF decision = "approved" THEN "queued" ELSE "failed"
<1>1. decision \in ApprovalStatus /\ status \in SubStatus \cap TaskStatus \cap MissionStatus
      /\ status # "succeeded"
  BY StatusFacts
<1>2. /\ approval' \in [Subs -> ApprovalRows]
      /\ \A t \in Subs : t # s => approval'[t] = approval[t]
      /\ approval'[s].status = decision /\ approval'[s].consumed = approval[s].consumed
  BY <1>1 DEF Decide, StoreTypeOK, ApprovalRows
<1>3. MoveAll(s, status)
  BY DEF Decide
<1>4. sub[s].status # "succeeded"
  BY DEF Decide
<1>5. StoreTypeOK'
  <2>1. mission' \in MissionRows /\ task' \in [Tasks -> TaskStatus] /\ sub' \in [Subs -> SubRows]
    BY <1>1, <1>3, AllMoved
  <2> QED
    BY <2>1, <1>2 DEF Decide, StoreTypeOK
<1>6. \A t \in Subs : /\ sub[t].status = "succeeded" <=> sub'[t].status = "succeeded"
                     /\ sub'[t].output = sub[t].output
  BY <1>1, <1>3, <1>4, AllMoved
<1> QED
  BY <1>2, <1>5, <1>6 DEF Decide

LEMMA RenewType ==
    ASSUME StoreTypeOK, NEW s \in Subs, Renew(s) \/ ExpireReceipt(s)
    PROVE  /\ StoreTypeOK'
           /\ \A t \in Subs : /\ approval'[t].status = approval[t].status
                             /\ approval'[t].consumed = approval[t].consumed
           /\ UNCHANGED <<rows, run, checkpoint>>
<1>1. ASSUME NEW b \in BOOLEAN, approval' = [approval EXCEPT ![s].expired = b]
      PROVE  /\ approval' \in [Subs -> ApprovalRows]
             /\ \A t \in Subs : /\ approval'[t].status = approval[t].status
                               /\ approval'[t].consumed = approval[t].consumed
  BY <1>1 DEF StoreTypeOK, ApprovalRows
<1>2. \E b \in BOOLEAN : approval' = [approval EXCEPT ![s].expired = b]
  BY DEF Renew, ExpireReceipt
<1>3. UNCHANGED <<lease, rows, run, checkpoint>>
  BY DEF Renew, ExpireReceipt
<1> QED
  BY <1>1, <1>3, <1>2 DEF StoreTypeOK, rows

LEMMA ReconcileType ==
    ASSUME StoreTypeOK, NEW s \in Subs, NEW result \in Results, Reconcile(s, result)
    PROVE  /\ StoreTypeOK'
           /\ \A t \in Subs : /\ sub[t].status = "succeeded" <=> sub'[t].status = "succeeded"
                             /\ sub'[t].output = sub[t].output
           /\ \A t \in Subs : t # s => run'[t] = run[t]
           /\ run[s].status = "running"
           /\ run'[s] = [status |-> "succeeded", result |-> result]
<1>1. /\ run' \in [Subs -> RunRows]
      /\ \A t \in Subs : t # s => run'[t] = run[t]
      /\ run[s].status = "running"
      /\ run'[s] = [status |-> "succeeded", result |-> result]
  BY RunFinished DEF Reconcile, CanReconcile, FinishRun
<1>2. MoveAll(s, "queued") /\ sub[s].status # "succeeded"
  BY DEF Reconcile, CanReconcile
<1>3. StoreTypeOK'
  <2>1. mission' \in MissionRows /\ task' \in [Tasks -> TaskStatus] /\ sub' \in [Subs -> SubRows]
    BY <1>2, AllMoved, StatusFacts
  <2> QED
    BY <2>1, <1>1 DEF Reconcile, StoreTypeOK
<1>4. \A t \in Subs : /\ sub[t].status = "succeeded" <=> sub'[t].status = "succeeded"
                     /\ sub'[t].output = sub[t].output
  BY <1>2, AllMoved, StatusFacts
<1> QED
  BY <1>1, <1>3, <1>4

LEMMA ResumeType ==
    ASSUME StoreTypeOK, NEW tag \in Tags, Resume(tag)
    PROVE  /\ StoreTypeOK'
           /\ \A t \in Subs : /\ sub[t].status = "succeeded" <=> sub'[t].status = "succeeded"
                             /\ sub'[t].output = sub[t].output
           /\ mission'.sources = mission.sources
<1>1. mission' \in MissionRows /\ mission'.sources = mission.sources
  BY StatusFacts DEF Resume, StoreTypeOK, MissionRows
<1>2. task' \in [Tasks -> TaskStatus]
  BY StatusFacts DEF Resume, StoreTypeOK
<1>3. /\ sub' \in [Subs -> SubRows]
      /\ \A t \in Subs : /\ sub[t].status = "succeeded" <=> sub'[t].status = "succeeded"
                        /\ sub'[t].output = sub[t].output
  BY StatusFacts DEF Resume, StoreTypeOK, SubRows
<1> QED
  BY <1>1, <1>2, <1>3 DEF Resume, StoreTypeOK, ledgers

------------------------------------------------------------------------------
(* Type correctness. *)

PcType == pc \in [Workers -> Labels] /\ faults \in 0..MaxFaults

LEMMA LabelFacts ==
    /\ TryCalls \subseteq Labels
    /\ Calls \subseteq Labels
    /\ {"idle", "acquire", "sub", "release", "fail"} \subseteq Labels
    /\ \A l : OnError(l) \in {"fail", "idle", "release"}
BY DEF Labels, TryCalls, Calls, OnError

(* Worker w has moved to label, or to where its error takes it. *)
Lands(w, label) ==
    /\ PcType'
    /\ \A v \in Workers : v # w => pc'[v] = pc[v]
    /\ pc'[w] \in {label, "fail", "idle", "release"}

LEMMA GotoLands ==
    ASSUME NEW w \in Workers, NEW label \in Labels, pc \in [Workers -> Labels], Goto(w, label)
    PROVE  /\ pc' \in [Workers -> Labels]
           /\ pc'[w] = label
           /\ \A v \in Workers : v # w => pc'[v] = pc[v]
BY DEF Goto

LEMMA ThrowLands ==
    ASSUME NEW w \in Workers, PcType, Throw(w)
    PROVE  \A label : Lands(w, label)
BY LabelFacts, GotoLands DEF Throw, PcType, Lands

LEMMA ReplyLands ==
    ASSUME NEW w \in Workers, NEW label \in Labels, PcType, Reply(w, label)
    PROVE  Lands(w, label)
<1>1. CASE Goto(w, label) /\ UNCHANGED faults
  BY <1>1, GotoLands DEF PcType, Lands
<1>2. CASE faults < MaxFaults /\ faults' = faults + 1 /\ Goto(w, OnError(pc[w]))
  BY <1>2, LabelFacts, GotoLands, WorkerAssumption DEF PcType, Lands
<1> QED
  BY <1>1, <1>2 DEF Reply

LEMMA CallLands ==
    ASSUME NEW w \in Workers, NEW label \in Labels, NEW guard, PcType,
           Refused(w, guard) \/ Accepted(w, guard, label)
    PROVE  Lands(w, label)
BY ThrowLands, ReplyLands DEF Refused, Accepted

(* Reading rows again changes one part of what a worker has read. *)
LEMMA SnapTag ==
    ASSUME snap \in [Workers -> Snapshots], NEW w \in Workers, NEW tag \in Tags,
           snap' = [snap EXCEPT ![w].tag = tag]
    PROVE  /\ snap' \in [Workers -> Snapshots]
           /\ \A v \in Workers : v # w => snap'[v] = snap[v]
           /\ snap'[w].tag = tag /\ snap'[w].plans = snap[w].plans
           /\ snap'[w].subs = snap[w].subs /\ snap'[w].sources = snap[w].sources
BY DEF Snapshots

LEMMA SnapTasks ==
    ASSUME snap \in [Workers -> Snapshots], NEW w \in Workers, NEW n \in 0..MaxPlans,
           NEW tasks \in [Tasks -> TaskStatus],
           snap' = [snap EXCEPT ![w].plans = n, ![w].tasks = tasks]
    PROVE  /\ snap' \in [Workers -> Snapshots]
           /\ \A v \in Workers : v # w => snap'[v] = snap[v]
           /\ snap'[w].tag = snap[w].tag /\ snap'[w].subs = snap[w].subs
           /\ snap'[w].sources = snap[w].sources
BY DEF Snapshots

LEMMA SnapSubs ==
    ASSUME snap \in [Workers -> Snapshots], NEW w \in Workers, NEW subs \in [Subs -> SubSnap],
           snap' = [snap EXCEPT ![w].subs = subs]
    PROVE  /\ snap' \in [Workers -> Snapshots]
           /\ \A v \in Workers : v # w => snap'[v] = snap[v]
           /\ snap'[w].tag = snap[w].tag /\ snap'[w].subs = subs
           /\ snap'[w].sources = snap[w].sources
BY DEF Snapshots

LEMMA SnapSources ==
    ASSUME snap \in [Workers -> Snapshots], NEW w \in Workers, NEW sources \in SUBSET Subs,
           snap' = [snap EXCEPT ![w].sources = sources]
    PROVE  /\ snap' \in [Workers -> Snapshots]
           /\ \A v \in Workers : v # w => snap'[v] = snap[v]
           /\ snap'[w].tag = snap[w].tag /\ snap'[w].subs = snap[w].subs
           /\ snap'[w].sources = sources
BY DEF Snapshots
LEMMA BlankType == Blank \in Snapshots
BY StoreAssumption, StatusFacts DEF Blank, Snapshots, SubSnap

(* The next row exists unless the list ends. *)
LEMMA NextRow ==
    ASSUME cur \in [Workers -> Subs], NEW w \in Workers, ~AtTaskEnd(w) \/ ~AtListEnd(w)
    PROVE  cur[w] + 1 \in Subs
BY StoreAssumption DEF AtTaskEnd, AtListEnd, Subs

LEMMA AdvanceType ==
    ASSUME cur \in [Workers -> Subs], NEW w \in Workers, Advance(w)
    PROVE  cur' \in [Workers -> Subs]
BY NextRow DEF Advance

-----------------------------------------------------------------------------
(* One lemma per step of a worker. *)

LEMMA BeginTypes ==
    ASSUME TypeInv, NEW w \in Workers, Begin(w)
    PROVE  TypeInv'
<1>1. StoreTypeOK'
  BY StoreKept DEF Begin, TypeInv, TypeOK
<1>2. WorkerTypeOK'
  <2>1. PcType'
    BY LabelFacts, GotoLands DEF Begin, TypeInv, TypeOK, WorkerTypeOK, PcType, Calls, TryCalls
  <2> QED
    BY <2>1 DEF Begin, TypeInv, TypeOK, WorkerTypeOK, PcType, KeepLocal, KeepEnv
<1>3. LocalInv'
  BY OutputFacts DEF Begin, TypeInv, TypeOK, WorkerTypeOK, LocalInv, Trying, ToolCalls, AgentCalls, TryCalls, Goto, KeepLocal
<1> QED
  BY <1>1, <1>2, <1>3 DEF TypeInv, TypeOK

LEMMA OpenTypes ==
    ASSUME TypeInv, NEW w \in Workers, Open(w)
    PROVE  TypeInv'
<1>1. StoreTypeOK'
  BY StoreKept DEF Open, TypeInv, TypeOK
<1>2. WorkerTypeOK'
  <2>1. PcType'
    BY LabelFacts, CallLands, GotoLands, ThrowLands, ReplyLands DEF Open, TypeInv, TypeOK, WorkerTypeOK, PcType, Calls, TryCalls, Publish, Lands
  <2>2. snap' \in [Workers -> Snapshots]
    BY SnapTag DEF Open, TypeInv, TypeOK, WorkerTypeOK, StoreTypeOK, MissionRows
  <2> QED
    BY <2>1, <2>2 DEF Open, TypeInv, TypeOK, WorkerTypeOK, PcType, KeepEnv
<1>3. LocalInv'
  BY OutputFacts DEF Open, TypeInv, TypeOK, WorkerTypeOK, LocalInv, Trying, ToolCalls, AgentCalls, TryCalls, Goto, Publish, Refused, Accepted, Reply, Throw, OnError, KeepLocal
<1> QED
  BY <1>1, <1>2, <1>3 DEF TypeInv, TypeOK

LEMMA LoadTasksTypes ==
    ASSUME TypeInv, NEW w \in Workers, LoadTasks(w)
    PROVE  TypeInv'
<1>1. StoreTypeOK'
  BY StoreKept DEF LoadTasks, ReadTasks, TypeInv, TypeOK
<1>2. WorkerTypeOK'
  <2>1. PcType'
    BY LabelFacts, GotoLands DEF LoadTasks, ReadTasks, TypeInv, TypeOK, WorkerTypeOK, PcType, Calls, TryCalls
  <2>2. snap' \in [Workers -> Snapshots]
    BY SnapTasks DEF LoadTasks, ReadTasks, TypeInv, TypeOK, WorkerTypeOK, StoreTypeOK
  <2> QED
    BY <2>1, <2>2 DEF LoadTasks, ReadTasks, TypeInv, TypeOK, WorkerTypeOK, PcType, KeepEnv
<1>3. LocalInv'
  BY OutputFacts DEF LoadTasks, ReadTasks, TypeInv, TypeOK, WorkerTypeOK, LocalInv, Trying, ToolCalls, AgentCalls, TryCalls, Goto, KeepLocal
<1> QED
  BY <1>1, <1>2, <1>3 DEF TypeInv, TypeOK

LEMMA PlanTypes ==
    ASSUME TypeInv, NEW w \in Workers, Plan(w)
    PROVE  TypeInv'
<1>1. StoreTypeOK'
  BY StoreKept DEF Plan, TypeInv, TypeOK
<1>2. WorkerTypeOK'
  <2>1. PcType'
    BY LabelFacts, GotoLands DEF Plan, TypeInv, TypeOK, WorkerTypeOK, PcType, Calls, TryCalls
  <2> QED
    BY <2>1 DEF Plan, TypeInv, TypeOK, WorkerTypeOK, PcType, KeepLocal, KeepEnv
<1>3. LocalInv'
  BY OutputFacts DEF Plan, TypeInv, TypeOK, WorkerTypeOK, LocalInv, Trying, ToolCalls, AgentCalls, TryCalls, Goto, KeepLocal
<1> QED
  BY <1>1, <1>2, <1>3 DEF TypeInv, TypeOK

LEMMA ReloadTypes ==
    ASSUME TypeInv, NEW w \in Workers, Reload(w)
    PROVE  TypeInv'
<1>1. StoreTypeOK'
  BY StoreKept DEF Reload, ReadTasks, TypeInv, TypeOK
<1>2. WorkerTypeOK'
  <2>1. PcType'
    BY LabelFacts, GotoLands DEF Reload, ReadTasks, TypeInv, TypeOK, WorkerTypeOK, PcType, Calls, TryCalls
  <2>2. snap' \in [Workers -> Snapshots]
    BY SnapTasks DEF Reload, ReadTasks, TypeInv, TypeOK, WorkerTypeOK, StoreTypeOK
  <2> QED
    BY <2>1, <2>2 DEF Reload, ReadTasks, TypeInv, TypeOK, WorkerTypeOK, PcType, KeepEnv
<1>3. LocalInv'
  BY OutputFacts DEF Reload, ReadTasks, TypeInv, TypeOK, WorkerTypeOK, LocalInv, Trying, ToolCalls, AgentCalls, TryCalls, Goto, KeepLocal
<1> QED
  BY <1>1, <1>2, <1>3 DEF TypeInv, TypeOK

LEMMA LoadSubsTypes ==
    ASSUME TypeInv, NEW w \in Workers, LoadSubs(w)
    PROVE  TypeInv'
<1>1. StoreTypeOK'
  BY StoreKept DEF LoadSubs, TypeInv, TypeOK
<1>2. WorkerTypeOK'
  <2>1. PcType'
    BY LabelFacts, GotoLands DEF LoadSubs, TypeInv, TypeOK, WorkerTypeOK, PcType, Calls, TryCalls
  <2>2. snap' \in [Workers -> Snapshots]
    BY SnapSubs, StatusFacts DEF LoadSubs, TypeInv, TypeOK, WorkerTypeOK, StoreTypeOK, SubSnap, SubRows
  <2> QED
    BY <2>1, <2>2 DEF LoadSubs, TypeInv, TypeOK, WorkerTypeOK, PcType, KeepEnv
<1>3. LocalInv'
  BY OutputFacts DEF LoadSubs, TypeInv, TypeOK, WorkerTypeOK, LocalInv, Trying, ToolCalls, AgentCalls, TryCalls, Goto, KeepLocal
<1> QED
  BY <1>1, <1>2, <1>3 DEF TypeInv, TypeOK

LEMMA GatherTypes ==
    ASSUME TypeInv, NEW w \in Workers, Gather(w)
    PROVE  TypeInv'
<1>1. StoreTypeOK'
  BY StoreKept DEF Gather, TypeInv, TypeOK
<1>2. WorkerTypeOK'
  <2>1. PcType'
    BY LabelFacts, GotoLands DEF Gather, TypeInv, TypeOK, WorkerTypeOK, PcType, Calls, TryCalls
  <2>2. {s \in Subs : HasArtifact(s)} \in SUBSET Subs
    BY DEF HasArtifact
  <2>3. snap' \in [Workers -> Snapshots]
    BY <2>2, SnapSources DEF Gather, TypeInv, TypeOK, WorkerTypeOK, StoreTypeOK
  <2> QED
    BY <2>1, <2>2, <2>3 DEF Gather, TypeInv, TypeOK, WorkerTypeOK, PcType, KeepEnv
<1>3. LocalInv'
  BY OutputFacts DEF Gather, TypeInv, TypeOK, WorkerTypeOK, LocalInv, Trying, ToolCalls, AgentCalls, TryCalls, Goto, KeepLocal
<1> QED
  BY <1>1, <1>2, <1>3 DEF TypeInv, TypeOK

LEMMA VisitTypes ==
    ASSUME TypeInv, NEW w \in Workers, Visit(w)
    PROVE  TypeInv'
<1>1. StoreTypeOK'
  BY StoreKept DEF Visit, AfterSub, TypeInv, TypeOK
<1>2. WorkerTypeOK'
  <2>1. PcType'
    BY LabelFacts, GotoLands DEF Visit, AfterSub, TypeInv, TypeOK, WorkerTypeOK, PcType, Calls, TryCalls
  <2>2. cur' \in [Workers -> Subs]
    BY AdvanceType DEF Visit, TypeInv, TypeOK, WorkerTypeOK
  <2> QED
    BY <2>1, <2>2 DEF Visit, AfterSub, TypeInv, TypeOK, WorkerTypeOK, PcType, KeepEnv
<1>3. LocalInv'
  BY OutputFacts DEF Visit, AfterSub, TypeInv, TypeOK, WorkerTypeOK, LocalInv, Trying, ToolCalls, AgentCalls, TryCalls, Goto, KeepLocal, Advance
<1> QED
  BY <1>1, <1>2, <1>3 DEF TypeInv, TypeOK

LEMMA RecoverTypes ==
    ASSUME TypeInv, NEW w \in Workers, Recover(w)
    PROVE  TypeInv'
<1>1. StoreTypeOK'
  BY StoreKept DEF Recover, TypeInv, TypeOK
<1>2. WorkerTypeOK'
  <2>1. PcType'
    BY LabelFacts, GotoLands DEF Recover, TypeInv, TypeOK, WorkerTypeOK, PcType, Calls, TryCalls
  <2>2. attempt' \in [Workers -> Nat]
    BY DEF Recover, TypeInv, TypeOK, WorkerTypeOK, Snapshots, SubSnap
  <2>3. out' \in [Workers -> Outputs]
    BY DEF Recover, TypeInv, TypeOK, WorkerTypeOK, StoreTypeOK, Recorded, RunRows
  <2> QED
    BY <2>1, <2>2, <2>3 DEF Recover, TypeInv, TypeOK, WorkerTypeOK, PcType, KeepEnv
<1>3. LocalInv'
  BY OutputFacts DEF Recover, TypeInv, TypeOK, WorkerTypeOK, LocalInv, Trying, ToolCalls, AgentCalls, TryCalls, Goto, KeepLocal, Snapshots, SubSnap
<1> QED
  BY <1>1, <1>2, <1>3 DEF TypeInv, TypeOK

LEMMA PriorTypes ==
    ASSUME TypeInv, NEW w \in Workers, Prior(w)
    PROVE  TypeInv'
<1>1. StoreTypeOK'
  BY StoreKept DEF Prior, TypeInv, TypeOK
<1>2. WorkerTypeOK'
  <2>1. PcType'
    BY LabelFacts, GotoLands DEF Prior, TypeInv, TypeOK, WorkerTypeOK, PcType, Calls, TryCalls
  <2>2. out' \in [Workers -> Outputs]
    BY DEF Prior, TypeInv, TypeOK, WorkerTypeOK, StoreTypeOK, RunRows
  <2> QED
    BY <2>1, <2>2 DEF Prior, TypeInv, TypeOK, WorkerTypeOK, PcType, KeepEnv
<1>3. LocalInv'
  BY OutputFacts DEF Prior, TypeInv, TypeOK, WorkerTypeOK, LocalInv, Trying, ToolCalls, AgentCalls, TryCalls, Goto, KeepLocal
<1> QED
  BY <1>1, <1>2, <1>3 DEF TypeInv, TypeOK

LEMMA EffectTypes ==
    ASSUME TypeInv, NEW w \in Workers, Effect(w)
    PROVE  TypeInv'
<1>1. StoreTypeOK'
  BY StoreKept DEF Effect, TypeInv, TypeOK
<1>2. WorkerTypeOK'
  <2>1. PcType'
    BY LabelFacts, GotoLands DEF Effect, TypeInv, TypeOK, WorkerTypeOK, PcType, Calls, TryCalls
  <2>2. out' \in [Workers -> Outputs]
    BY OutputFacts DEF Effect, TypeInv, TypeOK, WorkerTypeOK
  <2>3. effects' \in [Subs -> Nat]
    BY DEF Effect, Perform, TypeInv, TypeOK, WorkerTypeOK
  <2> QED
    BY <2>1, <2>2, <2>3 DEF Effect, TypeInv, TypeOK, WorkerTypeOK, PcType, KeepEnv
<1>3. LocalInv'
  BY OutputFacts DEF Effect, TypeInv, TypeOK, WorkerTypeOK, LocalInv, Trying, ToolCalls, AgentCalls, TryCalls, Goto, KeepLocal
<1> QED
  BY <1>1, <1>2, <1>3 DEF TypeInv, TypeOK

LEMMA ModelTypes ==
    ASSUME TypeInv, NEW w \in Workers, Model(w)
    PROVE  TypeInv'
<1>1. StoreTypeOK'
  BY StoreKept DEF Model, TypeInv, TypeOK
<1>2. WorkerTypeOK'
  <2>1. PcType'
    BY LabelFacts, GotoLands DEF Model, TypeInv, TypeOK, WorkerTypeOK, PcType, Calls, TryCalls
  <2>2. out' \in [Workers -> Outputs]
    BY OutputFacts DEF Model, TypeInv, TypeOK, WorkerTypeOK
  <2> QED
    BY <2>1, <2>2 DEF Model, TypeInv, TypeOK, WorkerTypeOK, PcType, KeepEnv
<1>3. LocalInv'
  BY OutputFacts DEF Model, TypeInv, TypeOK, WorkerTypeOK, LocalInv, Trying, ToolCalls, AgentCalls, TryCalls, Goto, KeepLocal
<1> QED
  BY <1>1, <1>2, <1>3 DEF TypeInv, TypeOK

LEMMA EvaluateTypes ==
    ASSUME TypeInv, NEW w \in Workers, Evaluate(w)
    PROVE  TypeInv'
<1>1. StoreTypeOK'
  BY StoreKept DEF Evaluate, TypeInv, TypeOK
<1>2. WorkerTypeOK'
  <2>1. PcType'
    BY LabelFacts, GotoLands DEF Evaluate, TypeInv, TypeOK, WorkerTypeOK, PcType, Calls, TryCalls
  <2> QED
    BY <2>1 DEF Evaluate, TypeInv, TypeOK, WorkerTypeOK, PcType, KeepLocal, KeepEnv
<1>3. LocalInv'
  BY OutputFacts DEF Evaluate, TypeInv, TypeOK, WorkerTypeOK, LocalInv, Trying, ToolCalls, AgentCalls, TryCalls, Goto, KeepLocal
<1> QED
  BY <1>1, <1>2, <1>3 DEF TypeInv, TypeOK

LEMMA AssignTypes ==
    ASSUME TypeInv, NEW w \in Workers, Assign(w)
    PROVE  TypeInv'
<1>1. StoreTypeOK'
  BY StoreKept DEF Assign, TypeInv, TypeOK, Publish, Refused, Accepted
<1>2. WorkerTypeOK'
  <2>1. PcType'
    BY LabelFacts, CallLands DEF Assign, TypeInv, TypeOK, WorkerTypeOK, PcType, Calls, TryCalls, Publish, Lands
  <2> QED
    BY <2>1 DEF Assign, TypeInv, TypeOK, WorkerTypeOK, PcType, KeepLocal, KeepEnv, Publish
<1>3. LocalInv'
  BY OutputFacts DEF Assign, TypeInv, TypeOK, WorkerTypeOK, LocalInv, Trying, ToolCalls, AgentCalls, TryCalls, Goto, Publish, Refused, Accepted, Reply, Throw, OnError, KeepLocal
<1> QED
  BY <1>1, <1>2, <1>3 DEF TypeInv, TypeOK

LEMMA RecordTypes ==
    ASSUME TypeInv, NEW w \in Workers, Record(w)
    PROVE  TypeInv'
<1>1. StoreTypeOK'
  BY StoreKept DEF Record, TypeInv, TypeOK, Publish, Refused, Accepted
<1>2. WorkerTypeOK'
  <2>1. PcType'
    BY LabelFacts, CallLands DEF Record, TypeInv, TypeOK, WorkerTypeOK, PcType, Calls, TryCalls, Publish, Lands
  <2> QED
    BY <2>1 DEF Record, TypeInv, TypeOK, WorkerTypeOK, PcType, KeepLocal, KeepEnv, Publish
<1>3. LocalInv'
  BY OutputFacts DEF Record, TypeInv, TypeOK, WorkerTypeOK, LocalInv, Trying, ToolCalls, AgentCalls, TryCalls, Goto, Publish, Refused, Accepted, Reply, Throw, OnError, KeepLocal
<1> QED
  BY <1>1, <1>2, <1>3 DEF TypeInv, TypeOK

LEMMA CandidateTypes ==
    ASSUME TypeInv, NEW w \in Workers, Candidate(w)
    PROVE  TypeInv'
<1>1. StoreTypeOK'
  BY StoreKept DEF Candidate, Validated, TypeInv, TypeOK, Publish, Refused, Accepted
<1>2. WorkerTypeOK'
  <2>1. PcType'
    BY LabelFacts, CallLands DEF Candidate, Validated, TypeInv, TypeOK, WorkerTypeOK, PcType, Calls, TryCalls, Publish, Lands
  <2> QED
    BY <2>1 DEF Candidate, Validated, TypeInv, TypeOK, WorkerTypeOK, PcType, KeepLocal, KeepEnv, Publish
<1>3. LocalInv'
  BY OutputFacts DEF Candidate, Validated, TypeInv, TypeOK, WorkerTypeOK, LocalInv, Trying, ToolCalls, AgentCalls, TryCalls, Goto, Publish, Refused, Accepted, Reply, Throw, OnError, KeepLocal
<1> QED
  BY <1>1, <1>2, <1>3 DEF TypeInv, TypeOK

LEMMA SuperviseTypes ==
    ASSUME TypeInv, NEW w \in Workers, Supervise(w)
    PROVE  TypeInv'
<1>1. StoreTypeOK'
  BY StoreKept DEF Supervise, TypeInv, TypeOK, Publish, Refused, Accepted
<1>2. WorkerTypeOK'
  <2>1. PcType'
    BY LabelFacts, CallLands DEF Supervise, TypeInv, TypeOK, WorkerTypeOK, PcType, Calls, TryCalls, Publish, Lands
  <2> QED
    BY <2>1 DEF Supervise, TypeInv, TypeOK, WorkerTypeOK, PcType, KeepLocal, KeepEnv, Publish
<1>3. LocalInv'
  BY OutputFacts DEF Supervise, TypeInv, TypeOK, WorkerTypeOK, LocalInv, Trying, ToolCalls, AgentCalls, TryCalls, Goto, Publish, Refused, Accepted, Reply, Throw, OnError, KeepLocal
<1> QED
  BY <1>1, <1>2, <1>3 DEF TypeInv, TypeOK

LEMMA ReviewTypes ==
    ASSUME TypeInv, NEW w \in Workers, Review(w)
    PROVE  TypeInv'
<1>1. StoreTypeOK'
  BY StoreKept DEF Review, Publish, Refused, Accepted, TypeInv, TypeOK
<1>2. WorkerTypeOK'
  <2>1. PcType'
    BY LabelFacts, CallLands, GotoLands, ThrowLands, ReplyLands DEF Review, TypeInv, TypeOK, WorkerTypeOK, PcType, Calls, TryCalls, Publish, Lands
  <2> QED
    BY <2>1 DEF Review, TypeInv, TypeOK, WorkerTypeOK, PcType, KeepLocal, KeepEnv, Publish
<1>3. LocalInv'
  BY OutputFacts DEF Review, TypeInv, TypeOK, WorkerTypeOK, LocalInv, Trying, ToolCalls, AgentCalls, TryCalls, Goto, Publish, Refused, Accepted, Reply, Throw, OnError, KeepLocal
<1> QED
  BY <1>1, <1>2, <1>3 DEF TypeInv, TypeOK

LEMMA InvokeTypes ==
    ASSUME TypeInv, NEW w \in Workers, Invoke(w)
    PROVE  TypeInv'
<1>1. StoreTypeOK'
  BY StoreKept DEF Invoke, Publish, Refused, Accepted, TypeInv, TypeOK
<1>2. WorkerTypeOK'
  <2>1. PcType'
    BY LabelFacts, CallLands, GotoLands, ThrowLands, ReplyLands DEF Invoke, TypeInv, TypeOK, WorkerTypeOK, PcType, Calls, TryCalls, Publish, Lands
  <2>2. out' \in [Workers -> Outputs]
    BY DEF Invoke, KeepLocal, TypeInv, TypeOK, WorkerTypeOK, StoreTypeOK
  <2> QED
    BY <2>1, <2>2 DEF Invoke, TypeInv, TypeOK, WorkerTypeOK, PcType, KeepLocal, KeepEnv, Publish
<1>3. LocalInv'
  BY OutputFacts DEF Invoke, TypeInv, TypeOK, WorkerTypeOK, LocalInv, Trying, ToolCalls, AgentCalls, TryCalls, Goto, Publish, Refused, Accepted, Reply, Throw, OnError, KeepLocal
<1> QED
  BY <1>1, <1>2, <1>3 DEF TypeInv, TypeOK

LEMMA CommitPlanTypes ==
    ASSUME TypeInv, NEW w \in Workers, CommitPlan(w)
    PROVE  TypeInv'
<1>1. StoreTypeOK'
  <2>1. CASE UNCHANGED store
    BY <2>1, StoreKept DEF TypeInv, TypeOK
  <2>2. CASE InsertPlan /\ plans < MaxPlans /\ UNCHANGED <<lease, ledgers>>
    BY <2>2, MissionWritten, StatusFacts, StoreAssumption DEF InsertPlan, TypeInv, TypeOK, StoreTypeOK, ledgers
  <2> QED
    BY <2>1, <2>2 DEF CommitPlan, Refused
<1>2. WorkerTypeOK'
  <2>1. PcType'
    BY LabelFacts, CallLands, GotoLands DEF CommitPlan, TypeInv, TypeOK, WorkerTypeOK, PcType, Calls, TryCalls, Lands
  <2> QED
    BY <2>1 DEF CommitPlan, TypeInv, TypeOK, WorkerTypeOK, PcType, KeepLocal, KeepEnv
<1>3. LocalInv'
  BY OutputFacts DEF CommitPlan, TypeInv, TypeOK, WorkerTypeOK, LocalInv, Trying, ToolCalls, AgentCalls, TryCalls, Goto, Refused, Accepted, Reply, Throw, OnError, KeepLocal
<1> QED
  BY <1>1, <1>2, <1>3 DEF TypeInv, TypeOK

LEMMA RunTypes ==
    ASSUME TypeInv, NEW w \in Workers, Run(w)
    PROVE  TypeInv'
<1>1. StoreTypeOK'
  <2>1. CASE UNCHANGED store
    BY <2>1, StoreKept DEF TypeInv, TypeOK
  <2>2. CASE /\ SetMission("running")
               /\ UNCHANGED <<lease, plans, task, sub, artifact, ledgers>>
    BY <2>2, MissionWritten, StatusFacts DEF TypeInv, TypeOK, StoreTypeOK, ledgers
  <2> QED
    BY <2>1, <2>2 DEF Run, WriteMission, Refused
<1>2. WorkerTypeOK'
  <2>1. PcType'
    BY LabelFacts, CallLands, GotoLands DEF Run, WriteMission, TypeInv, TypeOK, WorkerTypeOK, PcType, Calls, TryCalls, Lands
  <2> QED
    BY <2>1 DEF Run, WriteMission, TypeInv, TypeOK, WorkerTypeOK, PcType, KeepLocal, KeepEnv
<1>3. LocalInv'
  BY OutputFacts DEF Run, WriteMission, TypeInv, TypeOK, WorkerTypeOK, LocalInv, Trying, ToolCalls, AgentCalls, TryCalls, Goto, Refused, Accepted, Reply, Throw, OnError, KeepLocal
<1> QED
  BY <1>1, <1>2, <1>3 DEF TypeInv, TypeOK

LEMMA ParkTypes ==
    ASSUME TypeInv, NEW w \in Workers, Park(w)
    PROVE  TypeInv'
<1>1. StoreTypeOK'
  <2>1. CASE UNCHANGED store
    BY <2>1, StoreKept DEF TypeInv, TypeOK
  <2>2. CASE /\ SetMission("waiting")
               /\ UNCHANGED <<lease, plans, task, sub, artifact, ledgers>>
    BY <2>2, MissionWritten, StatusFacts DEF TypeInv, TypeOK, StoreTypeOK, ledgers
  <2> QED
    BY <2>1, <2>2 DEF Park, WriteMission, Refused
<1>2. WorkerTypeOK'
  <2>1. PcType'
    BY LabelFacts, CallLands, GotoLands DEF Park, WriteMission, TypeInv, TypeOK, WorkerTypeOK, PcType, Calls, TryCalls, Lands
  <2> QED
    BY <2>1 DEF Park, WriteMission, TypeInv, TypeOK, WorkerTypeOK, PcType, KeepLocal, KeepEnv
<1>3. LocalInv'
  BY OutputFacts DEF Park, WriteMission, TypeInv, TypeOK, WorkerTypeOK, LocalInv, Trying, ToolCalls, AgentCalls, TryCalls, Goto, Refused, Accepted, Reply, Throw, OnError, KeepLocal
<1> QED
  BY <1>1, <1>2, <1>3 DEF TypeInv, TypeOK

LEMMA AbortTypes ==
    ASSUME TypeInv, NEW w \in Workers, Abort(w)
    PROVE  TypeInv'
<1>1. StoreTypeOK'
  <2>1. CASE UNCHANGED store
    BY <2>1, StoreKept DEF TypeInv, TypeOK
  <2>2. CASE /\ SetMission("failed")
               /\ UNCHANGED <<lease, plans, task, sub, artifact, ledgers>>
    BY <2>2, MissionWritten, StatusFacts DEF TypeInv, TypeOK, StoreTypeOK, ledgers
  <2> QED
    BY <2>1, <2>2 DEF Abort, WriteMission, Refused
<1>2. WorkerTypeOK'
  <2>1. PcType'
    BY LabelFacts, CallLands, GotoLands DEF Abort, WriteMission, TypeInv, TypeOK, WorkerTypeOK, PcType, Calls, TryCalls, Lands
  <2> QED
    BY <2>1 DEF Abort, WriteMission, TypeInv, TypeOK, WorkerTypeOK, PcType, KeepLocal, KeepEnv
<1>3. LocalInv'
  BY OutputFacts DEF Abort, WriteMission, TypeInv, TypeOK, WorkerTypeOK, LocalInv, Trying, ToolCalls, AgentCalls, TryCalls, Goto, Refused, Accepted, Reply, Throw, OnError, KeepLocal
<1> QED
  BY <1>1, <1>2, <1>3 DEF TypeInv, TypeOK

LEMMA EnterTaskTypes ==
    ASSUME TypeInv, NEW w \in Workers, EnterTask(w)
    PROVE  TypeInv'
<1>1. StoreTypeOK'
  <2>1. CASE UNCHANGED store
    BY <2>1, StoreKept DEF TypeInv, TypeOK
  <2>2. CASE /\ SetTask(TaskAt(w), "running")
               /\ UNCHANGED <<lease, mission, plans, sub, artifact, ledgers>>
    BY <2>2, TaskWritten, TasksOfSubs, StatusFacts DEF TaskAt, WorkerTypeOK, TypeInv, TypeOK, StoreTypeOK, ledgers
  <2> QED
    BY <2>1, <2>2 DEF EnterTask, WriteTask, Refused
<1>2. WorkerTypeOK'
  <2>1. PcType'
    BY LabelFacts, CallLands, GotoLands DEF EnterTask, WriteTask, TypeInv, TypeOK, WorkerTypeOK, PcType, Calls, TryCalls, Lands
  <2> QED
    BY <2>1 DEF EnterTask, WriteTask, TypeInv, TypeOK, WorkerTypeOK, PcType, KeepLocal, KeepEnv
<1>3. LocalInv'
  BY OutputFacts DEF EnterTask, WriteTask, TypeInv, TypeOK, WorkerTypeOK, LocalInv, Trying, ToolCalls, AgentCalls, TryCalls, Goto, Refused, Accepted, Reply, Throw, OnError, KeepLocal
<1> QED
  BY <1>1, <1>2, <1>3 DEF TypeInv, TypeOK

LEMMA BlockTaskTypes ==
    ASSUME TypeInv, NEW w \in Workers, BlockTask(w)
    PROVE  TypeInv'
<1>1. StoreTypeOK'
  <2>1. CASE UNCHANGED store
    BY <2>1, StoreKept DEF TypeInv, TypeOK
  <2>2. CASE /\ SetTask(TaskAt(w), "blocked")
               /\ UNCHANGED <<lease, mission, plans, sub, artifact, ledgers>>
    BY <2>2, TaskWritten, TasksOfSubs, StatusFacts DEF TaskAt, WorkerTypeOK, TypeInv, TypeOK, StoreTypeOK, ledgers
  <2> QED
    BY <2>1, <2>2 DEF BlockTask, WriteTask, Refused
<1>2. WorkerTypeOK'
  <2>1. PcType'
    BY LabelFacts, CallLands, GotoLands DEF BlockTask, WriteTask, TypeInv, TypeOK, WorkerTypeOK, PcType, Calls, TryCalls, Lands
  <2> QED
    BY <2>1 DEF BlockTask, WriteTask, TypeInv, TypeOK, WorkerTypeOK, PcType, KeepLocal, KeepEnv
<1>3. LocalInv'
  BY OutputFacts DEF BlockTask, WriteTask, TypeInv, TypeOK, WorkerTypeOK, LocalInv, Trying, ToolCalls, AgentCalls, TryCalls, Goto, Refused, Accepted, Reply, Throw, OnError, KeepLocal
<1> QED
  BY <1>1, <1>2, <1>3 DEF TypeInv, TypeOK

LEMMA AttemptTypes ==
    ASSUME TypeInv, NEW w \in Workers, Attempt(w)
    PROVE  TypeInv'
<1>1. StoreTypeOK'
  <2>1. CASE UNCHANGED store
    BY <2>1, StoreKept DEF TypeInv, TypeOK
  <2>2. CASE /\ sub' = [sub EXCEPT ![cur[w]].status = "running", ![cur[w]].attempts = @ + 1]
               /\ UNCHANGED <<lease, mission, plans, task, artifact, ledgers>>
    BY <2>2, AttemptWritten DEF WorkerTypeOK, TypeInv, TypeOK, StoreTypeOK, ledgers
  <2> QED
    BY <2>1, <2>2 DEF Attempt, Refused
<1>2. WorkerTypeOK'
  <2>1. PcType'
    BY LabelFacts, CallLands, GotoLands DEF Attempt, TypeInv, TypeOK, WorkerTypeOK, PcType, Calls, TryCalls, Lands
  <2> QED
    BY <2>1 DEF Attempt, TypeInv, TypeOK, WorkerTypeOK, PcType, KeepLocal, KeepEnv
<1>3. LocalInv'
  BY OutputFacts DEF Attempt, TypeInv, TypeOK, WorkerTypeOK, LocalInv, Trying, ToolCalls, AgentCalls, TryCalls, Goto, Refused, Accepted, Reply, Throw, OnError, KeepLocal
<1> QED
  BY <1>1, <1>2, <1>3 DEF TypeInv, TypeOK

LEMMA ReceiptTypes ==
    ASSUME TypeInv, NEW w \in Workers, Receipt(w)
    PROVE  TypeInv'
<1>1. StoreTypeOK'
  BY ReceiptRecorded DEF Receipt, WorkerTypeOK, rows, TypeInv, TypeOK, StoreTypeOK
<1>2. WorkerTypeOK'
  <2>1. PcType'
    BY LabelFacts, CallLands, GotoLands, ThrowLands, ReplyLands DEF Receipt, TypeInv, TypeOK, WorkerTypeOK, PcType, Calls, TryCalls, Publish, Lands
  <2> QED
    BY <2>1 DEF Receipt, TypeInv, TypeOK, WorkerTypeOK, PcType, KeepLocal, KeepEnv
<1>3. LocalInv'
  BY OutputFacts DEF Receipt, TypeInv, TypeOK, WorkerTypeOK, LocalInv, Trying, ToolCalls, AgentCalls, TryCalls, Goto, Publish, Refused, Accepted, Reply, Throw, OnError, KeepLocal
<1> QED
  BY <1>1, <1>2, <1>3 DEF TypeInv, TypeOK

LEMMA StartToolTypes ==
    ASSUME TypeInv, NEW w \in Workers, StartTool(w)
    PROVE  TypeInv'
<1>1. StoreTypeOK'
  <2>1. CASE UNCHANGED store
    BY <2>1, StoreKept DEF TypeInv, TypeOK
  <2>2. CASE StartRun(cur[w]) /\ UNCHANGED <<lease, rows, checkpoint>>
    BY <2>2, RunStarted DEF WorkerTypeOK, rows, TypeInv, TypeOK, StoreTypeOK, ledgers
  <2> QED
    BY <2>1, <2>2 DEF StartTool, Refused
<1>2. WorkerTypeOK'
  <2>1. PcType'
    BY LabelFacts, CallLands, GotoLands, ThrowLands, ReplyLands DEF StartTool, TypeInv, TypeOK, WorkerTypeOK, PcType, Calls, TryCalls, Publish, Lands
  <2> QED
    BY <2>1 DEF StartTool, TypeInv, TypeOK, WorkerTypeOK, PcType, KeepLocal, KeepEnv
<1>3. LocalInv'
  BY OutputFacts DEF StartTool, TypeInv, TypeOK, WorkerTypeOK, LocalInv, Trying, ToolCalls, AgentCalls, TryCalls, Goto, Publish, Refused, Accepted, Reply, Throw, OnError, KeepLocal
<1> QED
  BY <1>1, <1>2, <1>3 DEF TypeInv, TypeOK

LEMMA FinishToolTypes ==
    ASSUME TypeInv, NEW w \in Workers, FinishTool(w)
    PROVE  TypeInv'
<1>1. StoreTypeOK'
  <2>1. CASE UNCHANGED store
    BY <2>1, StoreKept DEF TypeInv, TypeOK
  <2>2. CASE FinishRun(cur[w], out[w]) /\ pc[w] = "finish" /\ UNCHANGED <<lease, rows, approval, checkpoint>>
    BY <2>2, RunFinished DEF WorkerTypeOK, LocalInv, rows, TypeInv, TypeOK, StoreTypeOK, ledgers
  <2> QED
    BY <2>1, <2>2 DEF FinishTool, Refused
<1>2. WorkerTypeOK'
  <2>1. PcType'
    BY LabelFacts, CallLands, GotoLands, ThrowLands, ReplyLands DEF FinishTool, TypeInv, TypeOK, WorkerTypeOK, PcType, Calls, TryCalls, Publish, Lands
  <2> QED
    BY <2>1 DEF FinishTool, TypeInv, TypeOK, WorkerTypeOK, PcType, KeepLocal, KeepEnv
<1>3. LocalInv'
  BY OutputFacts DEF FinishTool, TypeInv, TypeOK, WorkerTypeOK, LocalInv, Trying, ToolCalls, AgentCalls, TryCalls, Goto, Publish, Refused, Accepted, Reply, Throw, OnError, KeepLocal
<1> QED
  BY <1>1, <1>2, <1>3 DEF TypeInv, TypeOK

LEMMA CheckpointTypes ==
    ASSUME TypeInv, NEW w \in Workers, Checkpoint(w)
    PROVE  TypeInv'
<1>1. StoreTypeOK'
  <2>1. CASE UNCHANGED store
    BY <2>1, StoreKept DEF TypeInv, TypeOK
  <2>2. CASE SaveCheckpoint(cur[w], out[w]) /\ pc[w] = "checkpoint"
               /\ UNCHANGED <<lease, rows, approval, run>>
    BY <2>2, CheckpointSaved DEF WorkerTypeOK, LocalInv, rows, TypeInv, TypeOK, StoreTypeOK, ledgers
  <2> QED
    BY <2>1, <2>2 DEF Checkpoint, Refused
<1>2. WorkerTypeOK'
  <2>1. PcType'
    BY LabelFacts, CallLands, GotoLands DEF Checkpoint, Validated, TypeInv, TypeOK, WorkerTypeOK, PcType, Calls, TryCalls, Lands
  <2> QED
    BY <2>1 DEF Checkpoint, Validated, TypeInv, TypeOK, WorkerTypeOK, PcType, KeepLocal, KeepEnv
<1>3. LocalInv'
  BY OutputFacts DEF Checkpoint, Validated, TypeInv, TypeOK, WorkerTypeOK, LocalInv, Trying, ToolCalls, AgentCalls, TryCalls, Goto, Refused, Accepted, Reply, Throw, OnError, KeepLocal
<1> QED
  BY <1>1, <1>2, <1>3 DEF TypeInv, TypeOK

LEMMA PauseTypes ==
    ASSUME TypeInv, NEW w \in Workers, Pause(w)
    PROVE  TypeInv'
<1>1. StoreTypeOK'
  <2>1. CASE UNCHANGED store
    BY <2>1, StoreKept DEF TypeInv, TypeOK
  <2>2. CASE /\ sub' = [sub EXCEPT ![cur[w]] = [sub[cur[w]] EXCEPT !.status = "waiting_input", !.attempts = attempt[w] - 1]]
               /\ SetTask(TaskAt(w), "blocked") /\ SetMission("waiting")
               /\ UNCHANGED <<lease, plans, artifact, ledgers>>
    <3>1. [sub[cur[w]] EXCEPT !.status = "waiting_input", !.attempts = attempt[w] - 1] \in SubRows
      <4>1. attempt[w] - 1 \in Nat
        BY DEF Pause, TypeInv, TypeOK, WorkerTypeOK, LocalInv, Trying
      <4>2. cur[w] \in Subs /\ sub[cur[w]] \in SubRows
        BY DEF TypeInv, TypeOK, StoreTypeOK, WorkerTypeOK
      <4> QED
        BY <4>1, <4>2, StatusFacts DEF SubRows
    <3>2. sub' \in [Subs -> SubRows]
      BY <2>2, <3>1 DEF TypeInv, TypeOK, StoreTypeOK, WorkerTypeOK
    <3> QED
      BY <2>2, <3>2, MissionWritten, TaskWritten, TasksOfSubs, StatusFacts DEF TaskAt, WorkerTypeOK, TypeInv, TypeOK, StoreTypeOK, ledgers
  <2> QED
    BY <2>1, <2>2 DEF Pause, SuspendStep, Refused
<1>2. WorkerTypeOK'
  <2>1. PcType'
    BY LabelFacts, CallLands, GotoLands DEF Pause, SuspendStep, TypeInv, TypeOK, WorkerTypeOK, PcType, Calls, TryCalls, Lands
  <2> QED
    BY <2>1 DEF Pause, SuspendStep, TypeInv, TypeOK, WorkerTypeOK, PcType, KeepLocal, KeepEnv
<1>3. LocalInv'
  BY OutputFacts DEF Pause, SuspendStep, TypeInv, TypeOK, WorkerTypeOK, LocalInv, Trying, ToolCalls, AgentCalls, TryCalls, Goto, Refused, Accepted, Reply, Throw, OnError, KeepLocal
<1> QED
  BY <1>1, <1>2, <1>3 DEF TypeInv, TypeOK

LEMMA UncertainTypes ==
    ASSUME TypeInv, NEW w \in Workers, Uncertain(w)
    PROVE  TypeInv'
<1>1. StoreTypeOK'
  <2>1. CASE UNCHANGED store
    BY <2>1, StoreKept DEF TypeInv, TypeOK
  <2>2. CASE /\ sub' = [sub EXCEPT ![cur[w]] = [sub[cur[w]] EXCEPT !.status = "waiting_input"]]
               /\ SetTask(TaskAt(w), "blocked") /\ SetMission("waiting")
               /\ UNCHANGED <<lease, plans, artifact, ledgers>>
    <3>1. [sub[cur[w]] EXCEPT !.status = "waiting_input"] \in SubRows
      BY StatusFacts DEF Uncertain, TypeInv, TypeOK, StoreTypeOK, WorkerTypeOK, SubRows
    <3>2. sub' \in [Subs -> SubRows]
      BY <2>2, <3>1 DEF TypeInv, TypeOK, StoreTypeOK, WorkerTypeOK
    <3> QED
      BY <2>2, <3>2, MissionWritten, TaskWritten, TasksOfSubs, StatusFacts DEF TaskAt, WorkerTypeOK, TypeInv, TypeOK, StoreTypeOK, ledgers
  <2> QED
    BY <2>1, <2>2 DEF Uncertain, SuspendStep, Refused
<1>2. WorkerTypeOK'
  <2>1. PcType'
    BY LabelFacts, CallLands, GotoLands DEF Uncertain, SuspendStep, TypeInv, TypeOK, WorkerTypeOK, PcType, Calls, TryCalls, Lands
  <2> QED
    BY <2>1 DEF Uncertain, SuspendStep, TypeInv, TypeOK, WorkerTypeOK, PcType, KeepLocal, KeepEnv
<1>3. LocalInv'
  BY OutputFacts DEF Uncertain, SuspendStep, TypeInv, TypeOK, WorkerTypeOK, LocalInv, Trying, ToolCalls, AgentCalls, TryCalls, Goto, Refused, Accepted, Reply, Throw, OnError, KeepLocal
<1> QED
  BY <1>1, <1>2, <1>3 DEF TypeInv, TypeOK

LEMMA FailTypes ==
    ASSUME TypeInv, NEW w \in Workers, Fail(w)
    PROVE  TypeInv'
<1>1. StoreTypeOK'
  <2>1. CASE UNCHANGED store
    BY <2>1, StoreKept DEF TypeInv, TypeOK
  <2>2. CASE /\ sub' = [sub EXCEPT ![cur[w]] = [sub[cur[w]] EXCEPT !.status = "failed"]]
               /\ SetTask(TaskAt(w), "blocked") /\ SetMission("waiting")
               /\ UNCHANGED <<lease, plans, artifact, ledgers>>
    <3>1. [sub[cur[w]] EXCEPT !.status = "failed"] \in SubRows
      BY StatusFacts DEF Fail, TypeInv, TypeOK, StoreTypeOK, WorkerTypeOK, SubRows
    <3>2. sub' \in [Subs -> SubRows]
      BY <2>2, <3>1 DEF TypeInv, TypeOK, StoreTypeOK, WorkerTypeOK
    <3> QED
      BY <2>2, <3>2, MissionWritten, TaskWritten, TasksOfSubs, StatusFacts DEF TaskAt, WorkerTypeOK, TypeInv, TypeOK, StoreTypeOK, ledgers
  <2> QED
    BY <2>1, <2>2 DEF Fail, SuspendStep, Refused
<1>2. WorkerTypeOK'
  <2>1. PcType'
    BY LabelFacts, CallLands, GotoLands DEF Fail, SuspendStep, TypeInv, TypeOK, WorkerTypeOK, PcType, Calls, TryCalls, Lands
  <2> QED
    BY <2>1 DEF Fail, SuspendStep, TypeInv, TypeOK, WorkerTypeOK, PcType, KeepLocal, KeepEnv
<1>3. LocalInv'
  BY OutputFacts DEF Fail, SuspendStep, TypeInv, TypeOK, WorkerTypeOK, LocalInv, Trying, ToolCalls, AgentCalls, TryCalls, Goto, Refused, Accepted, Reply, Throw, OnError, KeepLocal
<1> QED
  BY <1>1, <1>2, <1>3 DEF TypeInv, TypeOK

LEMMA StopAtDeadlineTypes ==
    ASSUME TypeInv, NEW w \in Workers, StopAtDeadline(w)
    PROVE  TypeInv'
<1>1. StoreTypeOK'
  <2>1. CASE UNCHANGED store
    BY <2>1, StoreKept DEF TypeInv, TypeOK
  <2>2. CASE /\ SetTask(TaskAt(w), "blocked") /\ SetMission("waiting")
               /\ UNCHANGED <<lease, plans, sub, artifact, ledgers>>
    BY <2>2, MissionWritten, TaskWritten, TasksOfSubs, StatusFacts DEF TaskAt, WorkerTypeOK, TypeInv, TypeOK, StoreTypeOK, ledgers
  <2> QED
    BY <2>1, <2>2 DEF StopAtDeadline, Refused
<1>2. WorkerTypeOK'
  <2>1. PcType'
    BY LabelFacts, CallLands, GotoLands DEF StopAtDeadline, TypeInv, TypeOK, WorkerTypeOK, PcType, Calls, TryCalls, Lands
  <2> QED
    BY <2>1 DEF StopAtDeadline, TypeInv, TypeOK, WorkerTypeOK, PcType, KeepLocal, KeepEnv
<1>3. LocalInv'
  BY OutputFacts DEF StopAtDeadline, TypeInv, TypeOK, WorkerTypeOK, LocalInv, Trying, ToolCalls, AgentCalls, TryCalls, Goto, Refused, Accepted, Reply, Throw, OnError, KeepLocal
<1> QED
  BY <1>1, <1>2, <1>3 DEF TypeInv, TypeOK

LEMMA RetryTypes ==
    ASSUME TypeInv, NEW w \in Workers, Retry(w)
    PROVE  TypeInv'
<1>1. StoreTypeOK'
  <2>1. CASE UNCHANGED store
    BY <2>1, StoreKept DEF TypeInv, TypeOK
  <2>2. CASE SetSub(cur[w], "queued") /\ UNCHANGED <<lease, mission, plans, task, artifact, ledgers>>
    BY <2>2, SubWritten, StatusFacts DEF WorkerTypeOK, TypeInv, TypeOK, StoreTypeOK, ledgers
  <2> QED
    BY <2>1, <2>2 DEF Retry, Refused
<1>2. WorkerTypeOK'
  <2>1. PcType'
    BY LabelFacts, CallLands, GotoLands DEF Retry, TypeInv, TypeOK, WorkerTypeOK, PcType, Calls, TryCalls, Lands
  <2>2. attempt' \in [Workers -> Nat]
    BY DEF Retry, TypeInv, TypeOK, WorkerTypeOK
  <2> QED
    BY <2>1, <2>2 DEF Retry, TypeInv, TypeOK, WorkerTypeOK, PcType, KeepEnv
<1>3. LocalInv'
  BY OutputFacts DEF Retry, TypeInv, TypeOK, WorkerTypeOK, LocalInv, Trying, ToolCalls, AgentCalls, TryCalls, Goto, Refused, Accepted, Reply, Throw, OnError, KeepLocal
<1> QED
  BY <1>1, <1>2, <1>3 DEF TypeInv, TypeOK

LEMMA StoreTypes ==
    ASSUME TypeInv, NEW w \in Workers, Store(w)
    PROVE  TypeInv'
<1>1. StoreTypeOK'
  <2>1. CASE UNCHANGED store
    BY <2>1, StoreKept DEF TypeInv, TypeOK
  <2>2. CASE /\ StoreOutput(cur[w], out[w], snap[w].tag) /\ pc[w] = "store"
               /\ UNCHANGED <<lease, mission, plans, task, ledgers>>
    BY <2>2, OutputWritten, OutputFacts DEF WorkerTypeOK, LocalInv, Snapshots, TypeInv, TypeOK, StoreTypeOK, ledgers
  <2> QED
    BY <2>1, <2>2 DEF Store, Refused
<1>2. WorkerTypeOK'
  <2>1. PcType'
    BY LabelFacts, CallLands, GotoLands DEF Store, AfterSub, TypeInv, TypeOK, WorkerTypeOK, PcType, Calls, TryCalls, Lands
  <2>2. cur' \in [Workers -> Subs]
    BY AdvanceType DEF Store, TypeInv, TypeOK, WorkerTypeOK
  <2>3. out' \in [Workers -> Outputs]
    BY OutputFacts DEF Store, TypeInv, TypeOK, WorkerTypeOK
  <2> QED
    BY <2>1, <2>2, <2>3 DEF Store, AfterSub, TypeInv, TypeOK, WorkerTypeOK, PcType, KeepEnv
<1>3. LocalInv'
  BY OutputFacts DEF Store, AfterSub, TypeInv, TypeOK, WorkerTypeOK, LocalInv, Trying, ToolCalls, AgentCalls, TryCalls, Goto, Refused, Accepted, Reply, Throw, OnError, KeepLocal, Advance
<1> QED
  BY <1>1, <1>2, <1>3 DEF TypeInv, TypeOK

LEMMA CloseTaskTypes ==
    ASSUME TypeInv, NEW w \in Workers, CloseTask(w)
    PROVE  TypeInv'
<1>1. StoreTypeOK'
  <2>1. CASE UNCHANGED store
    BY <2>1, StoreKept DEF TypeInv, TypeOK
  <2>2. CASE /\ SetTask(TaskAt(w), "succeeded")
               /\ UNCHANGED <<lease, mission, plans, sub, artifact, ledgers>>
    BY <2>2, TaskWritten, TasksOfSubs, StatusFacts DEF TaskAt, WorkerTypeOK, TypeInv, TypeOK, StoreTypeOK, ledgers
  <2> QED
    BY <2>1, <2>2 DEF CloseTask, Refused
<1>2. WorkerTypeOK'
  <2>1. PcType'
    BY LabelFacts, CallLands, GotoLands DEF CloseTask, TypeInv, TypeOK, WorkerTypeOK, PcType, Calls, TryCalls, Lands
  <2>2. cur' \in [Workers -> Subs]
    BY NextRow DEF CloseTask, TypeInv, TypeOK, WorkerTypeOK
  <2> QED
    BY <2>1, <2>2 DEF CloseTask, TypeInv, TypeOK, WorkerTypeOK, PcType, KeepEnv
<1>3. LocalInv'
  BY OutputFacts DEF CloseTask, TypeInv, TypeOK, WorkerTypeOK, LocalInv, Trying, ToolCalls, AgentCalls, TryCalls, Goto, Refused, Accepted, Reply, Throw, OnError, KeepLocal
<1> QED
  BY <1>1, <1>2, <1>3 DEF TypeInv, TypeOK

LEMMA FinalizeTypes ==
    ASSUME TypeInv, NEW w \in Workers, Finalize(w)
    PROVE  TypeInv'
<1>1. StoreTypeOK'
  <2>1. CASE UNCHANGED store
    BY <2>1, StoreKept DEF TypeInv, TypeOK
  <2>2. CASE InsertFinal(snap[w].sources) /\ UNCHANGED <<lease, plans, task, sub, artifact, ledgers>>
    BY <2>2, FinalWritten DEF WorkerTypeOK, Snapshots, TypeInv, TypeOK, StoreTypeOK, ledgers
  <2> QED
    BY <2>1, <2>2 DEF Finalize, Refused
<1>2. WorkerTypeOK'
  <2>1. PcType'
    BY LabelFacts, CallLands, GotoLands DEF Finalize, TypeInv, TypeOK, WorkerTypeOK, PcType, Calls, TryCalls, Lands
  <2> QED
    BY <2>1 DEF Finalize, TypeInv, TypeOK, WorkerTypeOK, PcType, KeepLocal, KeepEnv
<1>3. LocalInv'
  BY OutputFacts DEF Finalize, TypeInv, TypeOK, WorkerTypeOK, LocalInv, Trying, ToolCalls, AgentCalls, TryCalls, Goto, Refused, Accepted, Reply, Throw, OnError, KeepLocal
<1> QED
  BY <1>1, <1>2, <1>3 DEF TypeInv, TypeOK

LEMMA AcquireTypes ==
    ASSUME TypeInv, NEW w \in Workers, Acquire(w)
    PROVE  TypeInv'
<1>1. StoreTypeOK'
  <2>1. CASE UNCHANGED store
    BY <2>1, StoreKept DEF TypeInv, TypeOK
  <2>2. CASE TakeLease(w) /\ UNCHANGED <<rows, ledgers>>
    BY <2>2, LeaseType DEF rows, TypeInv, TypeOK, StoreTypeOK, ledgers
  <2> QED
    BY <2>1, <2>2 DEF Acquire, store, rows, ledgers, Refused
<1>2. WorkerTypeOK'
  <2>1. PcType'
    BY LabelFacts, CallLands, GotoLands, ThrowLands, ReplyLands DEF Acquire, TypeInv, TypeOK, WorkerTypeOK, PcType, Calls, TryCalls, Publish, Lands
  <2> QED
    BY <2>1 DEF Acquire, TypeInv, TypeOK, WorkerTypeOK, PcType, KeepLocal, KeepEnv
<1>3. LocalInv'
  BY OutputFacts DEF Acquire, TypeInv, TypeOK, WorkerTypeOK, LocalInv, Trying, ToolCalls, AgentCalls, TryCalls, Goto, Publish, Refused, Accepted, Reply, Throw, OnError, KeepLocal
<1> QED
  BY <1>1, <1>2, <1>3 DEF TypeInv, TypeOK

LEMMA ReleaseTypes ==
    ASSUME TypeInv, NEW w \in Workers, Release(w)
    PROVE  TypeInv'
<1>1. StoreTypeOK'
  BY LeaseType DEF Release, rows, TypeInv, TypeOK, StoreTypeOK, ledgers
<1>2. WorkerTypeOK'
  <2>1. PcType'
    BY LabelFacts, GotoLands DEF Release, Reset, TypeInv, TypeOK, WorkerTypeOK, PcType, Calls, TryCalls
  <2>2. snap' \in [Workers -> Snapshots] /\ cur' \in [Workers -> Subs]
    BY BlankType, StoreAssumption DEF Release, Reset, TypeInv, TypeOK, WorkerTypeOK, Subs
  <2>3. attempt' \in [Workers -> Nat] /\ out' \in [Workers -> Outputs]
    BY OutputFacts DEF Release, Reset, TypeInv, TypeOK, WorkerTypeOK
  <2> QED
    BY <2>1, <2>2, <2>3 DEF Release, Reset, TypeInv, TypeOK, WorkerTypeOK, PcType
<1>3. LocalInv'
  BY OutputFacts DEF Release, Reset, TypeInv, TypeOK, WorkerTypeOK, LocalInv, Trying, ToolCalls, AgentCalls, TryCalls, Goto, KeepLocal
<1> QED
  BY <1>1, <1>2, <1>3 DEF TypeInv, TypeOK

LEMMA CrashTypes ==
    ASSUME TypeInv, NEW w \in Workers, Crash(w)
    PROVE  TypeInv'
<1>1. StoreTypeOK'
  BY StoreKept DEF Crash, TypeInv, TypeOK
<1>2. WorkerTypeOK'
  <2>1. PcType'
    BY LabelFacts, GotoLands, WorkerAssumption DEF Crash, Reset, Fault, TypeInv, TypeOK, WorkerTypeOK, PcType, Calls, TryCalls
  <2>2. snap' \in [Workers -> Snapshots] /\ cur' \in [Workers -> Subs]
    BY BlankType, StoreAssumption DEF Crash, Reset, TypeInv, TypeOK, WorkerTypeOK, Subs
  <2>3. attempt' \in [Workers -> Nat] /\ out' \in [Workers -> Outputs]
    BY OutputFacts DEF Crash, Reset, TypeInv, TypeOK, WorkerTypeOK
  <2> QED
    BY <2>1, <2>2, <2>3 DEF Crash, Reset, Fault, TypeInv, TypeOK, WorkerTypeOK, PcType
<1>3. LocalInv'
  BY OutputFacts, WorkerAssumption DEF Crash, Reset, Fault, TypeInv, TypeOK, WorkerTypeOK, LocalInv, Trying, ToolCalls, AgentCalls, TryCalls, Goto, KeepLocal
<1> QED
  BY <1>1, <1>2, <1>3 DEF TypeInv, TypeOK

LEMMA DropTypes ==
    ASSUME TypeInv, NEW w \in Workers, Drop(w)
    PROVE  TypeInv'
<1>1. StoreTypeOK'
  BY StoreKept DEF Drop, Fault, TypeInv, TypeOK
<1>2. WorkerTypeOK'
  <2>1. PcType'
    BY LabelFacts, GotoLands, WorkerAssumption DEF Drop, Fault, TypeInv, TypeOK, WorkerTypeOK, PcType, Calls, TryCalls
  <2> QED
    BY <2>1 DEF Drop, Fault, TypeInv, TypeOK, WorkerTypeOK, PcType, KeepLocal, KeepEnv
<1>3. LocalInv'
  BY OutputFacts, WorkerAssumption DEF Drop, Fault, TypeInv, TypeOK, WorkerTypeOK, LocalInv, Trying, ToolCalls, AgentCalls, TryCalls, Goto, KeepLocal, OnError
<1> QED
  BY <1>1, <1>2, <1>3 DEF TypeInv, TypeOK

LEMMA SendBeatTypes ==
    ASSUME TypeInv, NEW w \in Workers, SendBeat(w)
    PROVE  TypeInv'
<1>1. StoreTypeOK'
  BY StoreKept DEF SendBeat, TypeInv, TypeOK
<1>2. WorkerTypeOK'
  <2>1. PcType'
    BY LabelFacts, GotoLands DEF SendBeat, TypeInv, TypeOK, WorkerTypeOK, PcType, Calls, TryCalls, local
  <2> QED
    BY <2>1 DEF SendBeat, TypeInv, TypeOK, WorkerTypeOK, PcType, local
<1>3. LocalInv'
  BY OutputFacts DEF SendBeat, TypeInv, TypeOK, WorkerTypeOK, LocalInv, Trying, ToolCalls, AgentCalls, TryCalls, Goto, KeepLocal, local
<1> QED
  BY <1>1, <1>2, <1>3 DEF TypeInv, TypeOK

LEMMA ReceiveBeatTypes ==
    ASSUME TypeInv, NEW w \in Workers, ReceiveBeat(w)
    PROVE  TypeInv'
<1>1. StoreTypeOK'
  BY LeaseType DEF ReceiveBeat, rows, TypeInv, TypeOK, StoreTypeOK, ledgers
<1>2. WorkerTypeOK'
  <2>1. PcType'
    BY LabelFacts, GotoLands DEF ReceiveBeat, TypeInv, TypeOK, WorkerTypeOK, PcType, Calls, TryCalls, local
  <2> QED
    BY <2>1 DEF ReceiveBeat, TypeInv, TypeOK, WorkerTypeOK, PcType, local
<1>3. LocalInv'
  BY OutputFacts DEF ReceiveBeat, TypeInv, TypeOK, WorkerTypeOK, LocalInv, Trying, ToolCalls, AgentCalls, TryCalls, Goto, KeepLocal, local
<1> QED
  BY <1>1, <1>2, <1>3 DEF TypeInv, TypeOK

-----------------------------------------------------------------------------

(* The administrator, the clock, and steps in which nothing happens. *)

LEMMA LocalKept ==
    ASSUME TypeInv, UNCHANGED <<local, env, effects>>
    PROVE  WorkerTypeOK' /\ LocalInv'
BY DEF TypeInv, TypeOK, WorkerTypeOK, LocalInv, local, env

LEMMA AdministratorTypes ==
    ASSUME TypeInv, Administrator
    PROVE  TypeInv'
<1>1. WorkerTypeOK' /\ LocalInv'
  BY LocalKept DEF Administrator
<1>2. StoreTypeOK
  BY DEF TypeInv, TypeOK
<1>3. ValidResults \subseteq Results
  BY StoreAssumption
<1>4. StoreTypeOK'
  BY <1>2, <1>3, DecideType, RenewType, ReconcileType, ResumeType DEF Administrator
<1> QED
  BY <1>1, <1>4 DEF TypeInv, TypeOK

LEMMA ClockTypes ==
    ASSUME TypeInv, Clock
    PROVE  TypeInv'
<1>1. CASE \E s \in Subs : ExpireReceipt(s) /\ UNCHANGED <<local, env, effects>>
  BY <1>1, LocalKept, RenewType DEF TypeInv, TypeOK
<1>2. CASE ExpireLease
  <2>1. lease' \in Leases
    BY <1>2 DEF ExpireLease, TypeInv, TypeOK, StoreTypeOK, Leases
  <2>2. StoreTypeOK'
    BY <1>2, <2>1 DEF ExpireLease, TypeInv, TypeOK, StoreTypeOK, rows, ledgers
  <2>3. WorkerTypeOK'
    BY <1>2, WorkerAssumption DEF ExpireLease, Fault, TypeInv, TypeOK, WorkerTypeOK, local
  <2>4. LocalInv'
    BY <1>2 DEF ExpireLease, TypeInv, LocalInv, local
  <2> QED
    BY <2>2, <2>3, <2>4 DEF TypeInv, TypeOK
<1>3. CASE PassDeadline
  BY <1>3, StoreKept DEF PassDeadline, TypeInv, TypeOK, WorkerTypeOK, LocalInv, local
<1> QED
  BY <1>1, <1>2, <1>3 DEF Clock

LEMMA IdleTypes ==
    ASSUME TypeInv, UNCHANGED vars
    PROVE  TypeInv'
BY StoreKept, LocalKept DEF vars, TypeInv, TypeOK

LEMMA TypeInvInit == Init => TypeInv
<1> SUFFICES ASSUME Init PROVE TypeInv
  OBVIOUS
<1>1. StoreTypeOK
  BY StatusFacts, OutputFacts, StoreAssumption
  DEF Init, StoreInit, StoreTypeOK, Leases, MissionRows, SubRows, ArtifactRows, ApprovalRows, RunRows
<1>2. WorkerTypeOK
  <2>1. 1 \in Subs /\ 0 \in 0..MaxFaults
    BY StoreAssumption, WorkerAssumption DEF Subs
  <2> QED
    BY <2>1, LabelFacts, BlankType, OutputFacts DEF Init, WorkerInit, WorkerTypeOK
<1>3. LocalInv
  BY DEF Init, WorkerInit, LocalInv, Trying, ToolCalls, AgentCalls, TryCalls
<1> QED
  BY <1>1, <1>2, <1>3 DEF TypeInv, TypeOK

LEMMA TypeInvStep ==
    ASSUME TypeInv, [Next]_vars
    PROVE  TypeInv'
<1>1. ASSUME NEW w \in Workers, Step(w) PROVE TypeInv'
  BY <1>1, AcquireTypes, OpenTypes, LoadTasksTypes, PlanTypes, CommitPlanTypes,
     ReloadTypes, RunTypes, EnterTaskTypes, LoadSubsTypes, VisitTypes,
     RecoverTypes, AttemptTypes, AssignTypes, PriorTypes, ReceiptTypes,
     StartToolTypes, EffectTypes, FinishToolTypes, CandidateTypes,
     InvokeTypes, ModelTypes, CheckpointTypes, PauseTypes, UncertainTypes,
     FailTypes, StopAtDeadlineTypes, RetryTypes, StoreTypes, BlockTaskTypes,
     ParkTypes, AbortTypes, SuperviseTypes, CloseTaskTypes, GatherTypes,
     ReviewTypes, EvaluateTypes, RecordTypes, FinalizeTypes,
     ReleaseTypes
  DEF Step
<1>2. ASSUME NEW w \in Workers,
             Begin(w) \/ SendBeat(w) \/ ReceiveBeat(w) \/ Drop(w) \/ Crash(w)
      PROVE  TypeInv'
  BY <1>2, BeginTypes, SendBeatTypes, ReceiveBeatTypes, DropTypes, CrashTypes
<1> QED
  BY <1>1, <1>2, AdministratorTypes, ClockTypes, IdleTypes DEF Next

(* Every variable keeps its type: the status columns stay within what          *)
(* spine_validate_row accepts, and no attempt counter becomes negative.        *)
THEOREM TypesHold == Spec => []TypeInv
<1>1. Init => TypeInv
  BY TypeInvInit
<1>2. TypeInv /\ [Next]_vars => TypeInv'
  BY TypeInvStep
<1> QED
  BY <1>1, <1>2, PTL DEF Spec

THEOREM TypeCorrect == Spec => []TypeOK
<1>1. TypeInv => TypeOK
  BY DEF TypeInv
<1> QED
  BY <1>1, TypesHold, PTL
=============================================================================
