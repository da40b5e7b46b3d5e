----------------------------- MODULE SpineProofs ------------------------------
(***************************************************************************)
(* The safety properties of Spine, for every plan, any number of workers,   *)
(* any results and any number of faults.  SpineInv is inductive; most steps *)
(* do not disturb most of its parts, and the frames below say what a step   *)
(* may do without disturbing each of them.                                  *)
(***************************************************************************)
EXTENDS SpineTypeProofs

Touched(s) == run[s].status # "absent" \/ checkpoint[s] # NoResult \/ HasArtifact(s)

(* No run starts, no action is performed, no consumed receipt changes. *)
EffectFrame ==
    /\ effects' = effects
    /\ \A s \in Subs : run'[s].status = "absent" <=> run[s].status = "absent"
    /\ \A s \in Subs : Protected(s) =>
          /\ approval'[s].consumed = approval[s].consumed
          /\ approval[s].consumed => approval'[s].status = approval[s].status
    /\ \A w \in Workers : pc'[w] = "effect" => pc[w] = "effect" /\ cur'[w] = cur[w]

(* No row succeeds or stops being succeeded. *)
ArtifactFrame ==
    /\ artifact' = artifact
    /\ \A s \in Subs : sub'[s].status = "succeeded" <=> sub[s].status = "succeeded"

(* A worker records something for its current row only, and goes on to the  *)
(* next row only from a succeeded one.                                      *)
OrderFrame ==
    /\ \A s \in Subs : sub[s].status = "succeeded" => sub'[s].status = "succeeded"
    /\ \A s \in Subs : Touched(s)' => Touched(s) \/ \E w \in Workers : cur[w] = s
    /\ \A w \in Workers : \/ cur'[w] \in {1, cur[w]}
                          \/ cur'[w] = cur[w] + 1 /\ sub'[cur[w]].status = "succeeded"
    /\ \A w \in Workers, s \in Subs : snap'[w].subs[s].status = "succeeded" =>
          snap[w].subs[s].status = "succeeded" \/ sub[s].status = "succeeded"

(* A run starts without a result and finishes with one, and a worker that    *)
(* comes to hold the output of a tool has it from a finished run.            *)
ResultFrame ==
    /\ artifact' = artifact
    /\ \A s \in Subs : sub'[s].output = sub[s].output
    /\ \A s \in Subs :
          \/ run'[s] = run[s]
          \/ /\ run[s].status = "absent" /\ run'[s].status = "running"
             /\ run'[s].result = run[s].result
          \/ /\ run[s].status = "running"
             /\ \E r \in Results : run'[s] = [status |-> "succeeded", result |-> r]
    /\ \A w \in Workers :
          pc'[w] \in {"candidate", "store"} /\ IsTool(cur'[w]) =>
             \/ pc[w] \in {"candidate", "store"} /\ cur'[w] = cur[w] /\ out'[w] = out[w]
             \/ run'[cur'[w]] = [status |-> "succeeded", result |-> out'[w]]

(* Artifacts stay, and no worker gathers, passes the evaluation or finishes. *)
SourceFrame ==
    /\ mission'.sources = mission.sources
    /\ \A s \in Subs : HasArtifact(s) => artifact'[s] = artifact[s]
    /\ \A w \in Workers :
          /\ snap'[w].sources \subseteq snap[w].sources
          /\ pc'[w] \in Passed => pc[w] \in Passed /\ snap'[w].tag = snap[w].tag

LEMMA EffectFramed == EffectInv /\ TypeInv /\ TypeInv' /\ EffectFrame => EffectInv'
<1> SUFFICES ASSUME EffectInv, TypeInv, TypeInv', EffectFrame PROVE EffectInv'
  OBVIOUS
<1>1. \A w \in Workers : cur[w] \in Subs /\ cur'[w] \in Subs
  BY DEF TypeInv, TypeOK, WorkerTypeOK
<1>2. EffectAuthorized'
  BY DEF EffectInv, EffectFrame, EffectAuthorized, Protected
<1>3. \A s \in Subs : effects'[s] <= 1 /\ (effects'[s] > 0 => run'[s].status # "absent")
  BY DEF EffectInv, EffectFrame
<1>4. \A w \in Workers :
          pc'[w] = "effect" => effects'[cur'[w]] = 0 /\ run'[cur'[w]].status # "absent"
  BY <1>1 DEF EffectInv, EffectFrame
<1>5. \A v, w \in Workers :
          v # w /\ pc'[v] = "effect" /\ pc'[w] = "effect" => cur'[v] # cur'[w]
  BY <1>1 DEF EffectInv, EffectFrame
<1> QED
  BY <1>2, <1>3, <1>4, <1>5 DEF EffectInv

LEMMA ArtifactFramed == ArtifactInv /\ ArtifactFrame => ArtifactInv'
BY DEF ArtifactInv, ArtifactFrame, HasArtifact

LEMMA OrderFramed == OrderInv /\ TypeInv /\ TypeInv' /\ OrderFrame => OrderInv'
<1> SUFFICES ASSUME OrderInv, TypeInv, TypeInv', OrderFrame PROVE OrderInv'
  OBVIOUS
<1>1. \A w \in Workers : cur[w] \in Subs /\ cur'[w] \in Subs
  BY DEF TypeInv, TypeOK, WorkerTypeOK
<1>2. \A s \in Subs : s \in Nat \ {0}
  BY StoreAssumption DEF Subs
<1>3. ASSUME NEW w \in Workers, NEW s \in Subs, s < cur'[w] PROVE sub'[s].status = "succeeded"
  <2>1. s \in Nat \ {0} /\ cur[w] \in Nat \ {0} /\ cur'[w] \in Nat \ {0}
    BY <1>1, <1>2
  <2>2. \/ cur'[w] \in {1, cur[w]}
        \/ cur'[w] = cur[w] + 1 /\ sub'[cur[w]].status = "succeeded"
    BY DEF OrderFrame
  <2>3. CASE s < cur[w]
    BY <2>3 DEF OrderInv, OrderFrame
  <2>4. CASE ~(s < cur[w])
    <3>1. cur'[w] = cur[w] + 1 /\ s = cur[w]
      BY <1>3, <2>1, <2>2, <2>4
    <3> QED
      BY <2>1, <2>2, <3>1
  <2> QED
    BY <2>3, <2>4
<1>4. ASSUME NEW w \in Workers, NEW s \in Subs, snap'[w].subs[s].status = "succeeded"
      PROVE  sub'[s].status = "succeeded"
  BY <1>4 DEF OrderInv, OrderFrame
<1>5. ASSUME NEW s \in Subs, NEW t \in Subs, s < t, Touched(t)'
      PROVE  sub'[s].status = "succeeded"
  <2>1. Touched(t) \/ \E w \in Workers : s < cur[w]
    BY <1>5 DEF OrderFrame
  <2>2. sub[s].status = "succeeded"
    BY <1>5, <2>1 DEF OrderInv, StepsInOrder, Touched
  <2> QED
    BY <2>2 DEF OrderFrame
<1>6. StepsInOrder'
  BY <1>5 DEF StepsInOrder, Touched
<1> QED
  BY <1>3, <1>4, <1>6 DEF OrderInv

LEMMA ResultFramed == ResultInv /\ TypeInv /\ TypeInv' /\ ResultFrame => ResultInv'
<1> SUFFICES ASSUME ResultInv, TypeInv, TypeInv', ResultFrame PROVE ResultInv'
  OBVIOUS
<1>1. \A w \in Workers : cur[w] \in Subs /\ cur'[w] \in Subs
  BY DEF TypeInv, TypeOK, WorkerTypeOK
<1>2. \A s \in Subs : run[s].status = "succeeded" => run'[s] = run[s]
  BY DEF ResultFrame
<1>3. \A s \in Subs : run'[s].status = "succeeded" <=> run'[s].result # NoResult
  <2> TAKE s \in Subs
  <2>1. run[s].status = "succeeded" <=> run[s].result # NoResult
    BY DEF ResultInv
  <2>2. CASE run'[s] = run[s]
    BY <2>1, <2>2
  <2>3. CASE run[s].status = "absent" /\ run'[s].status = "running" /\ run'[s].result = run[s].result
    BY <2>1, <2>3
  <2>4. CASE \E r \in Results : run'[s] = [status |-> "succeeded", result |-> r]
    BY <2>4, OutputFacts
  <2> QED
    BY <2>2, <2>3, <2>4 DEF ResultFrame
<1>4. ASSUME NEW w \in Workers, pc'[w] \in {"candidate", "store"}, IsTool(cur'[w])
      PROVE  run'[cur'[w]] = [status |-> "succeeded", result |-> out'[w]]
  <2>1. CASE run'[cur'[w]] = [status |-> "succeeded", result |-> out'[w]]
    BY <2>1
  <2>2. CASE pc[w] \in {"candidate", "store"} /\ cur'[w] = cur[w] /\ out'[w] = out[w]
    <3>1. run[cur[w]] = [status |-> "succeeded", result |-> out[w]]
      BY <1>4, <2>2 DEF ResultInv
    <3>2. run'[cur[w]] = run[cur[w]]
      BY <1>1, <1>2, <3>1
    <3> QED
      BY <2>2, <3>1, <3>2
  <2> QED
    BY <1>4, <2>1, <2>2 DEF ResultFrame
<1>5. ToolEvidence'
  <2>1. ASSUME NEW s \in Subs, IsTool(s), HasArtifact(s)'
        PROVE  run'[s] = [status |-> "succeeded", result |-> artifact'[s].content]
    <3>1. run[s] = [status |-> "succeeded", result |-> artifact[s].content]
      BY <2>1 DEF ResultInv, ToolEvidence, ResultFrame, HasArtifact
    <3> QED
      BY <1>2, <3>1 DEF ResultFrame
  <2>2. ASSUME NEW s \in Subs, IsTool(s), sub'[s].output # NoResult
        PROVE  sub'[s].output = run'[s].result
    <3>1. sub[s].output = run[s].result /\ run[s].status = "succeeded"
      BY <2>2 DEF ResultInv, ToolEvidence, ResultFrame
    <3> QED
      BY <1>2, <3>1 DEF ResultFrame
  <2> QED
    BY <2>1, <2>2 DEF ToolEvidence, IsTool
<1> QED
  BY <1>3, <1>4, <1>5 DEF ResultInv, IsTool

LEMMA SourceFramed == SourceInv /\ TypeInv /\ TypeInv' /\ SourceFrame => SourceInv'
<1> SUFFICES ASSUME SourceInv, TypeInv, TypeInv', SourceFrame PROVE SourceInv'
  OBVIOUS
<1>1. /\ mission.sources \subseteq Subs
      /\ \A w \in Workers : snap[w].sources \subseteq Subs
  BY DEF TypeInv, TypeOK, StoreTypeOK, WorkerTypeOK, MissionRows, Snapshots
<1>2. \A s \in Subs : HasArtifact(s) => HasArtifact(s)' /\ artifact'[s].tag = artifact[s].tag
  BY DEF SourceFrame, HasArtifact
<1> QED
  BY <1>1, <1>2 DEF SourceInv, SourceFrame, Passed

-----------------------------------------------------------------------------
(* Most steps write nothing that matters here, and take a worker from one    *)
(* call that carries no obligation to another.                               *)

RowsQuiet ==
    /\ UNCHANGED <<artifact, run, checkpoint, effects>>
    /\ mission'.sources = mission.sources
    /\ \A s \in Subs : /\ sub'[s].status = "succeeded" <=> sub[s].status = "succeeded"
                      /\ sub'[s].output = sub[s].output
    /\ \A s \in Subs : Protected(s) =>
          /\ approval'[s].consumed = approval[s].consumed
          /\ approval[s].consumed => approval'[s].status = approval[s].status

Unmoved(w) ==
    pc'[w] = pc[w] /\ cur'[w] = cur[w] /\ out'[w] = out[w] /\ snap'[w] = snap[w]

WorkerQuiet(w) ==
    /\ cur'[w] \in {1, cur[w]}
    /\ snap'[w].sources \subseteq snap[w].sources
    /\ \A s \in Subs : snap'[w].subs[s].status = "succeeded"
                         => snap[w].subs[s].status = "succeeded"
    /\ pc'[w] \notin {"effect", "candidate"} \cup Passed
    /\ pc'[w] = "store" => ~IsTool(cur'[w])

WorkersQuiet == \A w \in Workers : Unmoved(w) \/ WorkerQuiet(w)

LEMMA QuietKeeps == SpineInv /\ TypeInv' /\ RowsQuiet /\ WorkersQuiet => SpineInv'
<1> SUFFICES ASSUME SpineInv, TypeInv', RowsQuiet, WorkersQuiet PROVE SpineInv'
  OBVIOUS
<1>1. EffectFrame
  BY DEF EffectFrame, RowsQuiet, WorkersQuiet, Unmoved, WorkerQuiet
<1>2. ArtifactFrame
  BY DEF ArtifactFrame, RowsQuiet
<1>3. OrderFrame
  <2>1. \A s \in Subs : Touched(s)' => Touched(s)
    BY DEF RowsQuiet, Touched, HasArtifact
  <2> QED
    BY <2>1 DEF OrderFrame, RowsQuiet, WorkersQuiet, Unmoved, WorkerQuiet
<1>4. ResultFrame
  BY DEF ResultFrame, RowsQuiet, WorkersQuiet, Unmoved, WorkerQuiet
<1>5. SourceFrame
  BY DEF SourceFrame, RowsQuiet, WorkersQuiet, Unmoved, WorkerQuiet
<1> QED
  BY <1>1, <1>2, <1>3, <1>4, <1>5, EffectFramed, ArtifactFramed, OrderFramed, ResultFramed,
     SourceFramed DEF SpineInv

(* An open row may change, as long as it does not succeed. *)
LEMMA OpenRowWritten ==
    ASSUME NEW s \in Subs, sub[s].status # "succeeded", sub'[s].status # "succeeded",
           sub'[s].output = sub[s].output, \A t \in Subs : t # s => sub'[t] = sub[t],
           UNCHANGED <<artifact, run, checkpoint, effects, approval>>,
           mission'.sources = mission.sources
    PROVE  RowsQuiet
BY DEF RowsQuiet

LEMMA SameRows ==
    ASSUME UNCHANGED <<sub, artifact, run, checkpoint, effects, approval>>,
           mission'.sources = mission.sources
    PROVE  RowsQuiet
BY DEF RowsQuiet

-----------------------------------------------------------------------------
(* Steps that disturb no part of the invariant. *)

LEMMA BeginKeeps ==
    ASSUME SpineInv, NEW w \in Workers, Begin(w)
    PROVE  SpineInv'
<1>1. RowsQuiet
  BY SameRows DEF Begin, store, KeepEnv
<1>2. WorkersQuiet
  BY DEF Begin, WorkersQuiet, Unmoved, WorkerQuiet, Passed, SpineInv, TypeInv, TypeOK, StoreTypeOK, WorkerTypeOK, Goto, KeepLocal
<1> QED
  BY <1>1, <1>2, BeginTypes, QuietKeeps DEF SpineInv

LEMMA OpenKeeps ==
    ASSUME SpineInv, NEW w \in Workers, Open(w)
    PROVE  SpineInv'
<1>1. RowsQuiet
  BY SameRows DEF Open, store, KeepEnv
<1>2. WorkersQuiet
  BY SnapTag DEF Open, WorkersQuiet, Unmoved, WorkerQuiet, Passed, SpineInv, TypeInv, TypeOK, StoreTypeOK, WorkerTypeOK, Goto, Throw, OnError, TryCalls, MissionRows
<1> QED
  BY <1>1, <1>2, OpenTypes, QuietKeeps DEF SpineInv

LEMMA AttemptKeeps ==
    ASSUME SpineInv, NEW w \in Workers, Attempt(w)
    PROVE  SpineInv'
<1>1. RowsQuiet
  <2>1. CASE UNCHANGED store
    BY <2>1, SameRows DEF Attempt, KeepEnv, store
  <2>2. CASE ~UNCHANGED store
    BY <2>2, OpenRowWritten, AttemptWritten DEF Goto, Attempt, SubOpen, StepOpen, KeepEnv, Refused, Accepted, ledgers, SpineInv, TypeInv, TypeOK, StoreTypeOK, WorkerTypeOK
  <2> QED
    BY <2>1, <2>2
<1>2. WorkersQuiet
  BY DEF Attempt, WorkersQuiet, Unmoved, WorkerQuiet, Passed, SpineInv, TypeInv, TypeOK, StoreTypeOK, WorkerTypeOK, Goto, KeepLocal, Refused, Accepted, Throw, Reply, OnError, TryCalls
<1> QED
  BY <1>1, <1>2, AttemptTypes, QuietKeeps DEF SpineInv

LEMMA LoadTasksKeeps ==
    ASSUME SpineInv, NEW w \in Workers, LoadTasks(w)
    PROVE  SpineInv'
<1>1. RowsQuiet
  BY SameRows DEF LoadTasks, ReadTasks, store, KeepEnv
<1>2. WorkersQuiet
  BY SnapTasks DEF LoadTasks, ReadTasks, WorkersQuiet, Unmoved, WorkerQuiet, Passed, SpineInv, TypeInv, TypeOK, StoreTypeOK, WorkerTypeOK, Goto, KeepLocal
<1> QED
  BY <1>1, <1>2, LoadTasksTypes, QuietKeeps DEF SpineInv

LEMMA PlanKeeps ==
    ASSUME SpineInv, NEW w \in Workers, Plan(w)
    PROVE  SpineInv'
<1>1. RowsQuiet
  BY SameRows DEF Plan, store, KeepEnv
<1>2. WorkersQuiet
  BY DEF Plan, WorkersQuiet, Unmoved, WorkerQuiet, Passed, SpineInv, TypeInv, TypeOK, StoreTypeOK, WorkerTypeOK, Goto, KeepLocal
<1> QED
  BY <1>1, <1>2, PlanTypes, QuietKeeps DEF SpineInv

LEMMA ReloadKeeps ==
    ASSUME SpineInv, NEW w \in Workers, Reload(w)
    PROVE  SpineInv'
<1>1. RowsQuiet
  BY SameRows DEF Reload, ReadTasks, store, KeepEnv
<1>2. WorkersQuiet
  BY SnapTasks DEF Reload, ReadTasks, WorkersQuiet, Unmoved, WorkerQuiet, Passed, SpineInv, TypeInv, TypeOK, StoreTypeOK, WorkerTypeOK, Goto, KeepLocal
<1> QED
  BY <1>1, <1>2, ReloadTypes, QuietKeeps DEF SpineInv

LEMMA CommitPlanKeeps ==
    ASSUME SpineInv, NEW w \in Workers, CommitPlan(w)
    PROVE  SpineInv'
<1>1. RowsQuiet
  <2>1. CASE UNCHANGED store
    BY <2>1, SameRows DEF CommitPlan, InsertPlan, KeepEnv, store
  <2>2. CASE ~UNCHANGED store
    BY <2>2, SameRows, MissionWritten, StatusFacts DEF CommitPlan, InsertPlan, KeepEnv, Refused, Accepted, store, ledgers, TypeInv, TypeOK, SpineInv
  <2> QED
    BY <2>1, <2>2
<1>2. WorkersQuiet
  BY DEF CommitPlan, WorkersQuiet, Unmoved, WorkerQuiet, Passed, SpineInv, TypeInv, TypeOK, StoreTypeOK, WorkerTypeOK, Goto, KeepLocal, Refused, Accepted, Throw, Reply, OnError, TryCalls
<1> QED
  BY <1>1, <1>2, CommitPlanTypes, QuietKeeps DEF SpineInv

LEMMA RunKeeps ==
    ASSUME SpineInv, NEW w \in Workers, Run(w)
    PROVE  SpineInv'
<1>1. RowsQuiet
  <2>1. CASE UNCHANGED store
    BY <2>1, SameRows DEF Run, WriteMission, KeepEnv, store
  <2>2. CASE ~UNCHANGED store
    BY <2>2, SameRows, MissionWritten, StatusFacts DEF Run, WriteMission, KeepEnv, Refused, Accepted, store, ledgers, TypeInv, TypeOK, SpineInv
  <2> QED
    BY <2>1, <2>2
<1>2. WorkersQuiet
  BY DEF Run, WriteMission, WorkersQuiet, Unmoved, WorkerQuiet, Passed, SpineInv, TypeInv, TypeOK, StoreTypeOK, WorkerTypeOK, Goto, KeepLocal, Refused, Accepted, Throw, Reply, OnError, TryCalls
<1> QED
  BY <1>1, <1>2, RunTypes, QuietKeeps DEF SpineInv

LEMMA ParkKeeps ==
    ASSUME SpineInv, NEW w \in Workers, Park(w)
    PROVE  SpineInv'
<1>1. RowsQuiet
  <2>1. CASE UNCHANGED store
    BY <2>1, SameRows DEF Park, WriteMission, KeepEnv, store
  <2>2. CASE ~UNCHANGED store
    BY <2>2, SameRows, MissionWritten, StatusFacts DEF Park, WriteMission, KeepEnv, Refused, Accepted, store, ledgers, TypeInv, TypeOK, SpineInv
  <2> QED
    BY <2>1, <2>2
<1>2. WorkersQuiet
  BY DEF Park, WriteMission, WorkersQuiet, Unmoved, WorkerQuiet, Passed, SpineInv, TypeInv, TypeOK, StoreTypeOK, WorkerTypeOK, Goto, KeepLocal, Refused, Accepted, Throw, Reply, OnError, TryCalls
<1> QED
  BY <1>1, <1>2, ParkTypes, QuietKeeps DEF SpineInv

LEMMA AbortKeeps ==
    ASSUME SpineInv, NEW w \in Workers, Abort(w)
    PROVE  SpineInv'
<1>1. RowsQuiet
  <2>1. CASE UNCHANGED store
    BY <2>1, SameRows DEF Abort, WriteMission, KeepEnv, store
  <2>2. CASE ~UNCHANGED store
    BY <2>2, SameRows, MissionWritten, StatusFacts DEF Abort, WriteMission, KeepEnv, Refused, Accepted, store, ledgers, TypeInv, TypeOK, SpineInv
  <2> QED
    BY <2>1, <2>2
<1>2. WorkersQuiet
  BY DEF Abort, WriteMission, WorkersQuiet, Unmoved, WorkerQuiet, Passed, SpineInv, TypeInv, TypeOK, StoreTypeOK, WorkerTypeOK, Goto, KeepLocal, Refused, Accepted, Throw, Reply, OnError, TryCalls
<1> QED
  BY <1>1, <1>2, AbortTypes, QuietKeeps DEF SpineInv

LEMMA EnterTaskKeeps ==
    ASSUME SpineInv, NEW w \in Workers, EnterTask(w)
    PROVE  SpineInv'
<1>1. RowsQuiet
  BY SameRows DEF EnterTask, WriteTask, store, ledgers, KeepEnv, Refused, Accepted
<1>2. WorkersQuiet
  BY DEF EnterTask, WriteTask, WorkersQuiet, Unmoved, WorkerQuiet, Passed, SpineInv, TypeInv, TypeOK, StoreTypeOK, WorkerTypeOK, Goto, KeepLocal, Refused, Accepted, Throw, Reply, OnError, TryCalls
<1> QED
  BY <1>1, <1>2, EnterTaskTypes, QuietKeeps DEF SpineInv

LEMMA BlockTaskKeeps ==
    ASSUME SpineInv, NEW w \in Workers, BlockTask(w)
    PROVE  SpineInv'
<1>1. RowsQuiet
  BY SameRows DEF BlockTask, WriteTask, store, ledgers, KeepEnv, Refused, Accepted
<1>2. WorkersQuiet
  BY DEF BlockTask, WriteTask, WorkersQuiet, Unmoved, WorkerQuiet, Passed, SpineInv, TypeInv, TypeOK, StoreTypeOK, WorkerTypeOK, Goto, KeepLocal, Refused, Accepted, Throw, Reply, OnError, TryCalls
<1> QED
  BY <1>1, <1>2, BlockTaskTypes, QuietKeeps DEF SpineInv

LEMMA AssignKeeps ==
    ASSUME SpineInv, NEW w \in Workers, Assign(w)
    PROVE  SpineInv'
<1>1. RowsQuiet
  BY SameRows DEF Assign, Publish, store, ledgers, KeepEnv, Refused, Accepted
<1>2. WorkersQuiet
  BY DEF Assign, Publish, WorkersQuiet, Unmoved, WorkerQuiet, Passed, SpineInv, TypeInv, TypeOK, StoreTypeOK, WorkerTypeOK, Goto, KeepLocal, Refused, Accepted, Throw, Reply, OnError, TryCalls
<1> QED
  BY <1>1, <1>2, AssignTypes, QuietKeeps DEF SpineInv

LEMMA SuperviseKeeps ==
    ASSUME SpineInv, NEW w \in Workers, Supervise(w)
    PROVE  SpineInv'
<1>1. RowsQuiet
  BY SameRows DEF Supervise, Publish, store, ledgers, KeepEnv, Refused, Accepted
<1>2. WorkersQuiet
  BY DEF Supervise, Publish, WorkersQuiet, Unmoved, WorkerQuiet, Passed, SpineInv, TypeInv, TypeOK, StoreTypeOK, WorkerTypeOK, Goto, KeepLocal, Refused, Accepted, Throw, Reply, OnError, TryCalls
<1> QED
  BY <1>1, <1>2, SuperviseTypes, QuietKeeps DEF SpineInv

LEMMA ReviewKeeps ==
    ASSUME SpineInv, NEW w \in Workers, Review(w)
    PROVE  SpineInv'
<1>1. RowsQuiet
  BY SameRows DEF Review, Publish, store, ledgers, KeepEnv, Refused, Accepted
<1>2. WorkersQuiet
  BY DEF Review, Publish, WorkersQuiet, Unmoved, WorkerQuiet, Passed, SpineInv, TypeInv, TypeOK, StoreTypeOK, WorkerTypeOK, Goto, KeepLocal, Refused, Accepted, Throw, Reply, OnError, TryCalls
<1> QED
  BY <1>1, <1>2, ReviewTypes, QuietKeeps DEF SpineInv

LEMMA InvokeKeeps ==
    ASSUME SpineInv, NEW w \in Workers, Invoke(w)
    PROVE  SpineInv'
<1>1. RowsQuiet
  BY SameRows DEF Invoke, Publish, store, ledgers, KeepEnv, Refused, Accepted
<1>2. WorkersQuiet
  BY DEF Invoke, Publish, WorkersQuiet, Unmoved, WorkerQuiet, Passed, SpineInv, TypeInv, TypeOK, StoreTypeOK, WorkerTypeOK, Goto, KeepLocal, Refused, Accepted, Throw, Reply, OnError, TryCalls, LocalInv, AgentCalls
<1> QED
  BY <1>1, <1>2, InvokeTypes, QuietKeeps DEF SpineInv

LEMMA ModelKeeps ==
    ASSUME SpineInv, NEW w \in Workers, Model(w)
    PROVE  SpineInv'
<1>1. RowsQuiet
  BY SameRows DEF Model, store, KeepEnv
<1>2. WorkersQuiet
  BY DEF Model, WorkersQuiet, Unmoved, WorkerQuiet, Passed, SpineInv, TypeInv, TypeOK, StoreTypeOK, WorkerTypeOK, Goto, KeepLocal
<1> QED
  BY <1>1, <1>2, ModelTypes, QuietKeeps DEF SpineInv

LEMMA ReceiptKeeps ==
    ASSUME SpineInv, NEW w \in Workers, Receipt(w)
    PROVE  SpineInv'
<1>1. RowsQuiet
  <2>1. cur[w] \in Subs /\ StoreTypeOK
    BY DEF SpineInv, TypeInv, TypeOK, WorkerTypeOK
  <2>2. ~Protected(cur[w]) \/ (approval[cur[w]].consumed => approval[cur[w]].status = "approved")
    BY <2>1 DEF SpineInv, EffectInv, EffectAuthorized
  <2> QED
    BY <2>1, <2>2, ReceiptRecorded DEF Receipt, RowsQuiet, rows, KeepEnv
<1>2. WorkersQuiet
  BY DEF Receipt, WorkersQuiet, Unmoved, WorkerQuiet, Passed, SpineInv, TypeInv, TypeOK, StoreTypeOK, WorkerTypeOK, Goto, KeepLocal, Refused, Accepted, Throw, Reply, OnError, TryCalls
<1> QED
  BY <1>1, <1>2, ReceiptTypes, QuietKeeps DEF SpineInv

LEMMA PauseKeeps ==
    ASSUME SpineInv, NEW w \in Workers, Pause(w)
    PROVE  SpineInv'
<1>1. RowsQuiet
  <2>1. CASE UNCHANGED store
    BY <2>1, SameRows DEF Pause, SuspendStep, KeepEnv, store
  <2>2. CASE ~UNCHANGED store
    <3>1. /\ sub' = [sub EXCEPT ![cur[w]] = [sub[cur[w]] EXCEPT !.status = "waiting_input", !.attempts = attempt[w] - 1]]
          /\ SetMission("waiting") /\ SubOpen(cur[w])
          /\ UNCHANGED <<artifact, run, checkpoint, effects, approval>>
      BY <2>2 DEF Pause, SuspendStep, Refused, Accepted, StepOpen, KeepEnv, ledgers
    <3>2. cur[w] \in Subs /\ sub \in [Subs -> SubRows] /\ StoreTypeOK
      BY DEF SpineInv, TypeInv, TypeOK, StoreTypeOK, WorkerTypeOK
    <3>3. /\ sub'[cur[w]].status # "succeeded" /\ sub'[cur[w]].output = sub[cur[w]].output
          /\ \A t \in Subs : t # cur[w] => sub'[t] = sub[t]
      BY <3>1, <3>2 DEF SubRows
    <3> QED
      BY <3>1, <3>2, <3>3, OpenRowWritten, MissionWritten, StatusFacts DEF SubOpen
  <2> QED
    BY <2>1, <2>2
<1>2. WorkersQuiet
  BY DEF Pause, SuspendStep, WorkersQuiet, Unmoved, WorkerQuiet, Passed, SpineInv, TypeInv, TypeOK, StoreTypeOK, WorkerTypeOK, Goto, KeepLocal, Refused, Accepted, Throw, Reply, OnError, TryCalls
<1> QED
  BY <1>1, <1>2, PauseTypes, QuietKeeps DEF SpineInv

LEMMA UncertainKeeps ==
    ASSUME SpineInv, NEW w \in Workers, Uncertain(w)
    PROVE  SpineInv'
<1>1. RowsQuiet
  <2>1. CASE UNCHANGED store
    BY <2>1, SameRows DEF Uncertain, SuspendStep, KeepEnv, store
  <2>2. CASE ~UNCHANGED store
    <3>1. /\ sub' = [sub EXCEPT ![cur[w]] = [sub[cur[w]] EXCEPT !.status = "waiting_input"]]
          /\ SetMission("waiting") /\ SubOpen(cur[w])
          /\ UNCHANGED <<artifact, run, checkpoint, effects, approval>>
      BY <2>2 DEF Uncertain, SuspendStep, Refused, Accepted, StepOpen, KeepEnv, ledgers
    <3>2. cur[w] \in Subs /\ sub \in [Subs -> SubRows] /\ StoreTypeOK
      BY DEF SpineInv, TypeInv, TypeOK, StoreTypeOK, WorkerTypeOK
    <3>3. /\ sub'[cur[w]].status # "succeeded" /\ sub'[cur[w]].output = sub[cur[w]].output
          /\ \A t \in Subs : t # cur[w] => sub'[t] = sub[t]
      BY <3>1, <3>2 DEF SubRows
    <3> QED
      BY <3>1, <3>2, <3>3, OpenRowWritten, MissionWritten, StatusFacts DEF SubOpen
  <2> QED
    BY <2>1, <2>2
<1>2. WorkersQuiet
  BY DEF Uncertain, SuspendStep, WorkersQuiet, Unmoved, WorkerQuiet, Passed, SpineInv, TypeInv, TypeOK, StoreTypeOK, WorkerTypeOK, Goto, KeepLocal, Refused, Accepted, Throw, Reply, OnError, TryCalls
<1> QED
  BY <1>1, <1>2, UncertainTypes, QuietKeeps DEF SpineInv

LEMMA FailKeeps ==
    ASSUME SpineInv, NEW w \in Workers, Fail(w)
    PROVE  SpineInv'
<1>1. RowsQuiet
  <2>1. CASE UNCHANGED store
    BY <2>1, SameRows DEF Fail, SuspendStep, KeepEnv, store
  <2>2. CASE ~UNCHANGED store
    <3>1. /\ sub' = [sub EXCEPT ![cur[w]] = [sub[cur[w]] EXCEPT !.status = "failed"]]
          /\ SetMission("waiting") /\ SubOpen(cur[w])
          /\ UNCHANGED <<artifact, run, checkpoint, effects, approval>>
      BY <2>2 DEF Fail, SuspendStep, Refused, Accepted, StepOpen, KeepEnv, ledgers
    <3>2. cur[w] \in Subs /\ sub \in [Subs -> SubRows] /\ StoreTypeOK
      BY DEF SpineInv, TypeInv, TypeOK, StoreTypeOK, WorkerTypeOK
    <3>3. /\ sub'[cur[w]].status # "succeeded" /\ sub'[cur[w]].output = sub[cur[w]].output
          /\ \A t \in Subs : t # cur[w] => sub'[t] = sub[t]
      BY <3>1, <3>2 DEF SubRows
    <3> QED
      BY <3>1, <3>2, <3>3, OpenRowWritten, MissionWritten, StatusFacts DEF SubOpen
  <2> QED
    BY <2>1, <2>2
<1>2. WorkersQuiet
  BY DEF Fail, SuspendStep, WorkersQuiet, Unmoved, WorkerQuiet, Passed, SpineInv, TypeInv, TypeOK, StoreTypeOK, WorkerTypeOK, Goto, KeepLocal, Refused, Accepted, Throw, Reply, OnError, TryCalls
<1> QED
  BY <1>1, <1>2, FailTypes, QuietKeeps DEF SpineInv

LEMMA StopAtDeadlineKeeps ==
    ASSUME SpineInv, NEW w \in Workers, StopAtDeadline(w)
    PROVE  SpineInv'
<1>1. RowsQuiet
  <2>1. CASE UNCHANGED store
    BY <2>1, SameRows DEF StopAtDeadline, KeepEnv, store
  <2>2. CASE ~UNCHANGED store
    BY <2>2, SameRows, MissionWritten, StatusFacts DEF StopAtDeadline, KeepEnv, Refused, Accepted, store, ledgers, TypeInv, TypeOK, SpineInv
  <2> QED
    BY <2>1, <2>2
<1>2. WorkersQuiet
  BY DEF StopAtDeadline, WorkersQuiet, Unmoved, WorkerQuiet, Passed, SpineInv, TypeInv, TypeOK, StoreTypeOK, WorkerTypeOK, Goto, KeepLocal, Refused, Accepted, Throw, Reply, OnError, TryCalls
<1> QED
  BY <1>1, <1>2, StopAtDeadlineTypes, QuietKeeps DEF SpineInv

LEMMA RetryKeeps ==
    ASSUME SpineInv, NEW w \in Workers, Retry(w)
    PROVE  SpineInv'
<1>1. RowsQuiet
  <2>1. CASE UNCHANGED store
    BY <2>1, SameRows DEF Retry, KeepEnv, store
  <2>2. CASE ~UNCHANGED store
    BY <2>2, OpenRowWritten, SubWritten, StatusFacts DEF Goto, Retry, SubOpen, StepOpen, KeepEnv, Refused, Accepted, ledgers, SpineInv, TypeInv, TypeOK, StoreTypeOK, WorkerTypeOK
  <2> QED
    BY <2>1, <2>2
<1>2. WorkersQuiet
  BY DEF Retry, WorkersQuiet, Unmoved, WorkerQuiet, Passed, SpineInv, TypeInv, TypeOK, StoreTypeOK, WorkerTypeOK, Goto, KeepLocal, Refused, Accepted, Throw, Reply, OnError, TryCalls
<1> QED
  BY <1>1, <1>2, RetryTypes, QuietKeeps DEF SpineInv

LEMMA AcquireKeeps ==
    ASSUME SpineInv, NEW w \in Workers, Acquire(w)
    PROVE  SpineInv'
<1>1. RowsQuiet
  BY SameRows DEF Acquire, store, rows, ledgers, KeepEnv
<1>2. WorkersQuiet
  BY DEF Acquire, WorkersQuiet, Unmoved, WorkerQuiet, Passed, SpineInv, TypeInv, TypeOK, StoreTypeOK, WorkerTypeOK, Goto, KeepLocal, Refused, Accepted, Throw, Reply, OnError, TryCalls
<1> QED
  BY <1>1, <1>2, AcquireTypes, QuietKeeps DEF SpineInv

LEMMA ReleaseKeeps ==
    ASSUME SpineInv, NEW w \in Workers, Release(w)
    PROVE  SpineInv'
<1>1. RowsQuiet
  BY SameRows DEF Release, Reset, rows, ledgers
<1>2. WorkersQuiet
  BY DEF Release, Reset, WorkersQuiet, Unmoved, WorkerQuiet, Passed, SpineInv, TypeInv, TypeOK, StoreTypeOK, WorkerTypeOK, Goto, Blank
<1> QED
  BY <1>1, <1>2, ReleaseTypes, QuietKeeps DEF SpineInv

LEMMA SendBeatKeeps ==
    ASSUME SpineInv, NEW w \in Workers, SendBeat(w)
    PROVE  SpineInv'
<1>1. RowsQuiet
  BY SameRows DEF SendBeat, store
<1>2. WorkersQuiet
  BY DEF SendBeat, WorkersQuiet, Unmoved, WorkerQuiet, Passed, SpineInv, TypeInv, TypeOK, StoreTypeOK, WorkerTypeOK, local
<1> QED
  BY <1>1, <1>2, SendBeatTypes, QuietKeeps DEF SpineInv

LEMMA ReceiveBeatKeeps ==
    ASSUME SpineInv, NEW w \in Workers, ReceiveBeat(w)
    PROVE  SpineInv'
<1>1. RowsQuiet
  BY SameRows DEF ReceiveBeat, rows, ledgers
<1>2. WorkersQuiet
  BY DEF ReceiveBeat, WorkersQuiet, Unmoved, WorkerQuiet, Passed, SpineInv, TypeInv, TypeOK, StoreTypeOK, WorkerTypeOK, local
<1> QED
  BY <1>1, <1>2, ReceiveBeatTypes, QuietKeeps DEF SpineInv

LEMMA DropKeeps ==
    ASSUME SpineInv, NEW w \in Workers, Drop(w)
    PROVE  SpineInv'
<1>1. RowsQuiet
  BY SameRows DEF Drop, Fault, store, KeepEnv
<1>2. WorkersQuiet
  BY DEF Drop, Fault, WorkersQuiet, Unmoved, WorkerQuiet, Passed, SpineInv, TypeInv, TypeOK, StoreTypeOK, WorkerTypeOK, Goto, KeepLocal, OnError
<1> QED
  BY <1>1, <1>2, DropTypes, QuietKeeps DEF SpineInv

LEMMA CrashKeeps ==
    ASSUME SpineInv, NEW w \in Workers, Crash(w)
    PROVE  SpineInv'
<1>1. RowsQuiet
  BY SameRows DEF Crash, Fault, Reset, store
<1>2. WorkersQuiet
  BY DEF Crash, Fault, Reset, WorkersQuiet, Unmoved, WorkerQuiet, Passed, SpineInv, TypeInv, TypeOK, StoreTypeOK, WorkerTypeOK, Goto, Blank
<1> QED
  BY <1>1, <1>2, CrashTypes, QuietKeeps DEF SpineInv

-----------------------------------------------------------------------------
(* Steps that disturb some part of it. *)

LEMMA LoadSubsKeeps ==
    ASSUME SpineInv, NEW w \in Workers, LoadSubs(w)
    PROVE  SpineInv'
<1>1. TypeInv'
  BY LoadSubsTypes DEF SpineInv
<1>2. SpineInv => TypeInv /\ StoreTypeOK /\ WorkerTypeOK
  BY DEF SpineInv, TypeInv, TypeOK
<1>3. EffectInv'
  <2>1. EffectFrame
    BY <1>2 DEF LoadSubs, EffectFrame, WorkerTypeOK, StoreTypeOK, store, ledgers, rows, KeepEnv, Goto, KeepLocal
  <2> QED
    BY <1>1, <1>2, <2>1, EffectFramed DEF SpineInv
<1>4. ArtifactInv'
  <2>1. ArtifactFrame
    BY <1>2 DEF LoadSubs, ArtifactFrame, WorkerTypeOK, StoreTypeOK, store, ledgers, rows, KeepEnv, Goto, KeepLocal
  <2> QED
    BY <1>1, <1>2, <2>1, ArtifactFramed DEF SpineInv
<1>5. OrderInv'
  <2>1. OrderFrame
    BY <1>2, SnapSubs DEF LoadSubs, OrderFrame, Touched, HasArtifact, WorkerTypeOK, StoreTypeOK, store, ledgers, rows, KeepEnv, Goto, KeepLocal
  <2> QED
    BY <1>1, <1>2, <2>1, OrderFramed DEF SpineInv
<1>6. ResultInv'
  <2>1. ResultFrame
    BY <1>2 DEF LoadSubs, ResultFrame, WorkerTypeOK, StoreTypeOK, store, ledgers, rows, KeepEnv, Goto, KeepLocal
  <2> QED
    BY <1>1, <1>2, <2>1, ResultFramed DEF SpineInv
<1>7. SourceInv'
  <2>1. SourceFrame
    BY <1>2 DEF LoadSubs, SourceFrame, Passed, WorkerTypeOK, StoreTypeOK, store, ledgers, rows, KeepEnv, Goto, KeepLocal
  <2> QED
    BY <1>1, <1>2, <2>1, SourceFramed DEF SpineInv
<1> QED
  BY <1>1, <1>2, <1>3, <1>4, <1>5, <1>6, <1>7 DEF SpineInv

LEMMA VisitKeeps ==
    ASSUME SpineInv, NEW w \in Workers, Visit(w)
    PROVE  SpineInv'
<1>1. TypeInv'
  BY VisitTypes DEF SpineInv
<1>2. SpineInv => TypeInv /\ StoreTypeOK /\ WorkerTypeOK
  BY DEF SpineInv, TypeInv, TypeOK
<1>3. EffectInv'
  <2>1. EffectFrame
    BY <1>2 DEF Visit, AfterSub, Advance, EffectFrame, WorkerTypeOK, StoreTypeOK, store, ledgers, rows, KeepEnv, Goto, KeepLocal
  <2> QED
    BY <1>1, <1>2, <2>1, EffectFramed DEF SpineInv
<1>4. ArtifactInv'
  <2>1. ArtifactFrame
    BY <1>2 DEF Visit, AfterSub, Advance, ArtifactFrame, WorkerTypeOK, StoreTypeOK, store, ledgers, rows, KeepEnv, Goto, KeepLocal
  <2> QED
    BY <1>1, <1>2, <2>1, ArtifactFramed DEF SpineInv
<1>5. OrderInv'
  <2>1. OrderFrame
    <3>1. snap[w].subs[cur[w]].status = "succeeded" => sub[cur[w]].status = "succeeded"
      BY <1>2 DEF SpineInv, OrderInv, WorkerTypeOK
    <3> QED
      BY <1>2, <3>1 DEF Visit, AfterSub, Advance, OrderFrame, Touched, HasArtifact, WorkerTypeOK, StoreTypeOK, store, ledgers, rows, KeepEnv, Goto, KeepLocal
  <2> QED
    BY <1>1, <1>2, <2>1, OrderFramed DEF SpineInv
<1>6. ResultInv'
  <2>1. ResultFrame
    BY <1>2 DEF Visit, AfterSub, Advance, ResultFrame, WorkerTypeOK, StoreTypeOK, store, ledgers, rows, KeepEnv, Goto, KeepLocal
  <2> QED
    BY <1>1, <1>2, <2>1, ResultFramed DEF SpineInv
<1>7. SourceInv'
  <2>1. SourceFrame
    BY <1>2 DEF Visit, AfterSub, Advance, SourceFrame, Passed, WorkerTypeOK, StoreTypeOK, store, ledgers, rows, KeepEnv, Goto, KeepLocal
  <2> QED
    BY <1>1, <1>2, <2>1, SourceFramed DEF SpineInv
<1> QED
  BY <1>1, <1>2, <1>3, <1>4, <1>5, <1>6, <1>7 DEF SpineInv

LEMMA RecoverKeeps ==
    ASSUME SpineInv, NEW w \in Workers, Recover(w)
    PROVE  SpineInv'
<1>1. TypeInv'
  BY RecoverTypes DEF SpineInv
<1>2. SpineInv => TypeInv /\ StoreTypeOK /\ WorkerTypeOK
  BY DEF SpineInv, TypeInv, TypeOK
<1>3. EffectInv'
  <2>1. EffectFrame
    BY <1>2 DEF Recover, Recorded, EffectFrame, WorkerTypeOK, StoreTypeOK, store, ledgers, rows, KeepEnv, Goto, KeepLocal
  <2> QED
    BY <1>1, <1>2, <2>1, EffectFramed DEF SpineInv
<1>4. ArtifactInv'
  <2>1. ArtifactFrame
    BY <1>2 DEF Recover, Recorded, ArtifactFrame, WorkerTypeOK, StoreTypeOK, store, ledgers, rows, KeepEnv, Goto, KeepLocal
  <2> QED
    BY <1>1, <1>2, <2>1, ArtifactFramed DEF SpineInv
<1>5. OrderInv'
  <2>1. OrderFrame
    BY <1>2 DEF Recover, Recorded, OrderFrame, Touched, HasArtifact, WorkerTypeOK, StoreTypeOK, store, ledgers, rows, KeepEnv, Goto, KeepLocal
  <2> QED
    BY <1>1, <1>2, <2>1, OrderFramed DEF SpineInv
<1>6. ResultInv'
  <2>1. ResultFrame
    <3>1. run[cur[w]].result # NoResult \/ run[cur[w]].status = "succeeded" =>
             run[cur[w]] = [status |-> "succeeded", result |-> run[cur[w]].result]
      BY <1>2 DEF SpineInv, ResultInv, WorkerTypeOK, StoreTypeOK, RunRows
    <3> QED
      BY <1>2, <3>1 DEF Recover, Recorded, ResultFrame, WorkerTypeOK, StoreTypeOK, store, ledgers, rows, KeepEnv, Goto, KeepLocal
  <2> QED
    BY <1>1, <1>2, <2>1, ResultFramed DEF SpineInv
<1>7. SourceInv'
  <2>1. SourceFrame
    BY <1>2 DEF Recover, Recorded, SourceFrame, Passed, WorkerTypeOK, StoreTypeOK, store, ledgers, rows, KeepEnv, Goto, KeepLocal
  <2> QED
    BY <1>1, <1>2, <2>1, SourceFramed DEF SpineInv
<1> QED
  BY <1>1, <1>2, <1>3, <1>4, <1>5, <1>6, <1>7 DEF SpineInv

LEMMA PriorKeeps ==
    ASSUME SpineInv, NEW w \in Workers, Prior(w)
    PROVE  SpineInv'
<1>1. TypeInv'
  BY PriorTypes DEF SpineInv
<1>2. SpineInv => TypeInv /\ StoreTypeOK /\ WorkerTypeOK
  BY DEF SpineInv, TypeInv, TypeOK
<1>3. EffectInv'
  <2>1. EffectFrame
    BY <1>2 DEF Prior, EffectFrame, WorkerTypeOK, StoreTypeOK, store, ledgers, rows, KeepEnv, Goto, KeepLocal
  <2> QED
    BY <1>1, <1>2, <2>1, EffectFramed DEF SpineInv
<1>4. ArtifactInv'
  <2>1. ArtifactFrame
    BY <1>2 DEF Prior, ArtifactFrame, WorkerTypeOK, StoreTypeOK, store, ledgers, rows, KeepEnv, Goto, KeepLocal
  <2> QED
    BY <1>1, <1>2, <2>1, ArtifactFramed DEF SpineInv
<1>5. OrderInv'
  <2>1. OrderFrame
    BY <1>2 DEF Prior, OrderFrame, Touched, HasArtifact, WorkerTypeOK, StoreTypeOK, store, ledgers, rows, KeepEnv, Goto, KeepLocal
  <2> QED
    BY <1>1, <1>2, <2>1, OrderFramed DEF SpineInv
<1>6. ResultInv'
  <2>1. ResultFrame
    <3>1. run[cur[w]].result # NoResult \/ run[cur[w]].status = "succeeded" =>
             run[cur[w]] = [status |-> "succeeded", result |-> run[cur[w]].result]
      BY <1>2 DEF SpineInv, ResultInv, WorkerTypeOK, StoreTypeOK, RunRows
    <3> QED
      BY <1>2, <3>1 DEF Prior, ResultFrame, WorkerTypeOK, StoreTypeOK, store, ledgers, rows, KeepEnv, Goto, KeepLocal
  <2> QED
    BY <1>1, <1>2, <2>1, ResultFramed DEF SpineInv
<1>7. SourceInv'
  <2>1. SourceFrame
    BY <1>2 DEF Prior, SourceFrame, Passed, WorkerTypeOK, StoreTypeOK, store, ledgers, rows, KeepEnv, Goto, KeepLocal
  <2> QED
    BY <1>1, <1>2, <2>1, SourceFramed DEF SpineInv
<1> QED
  BY <1>1, <1>2, <1>3, <1>4, <1>5, <1>6, <1>7 DEF SpineInv

LEMMA CandidateKeeps ==
    ASSUME SpineInv, NEW w \in Workers, Candidate(w)
    PROVE  SpineInv'
<1>1. TypeInv'
  BY CandidateTypes DEF SpineInv
<1>2. SpineInv => TypeInv /\ StoreTypeOK /\ WorkerTypeOK
  BY DEF SpineInv, TypeInv, TypeOK
<1>3. EffectInv'
  <2>1. EffectFrame
    BY <1>2 DEF Candidate, Publish, Validated, EffectFrame, WorkerTypeOK, StoreTypeOK, store, ledgers, rows, KeepEnv, Goto, KeepLocal, Refused, Accepted, Throw, Reply, OnError, TryCalls
  <2> QED
    BY <1>1, <1>2, <2>1, EffectFramed DEF SpineInv
<1>4. ArtifactInv'
  <2>1. ArtifactFrame
    BY <1>2 DEF Candidate, Publish, Validated, ArtifactFrame, WorkerTypeOK, StoreTypeOK, store, ledgers, rows, KeepEnv, Goto, KeepLocal, Refused, Accepted, Throw, Reply, OnError, TryCalls
  <2> QED
    BY <1>1, <1>2, <2>1, ArtifactFramed DEF SpineInv
<1>5. OrderInv'
  <2>1. OrderFrame
    BY <1>2 DEF Candidate, Publish, Validated, OrderFrame, Touched, HasArtifact, WorkerTypeOK, StoreTypeOK, store, ledgers, rows, KeepEnv, Goto, KeepLocal, Refused, Accepted, Throw, Reply, OnError, TryCalls
  <2> QED
    BY <1>1, <1>2, <2>1, OrderFramed DEF SpineInv
<1>6. ResultInv'
  <2>1. ResultFrame
    BY <1>2 DEF Candidate, Publish, Validated, ResultFrame, WorkerTypeOK, StoreTypeOK, store, ledgers, rows, KeepEnv, Goto, KeepLocal, Refused, Accepted, Throw, Reply, OnError, TryCalls
  <2> QED
    BY <1>1, <1>2, <2>1, ResultFramed DEF SpineInv
<1>7. SourceInv'
  <2>1. SourceFrame
    BY <1>2 DEF Candidate, Publish, Validated, SourceFrame, Passed, WorkerTypeOK, StoreTypeOK, store, ledgers, rows, KeepEnv, Goto, KeepLocal, Refused, Accepted, Throw, Reply, OnError, TryCalls
  <2> QED
    BY <1>1, <1>2, <2>1, SourceFramed DEF SpineInv
<1> QED
  BY <1>1, <1>2, <1>3, <1>4, <1>5, <1>6, <1>7 DEF SpineInv

LEMMA CloseTaskKeeps ==
    ASSUME SpineInv, NEW w \in Workers, CloseTask(w)
    PROVE  SpineInv'
<1>1. TypeInv'
  BY CloseTaskTypes DEF SpineInv
<1>2. SpineInv => TypeInv /\ StoreTypeOK /\ WorkerTypeOK
  BY DEF SpineInv, TypeInv, TypeOK
<1>3. EffectInv'
  <2>1. EffectFrame
    BY <1>2 DEF CloseTask, EffectFrame, WorkerTypeOK, StoreTypeOK, store, ledgers, rows, KeepEnv, Goto, KeepLocal, Refused, Accepted, Throw, Reply, OnError, TryCalls
  <2> QED
    BY <1>1, <1>2, <2>1, EffectFramed DEF SpineInv
<1>4. ArtifactInv'
  <2>1. ArtifactFrame
    BY <1>2 DEF CloseTask, ArtifactFrame, WorkerTypeOK, StoreTypeOK, store, ledgers, rows, KeepEnv, Goto, KeepLocal, Refused, Accepted, Throw, Reply, OnError, TryCalls
  <2> QED
    BY <1>1, <1>2, <2>1, ArtifactFramed DEF SpineInv
<1>5. OrderInv'
  <2>1. OrderFrame
    <3>1. cur[w] \in SubsOf(TaskAt(w))
      BY <1>2 DEF SubsOf, TaskAt, WorkerTypeOK
    <3> QED
      BY <1>2, <3>1 DEF CloseTask, OrderFrame, Touched, HasArtifact, WorkerTypeOK, StoreTypeOK, store, ledgers, rows, KeepEnv, Goto, KeepLocal, Refused, Accepted, Throw, Reply, OnError, TryCalls
  <2> QED
    BY <1>1, <1>2, <2>1, OrderFramed DEF SpineInv
<1>6. ResultInv'
  <2>1. ResultFrame
    BY <1>2 DEF CloseTask, ResultFrame, WorkerTypeOK, StoreTypeOK, store, ledgers, rows, KeepEnv, Goto, KeepLocal, Refused, Accepted, Throw, Reply, OnError, TryCalls
  <2> QED
    BY <1>1, <1>2, <2>1, ResultFramed DEF SpineInv
<1>7. SourceInv'
  <2>1. SourceFrame
    BY <1>2 DEF CloseTask, SourceFrame, Passed, WorkerTypeOK, StoreTypeOK, store, ledgers, rows, KeepEnv, Goto, KeepLocal, Refused, Accepted, Throw, Reply, OnError, TryCalls
  <2> QED
    BY <1>1, <1>2, <2>1, SourceFramed DEF SpineInv
<1> QED
  BY <1>1, <1>2, <1>3, <1>4, <1>5, <1>6, <1>7 DEF SpineInv

LEMMA GatherKeeps ==
    ASSUME SpineInv, NEW w \in Workers, Gather(w)
    PROVE  SpineInv'
<1>1. TypeInv'
  BY GatherTypes DEF SpineInv
<1>2. SpineInv => TypeInv /\ StoreTypeOK /\ WorkerTypeOK
  BY DEF SpineInv, TypeInv, TypeOK
<1>3. EffectInv'
  <2>1. EffectFrame
    BY <1>2 DEF Gather, EffectFrame, WorkerTypeOK, StoreTypeOK, store, ledgers, rows, KeepEnv, Goto, KeepLocal
  <2> QED
    BY <1>1, <1>2, <2>1, EffectFramed DEF SpineInv
<1>4. ArtifactInv'
  <2>1. ArtifactFrame
    BY <1>2 DEF Gather, ArtifactFrame, WorkerTypeOK, StoreTypeOK, store, ledgers, rows, KeepEnv, Goto, KeepLocal
  <2> QED
    BY <1>1, <1>2, <2>1, ArtifactFramed DEF SpineInv
<1>5. OrderInv'
  <2>1. OrderFrame
    BY <1>2, SnapSources DEF Gather, OrderFrame, Touched, HasArtifact, WorkerTypeOK, StoreTypeOK, store, ledgers, rows, KeepEnv, Goto, KeepLocal
  <2> QED
    BY <1>1, <1>2, <2>1, OrderFramed DEF SpineInv
<1>6. ResultInv'
  <2>1. ResultFrame
    BY <1>2 DEF Gather, ResultFrame, WorkerTypeOK, StoreTypeOK, store, ledgers, rows, KeepEnv, Goto, KeepLocal
  <2> QED
    BY <1>1, <1>2, <2>1, ResultFramed DEF SpineInv
<1>7. SourceInv'
  <2>1. {s \in Subs : HasArtifact(s)} \in SUBSET Subs
    BY DEF HasArtifact
  <2>2. /\ snap'[w].sources = {s \in Subs : HasArtifact(s)}
        /\ \A v \in Workers : v # w => snap'[v] = snap[v]
    BY <1>2, <2>1, SnapSources DEF Gather, WorkerTypeOK
  <2>3. UNCHANGED <<mission, artifact>>
    BY DEF Gather, store
  <2>4. pc'[w] = "review" /\ \A v \in Workers : v # w => pc'[v] = pc[v]
    BY <1>2 DEF Gather, Goto, WorkerTypeOK
  <2> QED
    BY <2>2, <2>3, <2>4 DEF Passed, SpineInv, SourceInv, HasArtifact
<1> QED
  BY <1>1, <1>2, <1>3, <1>4, <1>5, <1>6, <1>7 DEF SpineInv

LEMMA EvaluateKeeps ==
    ASSUME SpineInv, NEW w \in Workers, Evaluate(w)
    PROVE  SpineInv'
<1>1. TypeInv'
  BY EvaluateTypes DEF SpineInv
<1>2. SpineInv => TypeInv /\ StoreTypeOK /\ WorkerTypeOK
  BY DEF SpineInv, TypeInv, TypeOK
<1>3. EffectInv'
  <2>1. EffectFrame
    BY <1>2 DEF Evaluate, EffectFrame, WorkerTypeOK, StoreTypeOK, store, ledgers, rows, KeepEnv, Goto, KeepLocal
  <2> QED
    BY <1>1, <1>2, <2>1, EffectFramed DEF SpineInv
<1>4. ArtifactInv'
  <2>1. ArtifactFrame
    BY <1>2 DEF Evaluate, ArtifactFrame, WorkerTypeOK, StoreTypeOK, store, ledgers, rows, KeepEnv, Goto, KeepLocal
  <2> QED
    BY <1>1, <1>2, <2>1, ArtifactFramed DEF SpineInv
<1>5. OrderInv'
  <2>1. OrderFrame
    BY <1>2 DEF Evaluate, OrderFrame, Touched, HasArtifact, WorkerTypeOK, StoreTypeOK, store, ledgers, rows, KeepEnv, Goto, KeepLocal
  <2> QED
    BY <1>1, <1>2, <2>1, OrderFramed DEF SpineInv
<1>6. ResultInv'
  <2>1. ResultFrame
    BY <1>2 DEF Evaluate, ResultFrame, WorkerTypeOK, StoreTypeOK, store, ledgers, rows, KeepEnv, Goto, KeepLocal
  <2> QED
    BY <1>1, <1>2, <2>1, ResultFramed DEF SpineInv
<1>7. SourceInv'
  <2>1. UNCHANGED <<mission, artifact, snap>>
    BY DEF Evaluate, KeepLocal, store
  <2>2. \A v \in Workers : v # w => pc'[v] = pc[v]
    BY <1>2 DEF Evaluate, Goto, WorkerTypeOK
  <2>3. pc'[w] \in Passed => \A s \in snap[w].sources : artifact[s].tag = snap[w].tag
    BY <1>2 DEF Evaluate, Goto, AuditPasses, Passed, WorkerTypeOK
  <2> QED
    BY <2>1, <2>2, <2>3 DEF SpineInv, SourceInv, HasArtifact
<1> QED
  BY <1>1, <1>2, <1>3, <1>4, <1>5, <1>6, <1>7 DEF SpineInv

LEMMA RecordKeeps ==
    ASSUME SpineInv, NEW w \in Workers, Record(w)
    PROVE  SpineInv'
<1>1. TypeInv'
  BY RecordTypes DEF SpineInv
<1>2. SpineInv => TypeInv /\ StoreTypeOK /\ WorkerTypeOK
  BY DEF SpineInv, TypeInv, TypeOK
<1>3. EffectInv'
  <2>1. EffectFrame
    BY <1>2 DEF Record, Publish, EffectFrame, WorkerTypeOK, StoreTypeOK, store, ledgers, rows, KeepEnv, Goto, KeepLocal, Refused, Accepted, Throw, Reply, OnError, TryCalls
  <2> QED
    BY <1>1, <1>2, <2>1, EffectFramed DEF SpineInv
<1>4. ArtifactInv'
  <2>1. ArtifactFrame
    BY <1>2 DEF Record, Publish, ArtifactFrame, WorkerTypeOK, StoreTypeOK, store, ledgers, rows, KeepEnv, Goto, KeepLocal, Refused, Accepted, Throw, Reply, OnError, TryCalls
  <2> QED
    BY <1>1, <1>2, <2>1, ArtifactFramed DEF SpineInv
<1>5. OrderInv'
  <2>1. OrderFrame
    BY <1>2 DEF Record, Publish, OrderFrame, Touched, HasArtifact, WorkerTypeOK, StoreTypeOK, store, ledgers, rows, KeepEnv, Goto, KeepLocal, Refused, Accepted, Throw, Reply, OnError, TryCalls
  <2> QED
    BY <1>1, <1>2, <2>1, OrderFramed DEF SpineInv
<1>6. ResultInv'
  <2>1. ResultFrame
    BY <1>2 DEF Record, Publish, ResultFrame, WorkerTypeOK, StoreTypeOK, store, ledgers, rows, KeepEnv, Goto, KeepLocal, Refused, Accepted, Throw, Reply, OnError, TryCalls
  <2> QED
    BY <1>1, <1>2, <2>1, ResultFramed DEF SpineInv
<1>7. SourceInv'
  <2>1. SourceFrame
    BY <1>2 DEF Record, Publish, SourceFrame, Passed, WorkerTypeOK, StoreTypeOK, store, ledgers, rows, KeepEnv, Goto, KeepLocal, Refused, Accepted, Throw, Reply, OnError, TryCalls
  <2> QED
    BY <1>1, <1>2, <2>1, SourceFramed DEF SpineInv
<1> QED
  BY <1>1, <1>2, <1>3, <1>4, <1>5, <1>6, <1>7 DEF SpineInv

LEMMA FinalizeKeeps ==
    ASSUME SpineInv, NEW w \in Workers, Finalize(w)
    PROVE  SpineInv'
<1>1. TypeInv'
  BY FinalizeTypes DEF SpineInv
<1>2. SpineInv => TypeInv /\ StoreTypeOK /\ WorkerTypeOK
  BY DEF SpineInv, TypeInv, TypeOK
<1>3. EffectInv'
  <2>1. EffectFrame
    BY <1>2 DEF Finalize, EffectFrame, WorkerTypeOK, StoreTypeOK, store, ledgers, rows, KeepEnv, Goto, KeepLocal, Refused, Accepted, Throw, Reply, OnError, TryCalls
  <2> QED
    BY <1>1, <1>2, <2>1, EffectFramed DEF SpineInv
<1>4. ArtifactInv'
  <2>1. ArtifactFrame
    BY <1>2 DEF Finalize, ArtifactFrame, WorkerTypeOK, StoreTypeOK, store, ledgers, rows, KeepEnv, Goto, KeepLocal, Refused, Accepted, Throw, Reply, OnError, TryCalls
  <2> QED
    BY <1>1, <1>2, <2>1, ArtifactFramed DEF SpineInv
<1>5. OrderInv'
  <2>1. OrderFrame
    BY <1>2 DEF Finalize, OrderFrame, Touched, HasArtifact, WorkerTypeOK, StoreTypeOK, store, ledgers, rows, KeepEnv, Goto, KeepLocal, Refused, Accepted, Throw, Reply, OnError, TryCalls
  <2> QED
    BY <1>1, <1>2, <2>1, OrderFramed DEF SpineInv
<1>6. ResultInv'
  <2>1. ResultFrame
    BY <1>2 DEF Finalize, ResultFrame, WorkerTypeOK, StoreTypeOK, store, ledgers, rows, KeepEnv, Goto, KeepLocal, Refused, Accepted, Throw, Reply, OnError, TryCalls
  <2> QED
    BY <1>1, <1>2, <2>1, ResultFramed DEF SpineInv
<1>7. SourceInv'
  <2>1. UNCHANGED <<artifact, snap>>
    BY DEF Finalize, KeepLocal, Refused, store
  <2>2. \A v \in Workers : pc'[v] \in Passed => pc[v] \in Passed
    BY <1>2 DEF Finalize, Passed, Refused, Accepted, Throw, Reply, OnError, TryCalls, Goto, WorkerTypeOK
  <2>3. mission'.sources \in {mission.sources, snap[w].sources}
    <3>1. CASE UNCHANGED store
      BY <3>1 DEF store
    <3>2. CASE InsertFinal(snap[w].sources)
      BY <1>2, <3>2, FinalWritten DEF WorkerTypeOK, Snapshots
    <3> QED
      BY <3>1, <3>2 DEF Finalize, Refused
  <2>4. \A s, t \in snap[w].sources : HasArtifact(s) /\ artifact[s].tag = artifact[t].tag
    BY DEF Finalize, Passed, SpineInv, SourceInv
  <2> QED
    BY <2>1, <2>2, <2>3, <2>4 DEF SpineInv, SourceInv, HasArtifact
<1> QED
  BY <1>1, <1>2, <1>3, <1>4, <1>5, <1>6, <1>7 DEF SpineInv

LEMMA CheckpointKeeps ==
    ASSUME SpineInv, NEW w \in Workers, Checkpoint(w)
    PROVE  SpineInv'
<1>1. TypeInv'
  BY CheckpointTypes DEF SpineInv
<1>2. SpineInv => TypeInv /\ StoreTypeOK /\ WorkerTypeOK
  BY DEF SpineInv, TypeInv, TypeOK
<1>3. EffectInv'
  <2>1. EffectFrame
    BY <1>2 DEF Checkpoint, Validated, SaveCheckpoint, EffectFrame, WorkerTypeOK, StoreTypeOK, store, ledgers, rows, KeepEnv, Goto, KeepLocal, Refused, Accepted, Throw, Reply, OnError, TryCalls
  <2> QED
    BY <1>1, <1>2, <2>1, EffectFramed DEF SpineInv
<1>4. ArtifactInv'
  <2>1. ArtifactFrame
    BY <1>2 DEF Checkpoint, Validated, SaveCheckpoint, ArtifactFrame, WorkerTypeOK, StoreTypeOK, store, ledgers, rows, KeepEnv, Goto, KeepLocal, Refused, Accepted, Throw, Reply, OnError, TryCalls
  <2> QED
    BY <1>1, <1>2, <2>1, ArtifactFramed DEF SpineInv
<1>5. OrderInv'
  <2>1. OrderFrame
    BY <1>2 DEF Checkpoint, Validated, SaveCheckpoint, OrderFrame, Touched, HasArtifact, WorkerTypeOK, StoreTypeOK, store, ledgers, rows, KeepEnv, Goto, KeepLocal, Refused, Accepted, Throw, Reply, OnError, TryCalls
  <2> QED
    BY <1>1, <1>2, <2>1, OrderFramed DEF SpineInv
<1>6. ResultInv'
  <2>1. ResultFrame
    <3>1. ~IsTool(cur[w])
      BY <1>2 DEF Checkpoint, TypeInv, LocalInv, AgentCalls
    <3> QED
      BY <1>2, <3>1 DEF Checkpoint, Validated, SaveCheckpoint, ResultFrame, WorkerTypeOK, StoreTypeOK, store, ledgers, rows, KeepEnv, Goto, KeepLocal, Refused, Accepted, Throw, Reply, OnError, TryCalls
  <2> QED
    BY <1>1, <1>2, <2>1, ResultFramed DEF SpineInv
<1>7. SourceInv'
  <2>1. SourceFrame
    BY <1>2 DEF Checkpoint, Validated, SaveCheckpoint, SourceFrame, Passed, WorkerTypeOK, StoreTypeOK, store, ledgers, rows, KeepEnv, Goto, KeepLocal, Refused, Accepted, Throw, Reply, OnError, TryCalls
  <2> QED
    BY <1>1, <1>2, <2>1, SourceFramed DEF SpineInv
<1> QED
  BY <1>1, <1>2, <1>3, <1>4, <1>5, <1>6, <1>7 DEF SpineInv

LEMMA EffectKeeps ==
    ASSUME SpineInv, NEW w \in Workers, Effect(w)
    PROVE  SpineInv'
<1>1. TypeInv'
  BY EffectTypes DEF SpineInv
<1>2. SpineInv => TypeInv /\ StoreTypeOK /\ WorkerTypeOK
  BY DEF SpineInv, TypeInv, TypeOK
<1>3. EffectInv'
  <2>1. /\ pc[w] = "effect" /\ cur[w] \in Subs /\ effects[cur[w]] = 0
        /\ run[cur[w]].status # "absent"
    BY <1>2 DEF Effect, SpineInv, EffectInv, WorkerTypeOK
  <2>2. /\ UNCHANGED <<approval, run, cur>>
        /\ pc'[w] # "effect" /\ \A v \in Workers : v # w => pc'[v] = pc[v]
    BY <1>2 DEF Effect, Goto, store, WorkerTypeOK
  <2>3. /\ \A s \in Subs : s # cur[w] => effects'[s] = effects[s]
        /\ effects'[cur[w]] \in {0, 1}
    BY <1>2, <2>1 DEF Effect, Perform, WorkerTypeOK
  <2>4. EffectAuthorized'
    BY <2>1, <2>2, <2>3 DEF SpineInv, EffectInv, EffectAuthorized, Protected
  <2>5. \A s \in Subs : effects'[s] <= 1 /\ (effects'[s] > 0 => run'[s].status # "absent")
    BY <2>1, <2>2, <2>3 DEF SpineInv, EffectInv
  <2>6. \A v \in Workers : pc'[v] = "effect" => cur[v] # cur[w] /\ pc[v] = "effect" /\ v # w
    BY <2>1, <2>2 DEF SpineInv, EffectInv
  <2>7. \A v \in Workers : pc'[v] = "effect" =>
           effects'[cur'[v]] = 0 /\ run'[cur'[v]].status # "absent"
    BY <1>2, <2>2, <2>3, <2>6 DEF SpineInv, EffectInv, WorkerTypeOK
  <2> QED
    BY <2>2, <2>4, <2>5, <2>6, <2>7 DEF SpineInv, EffectInv
<1>4. ArtifactInv'
  <2>1. ArtifactFrame
    BY <1>2 DEF Effect, Perform, ArtifactFrame, WorkerTypeOK, StoreTypeOK, store, ledgers, rows, KeepEnv, Goto, KeepLocal
  <2> QED
    BY <1>1, <1>2, <2>1, ArtifactFramed DEF SpineInv
<1>5. OrderInv'
  <2>1. OrderFrame
    BY <1>2 DEF Effect, Perform, OrderFrame, Touched, HasArtifact, WorkerTypeOK, StoreTypeOK, store, ledgers, rows, KeepEnv, Goto, KeepLocal
  <2> QED
    BY <1>1, <1>2, <2>1, OrderFramed DEF SpineInv
<1>6. ResultInv'
  <2>1. ResultFrame
    BY <1>2 DEF Effect, Perform, ResultFrame, WorkerTypeOK, StoreTypeOK, store, ledgers, rows, KeepEnv, Goto, KeepLocal
  <2> QED
    BY <1>1, <1>2, <2>1, ResultFramed DEF SpineInv
<1>7. SourceInv'
  <2>1. SourceFrame
    BY <1>2 DEF Effect, Perform, SourceFrame, Passed, WorkerTypeOK, StoreTypeOK, store, ledgers, rows, KeepEnv, Goto, KeepLocal
  <2> QED
    BY <1>1, <1>2, <2>1, SourceFramed DEF SpineInv
<1> QED
  BY <1>1, <1>2, <1>3, <1>4, <1>5, <1>6, <1>7 DEF SpineInv

LEMMA FinishToolKeeps ==
    ASSUME SpineInv, NEW w \in Workers, FinishTool(w)
    PROVE  SpineInv'
<1>1. TypeInv'
  BY FinishToolTypes DEF SpineInv
<1>2. SpineInv => TypeInv /\ StoreTypeOK /\ WorkerTypeOK
  BY DEF SpineInv, TypeInv, TypeOK
<1>3. \/ UNCHANGED store /\ pc'[w] \notin {"candidate", "effect"}
      \/ /\ FinishRun(cur[w], out[w]) /\ cur[w] \in Subs /\ out[w] \in Results
         /\ UNCHANGED <<lease, rows, approval, checkpoint>>
  BY <1>2 DEF FinishTool, Refused, Throw, OnError, TryCalls, Goto, TypeInv, LocalInv, WorkerTypeOK
<1>4. \/ run' = run /\ UNCHANGED <<rows, approval, checkpoint>> /\ pc'[w] # "candidate"
      \/ /\ cur[w] \in Subs /\ out[w] \in Results
         /\ \A t \in Subs : t # cur[w] => run'[t] = run[t]
         /\ run[cur[w]].status = "running"
         /\ run'[cur[w]] = [status |-> "succeeded", result |-> out[w]]
         /\ UNCHANGED <<rows, approval, checkpoint>>
  BY <1>2, <1>3, RunFinished DEF store, rows
<1>5. /\ UNCHANGED <<snap, cur, attempt, out, beat, late, effects>>
      /\ pc'[w] \notin {"effect", "store", "record", "finalize"} /\ \A v \in Workers : v # w => pc'[v] = pc[v]
  BY <1>2 DEF FinishTool, KeepLocal, KeepEnv, Refused, Throw, Reply, OnError, TryCalls, Goto, WorkerTypeOK
<1>6. EffectInv'
  <2>1. EffectFrame
    BY <1>2, <1>4, <1>5 DEF EffectFrame, WorkerTypeOK, StoreTypeOK, rows
  <2> QED
    BY <1>1, <1>2, <2>1, EffectFramed DEF SpineInv
<1>7. ArtifactInv'
  <2>1. ArtifactFrame
    BY <1>2, <1>4, <1>5 DEF ArtifactFrame, WorkerTypeOK, StoreTypeOK, rows
  <2> QED
    BY <1>1, <1>2, <2>1, ArtifactFramed DEF SpineInv
<1>8. OrderInv'
  <2>1. OrderFrame
    BY <1>2, <1>4, <1>5 DEF OrderFrame, Touched, HasArtifact, WorkerTypeOK, StoreTypeOK, rows
  <2> QED
    BY <1>1, <1>2, <2>1, OrderFramed DEF SpineInv
<1>9. ResultInv'
  <2>1. ResultFrame
    BY <1>2, <1>4, <1>5 DEF ResultFrame, WorkerTypeOK, StoreTypeOK, rows
  <2> QED
    BY <1>1, <1>2, <2>1, ResultFramed DEF SpineInv
<1>10. SourceInv'
  <2>1. SourceFrame
    BY <1>2, <1>4, <1>5 DEF SourceFrame, Passed, WorkerTypeOK, StoreTypeOK, rows
  <2> QED
    BY <1>1, <1>2, <2>1, SourceFramed DEF SpineInv
<1> QED
  BY <1>1, <1>2, <1>6, <1>7, <1>8, <1>9, <1>10 DEF SpineInv

LEMMA StartToolKeeps ==
    ASSUME SpineInv, NEW w \in Workers, StartTool(w)
    PROVE  SpineInv'
<1>1. TypeInv'
  BY StartToolTypes DEF SpineInv
<1>2. SpineInv => TypeInv /\ StoreTypeOK /\ WorkerTypeOK
  BY DEF SpineInv, TypeInv, TypeOK
<1>3. /\ UNCHANGED <<snap, cur, attempt, out, beat, late, effects>>
      /\ pc'[w] \notin {"candidate", "store", "record", "finalize"}
      /\ \A v \in Workers : v # w => pc'[v] = pc[v]
      /\ pc[w] = "start" /\ cur[w] \in Subs
  BY <1>2 DEF StartTool, KeepLocal, KeepEnv, Throw, Reply, OnError, TryCalls, Goto, WorkerTypeOK
<1>4. \/ UNCHANGED store /\ pc'[w] # "effect"
      \/ StartRun(cur[w]) /\ UNCHANGED <<lease, rows, checkpoint>>
  BY <1>2 DEF StartTool, Throw, OnError, TryCalls, Goto, WorkerTypeOK
<1>5. \/ UNCHANGED store /\ pc'[w] # "effect"
      \/ /\ UNCHANGED <<rows, checkpoint>>
         /\ \A t \in Subs : t # cur[w] => run'[t] = run[t] /\ approval'[t] = approval[t]
         /\ run[cur[w]].status = "absent" /\ run'[cur[w]].status = "running"
         /\ run'[cur[w]].result = run[cur[w]].result
         /\ Protected(cur[w]) => approval'[cur[w]].status = "approved" /\ approval'[cur[w]].consumed
  BY <1>2, <1>3, <1>4, RunStarted
<1>6. EffectInv'
  <2>1. CASE UNCHANGED store /\ pc'[w] # "effect"
    <3>1. EffectFrame
      BY <1>2, <1>3, <2>1 DEF EffectFrame, store, WorkerTypeOK
    <3> QED
      BY <1>1, <1>2, <3>1, EffectFramed DEF SpineInv
  <2>2. CASE ~(UNCHANGED store /\ pc'[w] # "effect")
    <3>1. effects[cur[w]] = 0
      BY <1>2, <1>3, <1>5, <2>2 DEF SpineInv, EffectInv, WorkerTypeOK
    <3>2. \A v \in Workers : pc[v] = "effect" => cur[v] # cur[w]
      BY <1>5, <2>2 DEF SpineInv, EffectInv
    <3>3. EffectAuthorized'
      BY <1>3, <1>5, <2>2 DEF SpineInv, EffectInv, EffectAuthorized, Protected
    <3>4. \A s \in Subs : effects'[s] <= 1 /\ (effects'[s] > 0 => run'[s].status # "absent")
      BY <1>3, <1>5, <2>2 DEF SpineInv, EffectInv
    <3>5. \A v \in Workers : pc'[v] = "effect" =>
             effects'[cur'[v]] = 0 /\ run'[cur'[v]].status # "absent"
      BY <1>2, <1>3, <1>5, <2>2, <3>1, <3>2 DEF SpineInv, EffectInv, WorkerTypeOK
    <3>6. \A u, v \in Workers : u # v /\ pc'[u] = "effect" /\ pc'[v] = "effect" => cur'[u] # cur'[v]
      BY <1>3, <3>2 DEF SpineInv, EffectInv
    <3> QED
      BY <3>3, <3>4, <3>5, <3>6 DEF EffectInv
  <2> QED
    BY <2>1, <2>2
<1>7. ArtifactInv'
  <2>1. ArtifactFrame
    BY <1>2, <1>3, <1>5 DEF ArtifactFrame, WorkerTypeOK, StoreTypeOK, rows, store, ledgers
  <2> QED
    BY <1>1, <1>2, <2>1, ArtifactFramed DEF SpineInv
<1>8. OrderInv'
  <2>1. OrderFrame
    BY <1>2, <1>3, <1>5 DEF OrderFrame, Touched, HasArtifact, WorkerTypeOK, StoreTypeOK, rows, store, ledgers
  <2> QED
    BY <1>1, <1>2, <2>1, OrderFramed DEF SpineInv
<1>9. ResultInv'
  <2>1. ResultFrame
    BY <1>2, <1>3, <1>5 DEF ResultFrame, WorkerTypeOK, StoreTypeOK, rows, store, ledgers
  <2> QED
    BY <1>1, <1>2, <2>1, ResultFramed DEF SpineInv
<1>10. SourceInv'
  <2>1. SourceFrame
    BY <1>2, <1>3, <1>5 DEF SourceFrame, Passed, WorkerTypeOK, StoreTypeOK, rows, store, ledgers
  <2> QED
    BY <1>1, <1>2, <2>1, SourceFramed DEF SpineInv
<1> QED
  BY <1>1, <1>2, <1>6, <1>7, <1>8, <1>9, <1>10 DEF SpineInv

LEMMA StoreKeeps ==
    ASSUME SpineInv, NEW w \in Workers, Store(w)
    PROVE  SpineInv'
<1>1. TypeInv'
  BY StoreTypes DEF SpineInv
<1>2. SpineInv => TypeInv /\ StoreTypeOK /\ WorkerTypeOK
  BY DEF SpineInv, TypeInv, TypeOK
<1>3. /\ UNCHANGED <<snap, attempt, beat, late, effects, mission, run, approval, checkpoint>>
      /\ pc'[w] \notin {"effect", "candidate", "store", "record", "finalize"}
      /\ \A v \in Workers : v # w => pc'[v] = pc[v]
      /\ pc[w] = "store" /\ cur[w] \in Subs /\ out[w] \in ValidResults /\ out[w] \in Results
  BY <1>2, StoreAssumption DEF Store, KeepEnv, store, ledgers, Refused, Accepted, Throw, Reply, OnError, TryCalls,
     AfterSub, Goto, TypeInv, LocalInv, WorkerTypeOK
<1>4. \/ UNCHANGED <<sub, artifact, cur, out>>
      \/ /\ StoreOutput(cur[w], out[w], snap[w].tag) /\ Advance(w)
         /\ out' = [out EXCEPT ![w] = NoResult]
  BY DEF Store, Refused, store
<1>5. snap[w].tag \in Tags
  BY <1>2 DEF WorkerTypeOK, Snapshots
<1>6. \/ UNCHANGED <<sub, artifact, cur, out>>
      \/ /\ \A t \in Subs : t # cur[w] => sub'[t] = sub[t] /\ artifact'[t] = artifact[t]
         /\ sub'[cur[w]].status = "succeeded" /\ sub'[cur[w]].output = out[w]
         /\ artifact'[cur[w]] = IF HasArtifact(cur[w]) THEN artifact[cur[w]]
                                ELSE [content |-> out[w], tag |-> snap[w].tag]
         /\ \A v \in Workers : v # w => cur'[v] = cur[v] /\ out'[v] = out[v]
         /\ cur'[w] \in {cur[w], cur[w] + 1}
  BY <1>2, <1>3, <1>4, <1>5, OutputWritten DEF Advance, WorkerTypeOK
<1>7. EffectInv'
  <2>1. EffectFrame
    BY <1>2, <1>3, <1>6 DEF EffectFrame, WorkerTypeOK, StoreTypeOK, rows
  <2> QED
    BY <1>1, <1>2, <2>1, EffectFramed DEF SpineInv
<1>8. ArtifactInv'
  BY <1>3, <1>6, OutputFacts DEF SpineInv, ArtifactInv, HasArtifact
<1>9. OrderInv'
  <2>1. OrderFrame
    BY <1>2, <1>3, <1>6 DEF OrderFrame, Touched, HasArtifact, WorkerTypeOK, StoreTypeOK, rows
  <2> QED
    BY <1>1, <1>2, <2>1, OrderFramed DEF SpineInv
<1>10. ResultInv'
  <2>1. IsTool(cur[w]) => run[cur[w]] = [status |-> "succeeded", result |-> out[w]]
    BY <1>3 DEF SpineInv, ResultInv
  <2>2. ToolEvidence'
    BY <1>3, <1>6, <2>1, OutputFacts DEF SpineInv, ResultInv, ToolEvidence, HasArtifact, IsTool
  <2>3. \A v \in Workers : v # w => cur'[v] = cur[v] /\ out'[v] = out[v]
    BY <1>6
  <2> QED
    BY <1>3, <2>2, <2>3 DEF SpineInv, ResultInv, IsTool
<1>11. SourceInv'
  <2>1. SourceFrame
    BY <1>2, <1>3, <1>6 DEF SourceFrame, Passed, WorkerTypeOK, StoreTypeOK, rows
  <2> QED
    BY <1>1, <1>2, <2>1, SourceFramed DEF SpineInv
<1> QED
  BY <1>1, <1>2, <1>7, <1>8, <1>9, <1>10, <1>11 DEF SpineInv

-----------------------------------------------------------------------------
(* The administrator, the clock, and steps in which nothing happens. *)

LEMMA LocalStays ==
    ASSUME UNCHANGED local
    PROVE  WorkersQuiet
BY DEF local, WorkersQuiet, Unmoved

LEMMA ReconcileKeeps ==
    ASSUME SpineInv, NEW s \in Subs, NEW r \in ValidResults, Reconcile(s, r),
           UNCHANGED <<local, env, effects>>, TypeInv'
    PROVE  SpineInv'
<1> r \in Results
  BY StoreAssumption
<1>1. /\ \A t \in Subs : /\ sub[t].status = "succeeded" <=> sub'[t].status = "succeeded"
                        /\ sub'[t].output = sub[t].output
      /\ \A t \in Subs : t # s => run'[t] = run[t]
      /\ run[s].status = "running"
      /\ run'[s] = [status |-> "succeeded", result |-> r]
  BY ReconcileType DEF SpineInv, TypeInv, TypeOK
<1>2. UNCHANGED <<artifact, approval, checkpoint, effects, pc, cur, out, snap>>
  BY DEF Reconcile, local
<1>3. mission'.sources = mission.sources
  <2>1. "queued" \in SubStatus \cap TaskStatus \cap MissionStatus
    BY StatusFacts
  <2> QED
    BY <2>1, AllMoved DEF Reconcile, SpineInv, TypeInv, TypeOK
<1>4. EffectFrame
  BY <1>1, <1>2 DEF EffectFrame
<1>5. ArtifactFrame
  BY <1>1, <1>2 DEF ArtifactFrame
<1>6. OrderFrame
  <2>1. \A t \in Subs : Touched(t)' => Touched(t)
    BY <1>1, <1>2 DEF Touched, HasArtifact
  <2> QED
    BY <1>1, <1>2, <2>1 DEF OrderFrame
<1>7. ResultFrame
  BY <1>1, <1>2 DEF ResultFrame
<1>8. SourceFrame
  BY <1>2, <1>3 DEF SourceFrame
<1> QED
  BY <1>4, <1>5, <1>6, <1>7, <1>8, EffectFramed, ArtifactFramed, OrderFramed, ResultFramed,
     SourceFramed DEF SpineInv

LEMMA AdministratorKeeps ==
    ASSUME SpineInv, Administrator
    PROVE  SpineInv'
<1>1. TypeInv' /\ StoreTypeOK
  BY AdministratorTypes DEF SpineInv, TypeInv, TypeOK
<1>2. UNCHANGED <<local, env, effects>> /\ WorkersQuiet
  BY LocalStays DEF Administrator
<1>3. ASSUME NEW s \in Subs, NEW d \in {"approved", "rejected"}, Decide(s, d) PROVE RowsQuiet
  <2>1. ~(Protected(s) /\ approval[s].consumed)
    BY <1>3 DEF Decide, SpineInv, EffectInv, EffectAuthorized
  <2>2. mission'.sources = mission.sources
    <3>1. (IF d = "approved" THEN "queued" ELSE "failed") \in SubStatus \cap TaskStatus \cap MissionStatus
      BY StatusFacts
    <3> QED
      BY <1>1, <1>3, <3>1, AllMoved DEF Decide
  <2>3. \A t \in Subs : /\ sub[t].status = "succeeded" <=> sub'[t].status = "succeeded"
                       /\ sub'[t].output = sub[t].output
    BY <1>1, <1>3, DecideType
  <2>4. /\ \A t \in Subs : t # s => approval'[t] = approval[t]
        /\ approval'[s].consumed = approval[s].consumed
    BY <1>1, <1>3, DecideType
  <2> QED
    BY <1>2, <1>3, <2>1, <2>2, <2>3, <2>4 DEF Decide, RowsQuiet
<1>4. ASSUME NEW s \in Subs, Renew(s) PROVE RowsQuiet
  BY <1>1, <1>2, <1>4, RenewType DEF RowsQuiet, rows
<1>5. ASSUME NEW tag \in Tags, Resume(tag) PROVE RowsQuiet
  BY <1>1, <1>2, <1>5, ResumeType DEF Resume, ledgers, RowsQuiet
<1>6. ASSUME NEW s \in Subs, NEW r \in ValidResults, Reconcile(s, r) PROVE SpineInv'
  BY <1>1, <1>2, <1>6, ReconcileKeeps
<1> QED
  BY <1>1, <1>2, <1>3, <1>4, <1>5, <1>6, QuietKeeps DEF Administrator

LEMMA ClockKeeps ==
    ASSUME SpineInv, Clock
    PROVE  SpineInv'
<1>1. TypeInv' /\ StoreTypeOK
  BY ClockTypes DEF SpineInv, TypeInv, TypeOK
<1>2. WorkersQuiet
  BY LocalStays DEF Clock, ExpireLease, PassDeadline
<1>3. RowsQuiet
  <2>1. ASSUME NEW s \in Subs, ExpireReceipt(s), UNCHANGED effects PROVE RowsQuiet
    BY <1>1, <2>1, RenewType DEF RowsQuiet, rows
  <2>2. CASE ExpireLease
    BY <2>2, SameRows DEF ExpireLease, rows, ledgers
  <2>3. CASE PassDeadline
    BY <2>3, SameRows DEF PassDeadline, store
  <2> QED
    BY <2>1, <2>2, <2>3 DEF Clock
<1> QED
  BY <1>1, <1>2, <1>3, QuietKeeps

LEMMA IdleKeeps ==
    ASSUME SpineInv, UNCHANGED vars
    PROVE  SpineInv'
<1>1. TypeInv'
  BY IdleTypes DEF SpineInv
<1>2. WorkersQuiet
  BY LocalStays DEF vars
<1>3. RowsQuiet
  BY SameRows DEF vars, store
<1> QED
  BY <1>1, <1>2, <1>3, QuietKeeps

-----------------------------------------------------------------------------
(* SpineInv is inductive. *)

LEMMA SpineInvInit == Init => SpineInv
<1> SUFFICES ASSUME Init PROVE SpineInv
  OBVIOUS
<1>1. TypeInv
  BY TypeInvInit
<1>2. /\ \A s \in Subs : /\ sub[s].status = "queued" /\ sub[s].output = NoResult
                        /\ ~HasArtifact(s) /\ checkpoint[s] = NoResult
                        /\ run[s].status = "absent" /\ run[s].result = NoResult
                        /\ ~approval[s].consumed /\ effects[s] = 0
      /\ mission.sources = {} /\ mission.status = "queued"
  BY DEF Init, StoreInit, WorkerInit, HasArtifact
<1>3. \A w \in Workers : /\ pc[w] = "idle" /\ cur[w] = 1 /\ snap[w] = Blank
  BY DEF Init, WorkerInit
<1>4. EffectInv
  BY <1>2, <1>3 DEF EffectInv, EffectAuthorized
<1>5. ArtifactInv
  BY <1>2 DEF ArtifactInv
<1>6. OrderInv
  <2>1. \A s \in Subs : ~(s < 1)
    BY StoreAssumption DEF Subs
  <2>2. \A w \in Workers, s \in Subs : snap[w].subs[s].status = "queued"
    BY <1>3 DEF Blank
  <2> QED
    BY <1>2, <1>3, <2>1, <2>2 DEF OrderInv, StepsInOrder
<1>7. ResultInv
  BY <1>2, <1>3 DEF ResultInv, ToolEvidence
<1>8. SourceInv
  BY <1>2, <1>3 DEF SourceInv, Blank
<1> QED
  BY <1>1, <1>4, <1>5, <1>6, <1>7, <1>8 DEF SpineInv

LEMMA SpineInvStep ==
    ASSUME SpineInv, [Next]_vars
    PROVE  SpineInv'
<1>1. ASSUME NEW w \in Workers, Step(w) PROVE SpineInv'
  BY <1>1, AcquireKeeps, OpenKeeps, LoadTasksKeeps, PlanKeeps, CommitPlanKeeps,
     ReloadKeeps, RunKeeps, EnterTaskKeeps, LoadSubsKeeps, VisitKeeps,
     RecoverKeeps, AttemptKeeps, AssignKeeps, PriorKeeps, ReceiptKeeps,
     StartToolKeeps, EffectKeeps, FinishToolKeeps, CandidateKeeps,
     InvokeKeeps, ModelKeeps, CheckpointKeeps, PauseKeeps, UncertainKeeps,
     FailKeeps, StopAtDeadlineKeeps, RetryKeeps, StoreKeeps, BlockTaskKeeps,
     ParkKeeps, AbortKeeps, SuperviseKeeps, CloseTaskKeeps, GatherKeeps,
     ReviewKeeps, EvaluateKeeps, RecordKeeps, FinalizeKeeps, ReleaseKeeps
  DEF Step
<1>2. ASSUME NEW w \in Workers,
             Begin(w) \/ SendBeat(w) \/ ReceiveBeat(w) \/ Drop(w) \/ Crash(w)
      PROVE  SpineInv'
  BY <1>2, BeginKeeps, SendBeatKeeps, ReceiveBeatKeeps, DropKeeps, CrashKeeps
<1> QED
  BY <1>1, <1>2, AdministratorKeeps, ClockKeeps, IdleKeeps DEF Next

(* What every worker may rely on, however stale the rows it has read are and *)
(* whoever holds the lease (planAndExecuteMission, the store's functions).    *)
THEOREM InvariantHolds == Spec => []SpineInv
<1>1. Init => SpineInv
  BY SpineInvInit
<1>2. SpineInv /\ [Next]_vars => SpineInv'
  BY SpineInvStep
<1> QED
  BY <1>1, <1>2, PTL DEF Spec

(* The action of a plan row takes place at most once (spine_start_tool).     *)
THEOREM EffectsHappenOnce == Spec => []EffectAtMostOnce
<1>1. SpineInv => EffectAtMostOnce
  BY DEF SpineInv, EffectInv, EffectAtMostOnce
<1> QED
  BY <1>1, InvariantHolds, PTL

(* No protected action without an approval that was spent on its only run    *)
(* (spine_start_tool, spine_decide, executeTool).                            *)
THEOREM EffectsAuthorized == Spec => []EffectAuthorized
<1>1. SpineInv => EffectAuthorized
  BY DEF SpineInv, EffectInv
<1> QED
  BY <1>1, InvariantHolds, PTL

(* Whatever is recorded for a row, every earlier row has succeeded (the      *)
(* loops of planAndExecuteMission, by any number of overtaken workers).      *)
THEOREM StepsHappenInOrder == Spec => []StepsInOrder
<1>1. SpineInv => StepsInOrder
  BY DEF SpineInv, OrderInv
<1> QED
  BY <1>1, InvariantHolds, PTL

(* Artifact, stored output and run ledger of a tool step agree               *)
(* (spine_finish_tool, setSubtaskOutputs, createArtifact).                   *)
THEOREM ToolEvidenceAgrees == Spec => []ToolEvidence
<1>1. SpineInv => ToolEvidence
  BY DEF SpineInv, ResultInv
<1> QED
  BY <1>1, InvariantHolds, PTL

(* The sources of a final artifact are succeeded rows with schema-valid      *)
(* artifacts made under the same constraints (evaluateMission, auditMission).*)
THEOREM MissionsEndOnEvidence == Spec => []FinalEvidence
<1>1. SpineInv => FinalEvidence
  <2> SUFFICES ASSUME SpineInv PROVE FinalEvidence
    OBVIOUS
  <2>1. mission.sources \subseteq Subs
    BY DEF SpineInv, TypeInv, TypeOK, StoreTypeOK, MissionRows
  <2> QED
    BY <2>1 DEF SpineInv, ArtifactInv, SourceInv, FinalEvidence
<1> QED
  BY <1>1, InvariantHolds, PTL

-----------------------------------------------------------------------------
(* Which steps write what. *)

(* What GovernedAction sees of a state. *)
governed == <<approval, run, effects>>

(* Steps of a worker that write no subtask, no artifact and no ledger. *)
LEMMA BystanderSteps ==
    ASSUME NEW w \in Workers,
           \/ Acquire(w) \/ Open(w) \/ LoadTasks(w) \/ Plan(w) \/ CommitPlan(w) \/ Reload(w)
           \/ Run(w) \/ EnterTask(w) \/ LoadSubs(w) \/ Visit(w) \/ Recover(w) \/ Assign(w)
           \/ Prior(w) \/ Candidate(w) \/ Invoke(w) \/ Model(w) \/ Checkpoint(w)
           \/ StopAtDeadline(w) \/ BlockTask(w) \/ Park(w) \/ Abort(w) \/ Supervise(w)
           \/ CloseTask(w) \/ Gather(w) \/ Review(w) \/ Evaluate(w) \/ Record(w) \/ Finalize(w)
           \/ Release(w) \/ Begin(w) \/ SendBeat(w) \/ ReceiveBeat(w) \/ Drop(w) \/ Crash(w)
    PROVE  UNCHANGED <<sub, artifact, governed>>
<1> USE DEF KeepEnv, governed, store, ledgers, rows, Refused
<1>1. CASE Acquire(w) \/ Open(w) \/ LoadTasks(w) \/ Plan(w) \/ Reload(w)
  BY <1>1 DEF Acquire, Open, LoadTasks, Plan, Reload
<1>2. CASE CommitPlan(w) \/ Run(w) \/ Park(w) \/ Abort(w)
  BY <1>2 DEF CommitPlan, InsertPlan, Run, Park, Abort, WriteMission
<1>3. CASE EnterTask(w) \/ BlockTask(w)
  BY <1>3 DEF EnterTask, BlockTask, WriteTask
<1>4. CASE LoadSubs(w) \/ Visit(w) \/ Recover(w)
  BY <1>4 DEF LoadSubs, Visit, Recover
<1>5. CASE Assign(w) \/ Prior(w) \/ Candidate(w) \/ Invoke(w) \/ Model(w) \/ Checkpoint(w)
  BY <1>5 DEF Assign, Prior, Candidate, Invoke, Model, Checkpoint, Publish
<1>6. CASE StopAtDeadline(w) \/ Supervise(w) \/ CloseTask(w)
  BY <1>6 DEF StopAtDeadline, Supervise, CloseTask, Publish
<1>7. CASE Gather(w) \/ Review(w) \/ Evaluate(w) \/ Record(w) \/ Finalize(w)
  BY <1>7 DEF Gather, Review, Evaluate, Record, Finalize, Publish
<1>8. CASE Release(w) \/ Begin(w) \/ SendBeat(w) \/ ReceiveBeat(w) \/ Drop(w) \/ Crash(w)
  BY <1>8 DEF Release, Begin, SendBeat, ReceiveBeat, Drop, Crash
<1> QED
  BY <1>1, <1>2, <1>3, <1>4, <1>5, <1>6, <1>7, <1>8

(* Steps that change the subtask row and no ledger. *)
LEMMA RowSteps ==
    ASSUME NEW w \in Workers,
           Attempt(w) \/ Pause(w) \/ Uncertain(w) \/ Fail(w) \/ Retry(w) \/ Store(w)
    PROVE  UNCHANGED governed
<1> USE DEF KeepEnv, governed, store, ledgers, rows, Refused
<1>1. CASE Attempt(w) \/ Retry(w) \/ Store(w)
  BY <1>1 DEF Attempt, Retry, Store
<1>2. CASE Pause(w) \/ Uncertain(w) \/ Fail(w)
  BY <1>2 DEF Pause, Uncertain, Fail, SuspendStep
<1> QED
  BY <1>1, <1>2

(* Steps of the ledgers, which change no subtask row and no artifact. *)
LEMMA LedgerSteps ==
    ASSUME NEW w \in Workers, Receipt(w) \/ StartTool(w) \/ Effect(w) \/ FinishTool(w)
    PROVE  UNCHANGED <<sub, artifact>>
BY DEF Receipt, StartTool, Effect, FinishTool, KeepEnv, store, rows, Refused

(* The parts of a step that matter here, one case per kind of step. *)
LEMMA StepKinds ==
    ASSUME Next
    PROVE  \/ UNCHANGED <<sub, artifact, governed>>
           \/ \E w \in Workers : \/ Attempt(w) \/ Pause(w) \/ Uncertain(w) \/ Fail(w)
                                 \/ Retry(w) \/ Store(w)
           \/ \E w \in Workers : Receipt(w) \/ StartTool(w) \/ Effect(w) \/ FinishTool(w)
           \/ Administrator
           \/ \E s \in Subs : ExpireReceipt(s) /\ UNCHANGED effects
<1>1. ASSUME ExpireLease \/ PassDeadline PROVE UNCHANGED <<sub, artifact, governed>>
  BY <1>1 DEF ExpireLease, PassDeadline, governed, store, rows, ledgers
<1> QED
  BY <1>1, BystanderSteps DEF Next, Step, Clock

-----------------------------------------------------------------------------
(* One worker: what succeeded is the whole plan. *)

(* The mission has neither succeeded nor been planned again. *)
MissionStill ==
    /\ mission'.sources = mission.sources /\ plans' = plans
    /\ mission'.status = "succeeded" <=> mission.status = "succeeded"

(* The worker stops, or goes on knowing what it knew. *)
Onward(w) ==
    \/ pc'[w] \in Outside
    \/ /\ pc[w] \notin Outside
       /\ pc[w] \in Unplanned => pc'[w] \in Unplanned
       /\ pc'[w] \in Passed => pc[w] \in Passed /\ snap'[w].sources = snap[w].sources

LEMMA CompleteFramed ==
    ASSUME CompleteInv, MissionStill, \A w \in Workers : Onward(w)
    PROVE  CompleteInv'
<1>1. \A s \in Subs : Exists(s)' <=> Exists(s)
  BY DEF MissionStill, Exists
<1>2. \A w \in Workers : pc'[w] \notin Outside => mission'.status # "succeeded"
  BY DEF CompleteInv, MissionStill, Onward
<1>3. \A w \in Workers : pc'[w] \notin Outside \cup Unplanned => plans' > 0
  BY DEF CompleteInv, MissionStill, Onward
<1>4. \A w \in Workers : pc'[w] \in Passed => \A s \in Subs : Exists(s)' => s \in snap'[w].sources
  BY <1>1 DEF CompleteInv, Onward, Passed, Outside
<1>5. (mission.sources # {} => mission.status = "succeeded")' /\ SuccessIsComplete'
  BY <1>1 DEF CompleteInv, MissionStill, SuccessIsComplete
<1> QED
  BY <1>2, <1>3, <1>4, <1>5 DEF CompleteInv

(* Steps of a worker that write no mission row and no plan. *)
LEMMA MissionUntouched ==
    ASSUME NEW w \in Workers,
           \/ Acquire(w) \/ Open(w) \/ LoadTasks(w) \/ Plan(w) \/ Reload(w) \/ EnterTask(w)
           \/ LoadSubs(w) \/ Visit(w) \/ Recover(w) \/ Attempt(w) \/ Assign(w) \/ Prior(w)
           \/ Receipt(w) \/ StartTool(w) \/ Effect(w) \/ FinishTool(w) \/ Candidate(w)
           \/ Invoke(w) \/ Model(w) \/ Checkpoint(w) \/ Retry(w) \/ Store(w) \/ BlockTask(w)
           \/ Supervise(w) \/ CloseTask(w) \/ Gather(w) \/ Review(w) \/ Evaluate(w) \/ Record(w)
           \/ Release(w) \/ Begin(w) \/ SendBeat(w) \/ ReceiveBeat(w) \/ Drop(w) \/ Crash(w)
    PROVE  UNCHANGED <<mission, plans>>
<1> USE DEF store, rows, Refused
<1>1. CASE Acquire(w) \/ Open(w) \/ LoadTasks(w) \/ Plan(w) \/ Reload(w)
  BY <1>1 DEF Acquire, Open, LoadTasks, Plan, Reload
<1>2. CASE EnterTask(w) \/ BlockTask(w) \/ CloseTask(w)
  BY <1>2 DEF EnterTask, BlockTask, CloseTask, WriteTask
<1>3. CASE LoadSubs(w) \/ Visit(w) \/ Recover(w) \/ Attempt(w) \/ Retry(w) \/ Store(w)
  BY <1>3 DEF LoadSubs, Visit, Recover, Attempt, Retry, Store
<1>4. CASE Assign(w) \/ Prior(w) \/ Candidate(w) \/ Invoke(w) \/ Model(w) \/ Checkpoint(w)
  BY <1>4 DEF Assign, Prior, Candidate, Invoke, Model, Checkpoint, Publish
<1>5. CASE Receipt(w) \/ StartTool(w) \/ Effect(w) \/ FinishTool(w)
  BY <1>5 DEF Receipt, StartTool, Effect, FinishTool
<1>6. CASE Supervise(w) \/ Gather(w) \/ Review(w) \/ Evaluate(w) \/ Record(w)
  BY <1>6 DEF Supervise, Gather, Review, Evaluate, Record, Publish
<1>7. CASE Release(w) \/ Begin(w) \/ SendBeat(w) \/ ReceiveBeat(w) \/ Drop(w) \/ Crash(w)
  BY <1>7 DEF Release, Begin, SendBeat, ReceiveBeat, Drop, Crash
<1> QED
  BY <1>1, <1>2, <1>3, <1>4, <1>5, <1>6, <1>7

(* Steps that move an open mission, and never to 'succeeded'. *)
LEMMA MissionMoved ==
    ASSUME TypeInv, NEW w \in Workers,
           \/ Run(w) \/ Park(w) \/ Abort(w) \/ Pause(w) \/ Uncertain(w) \/ Fail(w)
           \/ StopAtDeadline(w)
    PROVE  MissionStill
<1>1. CASE UNCHANGED store
  BY <1>1 DEF MissionStill, store
<1>2. ASSUME NEW status \in {"running", "waiting", "failed"}, SetMission(status),
             MissionOpen, plans' = plans
      PROVE  MissionStill
  BY <1>2, MissionWritten, StatusFacts DEF MissionStill, MissionOpen, TypeInv, TypeOK
<1>3. CASE Run(w) \/ Park(w) \/ Abort(w)
  BY <1>1, <1>2, <1>3 DEF Run, Park, Abort, WriteMission, Refused, Accepted
<1>4. ASSUME NEW row, SuspendStep(w, row) PROVE MissionStill
  BY <1>1, <1>2, <1>4 DEF SuspendStep, Refused, Accepted, StepOpen
<1>5. CASE Pause(w) \/ Uncertain(w) \/ Fail(w)
  BY <1>4, <1>5 DEF Pause, Uncertain, Fail
<1>6. CASE StopAtDeadline(w)
  BY <1>1, <1>2, <1>6 DEF StopAtDeadline, Refused, Accepted
<1> QED
  BY <1>3, <1>5, <1>6

(* The steps after which a worker knows no more than before. *)
LEMMA GoesOnward ==
    ASSUME TypeInv, NEW w \in Workers,
           \/ Acquire(w) \/ Plan(w) \/ Reload(w) \/ Run(w) \/ EnterTask(w) \/ LoadSubs(w)
           \/ Visit(w) \/ Recover(w) \/ Attempt(w) \/ Assign(w) \/ Prior(w) \/ Receipt(w)
           \/ StartTool(w) \/ Effect(w) \/ FinishTool(w) \/ Candidate(w) \/ Invoke(w)
           \/ Model(w) \/ Checkpoint(w) \/ Pause(w) \/ Uncertain(w) \/ Fail(w)
           \/ StopAtDeadline(w) \/ Retry(w) \/ Store(w) \/ BlockTask(w) \/ Park(w) \/ Abort(w)
           \/ Supervise(w) \/ CloseTask(w) \/ Gather(w) \/ Review(w) \/ Record(w) \/ Release(w)
           \/ Begin(w) \/ SendBeat(w) \/ ReceiveBeat(w) \/ Drop(w) \/ Crash(w)
    PROVE  Onward(w)
<1> pc \in [Workers -> Labels]
  BY DEF TypeInv, TypeOK, WorkerTypeOK
<1> USE DEF Onward, Outside, Unplanned, Passed, Goto
<1>1. CASE Acquire(w) \/ Plan(w) \/ Reload(w) \/ Begin(w) \/ Release(w) \/ Crash(w)
  BY <1>1 DEF Acquire, Plan, Reload, Begin, Release, Crash, Reply, OnError, TryCalls
<1>2. CASE SendBeat(w) \/ ReceiveBeat(w)
  BY <1>2 DEF SendBeat, ReceiveBeat, local
<1>3. CASE Run(w) \/ Park(w) \/ Abort(w)
  BY <1>3 DEF Run, Park, Abort, WriteMission, Refused, Accepted, Reply, Throw, OnError, TryCalls
<1>4. CASE EnterTask(w) \/ BlockTask(w) \/ CloseTask(w)
  BY <1>4 DEF EnterTask, BlockTask, CloseTask, WriteTask, Refused, Accepted, Reply, Throw, OnError, TryCalls
<1>5. CASE LoadSubs(w) \/ Visit(w) \/ Recover(w)
  BY <1>5 DEF LoadSubs, Visit, Recover, AfterSub
<1>6. CASE Attempt(w) \/ Retry(w) \/ Store(w)
  BY <1>6 DEF Attempt, Retry, Store, AfterSub, Refused, Accepted, Reply, Throw, OnError, TryCalls
<1>7. CASE Assign(w) \/ Candidate(w) \/ Invoke(w) \/ Checkpoint(w)
  BY <1>7 DEF Assign, Candidate, Invoke, Checkpoint, Publish, Validated, Refused, Accepted, Reply, Throw, OnError, TryCalls
<1>8. CASE Prior(w) \/ Model(w) \/ Effect(w) \/ Receipt(w)
  BY <1>8 DEF Prior, Model, Effect, Receipt, Reply, OnError, TryCalls
<1>9. CASE StartTool(w) \/ FinishTool(w)
  BY <1>9 DEF StartTool, FinishTool, Refused, Reply, Throw, OnError, TryCalls
<1>10. CASE Pause(w) \/ Uncertain(w) \/ Fail(w) \/ StopAtDeadline(w)
  BY <1>10 DEF Pause, Uncertain, Fail, StopAtDeadline, SuspendStep, Refused, Accepted, Reply, Throw, OnError, TryCalls
<1>11. CASE Supervise(w) \/ Gather(w) \/ Review(w) \/ Record(w)
  BY <1>11 DEF Supervise, Gather, Review, Record, Publish, KeepLocal, Refused, Accepted, Reply, Throw, OnError, TryCalls
<1>12. CASE Drop(w)
  BY <1>12 DEF Drop, OnError, TryCalls, Calls, KeepLocal
<1> QED
  BY <1>1, <1>2, <1>3, <1>4, <1>5, <1>6, <1>7, <1>8, <1>9, <1>10, <1>11, <1>12

(* The steps at which it learns: that the mission is open, that it is       *)
(* planned, that all of the plan has an artifact - and the one that ends it.*)
LEMMA OpenCompletes ==
    ASSUME OneWorker, TypeInv, CompleteInv, NEW w \in Workers, Open(w)
    PROVE  CompleteInv'
<1>1. UNCHANGED <<mission, plans>>
  BY MissionUntouched
<1>2. pc'[w] \in {"release", "park", "tasks"}
  BY DEF Open, TypeInv, TypeOK, WorkerTypeOK, Goto, Throw, OnError, TryCalls
<1>3. pc'[w] \notin Outside => mission.status # "succeeded"
  BY DEF Open, TypeInv, TypeOK, WorkerTypeOK, Goto, Throw, OnError, TryCalls, Outside
<1> QED
  BY <1>1, <1>2, <1>3 DEF CompleteInv, OneWorker, SuccessIsComplete, Exists, Outside, Unplanned, Passed

LEMMA LoadTasksCompletes ==
    ASSUME OneWorker, TypeInv, CompleteInv, NEW w \in Workers, LoadTasks(w)
    PROVE  CompleteInv'
<1>1. UNCHANGED <<mission, plans>> /\ mission.status # "succeeded"
  BY MissionUntouched DEF LoadTasks, CompleteInv, Outside
<1>2. pc'[w] \in {"plan", "run"} /\ (pc'[w] = "run" => plans > 0)
  BY DEF LoadTasks, TypeInv, TypeOK, WorkerTypeOK, StoreTypeOK, Goto
<1> QED
  BY <1>1, <1>2 DEF CompleteInv, OneWorker, SuccessIsComplete, Exists, Outside, Unplanned, Passed

LEMMA CommitPlanCompletes ==
    ASSUME OneWorker, TypeInv, CompleteInv, NEW w \in Workers, CommitPlan(w)
    PROVE  CompleteInv'
<1>1. pc'[w] \in {"release", "reload"} /\ (pc'[w] = "reload" => plans' > 0)
  BY DEF CommitPlan, InsertPlan, Refused, Accepted, Reply, Throw, OnError, TryCalls,
         TypeInv, TypeOK, WorkerTypeOK, StoreTypeOK, Goto
<1>2. mission.status # "succeeded"
  BY DEF CommitPlan, CompleteInv, Outside
<1>3. mission'.status # "succeeded" /\ mission'.sources = mission.sources
  BY <1>2, MissionWritten, StatusFacts
  DEF CommitPlan, InsertPlan, Refused, Accepted, store, TypeInv, TypeOK
<1> QED
  BY <1>1, <1>2, <1>3 DEF CompleteInv, OneWorker, SuccessIsComplete, Outside, Unplanned, Passed

LEMMA EvaluateCompletes ==
    ASSUME OneWorker, TypeInv, CompleteInv, NEW w \in Workers, Evaluate(w)
    PROVE  CompleteInv'
<1>1. UNCHANGED <<mission, plans, snap>>
  BY MissionUntouched DEF Evaluate, KeepLocal
<1>2. pc'[w] \in {"record", "park"} /\ (pc'[w] = "record" => AuditPasses(w))
  BY DEF Evaluate, TypeInv, TypeOK, WorkerTypeOK, Goto
<1>3. mission.status # "succeeded" /\ plans > 0
  BY DEF Evaluate, CompleteInv, Outside, Unplanned
<1> QED
  BY <1>1, <1>2, <1>3
  DEF CompleteInv, OneWorker, SuccessIsComplete, AuditPasses, Exists, Outside, Unplanned, Passed

LEMMA FinalizeCompletes ==
    ASSUME OneWorker, TypeInv, CompleteInv, NEW w \in Workers, Finalize(w)
    PROVE  CompleteInv'
<1>1. pc'[w] = "release" /\ plans' = plans
  BY DEF Finalize, Refused, Accepted, Reply, Throw, OnError, TryCalls, store,
         TypeInv, TypeOK, WorkerTypeOK, Goto
<1>2. /\ mission.status # "succeeded" /\ mission.sources = {} /\ plans > 0
      /\ \A s \in Subs : Exists(s) => s \in snap[w].sources
  BY DEF Finalize, CompleteInv, Outside, Unplanned, Passed
<1>3. \/ mission' = mission
      \/ mission'.status = "succeeded" /\ mission'.sources = snap[w].sources
  <2>1. snap[w].sources \in SUBSET Subs
    BY DEF TypeInv, TypeOK, WorkerTypeOK, Snapshots
  <2>2. CASE InsertFinal(snap[w].sources)
    <3>1. mission'.status = "succeeded"
      BY <2>2 DEF InsertFinal, TypeInv, TypeOK, StoreTypeOK, MissionRows
    <3>2. mission'.sources = snap[w].sources
      BY <1>2, <2>1, <2>2, FinalWritten DEF TypeInv, TypeOK
    <3> QED
      BY <3>1, <3>2
  <2> QED
    BY <2>2 DEF Finalize, Refused, store
<1> QED
  BY <1>1, <1>2, <1>3
  DEF CompleteInv, OneWorker, SuccessIsComplete, Exists, Outside, Unplanned, Passed

(* The administrator and the clock leave the workers where they are. *)
LEMMA OthersComplete ==
    ASSUME TypeInv, CompleteInv, Administrator \/ Clock
    PROVE  CompleteInv'
<1>1. \A w \in Workers : Onward(w)
  BY DEF Administrator, Clock, ExpireLease, PassDeadline, local, Onward, Outside, Unplanned
<1>2. ASSUME NEW s \in Subs, NEW status \in SubStatus, MoveAll(s, status), plans' = plans,
             status \in TaskStatus, status \in MissionStatus, status # "succeeded", StepOpen(s)
      PROVE  MissionStill
  BY <1>2, MissionWritten
  DEF MoveAll, MissionStill, StepOpen, MissionOpen, TypeInv, TypeOK
<1>3. CASE Administrator
  <2>1. ASSUME NEW s \in Subs, NEW d \in {"approved", "rejected"}, Decide(s, d)
        PROVE  MissionStill
    BY <1>2, <2>1, StatusFacts DEF Decide
  <2>2. ASSUME NEW s \in Subs, NEW r \in ValidResults, Reconcile(s, r) PROVE MissionStill
    BY <1>2, <2>2, StatusFacts DEF Reconcile, CanReconcile
  <2>3. ASSUME NEW s \in Subs, Renew(s) PROVE MissionStill
    BY <2>3 DEF Renew, rows, MissionStill
  <2>4. ASSUME NEW tag \in Tags, Resume(tag) PROVE MissionStill
    <3>1. mission'.status = "queued" /\ mission.status = "waiting"
      BY <2>4 DEF Resume, CanResume, TypeInv, TypeOK, StoreTypeOK, MissionRows
    <3> QED
      BY <2>4, <3>1, ResumeType DEF Resume, MissionStill, TypeInv, TypeOK
  <2> QED
    BY <1>1, <1>3, <2>1, <2>2, <2>3, <2>4, CompleteFramed DEF Administrator
<1>4. CASE Clock
  <2>1. MissionStill
    BY <1>4 DEF Clock, ExpireReceipt, ExpireLease, PassDeadline, MissionStill, store, rows
  <2> QED
    BY <1>1, <2>1, CompleteFramed
<1> QED
  BY <1>3, <1>4

LEMMA CompleteInit == Init => CompleteInv
BY DEF Init, StoreInit, WorkerInit, CompleteInv, SuccessIsComplete, Outside, Passed

LEMMA CompleteStep ==
    ASSUME OneWorker, TypeInv, CompleteInv, [Next]_vars
    PROVE  CompleteInv'
<1>1. ASSUME NEW w \in Workers, MissionStill, Onward(w) PROVE CompleteInv'
  BY <1>1, CompleteFramed DEF OneWorker
<1>2. UNCHANGED <<mission, plans>> => MissionStill
  BY DEF MissionStill
<1>3. ASSUME NEW w \in Workers, Step(w) PROVE CompleteInv'
  <2>1. CASE Open(w) \/ LoadTasks(w) \/ CommitPlan(w) \/ Evaluate(w) \/ Finalize(w)
    BY <2>1, OpenCompletes, LoadTasksCompletes, CommitPlanCompletes, EvaluateCompletes,
       FinalizeCompletes
  <2>2. CASE \/ Run(w) \/ Park(w) \/ Abort(w) \/ Pause(w) \/ Uncertain(w) \/ Fail(w)
             \/ StopAtDeadline(w)
    BY <1>1, <2>2, MissionMoved, GoesOnward
  <2>3. CASE \/ Acquire(w) \/ Plan(w) \/ Reload(w) \/ EnterTask(w) \/ LoadSubs(w) \/ Visit(w)
             \/ Recover(w) \/ Attempt(w) \/ Assign(w) \/ Prior(w) \/ Receipt(w) \/ StartTool(w)
             \/ Effect(w) \/ FinishTool(w) \/ Candidate(w) \/ Invoke(w) \/ Model(w)
             \/ Checkpoint(w) \/ Retry(w) \/ Store(w) \/ BlockTask(w) \/ Supervise(w)
             \/ CloseTask(w) \/ Gather(w) \/ Review(w) \/ Record(w) \/ Release(w)
    BY <1>1, <1>2, <2>3, MissionUntouched, GoesOnward
  <2> QED
    BY <1>3, <2>1, <2>2, <2>3 DEF Step
<1>4. ASSUME NEW w \in Workers,
             Begin(w) \/ SendBeat(w) \/ ReceiveBeat(w) \/ Drop(w) \/ Crash(w)
      PROVE  CompleteInv'
  BY <1>1, <1>2, <1>4, MissionUntouched, GoesOnward
<1>5. CASE UNCHANGED vars
  BY <1>5 DEF vars, store, local, CompleteInv, SuccessIsComplete, Exists
<1> QED
  BY <1>3, <1>4, <1>5, OthersComplete DEF Next

(* With one worker, however often it crashes and begins again, a mission that *)
(* succeeded left no row of its plan behind (evaluateMission, completeness).  *)
THEOREM SuccessesAreComplete ==
    ASSUME OneWorker
    PROVE  Spec => []SuccessIsComplete
<1>1. SpineInv => TypeInv
  BY DEF SpineInv
<1>2. Init => CompleteInv
  BY CompleteInit
<1>3. TypeInv /\ CompleteInv /\ [Next]_vars => CompleteInv'
  BY CompleteStep
<1>4. CompleteInv => SuccessIsComplete
  BY DEF CompleteInv
<1> QED
  BY <1>1, <1>2, <1>3, <1>4, InvariantHolds, PTL DEF Spec

-----------------------------------------------------------------------------
(* One worker: the attempts of a row stay within the budget. *)

NoMoreAttempts == \A s \in Subs : sub'[s].attempts <= sub[s].attempts

(* The worker still works on the row it was working on, or is past it. *)
Carries(w) ==
    /\ pc'[w] \in {"sub", "recover", "attempt"} => pc'[w] = pc[w]
    /\ pc'[w] \in Spending => pc[w] \in Spending
    /\ pc'[w] = "store" => pc[w] \in Spending \cup {"store"}
    /\ pc'[w] \in {"sub", "recover", "store"} \cup Trying =>
          cur'[w] = cur[w] /\ attempt'[w] = attempt[w] /\ snap'[w].subs = snap[w].subs

LEMMA CountersTyped ==
    ASSUME TypeInv
    PROVE  /\ \A s \in Subs : sub[s].attempts \in Nat
           /\ \A w \in Workers : /\ cur[w] \in Subs /\ attempt[w] \in Nat
                                 /\ \A s \in Subs : snap[w].subs[s].attempts \in Nat
BY DEF TypeInv, TypeOK, StoreTypeOK, WorkerTypeOK, SubRows, Snapshots, SubSnap

LEMMA AttemptFramed ==
    ASSUME AttemptInv, TypeInv, NoMoreAttempts, \A s \in Subs : sub'[s].attempts \in Nat,
           \A w \in Workers : Carries(w)
    PROVE  AttemptInv'
<1> USE CountersTyped, WorkerAssumption
<1>1. ASSUME NEW w \in Workers, NEW s \in Subs, Ahead(w, s), cur'[w] = cur[w],
             snap'[w].subs = snap[w].subs
      PROVE  Ahead(w, s)'
  BY <1>1 DEF Ahead, TaskAt, NoMoreAttempts
<1>2. ASSUME NEW w \in Workers, pc'[w] \in {"sub", "recover"}, NEW s \in Subs, s >= cur'[w]
      PROVE  Ahead(w, s)'
  BY <1>1, <1>2 DEF AttemptInv, Carries
<1>3. ASSUME NEW w \in Workers, pc'[w] \in Trying \cup {"store"}, NEW s \in Subs, s > cur'[w]
      PROVE  Ahead(w, s)'
  BY <1>1, <1>3 DEF AttemptInv, Carries, Spending, Trying
<1>4. \A w \in Workers : pc'[w] = "attempt" => sub'[cur'[w]].attempts < attempt'[w]
  BY DEF AttemptInv, Carries, NoMoreAttempts, Trying
<1>5. \A w \in Workers : pc'[w] \in Spending => /\ sub'[cur'[w]].attempts <= attempt'[w]
                                               /\ attempt'[w] <= MaxAttempts
  BY DEF AttemptInv, Carries, NoMoreAttempts, Spending
<1>6. AttemptsBounded'
  BY DEF AttemptInv, AttemptsBounded, NoMoreAttempts
<1> QED
  BY <1>2, <1>3, <1>4, <1>5, <1>6 DEF AttemptInv

(* Steps after which the worker knows no more of a row ahead. *)
LEMMA CarriesOn ==
    ASSUME TypeInv, NEW w \in Workers,
           \/ Acquire(w) \/ Open(w) \/ LoadTasks(w) \/ Plan(w) \/ CommitPlan(w) \/ Reload(w)
           \/ Run(w) \/ EnterTask(w) \/ Assign(w) \/ Prior(w) \/ Receipt(w) \/ StartTool(w)
           \/ Effect(w) \/ FinishTool(w) \/ Candidate(w) \/ Invoke(w) \/ Model(w)
           \/ Checkpoint(w) \/ Uncertain(w) \/ Fail(w) \/ StopAtDeadline(w) \/ BlockTask(w)
           \/ Park(w) \/ Abort(w) \/ Supervise(w) \/ CloseTask(w) \/ Gather(w) \/ Review(w)
           \/ Evaluate(w) \/ Record(w) \/ Finalize(w) \/ Release(w)
           \/ Begin(w) \/ SendBeat(w) \/ ReceiveBeat(w) \/ Drop(w) \/ Crash(w)
    PROVE  Carries(w)
<1> pc \in [Workers -> Labels]
  BY DEF TypeInv, TypeOK, WorkerTypeOK
<1> USE DEF Carries, Spending, Trying, TryCalls, Goto
<1>1. CASE Acquire(w) \/ Open(w) \/ LoadTasks(w) \/ Plan(w) \/ Reload(w) \/ Begin(w)
  BY <1>1 DEF Acquire, Open, LoadTasks, Plan, Reload, Begin, Reply, Throw, OnError
<1>2. CASE SendBeat(w) \/ ReceiveBeat(w)
  BY <1>2 DEF SendBeat, ReceiveBeat, local
<1>3. CASE CommitPlan(w) \/ Run(w) \/ Park(w) \/ Abort(w)
  BY <1>3 DEF CommitPlan, Run, Park, Abort, WriteMission, Refused, Accepted, Reply, Throw, OnError
<1>4. CASE EnterTask(w) \/ BlockTask(w) \/ CloseTask(w)
  BY <1>4 DEF EnterTask, BlockTask, CloseTask, WriteTask, Refused, Accepted, Reply, Throw, OnError
<1>5. CASE Assign(w) \/ Candidate(w) \/ Invoke(w) \/ Checkpoint(w)
  BY <1>5 DEF Assign, Candidate, Invoke, Checkpoint, Publish, Validated, KeepLocal,
              Refused, Accepted, Reply, Throw, OnError
<1>6. CASE Prior(w) \/ Model(w) \/ Effect(w) \/ Receipt(w)
  BY <1>6 DEF Prior, Model, Effect, Receipt, KeepLocal, Reply, OnError
<1>7. CASE StartTool(w) \/ FinishTool(w)
  BY <1>7 DEF StartTool, FinishTool, KeepLocal, Refused, Reply, Throw, OnError
<1>8. CASE Uncertain(w) \/ Fail(w) \/ StopAtDeadline(w)
  BY <1>8 DEF Uncertain, Fail, StopAtDeadline, SuspendStep, Refused, Accepted, Reply, Throw, OnError
<1>9. CASE Supervise(w) \/ Gather(w) \/ Review(w) \/ Evaluate(w) \/ Record(w)
  BY <1>9 DEF Supervise, Gather, Review, Evaluate, Record, Publish, Refused, Accepted, Reply, Throw, OnError
<1>10. CASE Finalize(w) \/ Release(w) \/ Drop(w) \/ Crash(w)
  BY <1>10 DEF Finalize, Release, Drop, Crash, Refused, Accepted, Reply, Throw, OnError, Calls
<1> QED
  BY <1>1, <1>2, <1>3, <1>4, <1>5, <1>6, <1>7, <1>8, <1>9, <1>10

(* A list the worker has not ended goes on in the same task. *)
LEMMA SameTask ==
    ASSUME TypeInv, NEW w \in Workers, ~AtTaskEnd(w)
    PROVE  cur[w] + 1 \in Subs /\ TaskOf[cur[w] + 1] = TaskAt(w)
<1>1. cur \in [Workers -> Subs] /\ cur[w] \in Subs
  BY DEF TypeInv, TypeOK, WorkerTypeOK
<1>2. cur[w] + 1 \in Subs
  BY <1>1, NextRow
<1>3. PICK s \in Subs : s > cur[w] /\ TaskOf[s] = TaskAt(w)
  BY DEF AtTaskEnd
<1>4. s \in Nat /\ cur[w] \in Nat
  BY <1>1 DEF Subs
<1>5. cur[w] <= cur[w] + 1 /\ cur[w] + 1 <= s
  BY <1>3, <1>4
<1>6. TaskOf[cur[w]] <= TaskOf[cur[w] + 1] /\ TaskOf[cur[w] + 1] <= TaskOf[s]
  BY <1>1, <1>2, <1>5, StoreAssumption
<1>7. TaskOf[cur[w]] \in Nat /\ TaskOf[cur[w] + 1] \in Nat
  BY <1>1, <1>2, StoreAssumption
<1> QED
  BY <1>2, <1>3, <1>6, <1>7 DEF TaskAt

(* The steps at which the worker reads a counter, moves on, or counts. *)
LEMMA LoadSubsCounts ==
    ASSUME OneWorker, TypeInv, AttemptInv, NEW w \in Workers, LoadSubs(w)
    PROVE  AttemptInv'
<1> USE CountersTyped
<1> DEFINE read == [s \in Subs |-> IF TaskOf[s] = TaskAt(w)
                                   THEN [status |-> sub[s].status, attempts |-> sub[s].attempts]
                                   ELSE [status |-> "queued", attempts |-> 0]]
<1>1. UNCHANGED <<sub, cur>> /\ pc'[w] = "sub"
  BY BystanderSteps DEF LoadSubs, TypeInv, TypeOK, WorkerTypeOK, Goto
<1>2. snap'[w].subs = read
  BY DEF LoadSubs, TypeInv, TypeOK, WorkerTypeOK, Snapshots
<1>3. \A s \in Subs : Ahead(w, s)'
  BY <1>1, <1>2 DEF Ahead, TaskAt
<1> QED
  BY <1>1, <1>3 DEF AttemptInv, OneWorker, AttemptsBounded, Spending, Trying, TryCalls

LEMMA VisitCounts ==
    ASSUME OneWorker, TypeInv, AttemptInv, NEW w \in Workers, Visit(w)
    PROVE  AttemptInv'
<1> USE CountersTyped
<1>1. UNCHANGED <<sub, snap>>
  BY BystanderSteps DEF Visit
<1>2. pc'[w] \in {"supervise", "sub", "blockTask", "recover"}
  BY DEF Visit, AfterSub, TypeInv, TypeOK, WorkerTypeOK, Goto
<1>3. ASSUME pc'[w] \in {"sub", "recover"}, NEW s \in Subs, s >= cur'[w] PROVE Ahead(w, s)'
  <2>1. \A t \in Subs : t >= cur[w] => Ahead(w, t)
    BY DEF Visit, AttemptInv
  <2>2. CASE cur' = cur
    BY <1>1, <1>3, <2>1, <2>2 DEF Ahead, TaskAt
  <2>3. CASE ~(cur' = cur)
    <3>1. ~AtTaskEnd(w) /\ cur'[w] = cur[w] + 1
      BY <1>3, <2>3 DEF Visit, AfterSub, Advance, TypeInv, TypeOK, WorkerTypeOK, Goto
    <3>2. TaskOf[cur'[w]] = TaskOf[cur[w]] /\ s >= cur[w]
      BY <1>3, <3>1, SameTask DEF TaskAt, Subs
    <3> QED
      BY <1>1, <2>1, <3>2 DEF Ahead, TaskAt
  <2> QED
    BY <2>2, <2>3
<1> QED
  BY <1>1, <1>2, <1>3 DEF AttemptInv, OneWorker, AttemptsBounded, Spending, Trying, TryCalls

LEMMA RecoverCounts ==
    ASSUME OneWorker, TypeInv, AttemptInv, NEW w \in Workers, Recover(w)
    PROVE  AttemptInv'
<1> USE CountersTyped
<1>1. UNCHANGED <<sub, snap, cur>>
  BY BystanderSteps DEF Recover
<1>2. pc'[w] \in {"store", "release", "uncertain", "attempt"}
  BY DEF Recover, TypeInv, TypeOK, WorkerTypeOK, Goto
<1>3. \A s \in Subs : s >= cur[w] => Ahead(w, s)'
  BY <1>1 DEF Recover, AttemptInv, Ahead, TaskAt
<1>4. pc'[w] = "attempt" => sub[cur[w]].attempts < attempt'[w]
  <2>1. pc'[w] = "attempt" => attempt'[w] = snap[w].subs[cur[w]].attempts + 1
    BY DEF Recover, TypeInv, TypeOK, WorkerTypeOK, Goto
  <2>2. cur[w] >= cur[w]
    BY DEF Subs
  <2>3. Ahead(w, cur[w])
    BY <2>2 DEF Recover, AttemptInv
  <2> QED
    BY <2>1, <2>3 DEF Ahead, TaskAt
<1>5. \A s \in Subs : s > cur[w] => Ahead(w, s)'
  BY <1>3 DEF Subs
<1> QED
  BY <1>1, <1>2, <1>4, <1>5 DEF AttemptInv, OneWorker, AttemptsBounded, Spending, Trying, TryCalls

LEMMA AttemptCounts ==
    ASSUME OneWorker, TypeInv, AttemptInv, NEW w \in Workers, Attempt(w)
    PROVE  AttemptInv'
<1> USE CountersTyped, WorkerAssumption
<1>1. UNCHANGED <<snap, cur, attempt>>
  BY DEF Attempt, KeepLocal
<1>2. CASE UNCHANGED store /\ pc'[w] \in {"fail", "deadline", "release"}
  BY <1>2, <1>1 DEF AttemptInv, OneWorker, AttemptsBounded, Spending, Trying, TryCalls, store
<1>3. CASE /\ sub' = [sub EXCEPT ![cur[w]].status = "running", ![cur[w]].attempts = @ + 1]
           /\ pc'[w] \in {"assign", "invoke", "release"} /\ attempt[w] <= MaxAttempts
  <2>1. /\ sub'[cur[w]].attempts = sub[cur[w]].attempts + 1
        /\ \A s \in Subs : s # cur[w] => sub'[s] = sub[s]
    BY <1>3 DEF TypeInv, TypeOK, StoreTypeOK, SubRows
  <2>2. sub[cur[w]].attempts + 1 <= attempt[w]
    BY DEF Attempt, AttemptInv
  <2>3. \A s \in Subs : s > cur[w] => Ahead(w, s)'
    <3>1. \A s \in Subs : s > cur[w] => Ahead(w, s) /\ s # cur[w]
      BY DEF Attempt, AttemptInv, Trying, Subs
    <3> QED
      BY <1>1, <2>1, <3>1 DEF Ahead, TaskAt
  <2>4. AttemptsBounded'
    <3>1. attempt[w] <= MaxAttempts
      BY <1>3
    <3>2. sub'[cur[w]].attempts <= MaxAttempts
      BY <2>1, <2>2, <3>1
    <3> QED
      BY <2>1, <3>2 DEF AttemptInv, AttemptsBounded
  <2> QED
    BY <1>1, <1>3, <2>1, <2>2, <2>3, <2>4
    DEF AttemptInv, OneWorker, Spending, Trying, TryCalls
<1> QED
  BY <1>2, <1>3 DEF Attempt, Refused, Accepted, Reply, Throw, OnError, TryCalls, Goto,
                    TypeInv, TypeOK, WorkerTypeOK

LEMMA RetryCounts ==
    ASSUME OneWorker, TypeInv, AttemptInv, NEW w \in Workers, Retry(w)
    PROVE  AttemptInv'
<1> USE CountersTyped
<1>1. UNCHANGED <<snap, cur>>
  BY DEF Retry
<1>2. \A s \in Subs : sub'[s].attempts = sub[s].attempts
  BY DEF Retry, Refused, store, SetSub, TypeInv, TypeOK, StoreTypeOK, SubRows
<1>3. pc'[w] = "release" \/ (pc'[w] = "attempt" /\ attempt'[w] = attempt[w] + 1)
  <2>1. pc \in [Workers -> Labels] /\ attempt \in [Workers -> Nat] /\ OnError(pc[w]) = "release"
    BY DEF Retry, OnError, TryCalls, TypeInv, TypeOK, WorkerTypeOK
  <2>2. CASE Throw(w)
    BY <2>1, <2>2 DEF Throw, Goto
  <2>3. CASE Reply(w, "attempt") /\ attempt' = [attempt EXCEPT ![w] = @ + 1]
    BY <2>1, <2>3 DEF Reply, Goto
  <2> QED
    BY <2>2, <2>3 DEF Retry, Refused, Accepted
<1>4. /\ sub[cur[w]].attempts <= attempt[w]
      /\ \A s \in Subs : s > cur[w] => Ahead(w, s)
  BY DEF Retry, AttemptInv, Spending, Trying
<1>5. \A s \in Subs : s > cur[w] => Ahead(w, s)'
  BY <1>1, <1>2, <1>4 DEF Ahead, TaskAt
<1>6. pc'[w] = "attempt" => sub'[cur'[w]].attempts < attempt'[w]
  BY <1>1, <1>2, <1>3, <1>4
<1>7. AttemptsBounded'
  BY <1>2 DEF AttemptInv, AttemptsBounded
<1> QED
  BY <1>1, <1>3, <1>5, <1>6, <1>7 DEF AttemptInv, OneWorker, Spending, Trying, TryCalls

LEMMA PauseCounts ==
    ASSUME OneWorker, TypeInv, AttemptInv, NEW w \in Workers, Pause(w)
    PROVE  AttemptInv'
<1> USE CountersTyped, WorkerAssumption
<1>1. pc'[w] = "release"
  BY DEF Pause, SuspendStep, Refused, Accepted, Reply, Throw, OnError, TryCalls, Goto,
         TypeInv, TypeOK, WorkerTypeOK
<1>2. attempt[w] <= MaxAttempts /\ attempt[w] >= 1
  BY DEF Pause, AttemptInv, Spending, Trying, TypeInv, LocalInv
<1>3. AttemptsBounded'
  <2>1. CASE UNCHANGED sub
    BY <2>1 DEF AttemptInv, AttemptsBounded
  <2>2. CASE sub' = [sub EXCEPT ![cur[w]] = [sub[cur[w]] EXCEPT !.status = "waiting_input",
                                                                !.attempts = attempt[w] - 1]]
    <3>1. /\ sub'[cur[w]].attempts = attempt[w] - 1
          /\ \A s \in Subs : s # cur[w] => sub'[s] = sub[s]
      BY <2>2 DEF TypeInv, TypeOK, StoreTypeOK, SubRows
    <3>2. attempt[w] - 1 <= MaxAttempts
      BY <1>2
    <3> QED
      BY <3>1, <3>2 DEF AttemptInv, AttemptsBounded
  <2> QED
    BY <2>1, <2>2 DEF Pause, SuspendStep, Refused, store
<1> QED
  BY <1>1, <1>3 DEF AttemptInv, OneWorker, Spending, Trying, TryCalls

LEMMA StoreCounts ==
    ASSUME OneWorker, TypeInv, AttemptInv, NEW w \in Workers, Store(w)
    PROVE  AttemptInv'
<1> USE CountersTyped
<1>1. snap' = snap
  BY DEF Store
<1>2. \A s \in Subs : sub'[s].attempts = sub[s].attempts
  <2>1. sub \in [Subs -> SubRows] /\ cur[w] \in Subs
    BY DEF TypeInv, TypeOK, StoreTypeOK
  <2>2. CASE UNCHANGED sub
    BY <2>2
  <2>3. CASE StoreOutput(cur[w], out[w], snap[w].tag)
    BY <2>1, <2>3 DEF StoreOutput, SubRows
  <2> QED
    BY <2>2, <2>3 DEF Store, Refused, store
<1>3. pc'[w] \in {"sub", "supervise", "release"}
  BY DEF Store, AfterSub, Refused, Accepted, Reply, Throw, OnError, TryCalls, Goto,
         TypeInv, TypeOK, WorkerTypeOK
<1>4. ASSUME pc'[w] = "sub", NEW s \in Subs, s >= cur'[w] PROVE Ahead(w, s)'
  <2>1. ~AtTaskEnd(w) /\ cur'[w] = cur[w] + 1
    BY <1>4 DEF Store, AfterSub, Advance, Refused, Accepted, Reply, Throw, OnError, TryCalls,
                Goto, TypeInv, TypeOK, WorkerTypeOK
  <2>2. TaskOf[cur'[w]] = TaskOf[cur[w]] /\ s > cur[w]
    BY <1>4, <2>1, SameTask DEF TaskAt, Subs
  <2>3. Ahead(w, s)
    BY <2>2 DEF Store, AttemptInv
  <2> QED
    BY <1>1, <1>2, <2>2, <2>3 DEF Ahead, TaskAt
<1>5. AttemptsBounded'
  BY <1>2 DEF AttemptInv, AttemptsBounded
<1> QED
  BY <1>3, <1>4, <1>5 DEF AttemptInv, OneWorker, Spending, Trying, TryCalls

(* The steps that end an attempt otherwise, the administrator and the clock *)
(* leave the counters as they are; a resume sets them to zero.              *)
LEMMA EndsCount ==
    ASSUME TypeInv, NEW w \in Workers, Uncertain(w) \/ Fail(w)
    PROVE  NoMoreAttempts
<1> USE CountersTyped
<1>1. ASSUME NEW status, SuspendStep(w, [sub[cur[w]] EXCEPT !.status = status])
      PROVE  NoMoreAttempts
  BY <1>1 DEF SuspendStep, Refused, store, NoMoreAttempts, TypeInv, TypeOK, StoreTypeOK, SubRows
<1> QED
  BY <1>1 DEF Uncertain, Fail

LEMMA OthersCount ==
    ASSUME TypeInv, Administrator \/ Clock
    PROVE  NoMoreAttempts /\ \A w \in Workers : Carries(w)
<1> USE CountersTyped
<1>1. \A w \in Workers : Carries(w)
  BY DEF Administrator, Clock, ExpireLease, PassDeadline, local, Carries
<1>2. ASSUME NEW s \in Subs, NEW status, SetSub(s, status) PROVE NoMoreAttempts
  BY <1>2 DEF SetSub, NoMoreAttempts, TypeInv, TypeOK, StoreTypeOK, SubRows
<1>3. UNCHANGED sub => NoMoreAttempts
  BY DEF NoMoreAttempts
<1>4. ASSUME NEW tag \in Tags, Resume(tag) PROVE NoMoreAttempts
  <2>1. sub \in [Subs -> SubRows]
    BY DEF TypeInv, TypeOK, StoreTypeOK
  <2>2. \A s \in Subs : sub'[s].attempts = 0 \/ sub'[s].attempts = sub[s].attempts
    BY <1>4, <2>1 DEF Resume, SubRows
  <2>3. ASSUME NEW s \in Subs PROVE sub'[s].attempts <= sub[s].attempts
    <3>1. sub[s].attempts \in Nat
      OBVIOUS
    <3> QED
      BY <2>2, <3>1
  <2> QED
    BY <2>3 DEF NoMoreAttempts
<1>5. NoMoreAttempts
  BY <1>2, <1>3, <1>4 DEF Administrator, Clock, Decide, Renew, Reconcile, MoveAll,
     ExpireReceipt, ExpireLease, PassDeadline, rows, store
<1> QED
  BY <1>1, <1>5

LEMMA AttemptInit == Init => AttemptInv
BY WorkerAssumption DEF Init, StoreInit, WorkerInit, AttemptInv, AttemptsBounded, Spending, Trying, TryCalls

LEMMA AttemptStep ==
    ASSUME OneWorker, TypeInv, TypeInv', AttemptInv, [Next]_vars
    PROVE  AttemptInv'
<1>1. \A s \in Subs : sub'[s].attempts \in Nat
  BY DEF TypeInv, TypeOK, StoreTypeOK, SubRows
<1>2. ASSUME NEW w \in Workers, NoMoreAttempts, Carries(w) PROVE AttemptInv'
  BY <1>1, <1>2, AttemptFramed DEF OneWorker
<1>3. UNCHANGED sub => NoMoreAttempts
  BY CountersTyped DEF NoMoreAttempts
<1>4. ASSUME NEW w \in Workers, Step(w) PROVE AttemptInv'
  <2>1. CASE \/ LoadSubs(w) \/ Visit(w) \/ Recover(w) \/ Attempt(w) \/ Retry(w) \/ Pause(w)
             \/ Store(w)
    BY <2>1, LoadSubsCounts, VisitCounts, RecoverCounts, AttemptCounts, RetryCounts,
       PauseCounts, StoreCounts
  <2>2. CASE Uncertain(w) \/ Fail(w)
    BY <1>2, <2>2, EndsCount, CarriesOn
  <2>3. CASE \/ Acquire(w) \/ Open(w) \/ LoadTasks(w) \/ Plan(w) \/ CommitPlan(w) \/ Reload(w)
             \/ Run(w) \/ EnterTask(w) \/ Assign(w) \/ Prior(w) \/ Candidate(w) \/ Invoke(w)
             \/ Model(w) \/ Checkpoint(w) \/ StopAtDeadline(w) \/ BlockTask(w) \/ Park(w)
             \/ Abort(w) \/ Supervise(w) \/ CloseTask(w) \/ Gather(w) \/ Review(w)
             \/ Evaluate(w) \/ Record(w) \/ Finalize(w) \/ Release(w)
    BY <1>2, <1>3, <2>3, BystanderSteps, CarriesOn
  <2>4. CASE Receipt(w) \/ StartTool(w) \/ Effect(w) \/ FinishTool(w)
    BY <1>2, <1>3, <2>4, LedgerSteps, CarriesOn
  <2> QED
    BY <1>4, <2>1, <2>2, <2>3, <2>4 DEF Step
<1>5. ASSUME NEW w \in Workers,
             Begin(w) \/ SendBeat(w) \/ ReceiveBeat(w) \/ Drop(w) \/ Crash(w)
      PROVE  AttemptInv'
  BY <1>2, <1>3, <1>5, BystanderSteps, CarriesOn
<1>6. CASE Administrator \/ Clock
  BY <1>1, <1>6, OthersCount, AttemptFramed
<1>7. CASE UNCHANGED vars
  BY <1>7 DEF vars, store, local, AttemptInv, AttemptsBounded, Ahead, TaskAt
<1> QED
  BY <1>4, <1>5, <1>6, <1>7 DEF Next

(* With one worker, over crashes, lost answers, pauses and resumes, no row is *)
(* attempted more often than the budget allows (incrementSubtaskAttempts is   *)
(* persisted before the attempt, and the loop starts from what it finds).     *)
THEOREM AttemptsStayInBudget ==
    ASSUME OneWorker
    PROVE  Spec => []AttemptsBounded
<1>1. SpineInv => TypeInv
  BY DEF SpineInv
<1>2. Init => AttemptInv
  BY AttemptInit
<1>3. TypeInv /\ TypeInv' /\ AttemptInv /\ [Next]_vars => AttemptInv'
  BY AttemptStep
<1>4. AttemptInv => AttemptsBounded
  BY DEF AttemptInv
<1> QED
  BY <1>1, <1>2, <1>3, <1>4, InvariantHolds, PTL DEF Spec
=============================================================================
