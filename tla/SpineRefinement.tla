---------------------------- MODULE SpineRefinement ----------------------------
(***************************************************************************)
(* Two properties of the steps of Spine, for every value of the constants: *)
(* completed work is kept, and the execution spine implements              *)
(* GovernedAction.                                                         *)
(***************************************************************************)
EXTENDS SpineProofs

Retained ==
    \A s \in Subs : sub[s].status = "succeeded" =>
        sub'[s].status = "succeeded" /\ artifact'[s] = artifact[s]

-----------------------------------------------------------------------------
(* Completed work is kept. *)

LEMMA RetainedBySteps ==
    ASSUME SpineInv, NEW w \in Workers,
           Attempt(w) \/ Pause(w) \/ Uncertain(w) \/ Fail(w) \/ Retry(w) \/ Store(w)
    PROVE  Retained
<1>1. StoreTypeOK /\ cur[w] \in Subs /\ out[w] \in Outputs
  BY DEF SpineInv, TypeInv, TypeOK, WorkerTypeOK
<1>2. CASE UNCHANGED <<sub, artifact>>
  BY <1>2 DEF Retained
<1>3. ASSUME sub[cur[w]].status # "succeeded", artifact' = artifact,
             \A t \in Subs : t # cur[w] => sub'[t] = sub[t]
      PROVE  Retained
  BY <1>3 DEF Retained
<1>4. CASE Attempt(w)
  BY <1>1, <1>2, <1>3, <1>4, AttemptWritten
  DEF Attempt, Refused, Accepted, SubOpen, KeepEnv, store
<1>5. CASE Retry(w)
  BY <1>1, <1>2, <1>3, <1>5, SubWritten, StatusFacts
  DEF Retry, Refused, Accepted, SubOpen, store
<1>6. ASSUME NEW row, SuspendStep(w, row) PROVE Retained
  <2>1. CASE Refused(w, StepOpen(cur[w]))
    BY <1>2, <2>1 DEF Refused, store
  <2>2. CASE sub' = [sub EXCEPT ![cur[w]] = row] /\ artifact' = artifact /\ StepOpen(cur[w])
    <3>1. \A t \in Subs : t # cur[w] => sub'[t] = sub[t]
      BY <1>1, <2>2 DEF StoreTypeOK
    <3> QED
      BY <1>3, <2>2, <3>1 DEF StepOpen, SubOpen
  <2> QED
    BY <1>6, <2>1, <2>2 DEF SuspendStep, Accepted
<1>7. CASE Pause(w) \/ Uncertain(w) \/ Fail(w)
  BY <1>6, <1>7 DEF Pause, Uncertain, Fail
<1>8. CASE Store(w)
  <2>1. CASE Refused(w, TRUE)
    BY <1>2, <2>1 DEF Refused, store
  <2>2. CASE StoreOutput(cur[w], out[w], snap[w].tag)
    <3>1. out[w] \in Results /\ snap[w].tag \in Tags
      BY <1>8, OutputFacts, StoreAssumption
      DEF Store, SpineInv, TypeInv, LocalInv, TypeOK, WorkerTypeOK, Snapshots
    <3>2. \A s \in Subs : sub[s].status = "succeeded" => HasArtifact(s)
      BY DEF SpineInv, ArtifactInv
    <3> QED
      BY <1>1, <2>2, <3>1, <3>2, OutputWritten DEF Retained
  <2> QED
    BY <1>8, <2>1, <2>2 DEF Store
<1> QED
  BY <1>4, <1>5, <1>7, <1>8

LEMMA RetainedByAdministrator ==
    ASSUME SpineInv, Administrator
    PROVE  Retained
<1>1. StoreTypeOK /\ ValidResults \subseteq Results
  BY StoreAssumption DEF SpineInv, TypeInv, TypeOK
<1>2. artifact' = artifact
  BY DEF Administrator, Decide, Renew, Reconcile, Resume, rows
<1>3. \A t \in Subs : sub[t].status = "succeeded" => sub'[t].status = "succeeded"
  <2>1. ASSUME NEW s \in Subs, Renew(s) PROVE sub' = sub
    BY <2>1 DEF Renew, rows
  <2> QED
    BY <1>1, <2>1, DecideType, ReconcileType, ResumeType DEF Administrator
<1> QED
  BY <1>2, <1>3 DEF Retained

(* A succeeded row stays succeeded with the artifact it has, whatever workers, *)
(* restarts and the administrator do (spine_validate_row, createArtifact).     *)
THEOREM CompletedWorkIsKept == Spec => CompletedStepsRetained
<1>1. SpineInv /\ [Next]_vars => [Retained]_vars
  <2> SUFFICES ASSUME SpineInv, Next PROVE Retained
    BY DEF vars
  <2>1. ASSUME NEW s \in Subs, ExpireReceipt(s) PROVE UNCHANGED <<sub, artifact>>
    BY <2>1 DEF ExpireReceipt, rows
  <2>2. UNCHANGED <<sub, artifact>> => Retained
    BY DEF Retained
  <2> QED
    BY <2>1, <2>2, StepKinds, RetainedBySteps, LedgerSteps, RetainedByAdministrator
<1>2. [Retained]_vars <=> [\A s \in Subs : sub[s].status = "succeeded" =>
          sub'[s].status = "succeeded" /\ artifact'[s] = artifact[s]]_vars
  BY DEF Retained
<1> QED
  BY <1>1, <1>2, InvariantHolds, PTL DEF Spec, CompletedStepsRetained

-----------------------------------------------------------------------------
(* The refinement: each step of Spine is a step of GovernedAction or changes *)
(* nothing it sees.  The permit of a row without a receipt is "none", and    *)
(* its approval columns never change.                                        *)

permits == [s \in Subs |-> PermitOf(approval[s])]
statuses == [s \in Subs |-> run[s].status]

GovernedStep == Governance!Next \/ UNCHANGED <<permits, statuses, effects>>

LEMMA SeenUnchanged ==
    ASSUME UNCHANGED governed
    PROVE  GovernedStep
BY DEF governed, GovernedStep, permits, statuses

(* A step that changes one entry of one ledger. *)
LEMMA PermitMoved ==
    ASSUME StoreTypeOK, NEW s \in Subs, \A t \in Subs : t # s => approval'[t] = approval[t]
    PROVE  permits' = [permits EXCEPT ![s] = PermitOf(approval'[s])]
<1>1. \A t \in Subs : t # s => PermitOf(approval'[t]) = PermitOf(approval[t])
  OBVIOUS
<1> QED
  BY <1>1 DEF permits

LEMMA StatusMoved ==
    ASSUME StoreTypeOK, NEW s \in Subs, \A t \in Subs : t # s => run'[t] = run[t]
    PROVE  statuses' = [statuses EXCEPT ![s] = run'[s].status]
BY DEF statuses

(* Only an approved receipt has been spent. *)
PermitInv == \A s \in Subs : approval[s].consumed => approval[s].status = "approved"

LEMMA PermitKeeps ==
    ASSUME SpineInv, PermitInv, [Next]_vars
    PROVE  PermitInv'
<1>1. StoreTypeOK /\ \A w \in Workers : cur[w] \in Subs
  BY DEF SpineInv, TypeInv, TypeOK, WorkerTypeOK
<1>2. CASE UNCHANGED approval
  BY <1>2 DEF PermitInv
<1>3. ASSUME NEW w \in Workers, Receipt(w) PROVE PermitInv'
  BY <1>1, <1>3, ReceiptRecorded DEF Receipt, PermitInv
<1>4. ASSUME NEW w \in Workers, StartTool(w) PROVE PermitInv'
  BY <1>1, <1>2, <1>4, RunStarted DEF StartTool, PermitInv, store, ledgers
<1>5. ASSUME NEW w \in Workers, Effect(w) \/ FinishTool(w) PROVE UNCHANGED approval
  BY <1>5 DEF Effect, FinishTool, Refused, store, ledgers
<1>6. ASSUME NEW s \in Subs, Renew(s) \/ ExpireReceipt(s) PROVE PermitInv'
  BY <1>1, <1>6, RenewType DEF PermitInv
<1>7. ASSUME NEW s \in Subs, NEW d \in {"approved", "rejected"}, Decide(s, d) PROVE PermitInv'
  BY <1>1, <1>7, DecideType DEF PermitInv
<1>8. CASE Administrator
  <2>1. ASSUME NEW s \in Subs, NEW r \in ValidResults, Reconcile(s, r) PROVE UNCHANGED approval
    BY <2>1 DEF Reconcile
  <2>2. ASSUME NEW tag \in Tags, Resume(tag) PROVE UNCHANGED approval
    BY <2>2 DEF Resume, ledgers
  <2> QED
    BY <1>2, <1>6, <1>7, <1>8, <2>1, <2>2 DEF Administrator
<1>9. CASE UNCHANGED vars
  BY <1>2, <1>9 DEF vars, store
<1> QED
  BY <1>2, <1>3, <1>4, <1>5, <1>6, <1>8, <1>9, StepKinds, RowSteps DEF governed

LEMMA ReceiptGoverned ==
    ASSUME SpineInv, PermitInv, NEW w \in Workers, Receipt(w)
    PROVE  GovernedStep
<1>1. StoreTypeOK /\ cur[w] \in Subs
  BY DEF SpineInv, TypeInv, TypeOK, WorkerTypeOK
<1> DEFINE s == cur[w]
<1>2. run' = run /\ effects' = effects /\ RecordReceipt(s)
  BY DEF Receipt, KeepEnv
<1>3. CASE approval[s].status # "absent"
  BY <1>2, <1>3, SeenUnchanged DEF RecordReceipt, governed
<1>4. CASE approval[s].status = "absent"
  <2>1. /\ approval'[s].status \in {"approved", "pending"}
        /\ approval'[s].consumed = approval[s].consumed
        /\ \A t \in Subs : t # s => approval'[t] = approval[t]
        /\ ~approval[s].consumed
    <3>1. approval'[s].status \in {"approved", "pending"}
      BY <1>1, <1>2, <1>4 DEF RecordReceipt, StoreTypeOK, ApprovalRows
    <3> QED
      BY <1>1, <1>2, <1>4, <3>1, ReceiptRecorded DEF PermitInv, StoreTypeOK, ApprovalRows
  <2>2. PermitOf(approval[s]) = "none" /\ PermitOf(approval'[s]) \in {"pending", "granted"}
    BY <1>4, <2>1 DEF PermitOf
  <2>3. permits' = [permits EXCEPT ![s] = PermitOf(approval'[s])]
    BY <1>1, <2>1, PermitMoved
  <2>4. Governance!Ask(s)
    BY <1>1, <1>2, <2>2, <2>3 DEF Governance!Ask, Governance!Move, permits, statuses
  <2> QED
    BY <1>1, <2>4 DEF GovernedStep, Governance!Next
<1> QED
  BY <1>3, <1>4

LEMMA StartToolGoverned ==
    ASSUME SpineInv, NEW w \in Workers, StartTool(w)
    PROVE  GovernedStep
<1>1. StoreTypeOK /\ cur[w] \in Subs
  BY DEF SpineInv, TypeInv, TypeOK, WorkerTypeOK
<1>2. PICK s \in Subs : s = cur[w]
  BY <1>1
<1>3. CASE UNCHANGED store
  BY <1>3, SeenUnchanged DEF StartTool, KeepEnv, governed, store, ledgers
<1>4. CASE StartRun(s)
  <2>1. statuses[s] = "absent" /\ statuses' = [statuses EXCEPT ![s] = "running"]
    BY <1>1, <1>4, RunStarted, StatusMoved DEF statuses
  <2>2. effects' = effects
    BY DEF StartTool, KeepEnv
  <2>3. CASE Protected(s)
    <3>1. PermitOf(approval[s]) = "granted" /\ PermitOf(approval'[s]) = "spent"
      BY <1>1, <1>4, <2>3, RunStarted DEF PermitOf
    <3>2. permits' = [permits EXCEPT ![s] = "spent"]
      BY <1>1, <1>4, <3>1, RunStarted, PermitMoved
    <3>3. Governance!Start(s)
      BY <1>1, <2>1, <2>2, <2>3, <3>1, <3>2
      DEF Governance!Start, Governance!Move, permits, statuses
    <3> QED
      BY <1>1, <3>3 DEF GovernedStep, Governance!Next
  <2>4. CASE ~Protected(s)
    <3>1. approval' = approval
      BY <1>1, <1>4, <2>4, RunStarted
    <3>2. Governance!Start(s)
      BY <1>1, <2>1, <2>2, <2>4, <3>1 DEF Governance!Start, statuses
    <3> QED
      BY <1>1, <3>2 DEF GovernedStep, Governance!Next
  <2> QED
    BY <2>3, <2>4
<1> QED
  BY <1>2, <1>3, <1>4 DEF StartTool

LEMMA EffectGoverned ==
    ASSUME SpineInv, NEW w \in Workers, Effect(w)
    PROVE  GovernedStep
<1>1. cur[w] \in Subs /\ effects \in [Subs -> Nat]
  BY DEF SpineInv, TypeInv, TypeOK, WorkerTypeOK
<1> DEFINE s == cur[w]
<1>2. effects[s] = 0 /\ run[s].status # "absent"
  BY DEF Effect, SpineInv, EffectInv
<1>3. approval' = approval /\ run' = run
  BY DEF Effect, store, ledgers
<1>4. Perform(s, 1) \/ Perform(s, 0)
  BY DEF Effect
<1>5. CASE Perform(s, 1)
  <2>1. effects' = [effects EXCEPT ![s] = 1]
    BY <1>1, <1>2, <1>5 DEF Perform
  <2>2. Governance!Apply(s)
    BY <1>1, <1>2, <1>3, <2>1 DEF Governance!Apply
  <2> QED
    BY <1>1, <2>2 DEF GovernedStep, Governance!Next
<1>6. CASE Perform(s, 0)
  <2>1. effects' = effects
    BY <1>1, <1>6 DEF Perform
  <2> QED
    BY <1>3, <2>1, SeenUnchanged DEF governed
<1> QED
  BY <1>4, <1>5, <1>6

(* spine_finish_tool and spine_reconcile settle a running run. *)
LEMMA SettleGoverned ==
    ASSUME SpineInv, NEW s \in Subs, NEW r, FinishRun(s, r),
           UNCHANGED <<approval, effects>>
    PROVE  GovernedStep
<1>1. StoreTypeOK
  BY DEF SpineInv, TypeInv, TypeOK
<1>2. statuses[s] = "running" /\ statuses' = [statuses EXCEPT ![s] = "succeeded"]
  <2>1. \A t \in Subs : t # s => run'[t] = run[t]
    BY <1>1 DEF FinishRun, StoreTypeOK
  <2>2. run[s].status = "running" /\ run'[s].status = "succeeded"
    BY <1>1 DEF FinishRun, StoreTypeOK
  <2> QED
    BY <1>1, <2>1, <2>2, StatusMoved DEF statuses
<1>3. Governance!Settle(s)
  BY <1>2 DEF Governance!Settle, statuses
<1> QED
  BY <1>3 DEF GovernedStep, Governance!Next

LEMMA FinishToolGoverned ==
    ASSUME SpineInv, NEW w \in Workers, FinishTool(w)
    PROVE  GovernedStep
<1>1. CASE UNCHANGED store
  BY <1>1, SeenUnchanged DEF FinishTool, KeepEnv, governed, store, ledgers
<1>2. CASE FinishRun(cur[w], out[w]) /\ UNCHANGED approval
  <2>1. cur[w] \in Subs
    BY DEF SpineInv, TypeInv, TypeOK, WorkerTypeOK
  <2> QED
    BY <1>2, <2>1, SettleGoverned DEF FinishTool, KeepEnv
<1> QED
  BY <1>1, <1>2 DEF FinishTool, Refused

LEMMA AdministratorGoverned ==
    ASSUME SpineInv, PermitInv, Administrator
    PROVE  GovernedStep
<1>1. StoreTypeOK
  BY DEF SpineInv, TypeInv, TypeOK
<1>2. effects' = effects
  BY DEF Administrator
<1>3. ASSUME NEW s \in Subs, NEW d \in {"approved", "rejected"}, Decide(s, d) PROVE GovernedStep
  <2>1. PermitOf(approval[s]) = "pending" /\ PermitOf(approval'[s]) \in {"granted", "denied"}
    BY <1>1, <1>3, DecideType DEF PermitOf, PermitInv
  <2>2. permits' = [permits EXCEPT ![s] = PermitOf(approval'[s])]
    BY <1>1, <1>3, DecideType, PermitMoved
  <2>3. Governance!Answer(s)
    BY <1>2, <1>3, <2>1, <2>2 DEF Decide, Governance!Answer, Governance!Move, permits
  <2> QED
    BY <2>3 DEF GovernedStep, Governance!Next
<1>4. ASSUME NEW s \in Subs, Renew(s) PROVE GovernedStep
  <2>1. permits' = permits
    BY <1>1, <1>4, RenewType DEF permits, PermitOf
  <2> QED
    BY <1>1, <1>2, <1>4, <2>1, RenewType DEF GovernedStep, statuses
<1>5. ASSUME NEW s \in Subs, NEW r \in ValidResults, Reconcile(s, r) PROVE GovernedStep
  BY <1>2, <1>5, SettleGoverned DEF Reconcile, CanReconcile, FinishRun
<1>6. ASSUME NEW tag \in Tags, Resume(tag) PROVE GovernedStep
  BY <1>2, <1>6, SeenUnchanged DEF Resume, governed, ledgers
<1> QED
  BY <1>3, <1>4, <1>5, <1>6 DEF Administrator

(* The execution spine implements GovernedAction: whatever workers, lost       *)
(* answers, crashes and the administrator do, a guarded action is granted      *)
(* before it starts, its grant is spent by starting, and it takes place once   *)
(* at most (executeTool, spine_start_tool, spine_decide, spine_reconcile).     *)
THEOREM SpineGovernsActions == Spec => ActionsGoverned
<1>1. Init => Governance!Init
  BY DEF Init, StoreInit, WorkerInit, Governance!Init, PermitOf
<1>2. Init => PermitInv
  BY DEF Init, StoreInit, PermitInv
<1>3. SpineInv /\ PermitInv /\ [Next]_vars => GovernedStep
  <2> SUFFICES ASSUME SpineInv, PermitInv, [Next]_vars PROVE GovernedStep
    OBVIOUS
  <2>1. CASE UNCHANGED governed
    BY <2>1, SeenUnchanged
  <2>2. ASSUME NEW s \in Subs, ExpireReceipt(s), UNCHANGED effects PROVE GovernedStep
    <3>1. permits' = permits /\ run' = run
      BY <2>2, RenewType DEF SpineInv, TypeInv, TypeOK, permits, PermitOf
    <3> QED
      BY <2>2, <3>1 DEF GovernedStep, statuses
  <2>3. CASE UNCHANGED vars
    BY <2>1, <2>3 DEF vars, store, governed
  <2> QED
    BY <2>1, <2>2, <2>3, StepKinds, RowSteps, ReceiptGoverned, StartToolGoverned, EffectGoverned,
       FinishToolGoverned, AdministratorGoverned
<1>4. SpineInv /\ PermitInv /\ [Next]_vars => PermitInv'
  BY PermitKeeps
<1>5. GovernedStep <=> [Governance!Next]_<<permits, statuses, effects>>
  BY DEF GovernedStep
<1> QED
  BY <1>1, <1>2, <1>3, <1>4, <1>5, InvariantHolds, PTL
  DEF Spec, ActionsGoverned, Governance!Spec, permits, statuses
=============================================================================
