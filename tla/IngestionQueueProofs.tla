------------------------- MODULE IngestionQueueProofs -------------------------
(* Proofs about the acquisition queue, for any workers, jobs and bounds. *)
EXTENDS IngestionQueue, TLAPS

(* The token of a running job is that of its last claim. *)
Fenced ==
    \A j \in Jobs :
        /\ newest[j] <= claims
        /\ jobs[j].state = "running" => jobs[j].token = newest[j]

(* A busy worker holds a token that was drawn, and that nobody else holds. *)
Distinct ==
    \A w \in Workers :
        work[w].pc # "idle" =>
            /\ work[w].job \in Jobs
            /\ work[w].token <= claims
            /\ \A v \in Workers :
                  work[v].pc # "idle" /\ v # w => work[v].token # work[w].token

(* Who is about to report success has seen every record stored. *)
Stored ==
    \A w \in Workers :
        work[w].success = "yes" =>
            /\ work[w].pc = "finish"
            /\ records[work[w].job] = "all"

(* A row that was never claimed has not been attempted either. *)
Fresh == \A j \in Jobs : jobs[j].state = "absent" => jobs[j].attempts = 0

QueueInv ==
    /\ TypeOK
    /\ Fenced
    /\ Distinct
    /\ Stored
    /\ Fresh
    /\ CompletedStored
    /\ AttemptsAccounted

-----------------------------------------------------------------------------
(* The queue starts in the invariant: no row, no claim. *)
LEMMA QueueInit == Init => QueueInv
<1> USE QueueAssumption DEF Init
<1>1. Init => TypeOK
  BY DEF TypeOK, Job, States, Work, Idle
<1>2. Init => Fenced /\ Distinct /\ Stored /\ Fresh
  BY DEF Fenced, Distinct, Stored, Fresh, Idle
<1>3. Init => CompletedStored /\ AttemptsAccounted
  BY DEF CompletedStored, AttemptsAccounted
<1>4. QED
  BY <1>1, <1>2, <1>3 DEF QueueInv

(* A row that is enqueued has attempts left, and no claim. *)
LEMMA EnqueueKept ==
    ASSUME QueueInv, NEW j \in Jobs, Enqueue(j)
    PROVE  QueueInv'
<1> USE QueueAssumption DEF QueueInv, Enqueue, counts, tokens, bounds
<1>1. TypeOK'
  BY DEF TypeOK, Job, States
<1>2. Fenced' /\ Distinct' /\ Stored' /\ Fresh'
  BY DEF Fenced, Distinct, Stored, Fresh, TypeOK, Job
<1>3. CompletedStored' /\ AttemptsAccounted'
  BY DEF CompletedStored, AttemptsAccounted, Fresh, TypeOK, Job
<1>4. QED
  BY <1>1, <1>2, <1>3

(* A catalog sync reopens completed rows only, which no worker owns. *)
LEMMA RefreshKept ==
    ASSUME QueueInv, Refresh
    PROVE  QueueInv'
<1> USE QueueAssumption DEF QueueInv, Refresh, bounds
<1>1. TypeOK'
  BY DEF TypeOK, Job, States, Stale
<1>2. Fenced' /\ Distinct' /\ Stored' /\ Fresh'
  BY DEF Fenced, Distinct, Stored, Fresh, TypeOK, Job, Stale
<1>3. CompletedStored' /\ AttemptsAccounted'
  BY DEF CompletedStored, AttemptsAccounted, TypeOK, Job, Stale
<1>4. QED
  BY <1>1, <1>2, <1>3

(* A claim draws a token nobody holds; one that takes a lapsed job over is   *)
(* accounted for.                                                            *)
LEMMA ClaimKept ==
    ASSUME QueueInv, NEW w \in Workers, NEW j \in Jobs, Claim(w, j)
    PROVE  QueueInv'
<1> USE QueueAssumption DEF QueueInv, Claim, Claimable
<1>1. TypeOK'
  BY DEF TypeOK, Job, States, Work, bounds
<1>2. Fenced'
  BY DEF Fenced, TypeOK, Job
<1>3. Distinct'
  BY DEF Distinct, TypeOK, Job, Work
<1>4. Stored' /\ Fresh'
  BY DEF Stored, Fresh, TypeOK, Job, Work
<1>5. CompletedStored' /\ AttemptsAccounted'
  BY DEF CompletedStored, AttemptsAccounted, TypeOK, Job
<1>6. QED
  BY <1>1, <1>2, <1>3, <1>4, <1>5

(* The work between claim and finish leaves the table alone; records are     *)
(* only ever added.                                                          *)
LEMMA WorkKeeps ==
    ASSUME QueueInv, NEW w \in Workers,
           Fetch(w) \/ StoreSome(w) \/ StoreRest(w) \/ Fail(w) \/ FinishLate(w) \/ Crash(w)
    PROVE  QueueInv'
<1> USE QueueAssumption
        DEF QueueInv, Fetch, StoreSome, StoreRest, Fail, FinishLate, Crash, Go, Idle,
            table, counts, tokens, bounds
<1>1. TypeOK'
  BY DEF TypeOK, Work
<1>2. Fenced' /\ Fresh'
  BY DEF Fenced, Fresh
<1>3. Distinct'
  BY DEF Distinct, TypeOK, Work
<1>4. Stored'
  BY DEF Stored, Distinct, TypeOK, Work
<1>5. CompletedStored' /\ AttemptsAccounted'
  BY DEF CompletedStored, AttemptsAccounted, Distinct, TypeOK, Work
<1>6. QED
  BY <1>1, <1>2, <1>3, <1>4, <1>5

(* A finish completes a job whose records are stored, or spends an attempt. *)
LEMMA FinishKept ==
    ASSUME QueueInv, NEW w \in Workers, Finish(w)
    PROVE  QueueInv'
<1> USE QueueAssumption DEF QueueInv, Finish, Owned, Outcome, counts, tokens, bounds
<1>0. work[w].job \in Jobs
  BY DEF Distinct, TypeOK
<1>1. TypeOK'
  BY <1>0 DEF TypeOK, Job, States, Work, Idle
<1>2. Fenced' /\ Fresh'
  BY <1>0 DEF Fenced, Fresh, TypeOK, Job
<1>3. Distinct' /\ Stored'
  BY DEF Distinct, Stored, TypeOK, Work, Idle
<1>4. CompletedStored'
  BY <1>0 DEF CompletedStored, Stored, TypeOK, Job, Work
<1>5. AttemptsAccounted'
  BY <1>0 DEF AttemptsAccounted, TypeOK, Job, Work
<1>6. QED
  BY <1>1, <1>2, <1>3, <1>4, <1>5

(* Time changes which rows qualify, and nothing else. *)
LEMMA TimeKeeps ==
    ASSUME QueueInv, NEW j \in Jobs, BecomeDue(j) \/ Lapse(j) \/ Overrun(j) \/ Age(j)
    PROVE  QueueInv'
<1> USE QueueAssumption
        DEF QueueInv, BecomeDue, Lapse, Overrun, Age, counts, tokens, bounds
<1>1. TypeOK'
  BY DEF TypeOK
<1>2. Fenced' /\ Distinct' /\ Stored' /\ Fresh'
  BY DEF Fenced, Distinct, Stored, Fresh
<1>3. CompletedStored' /\ AttemptsAccounted'
  BY DEF CompletedStored, AttemptsAccounted
<1>4. QED
  BY <1>1, <1>2, <1>3

(* A step that changes no variable keeps the invariant. *)
LEMMA StutterKeeps ==
    ASSUME QueueInv, UNCHANGED vars
    PROVE  QueueInv'
BY DEF QueueInv, TypeOK, Fenced, Distinct, Stored, Fresh, CompletedStored, AttemptsAccounted,
       vars, table, counts, tokens, bounds

LEMMA QueueStep == QueueInv /\ [Next]_vars => QueueInv'
<1> SUFFICES ASSUME QueueInv, [Next]_vars PROVE QueueInv'
  OBVIOUS
<1>1. CASE Refresh
  BY <1>1, RefreshKept
<1>2. ASSUME NEW j \in Jobs, JobNext(j) PROVE QueueInv'
  BY <1>2, EnqueueKept, TimeKeeps DEF JobNext
<1>3. ASSUME NEW w \in Workers, WorkerNext(w) PROVE QueueInv'
  BY <1>3, ClaimKept, WorkKeeps, FinishKept DEF WorkerNext, Proceed
<1>4. CASE UNCHANGED vars
  BY <1>4, StutterKeeps
<1>5. QED
  BY <1>1, <1>2, <1>3, <1>4 DEF Next

-----------------------------------------------------------------------------
(* The invariant of the queue, for any number of workers and jobs. *)
THEOREM QueueInvHolds == Spec => []QueueInv
<1>1. QED
  BY QueueInit, QueueStep, PTL DEF Spec

(* Every variable keeps its type: in particular the state column never holds  *)
(* a value its check constraint refuses (automotive_ingestion_schema.sql).   *)
THEOREM QueueTyped == Spec => []TypeOK
<1>1. QueueInv => TypeOK
  BY DEF QueueInv
<1>2. QED
  BY <1>1, QueueInvHolds, PTL

(* However many workers run and however often leases end under them, at most *)
(* one of them can finish a job (automotive_finish_job).                     *)
THEOREM JobsHaveOneOwner == Spec => []OneOwner
<1>1. QueueInv => OneOwner
  BY DEF QueueInv, Distinct, OneOwner, Owned, TypeOK
<1>2. QED
  BY <1>1, QueueInvHolds, PTL

(* A completed job has its records, though attempts fail half way and others *)
(* take over (runOneIngestionJob reports success only after the last write). *)
THEOREM CompletedJobsStored == Spec => []CompletedStored
<1>1. QueueInv => CompletedStored
  BY DEF QueueInv
<1>2. QED
  BY <1>1, QueueInvHolds, PTL

(* Attempts are bounded by the maximum plus the claims that were taken over, *)
(* whatever the maximum is (automotive_claim_job, automotive_finish_job).    *)
THEOREM AttemptsAreAccounted == Spec => []AttemptsAccounted
<1>1. QueueInv => AttemptsAccounted
  BY DEF QueueInv
<1>2. QED
  BY <1>1, QueueInvHolds, PTL

(* What a step does to the state of a running job it does as its last claimer *)
(* (the where clause of automotive_finish_job).                              *)
THEOREM OnlyTheNewestClaimDecides == Spec => NewestClaimDecides
<1> DEFINE Decided(j) ==
      jobs[j].state = "running" /\ jobs'[j].state # "running" =>
      \E w \in Workers :
          /\ work[w].pc = "finish"
          /\ work[w].job = j
          /\ work[w].token = newest[j]
          /\ work'[w].pc = "idle"
<1>1. ASSUME QueueInv, [Next]_vars, NEW j \in Jobs PROVE Decided(j)
  <2> USE <1>1 DEF QueueInv, TypeOK, Job
  <2>1. CASE Refresh
    BY <2>1 DEF Refresh, Stale
  <2>2. ASSUME NEW i \in Jobs, JobNext(i) PROVE Decided(j)
    BY <2>2 DEF JobNext, Enqueue, BecomeDue, Lapse, Overrun, Age
  <2>3. ASSUME NEW w \in Workers, NEW i \in Jobs, Claim(w, i) PROVE Decided(j)
    BY <2>3 DEF Claim
  <2>4. ASSUME NEW w \in Workers, Finish(w) PROVE Decided(j)
    BY <2>4 DEF Finish, Owned, Fenced, Distinct, Idle
  <2>5. ASSUME NEW w \in Workers,
               Fetch(w) \/ StoreSome(w) \/ StoreRest(w) \/ Fail(w) \/ FinishLate(w) \/ Crash(w)
        PROVE  Decided(j)
    BY <2>5 DEF Fetch, StoreSome, StoreRest, Fail, FinishLate, Crash, table
  <2>6. CASE UNCHANGED vars
    BY <2>6 DEF vars, table
  <2>7. QED
    BY <2>1, <2>2, <2>3, <2>4, <2>5, <2>6 DEF Next, WorkerNext, Proceed
<1>2. QueueInv /\ [Next]_vars => [\A j \in Jobs : Decided(j)]_vars
  BY <1>1
<1>3. QED
  BY <1>2, QueueInvHolds, PTL DEF Spec, NewestClaimDecides

(* Duplicates of an enqueue, late finishers and catalog syncs reopen nothing *)
(* but catalog jobs a week old (ignoreDuplicates, syncCatalog).              *)
THEOREM EndedJobsStay == Spec => EndedStays
<1> DEFINE Kept(j) ==
      /\ jobs[j].state \in {"completed", "failed"}
      /\ jobs'[j].state # jobs[j].state
      => /\ j \in CatalogJobs \cap aged
         /\ jobs[j].state = "completed"
         /\ jobs'[j].state = "queued"
<1>1. ASSUME QueueInv, [Next]_vars, NEW j \in Jobs PROVE Kept(j)
  <2> USE <1>1 DEF QueueInv, TypeOK, Job
  <2>1. CASE Refresh
    BY <2>1 DEF Refresh, Stale
  <2>2. ASSUME NEW i \in Jobs, JobNext(i) PROVE Kept(j)
    BY <2>2 DEF JobNext, Enqueue, BecomeDue, Lapse, Overrun, Age
  <2>3. ASSUME NEW w \in Workers, NEW i \in Jobs, Claim(w, i) PROVE Kept(j)
    BY <2>3 DEF Claim, Claimable
  <2>4. ASSUME NEW w \in Workers, Finish(w) PROVE Kept(j)
    BY <2>4 DEF Finish, Owned, Distinct
  <2>5. ASSUME NEW w \in Workers,
               Fetch(w) \/ StoreSome(w) \/ StoreRest(w) \/ Fail(w) \/ FinishLate(w) \/ Crash(w)
        PROVE  Kept(j)
    BY <2>5 DEF Fetch, StoreSome, StoreRest, Fail, FinishLate, Crash, table
  <2>6. CASE UNCHANGED vars
    BY <2>6 DEF vars, table
  <2>7. QED
    BY <2>1, <2>2, <2>3, <2>4, <2>5, <2>6 DEF Next, WorkerNext, Proceed
<1>2. QueueInv /\ [Next]_vars => [\A j \in Jobs : Kept(j)]_vars
  BY <1>1
<1>3. QED
  BY <1>2, QueueInvHolds, PTL DEF Spec, EndedStays

=============================================================================
