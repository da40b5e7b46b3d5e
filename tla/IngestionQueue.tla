---------------------------- MODULE IngestionQueue ----------------------------
(***************************************************************************)
(* The acquisition queue: rows of automotive_ingestion_jobs, claimed and    *)
(* finished through two database functions (automotive_ingestion_worker.sql)*)
(* by workers of two kinds, the timer of every server process               *)
(* (ingestion-worker.ts) and the edge function automotive-acquire.  A lease *)
(* lasts ninety seconds and is not renewed; its token fences the finish.    *)
(***************************************************************************)
EXTENDS Integers, FiniteSets

CONSTANTS
    Workers,
    EdgeWorkers,    \* those that run the edge function
    Jobs,
    CatalogJobs,    \* those of vehicleCatalog.ts; the others are NHTSA's
    NoJob,
    MaxAttempts,    \* attempts after which a failed job is not queued again
    MaxFaults,      \* bound on crashes, and leases that end under their worker
    MaxRefreshes    \* bound: how often a completed job becomes seven days old

ASSUME QueueAssumption ==
    /\ EdgeWorkers \subseteq Workers
    /\ CatalogJobs \subseteq Jobs
    /\ NoJob \notin Jobs
    /\ MaxAttempts \in Nat \ {0}
    /\ MaxFaults \in Nat
    /\ MaxRefreshes \in Nat

VARIABLES
    jobs,       \* automotive_ingestion_jobs
    due,        \* the jobs with next_attempt_at <= now()
    lapsed,     \* the jobs with leased_until < now()
    aged,       \* the jobs completed more than seven days ago
    records,    \* records[j]: what of job j is in automotive_source_records
    work,       \* work[w]: the claim worker w is working on
    claims,     \* how many tokens have been drawn
    newest,     \* newest[j]: the token of the last claim of j
    abandoned,  \* abandoned[j]: claims of j taken over since attempts was 0
    faults,     \* crashes and overrun leases so far
    refreshes   \* refreshes so far (no code reads the last four)

table == <<jobs, due, lapsed, aged>>
tokens == <<claims, newest, abandoned>>
bounds == <<faults, refreshes>>
counts == <<tokens, bounds>>
vars == <<table, records, work, counts>>

States == {"absent", "queued", "running", "completed", "failed"}

(* Token 0 is null. *)
Job == [state : States, attempts : Nat, token : Nat]

Work == [pc : {"idle", "fetch", "store", "finish"},
         job : Jobs \cup {NoJob},
         token : Nat,
         success : {"yes", "no"}]

Idle == [pc |-> "idle", job |-> NoJob, token |-> 0, success |-> "no"]

TypeOK ==
    /\ jobs \in [Jobs -> Job]
    /\ due \subseteq Jobs
    /\ lapsed \subseteq Jobs
    /\ aged \subseteq Jobs
    /\ records \in [Jobs -> {"none", "some", "all"}]
    /\ work \in [Workers -> Work]
    /\ claims \in Nat
    /\ newest \in [Jobs -> Nat]
    /\ abandoned \in [Jobs -> Nat]
    /\ faults \in 0..MaxFaults
    /\ refreshes \in 0..MaxRefreshes

Init ==
    /\ jobs = [j \in Jobs |-> [state |-> "absent", attempts |-> 0, token |-> 0]]
    /\ due = {}
    /\ lapsed = {}
    /\ aged = {}
    /\ records = [j \in Jobs |-> "none"]
    /\ work = [w \in Workers |-> Idle]
    /\ claims = 0
    /\ newest = [j \in Jobs |-> 0]
    /\ abandoned = [j \in Jobs |-> 0]
    /\ faults = 0
    /\ refreshes = 0

----------------------------------------------------------------------------
(* Producers *)

(* enqueueNhtsa, the action "enqueue" of the edge function, and the inserts  *)
(* of syncCatalog: a row with this key is left as it is.                     *)
Enqueue(j) ==
    /\ jobs[j].state = "absent"
    /\ jobs' = [jobs EXCEPT ![j] = [state |-> "queued", attempts |-> jobs[j].attempts, token |-> 0]]
    /\ due' = due \cup {j}
    /\ UNCHANGED <<lapsed, aged, records, work, counts>>

(* The update of syncCatalog: completed models are fetched again after a     *)
(* week.  Failed ones are not.                                               *)
Stale == {j \in CatalogJobs \cap aged : jobs[j].state = "completed"}

Refresh ==
    /\ Stale # {}
    /\ jobs' = [j \in Jobs |-> IF j \in Stale
                               THEN [state |-> "queued", attempts |-> 0, token |-> jobs[j].token]
                               ELSE jobs[j]]
    /\ due' = due \cup Stale
    /\ aged' = aged \ Stale
    /\ abandoned' = [j \in Jobs |-> IF j \in Stale THEN 0 ELSE abandoned[j]]
    /\ UNCHANGED <<lapsed, records, work, claims, newest, bounds>>

----------------------------------------------------------------------------
(* Mutant: only queued jobs are claimed. *)
ClaimableQueued(j) == jobs[j].state = "queued" /\ j \in due

(* automotive_claim_job.  It takes the oldest row that qualifies and is not  *)
(* locked by another transaction, so it may be any of them.                  *)
Claimable(j) ==
    \/ jobs[j].state = "queued" /\ j \in due
    \/ jobs[j].state = "running" /\ j \in lapsed

Claim(w, j) ==
    /\ work[w].pc = "idle"
    /\ Claimable(j)
    /\ claims' = claims + 1
    /\ jobs' = [jobs EXCEPT ![j] =
                    [state |-> "running", attempts |-> jobs[j].attempts + 1,
                     token |-> claims + 1]]
    /\ lapsed' = lapsed \ {j}
    /\ newest' = [newest EXCEPT ![j] = claims + 1]
    /\ abandoned' = [abandoned EXCEPT ![j] =
                         IF jobs[j].state = "running" THEN abandoned[j] + 1 ELSE abandoned[j]]
    /\ work' = [work EXCEPT ![w] =
                    [pc |-> "fetch", job |-> j, token |-> claims + 1, success |-> "no"]]
    /\ UNCHANGED <<due, aged, records, bounds>>

----------------------------------------------------------------------------
(* The body of runOneIngestionJob, and of run in the edge function. *)

Go(w, pc, success) ==
    work' = [work EXCEPT ![w] =
                 [pc |-> pc, job |-> work[w].job, token |-> work[w].token, success |-> success]]

(* The source answered with something valid.  The edge function knows no     *)
(* catalog: it rejects the job before it fetches.                            *)
Fetch(w) ==
    /\ work[w].pc = "fetch"
    /\ ~(w \in EdgeWorkers /\ work[w].job \in CatalogJobs)
    /\ Go(w, "store", "no")
    /\ UNCHANGED <<table, records, counts>>

(* Records are upserted one after the other, or 250 at a time. *)
StoreSome(w) ==
    /\ work[w].pc = "store"
    /\ records[work[w].job] = "none"
    /\ records' = [records EXCEPT ![work[w].job] = "some"]
    /\ UNCHANGED <<table, work, counts>>

StoreRest(w) ==
    /\ work[w].pc = "store"
    /\ records' = [records EXCEPT ![work[w].job] = "all"]
    /\ Go(w, "finish", "yes")
    /\ UNCHANGED <<table, counts>>

(* Mutant: what was stored before the error counts as success. *)
FailPartly(w) ==
    /\ work[w].pc \in {"fetch", "store"}
    /\ Go(w, "finish", IF records[work[w].job] = "none" THEN "no" ELSE "yes")
    /\ UNCHANGED <<table, records, counts>>

(* Any error on the way is caught. *)
Fail(w) ==
    /\ work[w].pc \in {"fetch", "store"}
    /\ Go(w, "finish", "no")
    /\ UNCHANGED <<table, records, counts>>

----------------------------------------------------------------------------
(* automotive_finish_job *)
(* Mutant: the row is found by its id and state only. *)
OwnedUnfenced(w) == jobs[work[w].job].state = "running"

Owned(w) ==
    /\ jobs[work[w].job].token = work[w].token
    /\ jobs[work[w].job].state = "running"

(* Mutant: the state the edge function reports is stored. *)
OutcomeRetry(j, success) ==
    IF success = "yes" THEN "completed"
    ELSE IF jobs[j].attempts >= MaxAttempts THEN "failed" ELSE "retry"

(* Mutant: one attempt too many. *)
OutcomeLater(j, success) ==
    IF success = "yes" THEN "completed"
    ELSE IF jobs[j].attempts > MaxAttempts THEN "failed" ELSE "queued"

Outcome(j, success) ==
    IF success = "yes" THEN "completed"
    ELSE IF jobs[j].attempts >= MaxAttempts THEN "failed" ELSE "queued"

Finish(w) ==
    /\ work[w].pc = "finish"
    /\ Owned(w)
    /\ LET j == work[w].job
       IN /\ jobs' = [jobs EXCEPT ![j] =
                          [state |-> Outcome(j, work[w].success),
                           attempts |-> jobs[j].attempts, token |-> 0]]
          /\ due' = IF work[w].success = "yes" THEN due ELSE due \ {j}
          /\ lapsed' = lapsed \ {j}
    /\ work' = [work EXCEPT ![w] = Idle]
    /\ UNCHANGED <<aged, records, counts>>

(* Nothing is updated; the worker throws "Job lease lost before completion". *)
FinishLate(w) ==
    /\ work[w].pc = "finish"
    /\ ~Owned(w)
    /\ work' = [work EXCEPT ![w] = Idle]
    /\ UNCHANGED <<table, records, counts>>

(* The process dies, or the call that finishes never reaches the database.   *)
Crash(w) ==
    /\ work[w].pc # "idle"
    /\ faults < MaxFaults
    /\ faults' = faults + 1
    /\ work' = [work EXCEPT ![w] = Idle]
    /\ UNCHANGED <<table, records, tokens, refreshes>>

----------------------------------------------------------------------------
(* Time *)

(* Backoff ends. *)
BecomeDue(j) ==
    /\ jobs[j].state = "queued"
    /\ j \notin due
    /\ due' = due \cup {j}
    /\ UNCHANGED <<jobs, lapsed, aged, records, work, counts>>

(* Ninety seconds are over. *)
Attended(j) == \E w \in Workers : work[w].token = jobs[j].token

Running(j) == jobs[j].state = "running" /\ j \notin lapsed

Lapse(j) ==
    /\ Running(j)
    /\ ~Attended(j)
    /\ lapsed' = lapsed \cup {j}
    /\ UNCHANGED <<jobs, due, aged, records, work, counts>>

Overrun(j) ==
    /\ Running(j)
    /\ Attended(j)
    /\ faults < MaxFaults
    /\ faults' = faults + 1
    /\ lapsed' = lapsed \cup {j}
    /\ UNCHANGED <<jobs, due, aged, records, work, tokens, refreshes>>

(* Seven days are over. *)
Age(j) ==
    /\ jobs[j].state = "completed"
    /\ j \in CatalogJobs \ aged
    /\ refreshes < MaxRefreshes
    /\ refreshes' = refreshes + 1
    /\ aged' = aged \cup {j}
    /\ UNCHANGED <<jobs, due, lapsed, records, work, tokens, faults>>

----------------------------------------------------------------------------
(* What a worker does about the claim it has.  The timer calls again after  *)
(* every outcome; the edge function runs when somebody calls it.             *)
Proceed(w) ==
    \/ Fetch(w) \/ StoreSome(w) \/ StoreRest(w) \/ Fail(w)
    \/ Finish(w) \/ FinishLate(w)

WorkerNext(w) ==
    \/ \E j \in Jobs : Claim(w, j)
    \/ Proceed(w)
    \/ Crash(w)

JobNext(j) ==
    \/ Enqueue(j) \/ BecomeDue(j) \/ Lapse(j) \/ Overrun(j) \/ Age(j)

Next ==
    \/ \E w \in Workers : WorkerNext(w)
    \/ \E j \in Jobs : JobNext(j)
    \/ Refresh

Spec == Init /\ [][Next]_vars

(* Calls are bounded by timeouts, timers fire again, clocks run.  Nothing is *)
(* assumed of the edge function's callers, of producers or of faults.        *)
Fairness ==
    /\ \A w \in Workers : WF_vars(Proceed(w))
    /\ \A w \in Workers \ EdgeWorkers : WF_vars(\E j \in Jobs : Claim(w, j))
    /\ \A j \in Jobs : WF_vars(BecomeDue(j)) /\ WF_vars(Lapse(j))

FairSpec == Spec /\ Fairness

----------------------------------------------------------------------------
(* Properties *)

(* At most one worker can finish a job: of several that work on it, each    *)
(* but the last to claim it has been superseded ("duplicate workers and      *)
(* expired lease", docs/automotive-acquisition-operations.md).               *)
OneOwner ==
    \A v, w \in Workers :
        /\ work[v].pc # "idle" /\ Owned(v)
        /\ work[w].pc # "idle" /\ Owned(w)
        /\ work[v].job = work[w].job
        => v = w

(* A job stops running only by the worker that claimed it last, never by one *)
(* whose lease ended while it fetched (automotive_finish_job: "Completion    *)
(* guarded by lease token").                                                 *)
NewestClaimDecides ==
    [][\A j \in Jobs :
          jobs[j].state = "running" /\ jobs'[j].state # "running" =>
          \E w \in Workers :
              /\ work[w].pc = "finish"
              /\ work[w].job = j
              /\ work[w].token = newest[j]
              /\ work'[w].pc = "idle"]_vars

(* A job is completed only when one claim of it stored every record, though  *)
(* attempts fail between two records and others take over.                   *)
CompletedStored ==
    \A j \in Jobs : jobs[j].state = "completed" => records[j] = "all"

(* No duplicate enqueue, no late worker and no catalog sync reopens a job    *)
(* that ended, except a catalog job a week after it completed.               *)
EndedStays ==
    [][\A j \in Jobs :
          /\ jobs[j].state \in {"completed", "failed"}
          /\ jobs'[j].state # jobs[j].state
          => /\ j \in CatalogJobs \cap aged
             /\ jobs[j].state = "completed"
             /\ jobs'[j].state = "queued"]_vars

(* A job waits only while attempts are left and is given up only when none   *)
(* are.  Claims that were taken over come on top: automotive_claim_job does   *)
(* not compare attempts, so the maximum bounds attempts that reported back.  *)
AttemptsAccounted ==
    \A j \in Jobs :
        /\ jobs[j].state = "queued" => jobs[j].attempts < MaxAttempts
        /\ jobs[j].state = "failed" => jobs[j].attempts >= MaxAttempts
        /\ jobs[j].attempts <= MaxAttempts + abandoned[j]

(* Every job that was queued ends, whatever crashes: a claim nobody attends  *)
(* is taken over, a failed attempt is retried or is the last.                *)
JobsEnd ==
    \A j \in Jobs :
        jobs[j].state \in {"queued", "running"} ~> jobs[j].state \in {"completed", "failed"}

=============================================================================
