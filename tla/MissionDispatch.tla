--------------------------- MODULE MissionDispatch ---------------------------
(***************************************************************************)
(* The batch dispatcher behind /api/orchestrator: concurrent workers share   *)
(* one cursor over the tasks, each task runs through the governed adapter   *)
(* runtime (authorize, execute, persist evidence) and only retry-safe ones    *)
(* are retried; when all are done every result is logged, and the batch is  *)
(* answered only if every log row was inserted.  The client may send the    *)
(* same batch again.                                                        *)
(***************************************************************************)
EXTENDS Naturals, Sequences

CONSTANTS
    Batch,          \* the tasks, in order
    Hands,          \* the concurrent workers
    RetrySafe,      \* tasks marked read-only or idempotent
    Malformed,      \* tasks the dispatcher finds invalid
    MaxRetries,     \* every task's maxRetries
    MaxBatches      \* how often the client sends the batch

(* The controller refuses a batch that names a task twice.                 *)
ASSUME DispatchAssumption ==
    /\ Batch \in Seq({Batch[i] : i \in DOMAIN Batch})
    /\ \A i, j \in DOMAIN Batch : Batch[i] = Batch[j] => i = j
    /\ MaxRetries \in Nat

VARIABLES
    cursor,     \* the next task nobody took
    hand,       \* the task of each worker, its attempt and where it is
    results,    \* per task
    log,        \* rows of mission_dispatch_logs
    reply,      \* what the client got for this batch
    batches,    \* how often the batch was sent
    calls,      \* history: adapter calls of each task in this batch
    evidence    \* history: outcomes persisted for each task in this batch

dispatch == <<cursor, hand, results, log, reply, batches, calls, evidence>>

Tasks == {Batch[i] : i \in DOMAIN Batch}
Resting == [task |-> 0, attempt |-> 0, at |-> "next"]
NoResults == [t \in Tasks |-> "none"]

BatchStarts ==
    /\ cursor' = 1
    /\ hand' = [h \in Hands |-> Resting]
    /\ results' = NoResults
    /\ reply' = "none"
    /\ calls' = [t \in Tasks |-> 0]
    /\ evidence' = [t \in Tasks |-> {}]

DispatchInit ==
    /\ cursor = 1 /\ batches = 1 /\ reply = "none"
    /\ hand = [h \in Hands |-> Resting]
    /\ results = NoResults
    /\ log = [t \in Tasks |-> "none"]
    /\ calls = [t \in Tasks |-> 0]
    /\ evidence = [t \in Tasks |-> {}]

Move(h, step) == hand' = [hand EXCEPT ![h].at = step]
TaskOf(h) == Batch[hand[h].task]
Bookkeeping == <<cursor, log, reply, batches>>

(* index = cursor++ happens without an await in between.                   *)
TakeTask(h) ==
    /\ hand[h].at = "next" /\ cursor <= Len(Batch)
    /\ hand' = [hand EXCEPT ![h] = [task |-> cursor, attempt |-> 0, at |-> "valid"]]
    /\ cursor' = cursor + 1
    /\ UNCHANGED <<results, log, reply, batches, calls, evidence>>

Leave(h, status) ==
    /\ results' = [results EXCEPT ![TaskOf(h)] = status]
    /\ hand' = [hand EXCEPT ![h] = Resting]

(* Invalid, unknown adapter or not authorized: failed, never retried.      *)
RejectTask(h) ==
    /\ hand[h].at \in {"valid", "authorize"}
    /\ hand[h].at = "valid" => TaskOf(h) \in Malformed
    /\ Leave(h, "FAILED")
    /\ UNCHANGED <<Bookkeeping, calls, evidence>>

ValidateTask(h) ==
    /\ hand[h].at = "valid" /\ TaskOf(h) \notin Malformed
    /\ Move(h, "authorize")
    /\ UNCHANGED <<Bookkeeping, results, calls, evidence>>

(* The adapter is called; a call that fails or times out may have done its *)
(* work.                                                                   *)
CallAdapter(h) ==
    /\ hand[h].at = "authorize"
    /\ calls' = [calls EXCEPT ![TaskOf(h)] = @ + 1]
    /\ \E outcome \in {"succeeded", "failed"} : Move(h, outcome)
    /\ UNCHANGED <<Bookkeeping, results, evidence>>

(* Mutant: every failed outcome is retried.                                *)
RetriableAlways(h) == hand[h].attempt < MaxRetries

Retriable(h) == TaskOf(h) \in RetrySafe /\ hand[h].attempt < MaxRetries

PersistOutcome(h) ==
    /\ hand[h].at \in {"succeeded", "failed"}
    /\ evidence' = [evidence EXCEPT ![TaskOf(h)] = @ \cup {hand[h].at}]
    /\ IF hand[h].at = "failed" /\ Retriable(h)
       THEN /\ hand' = [hand EXCEPT ![h].attempt = @ + 1, ![h].at = "authorize"]
            /\ UNCHANGED results
       ELSE Leave(h, IF hand[h].at = "succeeded" THEN "SUCCESS" ELSE "FAILED")
    /\ UNCHANGED <<Bookkeeping, calls>>

(* persist throws, its row written or not: the task fails without a retry. *)
PersistLost(h) ==
    /\ hand[h].at \in {"succeeded", "failed"}
    /\ \E written \in BOOLEAN :
        evidence' = [evidence EXCEPT ![TaskOf(h)] =
                        IF written THEN @ \cup {hand[h].at} ELSE @]
    /\ Leave(h, "FAILED")
    /\ UNCHANGED <<Bookkeeping, calls>>

BatchDone == \A t \in Tasks : results[t] # "none"

(* What logEvent does for each result: a row is inserted unless one exists;*)
(* a call that is lost may have inserted it.                               *)
Logged(lost, written) ==
    [t \in Tasks |->
        IF log[t] = "none" /\ (t \notin lost \/ t \in written) THEN results[t]
                                                               ELSE log[t]]

(* rowCount = 1 for every result.                                          *)
AllRecorded(lost) == lost = {} /\ \A t \in Tasks : log[t] = "none"

AnswerBatch ==
    /\ reply = "none" /\ BatchDone
    /\ \E lost \in SUBSET Tasks : \E written \in SUBSET lost :
        /\ log' = Logged(lost, written)
        /\ reply' = IF AllRecorded(lost) THEN "results" ELSE "unavailable"
    /\ UNCHANGED <<cursor, hand, results, batches, calls, evidence>>

SendAgain ==
    /\ reply # "none" /\ batches < MaxBatches
    /\ batches' = batches + 1
    /\ BatchStarts
    /\ UNCHANGED log

DispatchNext ==
    \/ \E h \in Hands :
        \/ TakeTask(h) \/ ValidateTask(h) \/ RejectTask(h)
        \/ CallAdapter(h) \/ PersistOutcome(h) \/ PersistLost(h)
    \/ AnswerBatch
    \/ SendAgain

(* However the workers of a batch interleave, a task that is not retry-safe *)
(* calls its adapter at most once in a batch and a retry-safe one at most    *)
(* maxRetries + 1 times; a task reported successful has the evidence of a    *)
(* success; and results are only returned when the log holds exactly them,   *)
(* also when the batch was sent before.  (executeSingleTaskWithRetry,        *)
(* GovernedAdapterRuntime.execute, logEvent.)                               *)
DispatchedOnce ==
    /\ \A t \in Tasks :
        /\ calls[t] <= IF t \in RetrySafe THEN MaxRetries + 1 ELSE 1
        /\ results[t] = "SUCCESS" => calls[t] > 0 /\ "succeeded" \in evidence[t]
    /\ reply = "results" => log = results
==============================================================================
