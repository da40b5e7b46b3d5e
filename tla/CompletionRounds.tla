-------------------------- MODULE CompletionRounds --------------------------
(***************************************************************************)
(* How a mission ends (src/server/planner/executionSpine.ts, from the task   *)
(* loop to the final transaction): the reviewer's verdict is stored under a  *)
(* hash of the tasks and artifacts it saw, may add tasks for another round,  *)
(* and is found again by whoever runs the mission next.  What happens inside *)
(* a task is the subject of SpineWorker; here a task is run in one step.     *)
(***************************************************************************)
EXTENDS Naturals, Sequences, FiniteSetsExt

CONSTANTS Runners,      \* processes that may tick the mission
          MaxRounds,    \* stored reviews after which none may continue (2)
          MaxTasks,     \* budget.max_subtasks
          MaxResumes    \* bound on resumes

ASSUME CompletionAssumption == Runners # {} /\ MaxRounds \in Nat

VARIABLES mission,      \* the mission row: status, number of resumes so far
          tasks,        \* its task rows, in the order they were inserted
          artifacts,    \* the tasks with an artifact
          reviews,      \* the stored completion reviews
          lead,         \* the lease: its owner, and whether it still runs
          at,           \* what each run has read, and where it is
          rounds,       \* history: continuations each process has committed
          late          \* history: tasks added by runs that had been overtaken
histories == <<rounds, late>>
completion == <<mission, tasks, artifacts, reviews, lead, at, histories>>

Off == [pc |-> "off", tasks |-> 0, left |-> {}, artifacts |-> {}, known |-> {}]

CompletionInit ==
    /\ mission = [status |-> "queued", resumes |-> 0]
    /\ tasks = <<"queued">>
    /\ artifacts = {}
    /\ reviews = {}
    /\ lead \in [owner : {CHOOSE w \in Runners : TRUE}, live : {FALSE}]
    /\ at = [w \in Runners |-> Off]
    /\ rounds = [w \in Runners |-> 0] /\ late = {}

-----------------------------------------------------------------------------
(* The lease *)

Leads(w) == lead = [owner |-> w, live |-> TRUE]

(* Every end of a run but a crash gives the lease back, if it is still the   *)
(* run's own.                                                                *)
EndRun(w) ==
    /\ at' = [at EXCEPT ![w] = Off]
    /\ lead' = IF lead.owner = w THEN [lead EXCEPT !.live = FALSE] ELSE lead

BeginRun(w) ==
    /\ at[w].pc = "off" /\ ~lead.live
    /\ lead' = [owner |-> w, live |-> TRUE]
    /\ at' = [at EXCEPT ![w].pc = "open"]
    /\ UNCHANGED <<mission, tasks, artifacts, reviews, histories>>

LapseLead ==
    /\ lead.live
    /\ lead' = [lead EXCEPT !.live = FALSE]
    /\ UNCHANGED <<mission, tasks, artifacts, reviews, at, histories>>

(* The heartbeat asks for the lease as if it were free, so that a run may    *)
(* get it back after others have had it.                                     *)
BeatLead(w) ==
    /\ at[w].pc # "off" /\ ~lead.live
    /\ lead' = [owner |-> w, live |-> TRUE]
    /\ UNCHANGED <<mission, tasks, artifacts, reviews, at, histories>>

DieRunning(w) ==
    /\ at[w].pc # "off"
    /\ at' = [at EXCEPT ![w] = Off]
    /\ UNCHANGED <<mission, tasks, artifacts, reviews, lead, histories>>

-----------------------------------------------------------------------------
(* Running the tasks *)

OpenMission(w) ==
    /\ at[w].pc = "open" /\ Leads(w)
    /\ IF mission.status \in {"queued", "running"}
         THEN /\ mission' = [mission EXCEPT !.status = "running"]
              /\ at' = [at EXCEPT ![w].pc = "run", ![w].tasks = Len(tasks),
                                  ![w].left = {i \in DOMAIN tasks : tasks[i] # "succeeded"}]
              /\ UNCHANGED lead
         ELSE EndRun(w) /\ UNCHANGED mission
    /\ UNCHANGED <<tasks, artifacts, reviews, histories>>

(* The next task of the list as it was read when the run began.             *)
Turn(w) == Min(at[w].left)

RunTask(w) ==
    /\ at[w].pc = "run" /\ at[w].left # {} /\ Leads(w)
    /\ tasks[Turn(w)] = "queued"
    /\ tasks' = [tasks EXCEPT ![Turn(w)] = "succeeded"]
    /\ artifacts' = artifacts \cup {Turn(w)}
    /\ at' = [at EXCEPT ![w].left = @ \ {Turn(w)}]
    /\ UNCHANGED <<mission, reviews, lead, histories>>

(* spine_validate_row: a mission that succeeded takes no other status; the   *)
(* refused transaction ends the run.                                         *)
Park == mission' = IF mission.status = "succeeded" THEN mission
                   ELSE [mission EXCEPT !.status = "waiting"]

BlockTask(w) ==
    /\ at[w].pc = "run" /\ at[w].left # {} /\ Leads(w)
    /\ tasks[Turn(w)] # "succeeded"
    /\ tasks' = [tasks EXCEPT ![Turn(w)] = "blocked"]
    /\ Park /\ EndRun(w)
    /\ UNCHANGED <<artifacts, reviews, histories>>

(* A write is refused, which ends the run: without the lease (LEASE_LOST),   *)
(* or since another run has finished the task that this one now wants to     *)
(* start (spine_validate_row, TERMINAL_STATE).                               *)
Writes(w) == \/ at[w].pc \in {"open", "review", "evaluate", "final"}
             \/ at[w].pc = "run" /\ at[w].left # {}

LoseRun(w) ==
    /\ Writes(w)
    /\ ~Leads(w) \/ (at[w].pc = "run" /\ tasks[Turn(w)] = "succeeded")
    /\ EndRun(w)
    /\ UNCHANGED <<mission, tasks, artifacts, reviews, histories>>

-----------------------------------------------------------------------------
(* Review and continuation *)

ReadArtifacts(w) ==
    /\ at[w].pc = "run" /\ at[w].left = {}
    /\ at' = [at EXCEPT ![w].pc = "messages", ![w].artifacts = artifacts]
    /\ UNCHANGED <<mission, tasks, artifacts, reviews, lead, histories>>

ReadReviews(w) ==
    /\ at[w].pc = "messages"
    /\ at' = [at EXCEPT ![w].pc = "review", ![w].known = reviews]
    /\ UNCHANGED <<mission, tasks, artifacts, reviews, lead, histories>>

(* The hash a review is stored under.                                        *)
Snapshot(w) == [tasks |-> at[w].tasks, artifacts |-> at[w].artifacts]

Prior(w) == {r \in at[w].known : r.snapshot = Snapshot(w)}

(* A continuation beyond the rounds or the size of a mission is stored as    *)
(* blocked, and one that is found again is not carried out again.            *)
RoundsOfTheseTasks(w) ==
    Cardinality({r \in at[w].known : r.snapshot.tasks = at[w].tasks})
Rounds(w) == Cardinality(at[w].known)

Verdicts(w) ==
    IF Prior(w) # {}
      THEN {IF r.verdict = "continue" THEN "blocked" ELSE r.verdict : r \in Prior(w)}
      ELSE {"complete", "blocked"} \cup
           (IF Rounds(w) < MaxRounds /\ at[w].tasks < MaxTasks THEN {"continue"} ELSE {})

(* Insert if absent: a review already stored under the hash stays.           *)
Filed(w, verdict) ==
    IF \E r \in reviews : r.snapshot = Snapshot(w) THEN reviews
    ELSE reviews \cup {[snapshot |-> Snapshot(w), verdict |-> verdict]}

AcceptResult(w) ==
    /\ at[w].pc = "review" /\ Leads(w) /\ "complete" \in Verdicts(w)
    /\ reviews' = Filed(w, "complete")
    /\ at' = [at EXCEPT ![w].pc = "evaluate"]
    /\ UNCHANGED <<mission, tasks, artifacts, lead, histories>>

(* What the run goes by is no longer what is stored: another run has filed a *)
(* review or added tasks since it read them.                                *)
Overtaken(w) == Len(tasks) # at[w].tasks \/ reviews # at[w].known

ContinueMission(w) ==
    /\ at[w].pc = "review" /\ Leads(w) /\ "continue" \in Verdicts(w)
    /\ reviews' = Filed(w, "continue")
    /\ tasks' = Append(tasks, "queued")
    /\ at' = [at EXCEPT ![w].pc = "run", ![w].tasks = Len(tasks'),
                        ![w].left = {i \in DOMAIN tasks' : tasks'[i] # "succeeded"}]
    /\ rounds' = [rounds EXCEPT ![w] = @ + 1]
    /\ late' = IF Overtaken(w) THEN late \cup {Len(tasks')} ELSE late
    /\ UNCHANGED <<mission, artifacts, lead>>

StopMission(w) ==
    /\ at[w].pc = "review" /\ Leads(w) /\ "blocked" \in Verdicts(w)
    /\ reviews' = IF mission.status = "succeeded" THEN reviews ELSE Filed(w, "blocked")
    /\ Park /\ EndRun(w)
    /\ UNCHANGED <<tasks, artifacts, histories>>

(* The deadline has passed, the model is out of reach, or its answer is not  *)
(* a review: nothing is stored but the error.                                *)
FailReview(w) ==
    /\ at[w].pc = "review" /\ Leads(w)
    /\ Park /\ EndRun(w)
    /\ UNCHANGED <<tasks, artifacts, reviews, histories>>

-----------------------------------------------------------------------------
(* Evaluation and the final transaction *)

(* The audit compares the rows as they are now with what the review saw.     *)
PassesAsRead(w) ==
    \A i \in 1..at[w].tasks : tasks[i] = "succeeded" /\ i \in at[w].artifacts

Passes(w) ==
    /\ Len(tasks) = at[w].tasks
    /\ \A i \in DOMAIN tasks : tasks[i] = "succeeded" /\ i \in at[w].artifacts

Evaluate(w) ==
    /\ at[w].pc = "evaluate" /\ Leads(w)
    /\ IF Passes(w)
         THEN /\ at' = [at EXCEPT ![w].pc = "final"]
              /\ UNCHANGED <<mission, lead, histories>>
         ELSE Park /\ EndRun(w)
    /\ UNCHANGED <<tasks, artifacts, reviews, histories>>

Succeed(w) ==
    /\ at[w].pc = "final" /\ Leads(w)
    /\ mission' = [mission EXCEPT !.status = "succeeded"]
    /\ EndRun(w)
    /\ UNCHANGED <<tasks, artifacts, reviews, histories>>

(* spine_resume, for a mission without open approvals or tool runs.          *)
ResumeParked ==
    /\ mission.status = "waiting" /\ ~lead.live /\ mission.resumes < MaxResumes
    /\ mission' = [status |-> "queued", resumes |-> mission.resumes + 1]
    /\ tasks' = [i \in DOMAIN tasks |-> IF tasks[i] = "blocked" THEN "queued" ELSE tasks[i]]
    /\ UNCHANGED <<artifacts, reviews, lead, at, histories>>

CompletionNext ==
    \/ LapseLead
    \/ ResumeParked
    \/ \E w \in Runners :
         \/ BeginRun(w) \/ BeatLead(w) \/ DieRunning(w) \/ LoseRun(w)
         \/ OpenMission(w) \/ RunTask(w) \/ BlockTask(w)
         \/ ReadArtifacts(w) \/ ReadReviews(w)
         \/ AcceptResult(w) \/ ContinueMission(w) \/ StopMission(w) \/ FailReview(w)
         \/ Evaluate(w) \/ Succeed(w)

CompletionSpec == CompletionInit /\ [][CompletionNext]_completion

-----------------------------------------------------------------------------
(* Properties *)

(* A mission succeeds on a stored review of exactly the tasks there were and *)
(* their artifacts, all of them done, and keeps them; if tasks are added to   *)
(* it after that review, an overtaken run has begun it (executionSpine.ts,    *)
(* the evaluation and the final transaction).                                *)
JudgedOn(n) ==
    /\ \E r \in reviews : r.snapshot = [tasks |-> n, artifacts |-> 1..n]
    /\ \A i \in 1..n : tasks[i] = "succeeded"
    /\ n < Len(tasks) => n + 1 \in late

SuccessJudged == mission.status = "succeeded" => \E n \in DOMAIN tasks : JudgedOn(n)

(* However often a mission crashes, is taken over or is resumed, no process   *)
(* continues it more than MaxRounds times, and neither do all of them         *)
(* together but for the rounds of overtaken runs: the rounds are counted in   *)
(* the stored reviews (executionSpine.ts 311, 320).                          *)
RoundsCounted ==
    /\ \A w \in Runners : rounds[w] <= MaxRounds
    /\ Cardinality(DOMAIN tasks \ late) <= 1 + MaxRounds

(* "Continuation plans are committed with their review under this mission's   *)
(* lease" (executionSpine.ts:199): a mission that succeeds has no task left,   *)
(* none was added after the review, and the review of exactly its tasks and   *)
(* artifacts says complete.                                                  *)
CompletionReviewed ==
    mission.status = "succeeded" =>
        /\ \A i \in DOMAIN tasks : tasks[i] = "succeeded"
        /\ [snapshot |-> [tasks |-> Len(tasks), artifacts |-> artifacts],
            verdict |-> "complete"] \in reviews
=============================================================================
