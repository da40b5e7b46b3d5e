----------------------------- MODULE HumanReview -----------------------------
(***************************************************************************)
(* The human review queue and what waits in it: sandbox code, file writes    *)
(* and preview rebuilds each propose a record, a person decides it, and the   *)
(* proposer comes back with the approval to run.  Queue, parked actions and  *)
(* consumed approvals live in the process; a restart loses them together.    *)
(***************************************************************************)
EXTENDS Naturals, FiniteSets

CONSTANTS
    Reviews,        \* hitl_ids that may be handed out
    Codes,          \* programs to run, contents to write
    Paths,          \* files of the repository a write may name
    NoFile,
    Slots           \* sandbox executions at once; 2 in the code

ASSUME ReviewAssumption == Slots \in Nat

(* What may be proposed, and what is carried out.                          *)
Code(code) == [kind |-> "sandbox", path |-> NoFile, content |-> code]
Write(path, content) == [kind |-> "file_write", path |-> path, content |-> content]
Build == [kind |-> "preview_rebuild", path |-> NoFile, content |-> NoFile]

Proposals == {Code(code) : code \in Codes} \cup {Build}
              \cup {Write(path, content) : path \in Paths, content \in Codes}

VARIABLES
    record,     \* "none" or the status of each record of this process
    proposal,   \* what each record was made for
    parked,     \* pendingActions
    consumed,   \* approvals the sandbox has used
    running,    \* reviews whose code runs in a worker
    active,     \* the sandbox's counter
    verdict,    \* history: what people decided
    runs,       \* history: how often each approval was acted upon
    done        \* history: what was done on each approval

review == <<record, proposal, parked, consumed, running, active, verdict, runs, done>>

IsSandbox(r) == proposal[r].kind = "sandbox"

ReviewInit ==
    /\ record = [r \in Reviews |-> "none"]
    /\ proposal \in [Reviews -> Proposals]
    /\ parked = {} /\ consumed = {} /\ running = {} /\ active = 0
    /\ verdict = [r \in Reviews |-> "none"]
    /\ runs = [r \in Reviews |-> 0]
    /\ done = [r \in Reviews |-> {}]

(* trigger: the record is in the queue before it is written to the file; if *)
(* that fails, the adapter parks nothing.                                   *)
Propose(r) ==
    /\ record[r] = "none"
    /\ record' = [record EXCEPT ![r] = "pending"]
    /\ \/ parked' = parked
       \/ ~IsSandbox(r) /\ parked' = parked \cup {r}
    /\ UNCHANGED <<proposal, consumed, running, active, verdict, runs, done>>

(* Mutant: a decided record may be decided again.                          *)
UndecidedEver(r) == record[r] \notin {"none", "gone"}

Undecided(r) == record[r] = "pending"

(* decide: by either router; only a pending record takes a decision.       *)
DecideReview(r, decision) ==
    /\ Undecided(r)
    /\ record' = [record EXCEPT ![r] = decision]
    /\ verdict' = [verdict EXCEPT ![r] = decision]
    /\ UNCHANGED <<proposal, parked, consumed, running, active, runs, done>>

Acts(r, deed) ==
    /\ runs' = [runs EXCEPT ![r] = @ + 1]
    /\ done' = [done EXCEPT ![r] = @ \cup {deed}]

(* Both routes test the same: any parked action with an approved record, of *)
(* whatever kind.  It is removed before anything is done.                  *)
TakesParked(r) ==
    /\ r \in parked /\ record[r] = "approved"
    /\ parked' = parked \ {r}
    /\ UNCHANGED <<record, proposal, consumed, running, active, verdict>>

(* files/write: the parked content, if there is any, to the path of the    *)
(* request that brings the approval.                                       *)
Written(r, content) ==
    IF proposal[r].kind = "file_write" THEN proposal[r].content ELSE content

WriteFile(r, path, content) ==
    TakesParked(r) /\ Acts(r, Write(path, Written(r, content)))

Rebuild(r) == TakesParked(r) /\ Acts(r, Build)

(* The write throws: the approval is spent, and nothing is written.        *)
FailWrite(r) == TakesParked(r) /\ UNCHANGED <<runs, done>>

(* runCode's test of the approval it is given.                             *)
Usable(r, code) ==
    /\ proposal[r] = Code(code) /\ record[r] = "approved"
    /\ r \notin consumed

(* The tests, the mark and the count happen without an await.              *)
TakesSlot(r, code) ==
    /\ Usable(r, code)
    /\ active < Slots
    /\ consumed' = consumed \cup {r}
    /\ active' = active + 1
    /\ UNCHANGED <<record, proposal, parked, verdict>>

RunCode(r, code) ==
    /\ TakesSlot(r, code)
    /\ running' = running \cup {r}
    /\ Acts(r, Code(code))

(* The audit line cannot be appended: nothing runs, and the slot is not    *)
(* given back, since the try block begins after it.                        *)
FailStart(r, code) ==
    /\ TakesSlot(r, code)
    /\ UNCHANGED <<running, runs, done>>

(* A message, an error, an exit or three seconds, whichever is first.      *)
FinishCode(r) ==
    /\ r \in running
    /\ running' = running \ {r}
    /\ active' = active - 1
    /\ UNCHANGED <<record, proposal, parked, consumed, verdict, runs, done>>

(* The new process starts with an empty queue and hands out new ids.       *)
RestartReview ==
    /\ record' = [r \in Reviews |-> IF record[r] = "none" THEN "none" ELSE "gone"]
    /\ parked' = {} /\ consumed' = {} /\ running' = {} /\ active' = 0
    /\ UNCHANGED <<proposal, verdict, runs, done>>

ReviewNext ==
    \/ \E r \in Reviews :
        \/ Propose(r)
        \/ \E decision \in {"approved", "rejected"} : DecideReview(r, decision)
        \/ \E path \in Paths, content \in Codes : WriteFile(r, path, content)
        \/ Rebuild(r)
        \/ FailWrite(r)
        \/ \E code \in Codes : RunCode(r, code) \/ FailStart(r, code)
        \/ FinishCode(r)
    \/ RestartReview

(* Whether a deed is within what was proposed, as far as the code sees to  *)
(* it: sandbox code exactly; of a file the approved content, wherever the   *)
(* request puts it; on the approval of a rebuild, a rebuild or any write.   *)
Within(deed, proposed) ==
    CASE proposed.kind = "sandbox" -> deed = proposed
      [] proposed.kind = "file_write" ->
             deed = Build \/ \E path \in Paths : deed = Write(path, proposed.content)
      [] OTHER -> deed.kind # "sandbox"

(* Nothing governed is done without a person's approval, and each approval  *)
(* is good for one deed at most, across concurrent calls, late decisions,    *)
(* failed starts and restarts.  The sandbox runs only the code that was      *)
(* proposed, a parked content is not replaced by another, and there are     *)
(* never more executions than slots taken, nor slots than there are.        *)
(* (hitlManager, runCode, files/write, preview/rebuild.)                    *)
ReviewedOnce ==
    /\ \A r \in Reviews :
        /\ runs[r] <= 1
        /\ done[r] # {} => verdict[r] = "approved"
        /\ \A deed \in done[r] : Within(deed, proposal[r])
    /\ Cardinality(running) <= active /\ active <= Slots
==============================================================================
