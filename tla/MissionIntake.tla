---------------------------- MODULE MissionIntake ----------------------------
(***************************************************************************)
(* Submitting a mission under an idempotency key.  The key names the row;   *)
(* several requests with the same key run at once, each leases the mission, *)
(* inserts its row, releases, reads what is stored and compares.  Workers    *)
(* lease the mission too, and a resume changes the token limit of a mission  *)
(* that waits.  Database answers may be lost after the call took effect and  *)
(* the server may restart at any await.                                      *)
(***************************************************************************)
CONSTANTS
    Submissions,        \* requests of one tenant with one key
    ObjectiveOf(_),     \* what each of them asks for
    TokensOf(_),        \* and under which limit
    Limits,             \* max_tokens an administrator may resume with
    Nobody              \* no lease, no mission

MissionRows ==
    [objective : {ObjectiveOf(s) : s \in Submissions},
     tokens : Limits \cup {TokensOf(s) : s \in Submissions},
     status : {"queued", "waiting", "completed"}]

(* The holders of a lease are told apart, and a row is a row.              *)
ASSUME IntakeAssumption ==
    /\ Submissions \cap {"worker", "stale"} = {}
    /\ Nobody \notin Submissions \cup MissionRows \cup {"worker", "stale"}

VARIABLES
    request,    \* where the handler of each submission is
    row,        \* the mission row, Nobody before the insert
    tenure,     \* who has an unexpired lease of the mission
    accepted    \* history: submissions answered 202

intake == <<request, row, tenure, accepted>>

IntakeInit ==
    /\ request = [s \in Submissions |-> "sent"]
    /\ row = Nobody
    /\ tenure = Nobody
    /\ accepted = {}

GoTo(s, step) == request' = [request EXCEPT ![s] = step]

(* spine_lease for a new owner: taken when nobody holds it.                *)
LeaseMission(s) ==
    /\ request[s] = "sent"
    /\ IF tenure = Nobody
       THEN tenure' = s /\ GoTo(s, "leased")
       ELSE UNCHANGED tenure /\ GoTo(s, "reading")
    /\ UNCHANGED <<row, accepted>>

(* The call failed; the lease may have been taken and stays to expire.     *)
LeaseMissionLost(s) ==
    /\ request[s] = "sent"
    /\ tenure' \in IF tenure = Nobody THEN {Nobody, "stale"} ELSE {tenure}
    /\ GoTo(s, "unavailable")
    /\ UNCHANGED <<row, accepted>>

Requested(s) ==
    [objective |-> ObjectiveOf(s), tokens |-> TokensOf(s), status |-> "queued"]

(* Mutant: the insert replaces a row that exists.                          *)
StoredReplacing(s) == Requested(s)

(* insert ... on conflict do nothing: a row that exists is kept.           *)
Stored(s) == IF row = Nobody THEN Requested(s) ELSE row

InsertMission(s) ==
    /\ request[s] = "leased"
    /\ tenure = s
    /\ row' = Stored(s)
    /\ \E step \in {"inserted", "failing"} : GoTo(s, step)  \* or its answer is lost
    /\ UNCHANGED <<tenure, accepted>>

(* LEASE_LOST, or no answer and no effect.                                 *)
InsertRefused(s) ==
    /\ request[s] = "leased"
    /\ GoTo(s, "failing")
    /\ UNCHANGED <<row, tenure, accepted>>

(* finally: the lease is given back.  An error this call reports is not     *)
(* looked at; if it throws, the answer is 503.                             *)
GiveBack(s) ==
    /\ request[s] \in {"inserted", "failing"}
    /\ \E released \in BOOLEAN :
        tenure' = IF tenure # s THEN tenure ELSE IF released THEN Nobody ELSE "stale"
    /\ IF request[s] = "inserted"
       THEN \E step \in {"reading", "unavailable"} : GoTo(s, step)
       ELSE GoTo(s, "unavailable")
    /\ UNCHANGED <<row, accepted>>

SameMission(s) == row.objective = ObjectiveOf(s) /\ row.tokens = TokensOf(s)

AnswerAccepted(s) ==
    /\ request[s] = "reading"
    /\ row # Nobody /\ SameMission(s)
    /\ GoTo(s, "accepted")
    /\ accepted' = accepted \cup {s}
    /\ UNCHANGED <<row, tenure>>

AnswerConflict(s) ==
    /\ request[s] = "reading"
    /\ row # Nobody /\ ~SameMission(s)
    /\ GoTo(s, "conflict")
    /\ UNCHANGED <<row, tenure, accepted>>

(* No row yet (another submission holds the lease and has not inserted),   *)
(* or the read failed.                                                     *)
AnswerUnavailable(s) ==
    /\ request[s] = "reading"
    /\ GoTo(s, "unavailable")
    /\ UNCHANGED <<row, tenure, accepted>>

(* The client sends the same request again; its handler has a new owner.   *)
Resubmit(s) ==
    /\ request[s] \in {"accepted", "conflict", "unavailable"}
    /\ GoTo(s, "sent")
    /\ UNCHANGED <<row, tenure, accepted>>

(* A worker leases the mission, moves it on and lets go; a lease nobody    *)
(* renews ends.                                                            *)
WorkerLeases ==
    /\ tenure = Nobody /\ row # Nobody /\ row.status = "queued"
    /\ tenure' = "worker"
    /\ UNCHANGED <<request, row, accepted>>

WorkerMovesOn ==
    /\ tenure = "worker"
    /\ \E status \in {"waiting", "completed"} : row' = [row EXCEPT !.status = status]
    /\ tenure' = Nobody
    /\ UNCHANGED <<request, accepted>>

LeaseRunsOut ==
    /\ tenure # Nobody
    /\ tenure' = Nobody
    /\ UNCHANGED <<request, row, accepted>>

ResumeMission ==
    /\ tenure = Nobody /\ row # Nobody /\ row.status = "waiting"
    /\ \E limit \in Limits :
        row' = [row EXCEPT !.status = "queued", !.tokens = limit]
    /\ UNCHANGED <<request, tenure, accepted>>

(* Handlers under way are gone and their clients get no answer.            *)
Restart ==
    /\ request' = [s \in Submissions |->
                    IF request[s] \in {"accepted", "conflict"} THEN request[s]
                                                               ELSE "unavailable"]
    /\ tenure' = IF tenure = Nobody THEN Nobody ELSE "stale"
    /\ UNCHANGED <<row, accepted>>

IntakeNext ==
    \/ \E s \in Submissions :
        \/ LeaseMission(s) \/ LeaseMissionLost(s)
        \/ InsertMission(s) \/ InsertRefused(s) \/ GiveBack(s)
        \/ AnswerAccepted(s) \/ AnswerConflict(s) \/ AnswerUnavailable(s)
        \/ Resubmit(s)
    \/ WorkerLeases \/ WorkerMovesOn \/ LeaseRunsOut
    \/ ResumeMission
    \/ Restart

(* A submission answered 202 has a mission, and that mission keeps the      *)
(* objective it was accepted with: neither a later submission of the key,   *)
(* a handler whose lease ended before its insert, a worker nor a resume     *)
(* replaces it, so two accepted submissions of a key asked for the same.    *)
(* (submitMission, spine_commit insert.)                                    *)
AcceptedUnchanged ==
    \A s \in accepted : row # Nobody /\ row.objective = ObjectiveOf(s)
==============================================================================
