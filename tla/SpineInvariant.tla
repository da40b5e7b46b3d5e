---------------------------- MODULE SpineInvariant ----------------------------
(***************************************************************************)
(* The inductive invariant behind the safety properties of Spine: what a   *)
(* worker may rely on at each of its calls, although the rows it has read  *)
(* are stale and its lease may be gone.                                    *)
(***************************************************************************)
EXTENDS Spine

ToolCalls == {"assign", "prior", "receipt", "start", "effect", "finish", "candidate"}
AgentCalls == {"invoke", "model", "checkpoint"}
Trying == TryCalls \cup {"attempt", "retry", "pause"}

(* What a worker knows of its own variables at each call. *)
LocalInv ==
    \A w \in Workers :
        /\ pc[w] \in Trying => attempt[w] >= 1
        /\ pc[w] \in ToolCalls => IsTool(cur[w])
        /\ pc[w] \in AgentCalls => ~IsTool(cur[w])
        /\ pc[w] \in {"finish", "checkpoint"} => out[w] \in Results
        /\ pc[w] = "store" => out[w] \in ValidResults

TypeInv == TypeOK /\ LocalInv

(* Consuming a receipt, inserting a run and performing the action follow one *)
(* another, and at most one worker is between the last two for any row.      *)
EffectInv ==
    /\ EffectAuthorized
    /\ \A s \in Subs : effects[s] <= 1 /\ (effects[s] > 0 => run[s].status # "absent")
    /\ \A w \in Workers :
          pc[w] = "effect" => effects[cur[w]] = 0 /\ run[cur[w]].status # "absent"
    /\ \A v, w \in Workers :
          v # w /\ pc[v] = "effect" /\ pc[w] = "effect" => cur[v] # cur[w]

(* A row has an artifact exactly when it succeeded, and the artifact is valid. *)
ArtifactInv ==
    \A s \in Subs : /\ HasArtifact(s) <=> sub[s].status = "succeeded"
                    /\ HasArtifact(s) => artifact[s].content \in ValidResults

(* A worker leaves behind succeeded rows only, and so do the ledgers. *)
OrderInv ==
    /\ \A w \in Workers, s \in Subs :
          s < cur[w] \/ snap[w].subs[s].status = "succeeded" => sub[s].status = "succeeded"
    /\ StepsInOrder

(* A run has a result exactly when it succeeded; a worker about to store the *)
(* output of a tool holds that result.                                       *)
ResultInv ==
    /\ \A s \in Subs : run[s].status = "succeeded" <=> run[s].result # NoResult
    /\ \A w \in Workers :
          pc[w] \in {"candidate", "store"} /\ IsTool(cur[w])
              => run[cur[w]] = [status |-> "succeeded", result |-> out[w]]
    /\ ToolEvidence

Passed == {"record", "finalize"}

(* What was gathered has an artifact; what passed the evaluation has one tag. *)
SourceInv ==
    /\ \A w \in Workers : \A s \in snap[w].sources :
          HasArtifact(s) /\ (pc[w] \in Passed => artifact[s].tag = snap[w].tag)
    /\ \A s, t \in mission.sources : HasArtifact(s) /\ artifact[s].tag = artifact[t].tag

SpineInv ==
    TypeInv /\ EffectInv /\ ArtifactInv /\ OrderInv /\ ResultInv /\ SourceInv

-----------------------------------------------------------------------------
(* What holds besides when one worker runs the mission, at one time or after *)
(* another crash: with two, one finishes or charges what the other has read. *)
OneWorker == \A v, w \in Workers : v = w

Outside == {"idle", "acquire", "open", "release"}
Unplanned == {"tasks", "plan", "commitPlan", "park", "abort"}

(* A run goes on only while the mission is open; what passed the evaluation  *)
(* is the whole plan; sources are those of a success.                        *)
CompleteInv ==
    /\ \A w \in Workers :
        /\ pc[w] \notin Outside => mission.status # "succeeded"
        /\ pc[w] \notin Outside \cup Unplanned => plans > 0
        /\ pc[w] \in Passed => \A s \in Subs : Exists(s) => s \in snap[w].sources
    /\ mission.sources # {} => mission.status = "succeeded"
    /\ SuccessIsComplete

(* The rows ahead were not tried since they were read; the loop's counter is *)
(* not behind the row's, and one ahead of it between two attempts.           *)
Ahead(w, s) == TaskOf[s] = TaskAt(w) => sub[s].attempts <= snap[w].subs[s].attempts

Spending == Trying \ {"attempt"}

AttemptInv ==
    /\ \A w \in Workers :
        /\ pc[w] \in {"sub", "recover"} => \A s \in Subs : s >= cur[w] => Ahead(w, s)
        /\ pc[w] \in Trying \cup {"store"} => \A s \in Subs : s > cur[w] => Ahead(w, s)
        /\ pc[w] = "attempt" => sub[cur[w]].attempts < attempt[w]
        /\ pc[w] \in Spending => /\ sub[cur[w]].attempts <= attempt[w]
                                 /\ attempt[w] <= MaxAttempts
    /\ AttemptsBounded
=============================================================================
