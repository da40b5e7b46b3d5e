----------------------------- MODULE SourceRepair -----------------------------
(***************************************************************************)
(* The source repair pipeline: incidents of all server instances become    *)
(* repair missions under quotas, the controller turns a mission into one    *)
(* candidate commit, publishes it to repair/candidate, waits for the        *)
(* isolated runner's receipt of exactly that commit, fast-forwards main and *)
(* waits for production to serve it.  Every interrupted run is left to the   *)
(* recovery, which only observes.  People release to main at any time.      *)
(*                                                                          *)
(* A commit is named by the repair or the release that made it; its tree is *)
(* the set of changes its content has, its ancestry the commits a           *)
(* fast-forward to it may start from.                                       *)
(***************************************************************************)
EXTENDS Naturals, FiniteSets

CONSTANTS
    Repairs,        \* repair missions, one per fingerprint or per request
    Releases,       \* commits people push to main
    Root,           \* what main is at first
    None,           \* no ref, no deployment, no commit read
    HourLimit, DayLimit,    \* 2 and 6 in the code
    ScanLimit               \* waiting repairs the recovery looks at; 4 in the code

ASSUME RepairAssumption ==
    /\ Repairs \cap Releases = {} /\ Root \notin Repairs \cup Releases
    /\ IsFiniteSet(Repairs) /\ HourLimit \in Nat /\ DayLimit \in Nat /\ ScanLimit \in Nat
    /\ None \notin Repairs \cup Releases \cup {Root}

VARIABLES
    mission,    \* status of each repair mission; completed: its tool run is finished
    age,        \* how long ago an automatic mission was created
    lease,      \* missions whose running controller still owns the lease
    step,       \* where the controller of each mission is
    base, previous,         \* what it read from main and from repair/candidate
    main, branch,           \* the two refs
    tree, ancestry,         \* of every commit
    runner, live,           \* what the runner and production serve
    verified, promoted, served  \* history: what the runner, main and production ever had

refs == <<main, branch>>
graph == <<tree, ancestry>>
services == <<runner, live, verified, served>>
controllers == <<step, base, previous>>
missions == <<mission, age, lease>>
vars == <<missions, controllers, refs, graph, services, promoted>>

Commits == {Root} \cup Repairs \cup Releases
Steps == {"off", "read", "checked", "candidate", "published", "proven",
          "rechecked", "promoted"}
Statuses == {"absent", "queued", "running", "waiting", "completed"}

TypeOK ==
    /\ mission \in [Repairs -> Statuses]
    /\ age \in [Repairs -> {"none", "hour", "day", "old"}]
    /\ lease \subseteq Repairs
    /\ step \in [Repairs -> Steps]
    /\ base \in [Repairs -> Commits \cup {None}]
    /\ previous \in [Repairs -> Commits \cup {None}]
    /\ main \in Commits /\ branch \in Commits \cup {None}
    /\ tree \in [Commits -> SUBSET (Repairs \cup Releases)]
    /\ ancestry \in [Commits -> SUBSET Commits]
    /\ runner \in Commits \cup {None} /\ live \in Commits
    /\ verified \subseteq Commits /\ promoted \subseteq Commits
    /\ served \subseteq Commits

Init ==
    /\ mission = [m \in Repairs |-> "absent"]
    /\ age = [m \in Repairs |-> "none"]
    /\ lease = {}
    /\ step = [m \in Repairs |-> "off"]
    /\ base = [m \in Repairs |-> None]
    /\ previous = [m \in Repairs |-> None]
    /\ main = Root /\ branch = None
    /\ tree = [c \in Commits |-> {}]
    /\ ancestry = [c \in Commits |-> IF c = Root THEN {Root} ELSE {}]
    /\ runner = None /\ live = Root
    /\ verified = {} /\ promoted = {Root} /\ served = {Root}

-------------------------------------------------------------------------------
(* Missions. *)

Younger(ages) == Cardinality({m \in Repairs : age[m] \in ages})
QuotaUnlessOlder == Younger({"hour"}) < HourLimit \/ Younger({"hour", "day"}) < DayLimit
QuotaLeft == Younger({"hour"}) < HourLimit /\ Younger({"hour", "day"}) < DayLimit

(* enqueue_source_repair, whole under its advisory lock: a fingerprint known *)
(* already, whatever became of it, returns its mission and changes nothing.  *)
Enqueue(m) ==
    /\ mission[m] = "absent" /\ QuotaLeft
    /\ mission' = [mission EXCEPT ![m] = "queued"]
    /\ age' = [age EXCEPT ![m] = "hour"]
    /\ UNCHANGED <<lease, controllers, refs, graph, services, promoted>>

(* An administrator submits a repair: no fingerprint and no quota. *)
Submit(m) ==
    /\ mission[m] = "absent"
    /\ mission' = [mission EXCEPT ![m] = "queued"]
    /\ UNCHANGED <<age, lease, controllers, refs, graph, services, promoted>>

Ages ==
    \E m \in Repairs :
      /\ age[m] \in {"hour", "day"}
      /\ age' = [age EXCEPT ![m] = IF @ = "hour" THEN "day" ELSE "old"]
      /\ UNCHANGED <<mission, lease, controllers, refs, graph, services, promoted>>

-------------------------------------------------------------------------------
(* The controller. *)

(* Authorized: the lease is renewed and the mission is not stopped. *)
Authorized(m) == m \in lease

Goes(m, from, to) == step[m] = from /\ step' = [step EXCEPT ![m] = to]

(* The first attempt of the tool: its run is recorded, main is read, the    *)
(* model edits the sources it has at that commit.                           *)
Start(m) ==
    /\ mission[m] = "queued"
    /\ mission' = [mission EXCEPT ![m] = "running"]
    /\ lease' = lease \cup {m}
    /\ Goes(m, "off", "read")
    /\ base' = [base EXCEPT ![m] = main]
    /\ UNCHANGED <<age, previous, refs, graph, services, promoted>>

CheckBase(m) ==
    /\ Authorized(m) /\ main = base[m]
    /\ Goes(m, "read", "checked")
    /\ UNCHANGED <<missions, base, previous, refs, graph, services, promoted>>

(* The candidate has the tree of the base with the repair, and two parents. *)
Create(m) ==
    /\ Goes(m, "checked", "candidate")
    /\ previous' = [previous EXCEPT ![m] = branch]
    /\ tree' = [tree EXCEPT ![m] = tree[base[m]] \cup {m}]
    /\ ancestry' = [ancestry EXCEPT ![m] =
            {m} \cup ancestry[base[m]] \cup (IF branch = None THEN {} ELSE ancestry[branch])]
    /\ UNCHANGED <<missions, base, refs, services, promoted>>

(* PATCH of a ref without force, or its creation. *)
FastForwards(ref, commit) == ref = None \/ ref \in ancestry[commit]

Publish(m) ==
    /\ Authorized(m)
    /\ IF previous[m] = None THEN branch = None
                             ELSE FastForwards(branch, m)
    /\ Goes(m, "candidate", "published")
    /\ branch' = m
    /\ UNCHANGED <<missions, base, previous, main, graph, services, promoted>>

(* Only a receipt of the exact candidate counts. *)
ReceiptOfAny(m) == runner # None
ReceiptOf(m) == runner = m

Prove(m) ==
    /\ Authorized(m) /\ ReceiptOf(m)
    /\ Goes(m, "published", "proven")
    /\ UNCHANGED <<missions, base, previous, refs, graph, services, promoted>>

BaseUnchecked(m) == TRUE
BaseUnchanged(m) == main = base[m]

Recheck(m) ==
    /\ Authorized(m) /\ BaseUnchanged(m)
    /\ Goes(m, "proven", "rechecked")
    /\ UNCHANGED <<missions, base, previous, refs, graph, services, promoted>>

Promote(m) ==
    /\ Goes(m, "rechecked", "promoted")
    /\ FastForwards(main, m)
    /\ main' = m /\ promoted' = promoted \cup {m}
    /\ UNCHANGED <<missions, base, previous, branch, graph, services>>

Off(m) ==
    /\ step' = [step EXCEPT ![m] = "off"]
    /\ base' = [base EXCEPT ![m] = None]
    /\ previous' = [previous EXCEPT ![m] = None]

(* Production serves the candidate: the run is finished, unless the lease is *)
(* lost or the recovery has finished it.                                    *)
FinishSucceeded(m) ==
    /\ step[m] = "promoted" /\ Authorized(m) /\ live = m
    /\ mission[m] # "completed"
    /\ Off(m)
    /\ mission' = [mission EXCEPT ![m] = "succeeded"]
    /\ lease' = lease \ {m}
    /\ UNCHANGED <<age, refs, graph, services, promoted>>

Finish(m) ==
    /\ step[m] = "promoted" /\ Authorized(m) /\ live = m
    /\ mission[m] # "completed"
    /\ Off(m)
    /\ mission' = [mission EXCEPT ![m] = "completed"]
    /\ lease' = lease \ {m}
    /\ UNCHANGED <<age, refs, graph, services, promoted>>

(* Any error, refusal, poll that times out, deadline or lost lease ends the *)
(* controller; the answer of the write before it may have been lost as well. *)
Stop(m) ==
    /\ step[m] # "off"
    /\ Off(m)
    /\ lease' = lease \ {m}
    /\ mission' = IF m \in lease /\ mission[m] # "completed"
                    THEN [mission EXCEPT ![m] = "waiting"] ELSE mission
    /\ UNCHANGED <<age, refs, graph, services, promoted>>

(* The lease runs out under a controller that goes on until it asks; asking  *)
(* for it, by the heartbeat or to be authorized, takes it back if it is free, *)
(* whoever had it in between and whatever that one did to the mission.       *)
LoseLease(m) ==
    /\ lease' = lease \ {m} /\ m \in lease
    /\ UNCHANGED <<mission, age, controllers, refs, graph, services, promoted>>

RegainLease(m) ==
    /\ step[m] # "off" /\ m \notin lease
    /\ lease' = lease \cup {m}
    /\ UNCHANGED <<mission, age, controllers, refs, graph, services, promoted>>

-------------------------------------------------------------------------------
(* Recovery. *)

ObservedAtRunner(m) == tree[m] # {} /\ main = m /\ runner = m

(* The saved candidate, main, the receipt and production all agree. *)
Observed(m) ==
    /\ tree[m] # {}
    /\ main = m /\ runner = m /\ live = m

(* A worker that takes over a mission finds its run started: it finishes it *)
(* from what it observes, or leaves it to the operator.                     *)
TakeOver(m) ==
    /\ mission[m] = "running" /\ m \notin lease
    /\ mission' = [mission EXCEPT ![m] = IF Observed(m) THEN "completed" ELSE "waiting"]
    /\ UNCHANGED <<age, lease, controllers, refs, graph, services, promoted>>

(* The worker's tick first reads ScanLimit of the waiting repairs, or all of *)
(* them if there are fewer, in no order: a query without one.               *)
Waiting == {m \in Repairs : mission[m] = "waiting"}
AllScanned == Cardinality(Waiting) <= ScanLimit
Scans == IF AllScanned THEN {Waiting}
                       ELSE {batch \in SUBSET Waiting : Cardinality(batch) = ScanLimit}

(* Mutant: the query asks for running missions.                            *)
RecoverRunning(m) ==
    /\ mission[m] = "running" /\ m \notin lease /\ Observed(m)
    /\ mission' = [mission EXCEPT ![m] = "completed"]
    /\ UNCHANGED <<age, lease, controllers, refs, graph, services, promoted>>

(* Main is at one commit, so a scan completes one repair at most.           *)
RecoverWaiting(m) ==
    /\ \E batch \in Scans : m \in batch
    /\ m \notin lease /\ Observed(m)
    /\ mission' = [mission EXCEPT ![m] = "completed"]
    /\ UNCHANGED <<age, lease, controllers, refs, graph, services, promoted>>

-------------------------------------------------------------------------------
(* The outside: people, the runner, production. *)

Release(r) ==
    /\ tree[r] = {}
    /\ main' = r /\ promoted' = promoted \cup {r}
    /\ tree' = [tree EXCEPT ![r] = tree[main] \cup {r}]
    /\ ancestry' = [ancestry EXCEPT ![r] = ancestry[main] \cup {r}]
    /\ UNCHANGED <<missions, controllers, branch, services>>

(* The runner builds the branch; a build that fails leaves the old receipt. *)
Verify ==
    /\ branch # None /\ runner # branch
    /\ runner' = branch /\ verified' = verified \cup {branch}
    /\ UNCHANGED <<missions, controllers, refs, graph, live, served, promoted>>

(* Production serves a new main.  The old processes and the controllers in *)
(* them are stopped some time later: a controller is killed by LoseLease,  *)
(* which its lease does in time, and Stop.                                  *)
Deploy ==
    /\ live # main
    /\ live' = main /\ served' = served \cup {main}
    /\ UNCHANGED <<missions, controllers, refs, graph, runner, verified, promoted>>

-------------------------------------------------------------------------------
Next ==
    \/ \E m \in Repairs :
          \/ Enqueue(m) \/ Submit(m) \/ Start(m) \/ CheckBase(m) \/ Create(m)
          \/ Publish(m) \/ Prove(m) \/ Recheck(m) \/ Promote(m) \/ Finish(m)
          \/ Stop(m) \/ LoseLease(m) \/ RegainLease(m) \/ TakeOver(m) \/ RecoverWaiting(m)
    \/ \E r \in Releases : Release(r)
    \/ Ages \/ Verify \/ Deploy

Spec == Init /\ [][Next]_vars

(* The worker ticks every five seconds and takes over what is not leased, one *)
(* mission after the other.  Its scan promises a waiting repair something     *)
(* only while all that wait fit into one.                                   *)
Fairness ==
    /\ \A m \in Repairs : WF_vars(TakeOver(m))
    /\ WF_vars(AllScanned /\ \E m \in Repairs : RecoverWaiting(m))
FairSpec == Spec /\ Fairness

-------------------------------------------------------------------------------
(* Within the hour and the day there are never more automatic repairs than *)
(* allowed, however many instances report incidents at once                *)
(* (source_repair_incidents.sql:10-14).                                    *)
QuotasKept ==
    /\ Younger({"hour"}) <= HourLimit
    /\ Younger({"hour", "day"}) <= DayLimit

(* Main only ever moves to a release or to a candidate the isolated runner *)
(* has verified, however late, restarted or robbed of its lease the        *)
(* controller is (sourceRepair.ts:87-98).                                 *)
OnlyVerifiedPromoted == promoted \ ({Root} \cup Releases) \subseteq verified

(* No repair takes a release of people off main: the content of main keeps *)
(* every release ever pushed to it (sourceRepair.ts:95-98).              *)
ReleasesKept == promoted \cap Releases \subseteq tree[main]

(* A repair counts as completed only if production has served its commit,  *)
(* by whatever of the three ways it was completed and however many restarts *)
(* came between (repairRecovery.ts:5-24, sourceRepair.ts:100-105).          *)
CompletedWasServed == \A m \in Repairs : mission[m] = "completed" => m \in served

(* A repair whose effect stays visible - main, runner and production keep   *)
(* serving its commit - does not wait for ever, once no more repairs wait    *)
(* than one scan reads; with more, others may take its place in every scan   *)
(* (repairRecovery.ts:28-45, plannerRouter.ts:119).                         *)
EffectsObserved ==
    \A m \in Repairs :
        <>[](Observed(m) /\ step[m] = "off" /\ AllScanned) => <>(mission[m] = "completed")

(* "Fast-forward only: a competing release makes GitHub reject this update" *)
(* (sourceRepair.ts:97): what was promoted stays in the content of main.    *)
PromotionsKept == promoted \ {Root} \subseteq tree[main]

===============================================================================
