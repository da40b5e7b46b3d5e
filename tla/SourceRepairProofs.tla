-------------------------- MODULE SourceRepairProofs --------------------------
(* Proofs about the source repair pipeline, for any repairs, releases and limits. *)
EXTENDS SourceRepair, FiniteSetTheorems, TLAPS

(* A commit exists. *)
Made(c) == c = Root \/ tree[c] # {}

(* A repair is created once: who has not created it yet has no tree of it. *)
StepsInv ==
    \A m \in Repairs :
        /\ mission[m] \in {"absent", "queued"} => step[m] = "off" /\ tree[m] = {}
        /\ step[m] \in {"read", "checked"} => tree[m] = {}
        /\ step[m] \notin {"off", "read", "checked"} => tree[m] # {}

(* The commits are a graph: ancestors exist, and theirs are one's own. *)
GraphInv ==
    /\ \A c \in Commits : \A a \in ancestry[c] : Made(a) /\ ancestry[a] \subseteq ancestry[c]
    /\ \A c \in promoted : Made(c)
    /\ main \in promoted

(* What a controller believes between two calls: its base was on main, its  *)
(* candidate has the content of the base, a proven one was verified, and    *)
(* after the second check of main a release it lacks is not its ancestor.   *)
BeliefInv ==
    \A m \in Repairs :
        /\ step[m] # "off" => base[m] \in promoted
        /\ step[m] \notin {"off", "read", "checked"} => tree[base[m]] \subseteq tree[m]
        /\ step[m] \in {"proven", "rechecked"} => m \in verified
        /\ step[m] = "rechecked" => promoted \cap Releases \cap ancestry[m] \subseteq tree[m]

(* The services only have what was given to them. *)
ServicesInv ==
    /\ runner # None => runner \in verified
    /\ live \in served

(* Every release is an ancestor of main. *)
ReleasesBelow == promoted \cap Releases \subseteq ancestry[main]

RepairInv ==
    /\ TypeOK
    /\ QuotasKept
    /\ StepsInv
    /\ GraphInv
    /\ BeliefInv
    /\ ServicesInv
    /\ ReleasesBelow
    /\ ReleasesKept
    /\ OnlyVerifiedPromoted
    /\ CompletedWasServed

-------------------------------------------------------------------------------
(* Types. *)

LEMMA TypeInit == Init => TypeOK
  BY DEF Init, TypeOK, Statuses, Steps, Commits

(* Every step keeps the types of the variables; a candidate is only created *)
(* of a base that was read.                                                 *)
LEMMA TypeStep ==
    ASSUME TypeOK, BeliefInv, [Next]_vars
    PROVE  TypeOK'
<1> USE DEF TypeOK, missions, controllers, refs, graph, services, Goes, Off,
            Statuses, Steps, Commits
<1>1. ASSUME NEW m \in Repairs, Enqueue(m) \/ Submit(m)
      PROVE  TypeOK'
  BY <1>1 DEF Enqueue, Submit
<1>2. ASSUME NEW m \in Repairs, Start(m)
      PROVE  TypeOK'
  BY <1>2 DEF Start
<1>3. ASSUME NEW m \in Repairs, CheckBase(m) \/ Prove(m) \/ Recheck(m)
      PROVE  TypeOK'
  BY <1>3 DEF CheckBase, Prove, Recheck
<1>4. ASSUME NEW m \in Repairs, Create(m)
      PROVE  TypeOK'
  <2>1. base[m] \in Commits
    BY <1>4 DEF Create, BeliefInv
  <2>2. tree[base[m]] \cup {m} \subseteq Repairs \cup Releases
    BY <2>1
  <2>3. {m} \cup ancestry[base[m]] \cup (IF branch = None THEN {} ELSE ancestry[branch])
            \subseteq Commits
    BY <2>1
  <2>4. /\ tree' \in [Commits -> SUBSET (Repairs \cup Releases)]
        /\ ancestry' \in [Commits -> SUBSET Commits]
    BY <1>4, <2>2, <2>3 DEF Create
  <2>5. QED
    BY <1>4, <2>4 DEF Create
<1>5. ASSUME NEW m \in Repairs, Publish(m) \/ Promote(m)
      PROVE  TypeOK'
  BY <1>5 DEF Publish, Promote
<1>6. ASSUME NEW m \in Repairs, Finish(m) \/ Stop(m)
      PROVE  TypeOK'
  BY <1>6 DEF Finish, Stop
<1>7. ASSUME NEW m \in Repairs, LoseLease(m) \/ RegainLease(m)
      PROVE  TypeOK'
  BY <1>7 DEF LoseLease, RegainLease
<1>8. ASSUME NEW m \in Repairs, TakeOver(m) \/ RecoverWaiting(m)
      PROVE  TypeOK'
  BY <1>8 DEF TakeOver, RecoverWaiting
<1>9. ASSUME NEW r \in Releases, Release(r)
      PROVE  TypeOK'
  BY <1>9 DEF Release
<1>10. CASE Ages
  BY <1>10 DEF Ages
<1>11. CASE Verify \/ Deploy
  BY <1>11 DEF Verify, Deploy
<1>12. CASE UNCHANGED vars
  BY <1>12 DEF vars
<1>13. QED
  BY <1>1, <1>2, <1>3, <1>4, <1>5, <1>6, <1>7, <1>8, <1>9, <1>10, <1>11, <1>12 DEF Next

-------------------------------------------------------------------------------
(* Quotas. *)

LEMMA YoungerCounts ==
    ASSUME NEW ages
    PROVE  /\ IsFiniteSet({m \in Repairs : age[m] \in ages})
           /\ Younger(ages) \in Nat
           /\ Younger(ages)' \in Nat
<1>1. /\ IsFiniteSet({m \in Repairs : age[m] \in ages})
      /\ IsFiniteSet({m \in Repairs : age'[m] \in ages})
  BY RepairAssumption, FS_Subset
<1>2. QED
  BY <1>1, FS_CardinalityType DEF Younger

(* A step that makes nothing younger makes no more of the young. *)
LEMMA FewerYoung ==
    ASSUME NEW ages, \A m \in Repairs : age'[m] \in ages => age[m] \in ages
    PROVE  Younger(ages)' <= Younger(ages)
<1>1. {m \in Repairs : age'[m] \in ages} \in SUBSET {m \in Repairs : age[m] \in ages}
  OBVIOUS
<1>2. QED
  BY <1>1, YoungerCounts, FS_Subset DEF Younger

(* Enqueueing makes one automatic mission more. *)
LEMMA OneMoreYoung ==
    ASSUME TypeOK, NEW ages, NEW m \in Repairs, Enqueue(m)
    PROVE  Younger(ages)' <= Younger(ages) + 1
<1> DEFINE Young == {n \in Repairs : age[n] \in ages}
<1>1. {n \in Repairs : age'[n] \in ages} \in SUBSET (Young \cup {m})
  BY DEF Enqueue, TypeOK
<1>2. IsFiniteSet(Young) /\ Cardinality(Young) \in Nat
  BY YoungerCounts, FS_CardinalityType
<1>3. /\ IsFiniteSet(Young \cup {m})
      /\ Cardinality(Young \cup {m}) <= Cardinality(Young) + 1
  BY <1>2, FS_AddElement
<1>4. Cardinality({n \in Repairs : age'[n] \in ages}) <= Cardinality(Young \cup {m})
  BY <1>1, <1>3, FS_Subset
<1>5. Cardinality(Young \cup {m}) \in Nat /\ Younger(ages)' \in Nat
  BY <1>3, YoungerCounts, FS_CardinalityType
<1>6. QED
  BY <1>2, <1>3, <1>4, <1>5 DEF Younger

LEMMA QuotasInit == Init => QuotasKept
<1> SUFFICES ASSUME Init PROVE QuotasKept
  OBVIOUS
<1>1. Younger({"hour"}) = 0 /\ Younger({"hour", "day"}) = 0
  <2>1. /\ {m \in Repairs : age[m] \in {"hour"}} = {}
        /\ {m \in Repairs : age[m] \in {"hour", "day"}} = {}
    BY DEF Init
  <2>2. QED
    BY <2>1, FS_EmptySet DEF Younger
<1>2. QED
  BY <1>1, RepairAssumption DEF QuotasKept

(* An incident is only enqueued below both limits, and time only helps. *)
LEMMA QuotasStep ==
    ASSUME TypeOK, QuotasKept, [Next]_vars
    PROVE  QuotasKept'
<1>1. /\ Younger({"hour"}) \in Nat /\ Younger({"hour", "day"}) \in Nat
      /\ Younger({"hour"})' \in Nat /\ Younger({"hour", "day"})' \in Nat
  BY YoungerCounts
<1>2. ASSUME NEW m \in Repairs, Enqueue(m)
      PROVE  QuotasKept'
  <2>1. /\ Younger({"hour"})' <= Younger({"hour"}) + 1
        /\ Younger({"hour", "day"})' <= Younger({"hour", "day"}) + 1
    BY <1>2, OneMoreYoung
  <2>2. QED
    BY <1>1, <1>2, <2>1, RepairAssumption DEF Enqueue, QuotaLeft, QuotasKept
<1>3. ASSUME ~ \E m \in Repairs : Enqueue(m)
      PROVE  QuotasKept'
  <2>1. CASE Ages
    <3>1. /\ \A n \in Repairs : age'[n] \in {"hour"} => age[n] \in {"hour"}
          /\ \A n \in Repairs : age'[n] \in {"hour", "day"} => age[n] \in {"hour", "day"}
      BY <2>1 DEF Ages, TypeOK
    <3>2. /\ Younger({"hour"})' <= Younger({"hour"})
          /\ Younger({"hour", "day"})' <= Younger({"hour", "day"})
      BY <3>1, FewerYoung
    <3>3. QED
      BY <1>1, <3>2, RepairAssumption DEF QuotasKept
  <2>2. CASE ~Ages
    <3>1. UNCHANGED age
      BY <1>3, <2>2 DEF Next, vars, missions, Submit, Start, CheckBase, Create, Publish,
         Prove, Recheck, Promote, Finish, Stop, LoseLease, RegainLease, TakeOver,
         RecoverWaiting, Release, Verify, Deploy
    <3>2. QED
      BY <3>1 DEF QuotasKept, Younger
  <2>3. QED
    BY <2>1, <2>2
<1>4. QED
  BY <1>2, <1>3

-------------------------------------------------------------------------------
(* The graph of commits. *)

(* A commit that does not exist yet is on no branch and nobody's ancestor. *)
LEMMA NewCommit ==
    ASSUME TypeOK, GraphInv, NEW c \in Commits, c # Root, tree[c] = {}
    PROVE  /\ c \notin promoted /\ main # c
           /\ \A d \in Commits : c \notin ancestry[d]
  BY DEF GraphInv, Made

LEMMA GraphInit == Init => GraphInv
  BY RepairAssumption DEF Init, GraphInv, Made, Commits

(* A candidate descends from its base and the last one published. *)
LEMMA CreateGraph ==
    ASSUME TypeOK, StepsInv, GraphInv, BeliefInv, NEW m \in Repairs, Create(m)
    PROVE  GraphInv'
<1> DEFINE Last == IF branch = None THEN {} ELSE ancestry[branch]
<1>1. /\ m \in Commits /\ m # Root /\ tree[m] = {}
      /\ base[m] \in promoted /\ base[m] \in Commits
  BY RepairAssumption DEF Create, Goes, StepsInv, BeliefInv, TypeOK, Commits
<1>2. \A d \in Commits : m \notin ancestry[d]
  BY <1>1, NewCommit
<1>3. /\ tree'[m] # {}
      /\ \A d \in Commits \ {m} : tree'[d] = tree[d] /\ ancestry'[d] = ancestry[d]
      /\ ancestry'[m] = {m} \cup ancestry[base[m]] \cup Last
  BY <1>1 DEF Create, TypeOK
<1>4. Last \subseteq Commits /\ ancestry[base[m]] \subseteq Commits
  BY <1>1 DEF TypeOK
<1>5. \A a \in ancestry[base[m]] \cup Last :
         /\ a # m /\ Made(a)
         /\ ancestry[a] \subseteq ancestry[base[m]] \cup Last
  BY <1>1, <1>2 DEF GraphInv, TypeOK
<1>6. ASSUME NEW c \in Commits, NEW a \in ancestry'[c]
      PROVE  Made(a)' /\ ancestry'[a] \subseteq ancestry'[c]
  <2>1. CASE c = m
    <3>1. CASE a = m
      BY <2>1, <3>1, <1>3 DEF Made
    <3>2. CASE a # m
      <4>1. a \in ancestry[base[m]] \cup Last /\ a \in Commits
        BY <1>3, <1>4, <1>6, <2>1, <3>2
      <4>2. QED
        BY <1>3, <1>5, <2>1, <3>2, <4>1 DEF Made
    <3>3. QED
      BY <3>1, <3>2
  <2>2. CASE c # m
    <3>1. a \in ancestry[c] /\ a # m /\ a \in Commits
      BY <1>2, <1>3, <1>6, <2>2 DEF TypeOK
    <3>2. QED
      BY <1>3, <2>2, <3>1 DEF GraphInv, Made
  <2>3. QED
    BY <2>1, <2>2
<1>7. /\ \A c \in promoted' : Made(c)'
      /\ main' \in promoted'
  BY <1>3 DEF Create, refs, GraphInv, Made, TypeOK
<1>8. QED
  BY <1>6, <1>7 DEF GraphInv

(* A release descends from main. *)
LEMMA ReleaseGraph ==
    ASSUME TypeOK, GraphInv, NEW r \in Releases, Release(r)
    PROVE  GraphInv'
<1>1. r \in Commits /\ r # Root /\ tree[r] = {} /\ main \in Commits
  BY RepairAssumption DEF Release, TypeOK, Commits
<1>2. \A d \in Commits : r \notin ancestry[d]
  BY <1>1, NewCommit
<1>3. /\ tree'[r] # {}
      /\ \A d \in Commits \ {r} : tree'[d] = tree[d] /\ ancestry'[d] = ancestry[d]
      /\ ancestry'[r] = {r} \cup ancestry[main]
  BY <1>1 DEF Release, TypeOK
<1>4. ancestry[main] \subseteq Commits
  BY <1>1 DEF TypeOK
<1>5. ASSUME NEW c \in Commits, NEW a \in ancestry'[c]
      PROVE  Made(a)' /\ ancestry'[a] \subseteq ancestry'[c]
  <2>1. CASE a = r
    BY <1>1, <1>2, <1>3, <1>5, <2>1 DEF Made
  <2>2. CASE a # r
    <3>1. a \in Commits /\ a \in (IF c = r THEN ancestry[main] ELSE ancestry[c])
      BY <1>3, <1>4, <1>5, <2>2 DEF TypeOK
    <3>2. QED
      BY <1>1, <1>3, <2>2, <3>1 DEF GraphInv, Made
  <2>3. QED
    BY <2>1, <2>2
<1>6. /\ \A c \in promoted' : Made(c)'
      /\ main' \in promoted'
  BY <1>3 DEF Release, GraphInv, Made, TypeOK
<1>7. QED
  BY <1>5, <1>6 DEF GraphInv

(* No other step makes a commit, and a candidate that moves main exists. *)
LEMMA GraphStep ==
    ASSUME TypeOK, StepsInv, GraphInv, BeliefInv, [Next]_vars
    PROVE  GraphInv'
<1>1. ASSUME NEW m \in Repairs, Promote(m)
      PROVE  GraphInv'
  <2>1. /\ tree[m] # {} /\ promoted' = promoted \cup {m} /\ main' = m
        /\ UNCHANGED graph
    BY <1>1 DEF Promote, Goes, StepsInv
  <2>2. QED
    BY <2>1 DEF GraphInv, Made, graph
<1>2. ASSUME ~ \E m \in Repairs : Create(m) \/ Promote(m),
             ~ \E r \in Releases : Release(r)
      PROVE  GraphInv'
  <2>1. UNCHANGED <<graph, main, promoted>>
    BY <1>2 DEF Next, vars, refs, Enqueue, Submit, Start, CheckBase, Publish, Prove, Recheck,
       Finish, Stop, LoseLease, RegainLease, TakeOver, RecoverWaiting, Ages, Verify, Deploy
  <2>2. QED
    BY <2>1 DEF GraphInv, Made, graph
<1>3. QED
  BY <1>1, <1>2, CreateGraph, ReleaseGraph

-------------------------------------------------------------------------------
(* Controllers. *)

LEMMA StepsInit == Init => StepsInv
  BY DEF Init, StepsInv, Commits

(* A mission is started once and its candidate created once. *)
LEMMA StepsStep ==
    ASSUME TypeOK, StepsInv, [Next]_vars
    PROVE  StepsInv'
<1> USE DEF TypeOK, StepsInv, missions, controllers, graph, Goes, Off, Commits
<1>1. ASSUME NEW m \in Repairs, Enqueue(m) \/ Submit(m) \/ Start(m)
      PROVE  StepsInv'
  BY <1>1 DEF Enqueue, Submit, Start
<1>2. ASSUME NEW m \in Repairs, CheckBase(m) \/ Prove(m) \/ Recheck(m) \/ Publish(m) \/ Promote(m)
      PROVE  StepsInv'
  BY <1>2 DEF CheckBase, Prove, Recheck, Publish, Promote
<1>3. ASSUME NEW m \in Repairs, Create(m)
      PROVE  StepsInv'
  <2>1. /\ tree'[m] # {} /\ step'[m] = "candidate"
        /\ \A n \in Repairs \ {m} : tree'[n] = tree[n] /\ step'[n] = step[n]
        /\ mission[m] \notin {"absent", "queued"} /\ mission' = mission
    BY <1>3 DEF Create
  <2>2. QED
    BY <2>1
<1>4. ASSUME NEW m \in Repairs, Finish(m) \/ Stop(m)
      PROVE  StepsInv'
  BY <1>4 DEF Finish, Stop
<1>5. ASSUME NEW m \in Repairs, LoseLease(m) \/ RegainLease(m)
      PROVE  StepsInv'
  BY <1>5 DEF LoseLease, RegainLease
<1>6. ASSUME NEW m \in Repairs, TakeOver(m) \/ RecoverWaiting(m)
      PROVE  StepsInv'
  BY <1>6 DEF TakeOver, RecoverWaiting
<1>7. ASSUME NEW r \in Releases, Release(r)
      PROVE  StepsInv'
  <2>1. \A m \in Repairs : tree'[m] = tree[m]
    BY <1>7, RepairAssumption DEF Release
  <2>2. QED
    BY <1>7, <2>1 DEF Release
<1>8. CASE Ages \/ Verify \/ Deploy \/ UNCHANGED vars
  BY <1>8 DEF Ages, Verify, Deploy, vars
<1>9. QED
  BY <1>1, <1>2, <1>3, <1>4, <1>5, <1>6, <1>7, <1>8 DEF Next

LEMMA BeliefInit == Init => BeliefInv
  BY DEF Init, BeliefInv

(* A candidate keeps the content of its base. *)
LEMMA CreateBelief ==
    ASSUME TypeOK, StepsInv, GraphInv, BeliefInv, NEW m \in Repairs, Create(m)
    PROVE  BeliefInv'
<1>1. /\ m \in Commits /\ m # Root /\ tree[m] = {}
      /\ base[m] \in promoted /\ step[m] = "checked"
  BY RepairAssumption DEF Create, Goes, StepsInv, BeliefInv, Commits
<1>2. \A c \in promoted : c \in Commits /\ c # m
  BY <1>1, NewCommit DEF TypeOK
<1>3. /\ step' = [step EXCEPT ![m] = "candidate"]
      /\ tree'[m] = tree[base[m]] \cup {m}
      /\ \A c \in Commits \ {m} : tree'[c] = tree[c] /\ ancestry'[c] = ancestry[c]
      /\ UNCHANGED <<base, promoted, verified>>
  BY <1>1 DEF Create, Goes, TypeOK, services
<1>4. ASSUME NEW n \in Repairs
      PROVE  BeliefInv!(n)'
  <2>1. CASE n = m
    BY <1>1, <1>2, <1>3, <2>1 DEF TypeOK
  <2>2. CASE n # m
    BY <1>2, <1>3, <2>2 DEF TypeOK, BeliefInv, Commits
  <2>3. QED
    BY <2>1, <2>2
<1>5. QED
  BY <1>4 DEF BeliefInv

(* Rechecked: main is the base still, whose content has every release. *)
LEMMA RecheckBelief ==
    ASSUME TypeOK, ReleasesKept, BeliefInv, NEW m \in Repairs, Recheck(m)
    PROVE  BeliefInv'
<1>1. /\ step[m] = "proven" /\ step' = [step EXCEPT ![m] = "rechecked"]
      /\ main = base[m]
      /\ UNCHANGED <<base, promoted, verified, graph>>
  BY DEF Recheck, Goes, BaseUnchanged, services
<1>2. promoted \cap Releases \subseteq tree[m]
  BY <1>1 DEF ReleasesKept, BeliefInv
<1>3. QED
  BY <1>1, <1>2 DEF BeliefInv, TypeOK, graph

(* A release is new: it is no ancestor of a candidate already created. *)
LEMMA ReleaseBelief ==
    ASSUME TypeOK, StepsInv, GraphInv, BeliefInv, NEW r \in Releases, Release(r)
    PROVE  BeliefInv'
<1>1. r \in Commits /\ r # Root /\ tree[r] = {} /\ r \notin Repairs
  BY RepairAssumption DEF Release, Commits
<1>2. /\ \A c \in promoted : c \in Commits /\ c # r
      /\ \A d \in Commits : r \notin ancestry[d]
  BY <1>1, NewCommit DEF TypeOK
<1>3. /\ promoted' = promoted \cup {r}
      /\ \A c \in Commits \ {r} : tree'[c] = tree[c] /\ ancestry'[c] = ancestry[c]
      /\ UNCHANGED <<step, base, verified>>
  BY DEF Release, TypeOK, controllers, services
<1>4. ASSUME NEW n \in Repairs
      PROVE  BeliefInv!(n)'
  <2>1. n \in Commits /\ n # r
    BY <1>1 DEF Commits
  <2>2. /\ step[n] # "off" => base[n] \in promoted
        /\ step[n] \notin {"off", "read", "checked"} => tree[base[n]] \subseteq tree[n]
        /\ step[n] \in {"proven", "rechecked"} => n \in verified
        /\ step[n] = "rechecked" => promoted \cap Releases \cap ancestry[n] \subseteq tree[n]
    BY DEF BeliefInv
  <2>3. step[n] # "off" => base[n] \in Commits \ {r}
    BY <1>2, <2>2
  <2>4. QED
    BY <1>2, <1>3, <2>1, <2>2, <2>3
<1>5. QED
  BY <1>4 DEF BeliefInv

LEMMA BeliefStep ==
    ASSUME TypeOK, StepsInv, GraphInv, ServicesInv, ReleasesKept, BeliefInv, [Next]_vars
    PROVE  BeliefInv'
<1> USE DEF missions, controllers, refs, graph, services, Goes, Off
<1>1. ASSUME NEW m \in Repairs, Start(m)
      PROVE  BeliefInv'
  BY <1>1 DEF Start, TypeOK, BeliefInv, GraphInv
<1>2. ASSUME NEW m \in Repairs, CheckBase(m) \/ Publish(m)
      PROVE  BeliefInv'
  BY <1>2 DEF CheckBase, Publish, TypeOK, BeliefInv
<1>3. ASSUME NEW m \in Repairs, Prove(m)
      PROVE  BeliefInv'
  <2>1. m \in verified
    BY <1>3, RepairAssumption DEF Prove, ReceiptOf, ServicesInv
  <2>2. QED
    BY <1>3, <2>1 DEF Prove, TypeOK, BeliefInv
<1>4. ASSUME NEW m \in Repairs, Promote(m)
      PROVE  BeliefInv'
  BY <1>4, RepairAssumption DEF Promote, TypeOK, BeliefInv
<1>5. ASSUME NEW m \in Repairs, Finish(m) \/ Stop(m)
      PROVE  BeliefInv'
  BY <1>5 DEF Finish, Stop, TypeOK, BeliefInv
<1>6. CASE Verify
  BY <1>6 DEF Verify, BeliefInv
<1>7. ASSUME NEW m \in Repairs,
             Enqueue(m) \/ Submit(m) \/ LoseLease(m) \/ RegainLease(m) \/ TakeOver(m) \/ RecoverWaiting(m)
      PROVE  BeliefInv'
  BY <1>7 DEF Enqueue, Submit, LoseLease, RegainLease, TakeOver, RecoverWaiting, BeliefInv
<1>8. CASE Ages \/ Deploy \/ UNCHANGED vars
  BY <1>8 DEF Ages, Deploy, vars, BeliefInv
<1>9. QED
  BY <1>1, <1>2, <1>3, <1>4, <1>5, <1>6, <1>7, <1>8,
     CreateBelief, RecheckBelief, ReleaseBelief DEF Next

-------------------------------------------------------------------------------
(* Services and releases. *)

LEMMA ServicesInit == Init => ServicesInv
  BY DEF Init, ServicesInv

LEMMA ServicesStep ==
    ASSUME ServicesInv, [Next]_vars
    PROVE  ServicesInv'
<1>1. CASE Verify \/ Deploy
  BY <1>1 DEF Verify, Deploy, ServicesInv
<1>2. CASE ~(Verify \/ Deploy)
  <2>1. UNCHANGED services
    BY <1>2 DEF Next, vars, Enqueue, Submit, Start, CheckBase, Create, Publish, Prove, Recheck,
       Promote, Finish, Stop, LoseLease, RegainLease, TakeOver, RecoverWaiting, Ages, Release
  <2>2. QED
    BY <2>1 DEF services, ServicesInv
<1>3. QED
  BY <1>1, <1>2

LEMMA ReleasesInit == Init => ReleasesBelow /\ ReleasesKept /\ OnlyVerifiedPromoted
  BY RepairAssumption DEF Init, ReleasesBelow, ReleasesKept, OnlyVerifiedPromoted

(* The fast-forward of main: a candidate that descends from main descends   *)
(* from every release, and the second check saw to it that it has those.    *)
LEMMA PromoteReleases ==
    ASSUME TypeOK, GraphInv, BeliefInv, ReleasesBelow, OnlyVerifiedPromoted,
           NEW m \in Repairs, Promote(m)
    PROVE  ReleasesBelow' /\ ReleasesKept' /\ OnlyVerifiedPromoted'
<1>1. /\ main \in ancestry[m] /\ m \in Commits
      /\ step[m] = "rechecked"
      /\ main' = m /\ promoted' = promoted \cup {m}
      /\ UNCHANGED <<tree, ancestry, verified>>
  BY RepairAssumption DEF Promote, Goes, FastForwards, graph, services, TypeOK, Commits
<1>2. promoted' \cap Releases = promoted \cap Releases
  BY <1>1, RepairAssumption
<1>3. promoted \cap Releases \subseteq ancestry[m]
  BY <1>1 DEF GraphInv, ReleasesBelow
<1>4. promoted \cap Releases \subseteq tree[m] /\ m \in verified
  BY <1>1, <1>3 DEF BeliefInv
<1>5. QED
  BY <1>1, <1>2, <1>3, <1>4 DEF ReleasesBelow, ReleasesKept, OnlyVerifiedPromoted

LEMMA ReleasesStep ==
    ASSUME TypeOK, StepsInv, GraphInv, BeliefInv, ReleasesBelow, ReleasesKept,
           OnlyVerifiedPromoted, [Next]_vars
    PROVE  ReleasesBelow' /\ ReleasesKept' /\ OnlyVerifiedPromoted'
<1>1. ASSUME NEW m \in Repairs, Create(m)
      PROVE  ReleasesBelow' /\ ReleasesKept' /\ OnlyVerifiedPromoted'
  <2>1. m \in Commits /\ m # Root /\ tree[m] = {}
    BY <1>1, RepairAssumption DEF Create, Goes, StepsInv, Commits
  <2>2. main # m
    BY <2>1, NewCommit
  <2>3. tree'[main] = tree[main] /\ ancestry'[main] = ancestry[main]
    BY <1>1, <2>2 DEF Create, TypeOK
  <2>4. QED
    BY <1>1, <2>3 DEF Create, refs, services, ReleasesBelow, ReleasesKept, OnlyVerifiedPromoted
<1>2. ASSUME NEW r \in Releases, Release(r)
      PROVE  ReleasesBelow' /\ ReleasesKept' /\ OnlyVerifiedPromoted'
  BY <1>2 DEF Release, TypeOK, Commits, services, ReleasesBelow, ReleasesKept, OnlyVerifiedPromoted
<1>3. ASSUME ~ \E m \in Repairs : Create(m) \/ Promote(m),
             ~ \E r \in Releases : Release(r)
      PROVE  ReleasesBelow' /\ ReleasesKept' /\ OnlyVerifiedPromoted'
  <2>1. UNCHANGED <<graph, main, promoted>> /\ verified \subseteq verified'
    BY <1>3 DEF Next, vars, refs, services, Enqueue, Submit, Start, CheckBase, Publish, Prove,
       Recheck, Finish, Stop, LoseLease, RegainLease, TakeOver, RecoverWaiting, Ages, Verify,
       Deploy
  <2>2. QED
    BY <2>1 DEF graph, ReleasesBelow, ReleasesKept, OnlyVerifiedPromoted
<1>4. QED
  BY <1>1, <1>2, <1>3, PromoteReleases

LEMMA CompletedInit == Init => CompletedWasServed
  BY DEF Init, CompletedWasServed

(* All three ways to complete a repair look at production first. *)
LEMMA CompletedStep ==
    ASSUME TypeOK, ServicesInv, CompletedWasServed, [Next]_vars
    PROVE  CompletedWasServed'
<1> USE DEF CompletedWasServed, TypeOK, services, ServicesInv
<1>1. ASSUME NEW m \in Repairs, Enqueue(m) \/ Submit(m) \/ Start(m) \/ Stop(m)
      PROVE  CompletedWasServed'
  BY <1>1 DEF Enqueue, Submit, Start, Stop
<1>2. ASSUME NEW m \in Repairs, Finish(m)
      PROVE  CompletedWasServed'
  BY <1>2 DEF Finish
<1>3. ASSUME NEW m \in Repairs, TakeOver(m) \/ RecoverWaiting(m)
      PROVE  CompletedWasServed'
  BY <1>3 DEF TakeOver, RecoverWaiting, Observed
<1>4. CASE Deploy
  BY <1>4 DEF Deploy, missions
<1>5. ASSUME ~ \E m \in Repairs : \/ Enqueue(m) \/ Submit(m) \/ Start(m) \/ Stop(m)
                                  \/ Finish(m) \/ TakeOver(m) \/ RecoverWaiting(m),
             ~Deploy
      PROVE  CompletedWasServed'
  <2>1. UNCHANGED <<mission, served>>
    BY <1>5 DEF Next, vars, missions, CheckBase, Create, Publish, Prove, Recheck, Promote,
       LoseLease, RegainLease, Ages, Release, Verify
  <2>2. QED
    BY <2>1
<1>6. QED
  BY <1>1, <1>2, <1>3, <1>4, <1>5

-------------------------------------------------------------------------------
(* The invariant of the pipeline: what controllers with or without a lease  *)
(* may still believe, and what makes it true when they act on it.           *)
THEOREM RepairInvHolds == Spec => []RepairInv
<1>1. Init => RepairInv
  BY TypeInit, QuotasInit, StepsInit, GraphInit, BeliefInit, ServicesInit, ReleasesInit,
     CompletedInit DEF RepairInv
<1>2. RepairInv /\ [Next]_vars => RepairInv'
  BY TypeStep, QuotasStep, StepsStep, GraphStep, BeliefStep, ServicesStep, ReleasesStep,
     CompletedStep DEF RepairInv
<1>3. QED
  BY <1>1, <1>2, PTL DEF Spec

(* Types are kept: a candidate is only made of a base that was read, and a   *)
(* status is one the store accepts (sourceRepair.ts:64-106).                *)
THEOREM RepairsTyped == Spec => []TypeOK
<1>1. RepairInv => TypeOK
  BY DEF RepairInv
<1>2. QED
  BY <1>1, RepairInvHolds, PTL

(* Automatic repairs stay within their hourly and daily quotas, for any     *)
(* limits and any number of incidents (source_repair_incidents.sql:10-14).  *)
THEOREM QuotasHold == Spec => []QuotasKept
<1>1. RepairInv => QuotasKept
  BY DEF RepairInv
<1>2. QED
  BY <1>1, RepairInvHolds, PTL

(* Main only moves to releases and to candidates the isolated runner has    *)
(* verified (sourceRepair.ts:87-98).                                        *)
THEOREM PromotedWasVerified == Spec => []OnlyVerifiedPromoted
<1>1. RepairInv => OnlyVerifiedPromoted
  BY DEF RepairInv
<1>2. QED
  BY <1>1, RepairInvHolds, PTL

(* No repair takes a release of people off main, although the check of main *)
(* and its update are two calls (sourceRepair.ts:95-98).                    *)
THEOREM ReleasesStayOnMain == Spec => []ReleasesKept
<1>1. RepairInv => ReleasesKept
  BY DEF RepairInv
<1>2. QED
  BY <1>1, RepairInvHolds, PTL

(* A completed repair has been served by production, whichever of the three *)
(* ways completed it (repairRecovery.ts:5-24, sourceRepair.ts:100-105).      *)
THEOREM CompletedRepairsWereServed == Spec => []CompletedWasServed
<1>1. RepairInv => CompletedWasServed
  BY DEF RepairInv
<1>2. QED
  BY <1>1, RepairInvHolds, PTL
===============================================================================
