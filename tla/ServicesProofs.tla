---------------------------- MODULE ServicesProofs ----------------------------
(***************************************************************************)
(* The safety properties of the services, for every value of their          *)
(* constants.  Each service has an inductive invariant of its own; that the  *)
(* services share no state makes every step of one a stuttering step of the  *)
(* others.                                                                 *)
(***************************************************************************)
EXTENDS Services, FiniteSetTheorems, WellFoundedInduction, TLAPS

LEMMA StepsOfServices ==
    ASSUME [ServicesNext]_ServicesVars
    PROVE  /\ [IntakeNext]_intake
           /\ [DispatchNext]_dispatch
           /\ [ReviewNext]_review
           /\ [OrgansNext]_organs
           /\ [CrawlNext]_crawl
           /\ [BrowserNext]_browser
           /\ [CompletionNext]_completion
           /\ [UplinkNext]_uplink
           /\ [KeysNext]_governance
<1>1. CASE UNCHANGED ServicesVars
  BY <1>1 DEF ServicesVars
<1>2. CASE ServicesNext
  BY <1>2 DEF ServicesNext, Others
<1> QED BY <1>1, <1>2

------------------------------------------------------------------------------
(* MissionIntake *)

IntakeInv ==
    /\ row = Nobody \/ row \in MissionRows
    /\ tenure = "worker" => row # Nobody
    /\ AcceptedUnchanged

LEMMA IntakeStart == IntakeInit => IntakeInv
BY IntakeAssumption DEF IntakeInit, IntakeInv, AcceptedUnchanged

LEMMA IntakeStep ==
    ASSUME IntakeInv, [IntakeNext]_intake
    PROVE  IntakeInv'
<1> USE DEF IntakeInv, AcceptedUnchanged
<1>1. CASE UNCHANGED intake
  BY <1>1 DEF intake
<1>2. ASSUME NEW s \in Submissions, LeaseMission(s) PROVE IntakeInv'
  BY <1>2, IntakeAssumption DEF LeaseMission
<1>3. ASSUME NEW s \in Submissions, LeaseMissionLost(s) PROVE IntakeInv'
  BY <1>3, IntakeAssumption DEF LeaseMissionLost
<1>4. ASSUME NEW s \in Submissions, InsertMission(s) PROVE IntakeInv'
  <2>1. Requested(s) \in MissionRows /\ row' = IF row = Nobody THEN Requested(s) ELSE row
    BY <1>4 DEF InsertMission, Stored, Requested, MissionRows
  <2>2. tenure' = tenure /\ accepted' = accepted
    BY <1>4 DEF InsertMission
  <2> QED BY <2>1, <2>2, IntakeAssumption
<1>5. ASSUME NEW s \in Submissions, InsertRefused(s) PROVE IntakeInv'
  BY <1>5 DEF InsertRefused
<1>6. ASSUME NEW s \in Submissions, GiveBack(s) PROVE IntakeInv'
  BY <1>6, IntakeAssumption DEF GiveBack
<1>7. ASSUME NEW s \in Submissions, AnswerAccepted(s) PROVE IntakeInv'
  BY <1>7 DEF AnswerAccepted, SameMission
<1>8. ASSUME NEW s \in Submissions,
             AnswerConflict(s) \/ AnswerUnavailable(s) \/ Resubmit(s)
      PROVE  IntakeInv'
  BY <1>8 DEF AnswerConflict, AnswerUnavailable, Resubmit
<1>9. CASE WorkerLeases
  BY <1>9 DEF WorkerLeases
<1>10. ASSUME NEW state \in {"queued", "waiting", "completed"}, NEW limit, row \in MissionRows,
              limit \in Limits \/ limit = row.tokens
       PROVE  LET moved == [row EXCEPT !.status = state, !.tokens = limit]
              IN moved \in MissionRows /\ moved.objective = row.objective
  BY <1>10 DEF MissionRows
<1>11. CASE WorkerMovesOn
  <2>1. row \in MissionRows
    BY <1>11 DEF WorkerMovesOn
  <2>2. PICK state \in {"waiting", "completed"} : row' = [row EXCEPT !.status = state]
    BY <1>11 DEF WorkerMovesOn
  <2>3. row' \in MissionRows /\ row'.objective = row.objective
    BY <2>1, <2>2 DEF MissionRows
  <2>4. tenure' = Nobody /\ accepted' = accepted
    BY <1>11 DEF WorkerMovesOn
  <2> QED BY <2>1, <2>3, <2>4, IntakeAssumption
<1>12. CASE LeaseRunsOut
  BY <1>12, IntakeAssumption DEF LeaseRunsOut
<1>13. CASE ResumeMission
  <2>1. row \in MissionRows
    BY <1>13 DEF ResumeMission
  <2>2. PICK limit \in Limits : row' = [row EXCEPT !.status = "queued", !.tokens = limit]
    BY <1>13 DEF ResumeMission
  <2>3. row' \in MissionRows /\ row'.objective = row.objective
    BY <1>10, <2>1, <2>2
  <2>4. tenure' = tenure /\ accepted' = accepted
    BY <1>13 DEF ResumeMission
  <2> QED BY <2>1, <2>3, <2>4, IntakeAssumption
<1>14. CASE Restart
  BY <1>14, IntakeAssumption DEF Restart
<1> QED
  BY <1>1, <1>2, <1>3, <1>4, <1>5, <1>6, <1>7, <1>8, <1>9, <1>11, <1>12, <1>13, <1>14
     DEF IntakeNext

(* A mission answered 202 keeps the objective it was accepted with, for any  *)
(* number of concurrent submissions of its key (submitMission).             *)
THEOREM AcceptedMissionsKept == ServicesSpec => []AcceptedUnchanged
<1>1. ServicesInit => IntakeInv
  BY IntakeStart DEF ServicesInit
<1>2. IntakeInv /\ [ServicesNext]_ServicesVars => IntakeInv'
  BY StepsOfServices, IntakeStep
<1>3. IntakeInv => AcceptedUnchanged
  BY DEF IntakeInv
<1> QED BY <1>1, <1>2, <1>3, PTL DEF ServicesSpec

------------------------------------------------------------------------------
(* BrowserSession *)

ProcessStates == {"none", "launching", "up", "closing", "gone", "closed"}

BrowserInv ==
    /\ process \in [Browsers -> ProcessStates]
    /\ page \in Browsers \cup {NoBrowser}
    /\ starting \in Browsers \cup {NoBrowser}
    /\ BrowsersAccounted

LEMMA BrowserStart == BrowserInit => BrowserInv
BY BrowserAssumption DEF BrowserInit, BrowserInv, BrowsersAccounted, ProcessStates

LEMMA BrowserStep ==
    ASSUME BrowserInv, [BrowserNext]_browser
    PROVE  BrowserInv'
<1> USE BrowserAssumption DEF BrowserInv, BrowsersAccounted, ProcessStates, Become
<1>1. CASE UNCHANGED browser
  BY <1>1 DEF browser
<1>2. ASSUME NEW v \in Visitors, Ask(v) PROVE BrowserInv'
  BY <1>2 DEF Ask, MayLaunch
<1>3. ASSUME NEW v \in Visitors, Serve(v) \/ AskStop(v) PROVE BrowserInv'
  BY <1>3 DEF Serve, AskStop
<1>4. ASSUME NEW v \in Visitors, Stop(v) PROVE BrowserInv'
  BY <1>4 DEF Stop
<1>5. ASSUME NEW b \in Browsers, Opened(b) PROVE BrowserInv'
  BY <1>5 DEF Opened
<1>6. ASSUME NEW b \in Browsers, OpenFails(b) PROVE BrowserInv'
  BY <1>6 DEF OpenFails
<1>7. ASSUME NEW b \in Browsers, Gone(b) PROVE BrowserInv'
  BY <1>7 DEF Gone
<1>8. ASSUME NEW b \in Browsers, Disconnected(b) PROVE BrowserInv'
  BY <1>8 DEF Disconnected
<1> QED
  BY <1>1, <1>2, <1>3, <1>4, <1>5, <1>6, <1>7, <1>8 DEF BrowserNext

(* One launch at a time, the page held is of a browser nobody closed, and no *)
(* browser runs unknown to the manager but those an older one's end made it  *)
(* forget, for any number of requests and browsers (BrowserManager).         *)
THEOREM NoBrowserIsLost == ServicesSpec => []BrowsersAccounted
<1>1. ServicesInit => BrowserInv
  BY BrowserStart DEF ServicesInit
<1>2. BrowserInv /\ [ServicesNext]_ServicesVars => BrowserInv'
  BY StepsOfServices, BrowserStep
<1>3. BrowserInv => BrowsersAccounted
  BY DEF BrowserInv
<1> QED BY <1>1, <1>2, <1>3, PTL DEF ServicesSpec

------------------------------------------------------------------------------
(* DualKeys *)

KeyStates ==
    [checked : BOOLEAN, approved : BOOLEAN, authorized : BOOLEAN,
     ends : {"never", "ahead", "past"}]

KeysInv ==
    /\ keys \in KeyStates
    /\ stands \in BOOLEAN
    /\ keys.authorized <=> keys.checked /\ keys.approved
    /\ stands <=> keys.approved /\ keys.ends = "ahead"
    /\ keys.approved => keys.ends # "never"
    /\ DecisionsGrounded

LEMMA KeysStart == KeysInit => KeysInv
<1> SUFFICES ASSUME KeysInit PROVE KeysInv
  OBVIOUS
<1>1. keys = [checked |-> FALSE, approved |-> FALSE, authorized |-> FALSE, ends |-> "never"]
  BY DEF KeysInit
<1>2. /\ keys \in KeyStates /\ keys.ends = "never"
      /\ ~keys.checked /\ ~keys.approved /\ ~keys.authorized
  BY <1>1, Zenon DEF KeyStates
<1>3. stands = FALSE /\ ruling.decision = "none"
  BY DEF KeysInit
<1> QED BY <1>2, <1>3 DEF KeysInv, DecisionsGrounded

(* Looking at the keys drops an authorization that has ended and no other. *)
LEMMA LookedAgrees ==
    ASSUME NEW k \in KeyStates, k.approved => k.ends # "never",
           k.authorized <=> k.checked /\ k.approved
    PROVE  /\ Looked(k) \in KeyStates
           /\ Looked(k).checked = k.checked /\ Looked(k).ends = k.ends
           /\ Looked(k).authorized <=> Looked(k).checked /\ Looked(k).approved
           /\ Looked(k).approved => k.approved
           /\ k.approved /\ k.ends = "ahead" => Looked(k).approved
           /\ Looked(k).authorized => k.ends = "ahead"
<1>1. CASE k.authorized /\ k.ends = "past"
  <2>1. Looked(k) = [k EXCEPT !.authorized = FALSE, !.approved = FALSE]
    BY <1>1 DEF Looked
  <2> QED BY <1>1, <2>1 DEF KeyStates
<1>2. CASE ~(k.authorized /\ k.ends = "past")
  <2>1. Looked(k) = k
    BY <1>2 DEF Looked
  <2> QED BY <1>2, <2>1 DEF KeyStates
<1> QED BY <1>1, <1>2

LEMMA KeysStep ==
    ASSUME KeysInv, [KeysNext]_governance
    PROVE  KeysInv'
<1> USE DEF DecisionsGrounded
<1>1. CASE UNCHANGED governance
  BY <1>1 DEF governance, KeysInv
<1>2. ASSUME NEW passed \in BOOLEAN, RunSystemCheck(passed) PROVE KeysInv'
  <2> DEFINE checked == [keys EXCEPT !.checked = passed, !.authorized = passed /\ keys.approved]
  <2>1. /\ checked \in KeyStates
        /\ checked.ends = keys.ends /\ checked.checked = passed
        /\ checked.approved = keys.approved
        /\ checked.authorized <=> passed /\ keys.approved
    BY DEF KeysInv, KeyStates
  <2>2. /\ keys' = Looked(checked)
        /\ stands' = stands /\ ruling' = ruling
    BY <1>2 DEF RunSystemCheck
  <2> HIDE DEF checked
  <2>3. checked.authorized <=> checked.checked /\ checked.approved
    BY <2>1
  <2>4. checked.approved => checked.ends # "never"
    BY <2>1 DEF KeysInv
  <2> QED BY <2>1, <2>2, <2>3, <2>4, LookedAgrees DEF KeysInv
<1>3. CASE GrantHumanApproval
  <2>1. /\ keys' \in KeyStates
        /\ keys'.approved /\ keys'.ends = "ahead" /\ keys'.checked = keys.checked
        /\ keys'.authorized = keys.checked
    BY <1>3 DEF GrantHumanApproval, KeysInv, KeyStates
  <2>2. stands' = TRUE /\ ruling' = ruling
    BY <1>3 DEF GrantHumanApproval
  <2> QED BY <2>1, <2>2 DEF KeysInv
<1>4. CASE RevokeDualKey
  <2>1. keys' = [checked |-> FALSE, approved |-> FALSE, authorized |-> FALSE, ends |-> "never"]
    BY <1>4 DEF RevokeDualKey
  <2>2. /\ keys' \in KeyStates
        /\ ~keys'.checked /\ ~keys'.approved /\ ~keys'.authorized
    BY <2>1, Zenon DEF KeyStates
  <2>3. stands' = FALSE /\ ruling' = ruling
    BY <1>4 DEF RevokeDualKey
  <2> QED BY <2>2, <2>3 DEF KeysInv
<1>5. CASE TimePasses
  <2>1. /\ keys' \in KeyStates
        /\ keys'.checked = keys.checked /\ keys'.approved = keys.approved
        /\ keys'.authorized = keys.authorized /\ keys'.ends = "past"
    BY <1>5 DEF TimePasses, KeysInv, KeyStates
  <2>2. stands' = FALSE /\ ruling' = ruling
    BY <1>5 DEF TimePasses
  <2> QED BY <2>1, <2>2 DEF KeysInv
<1>6. ASSUME SetBypassMode \/ \E i \in DOMAIN asked, outcome \in {"APPROVED", "REJECTED"} :
                                 ResolveRequest(i, outcome)
      PROVE  KeysInv'
  BY <1>6 DEF SetBypassMode, ResolveRequest, KeysInv
<1>7. ASSUME NEW deed \in Deeds, AllowRequested(deed) PROVE KeysInv'
  <2>1. HasRequest(deed, "APPROVED")
    BY <1>7 DEF AllowRequested
  <2>2. Grounds(deed) # {}
    BY <2>1 DEF Grounds
  <2>3. ruling'.decision = "ALLOW" /\ ruling'.grounds # {}
    BY <1>7, <2>2 DEF AllowRequested
  <2>4. keys' = keys /\ stands' = stands
    BY <1>7 DEF AllowRequested
  <2> QED BY <2>3, <2>4 DEF KeysInv
<1>8. ASSUME NEW deed \in Deeds, BlockDeed(deed) PROVE KeysInv'
  BY <1>8 DEF BlockDeed, KeysInv
<1>9. ASSUME NEW deed \in Deeds, WeighDeed(deed) PROVE KeysInv'
  <2>1. keys' = Looked(keys) /\ stands' = stands
    BY <1>9 DEF WeighDeed
  <2>2. /\ keys' \in KeyStates
        /\ keys'.checked = keys.checked /\ keys'.ends = keys.ends
        /\ keys'.authorized <=> keys'.checked /\ keys'.approved
        /\ keys'.approved => keys.approved
        /\ keys.approved /\ keys.ends = "ahead" => keys'.approved
        /\ keys'.authorized => keys.ends = "ahead"
    BY <2>1, LookedAgrees DEF KeysInv
  <2>3. keys'.authorized <=> keys.checked /\ stands
    BY <2>2 DEF KeysInv
  <2>4. "keys" \in Grounds(deed) <=> keys.checked /\ stands
    BY DEF Grounds
  <2>5. CASE keys'.authorized \/ bypass
    <3>1. Grounds(deed) # {}
      BY <2>3, <2>4, <2>5 DEF Grounds
    <3>2. ruling' = [decision |-> "ALLOW", grounds |-> Grounds(deed)]
      BY <1>9, <2>5 DEF WeighDeed
    <3> QED BY <2>1, <2>2, <3>1, <3>2 DEF KeysInv
  <2>6. CASE ~keys'.authorized /\ ~bypass
    <3>1. ~HasRequest(deed, "APPROVED")
      BY <1>9 DEF WeighDeed
    <3>2. Grounds(deed) = {}
      BY <2>3, <2>6, <3>1 DEF Grounds
    <3>3. ruling' = [decision |-> "PENDING_APPROVAL", grounds |-> Grounds(deed)]
      BY <1>9, <2>6 DEF WeighDeed
    <3> QED BY <2>1, <2>2, <3>2, <3>3 DEF KeysInv
  <2> QED BY <2>5, <2>6
<1> QED
  BY <1>1, <1>2, <1>3, <1>4, <1>5, <1>6, <1>7, <1>8, <1>9 DEF KeysNext

(* The authorization flag never outlives the check and the approval it was   *)
(* set for: what is allowed has a ground that holds at that moment, and what *)
(* is made to wait has none (engine.ts, evaluateAction).                    *)
THEOREM AllowedActionsHaveGrounds == ServicesSpec => []DecisionsGrounded
<1>1. ServicesInit => KeysInv
  BY KeysStart DEF ServicesInit
<1>2. KeysInv /\ [ServicesNext]_ServicesVars => KeysInv'
  BY StepsOfServices, KeysStep
<1>3. KeysInv => DecisionsGrounded
  BY DEF KeysInv
<1> QED BY <1>1, <1>2, <1>3, PTL DEF ServicesSpec

------------------------------------------------------------------------------
(* HumanReview *)

(* What is known of one review: where its approval has gone. *)
ReviewKnown(r) ==
    /\ runs[r] \in {0, 1}
    /\ runs[r] = 0 => done[r] = {}
    /\ record[r] = "none" => r \notin parked \cup consumed
    /\ record[r] \in {"none", "pending"} => runs[r] = 0
    /\ record[r] = "approved" => verdict[r] = "approved"
    /\ runs[r] = 1 => /\ verdict[r] = "approved"
                      /\ r \notin parked
                      /\ IsSandbox(r) => r \in consumed \/ record[r] = "gone"
    /\ IsSandbox(r) => r \notin parked
    /\ \A deed \in done[r] : Within(deed, proposal[r])

SlotsKnown ==
    /\ running \subseteq consumed
    /\ IsFiniteSet(running)
    /\ active \in Nat /\ Cardinality(running) <= active /\ active <= Slots

ReviewInv ==
    /\ record \in [Reviews -> {"none", "pending", "approved", "rejected", "gone"}]
    /\ verdict \in [Reviews -> {"none", "approved", "rejected"}]
    /\ proposal \in [Reviews -> Proposals]
    /\ runs \in [Reviews -> Nat]
    /\ DOMAIN done = Reviews /\ done = [r \in Reviews |-> done[r]]
    /\ SlotsKnown
    /\ \A r \in Reviews : ReviewKnown(r)

LEMMA ReviewStart == ReviewInit => ReviewInv
BY FS_EmptySet, ReviewAssumption DEF ReviewInit, ReviewInv, ReviewKnown, SlotsKnown

(* What a taken approval may lead to is within what was proposed.          *)
LEMMA DeedsWithin ==
    ASSUME NEW r \in Reviews, proposal[r] \in Proposals
    PROVE  /\ ~IsSandbox(r) => /\ Within(Build, proposal[r])
                               /\ \A path \in Paths, content \in Codes :
                                     Within(Write(path, Written(r, content)), proposal[r])
           /\ \A code \in Codes : proposal[r] = Code(code) => Within(Code(code), proposal[r])
<1>1. proposal[r].kind \in {"sandbox", "file_write", "preview_rebuild"}
  BY DEF Proposals, Code, Write, Build
<1>2. CASE proposal[r].kind = "sandbox"
  BY <1>2 DEF IsSandbox, Within
<1>3. CASE proposal[r].kind = "file_write"
  BY <1>3 DEF IsSandbox, Within, Written, Code
<1>4. CASE proposal[r].kind = "preview_rebuild"
  BY <1>4 DEF IsSandbox, Within, Code, Write, Build
<1> QED BY <1>1, <1>2, <1>3, <1>4

(* A parked approval is acted upon. *)
LEMMA ActsOnce ==
    ASSUME ReviewInv, NEW r \in Reviews, NEW deed, Acts(r, deed), Within(deed, proposal[r]),
           record[r] = "approved", runs[r] = 0, record' = record, verdict' = verdict,
           proposal' = proposal, consumed \subseteq consumed', parked' \subseteq parked,
           r \notin parked', IsSandbox(r) => r \in consumed', SlotsKnown',
           \A q \in Reviews : q # r => (q \in consumed' <=> q \in consumed)
    PROVE  ReviewInv'
<1>1. /\ runs' = [runs EXCEPT ![r] = @ + 1]
      /\ done' = [done EXCEPT ![r] = @ \cup {deed}]
  BY DEF Acts
<1>2. /\ runs' \in [Reviews -> Nat] /\ runs'[r] = 1
      /\ \A q \in Reviews : q # r => runs'[q] = runs[q]
  BY <1>1 DEF ReviewInv
<1>3. /\ DOMAIN done' = Reviews /\ done' = [q \in Reviews |-> done'[q]]
      /\ done'[r] = done[r] \cup {deed}
      /\ \A q \in Reviews : q # r => done'[q] = done[q]
  BY <1>1 DEF ReviewInv
<1>4. \A q \in Reviews : ReviewKnown(q)
  BY DEF ReviewInv
<1>5. ReviewKnown(r)'
  BY <1>2, <1>3, <1>4 DEF ReviewKnown, IsSandbox, ReviewInv
<1>6. ASSUME NEW q \in Reviews, q # r PROVE ReviewKnown(q)'
  BY <1>2, <1>3, <1>4, <1>6 DEF ReviewKnown, IsSandbox, ReviewInv
<1> QED BY <1>2, <1>3, <1>5, <1>6 DEF ReviewInv

(* A slot is taken: it was free, and its review was not running. *)
LEMMA SlotTaken ==
    ASSUME ReviewInv, NEW r \in Reviews, NEW code \in Codes, TakesSlot(r, code),
           running' \in {running, running \cup {r}}
    PROVE  SlotsKnown'
<1> USE ReviewAssumption
<1>1. r \notin running
  BY DEF TakesSlot, Usable, ReviewInv, SlotsKnown
<1>2. /\ IsFiniteSet(running \cup {r}) /\ Cardinality(running) \in Nat
      /\ Cardinality(running \cup {r}) = Cardinality(running) + 1
  BY <1>1, FS_AddElement, FS_CardinalityType DEF ReviewInv, SlotsKnown
<1>3. /\ active' = active + 1 /\ active < Slots /\ active \in Nat
      /\ Cardinality(running) <= active /\ running \subseteq consumed
      /\ consumed' = consumed \cup {r} /\ IsFiniteSet(running)
  BY DEF TakesSlot, ReviewInv, SlotsKnown
<1> QED BY <1>2, <1>3 DEF SlotsKnown

LEMMA ReviewStep ==
    ASSUME ReviewInv, [ReviewNext]_review
    PROVE  ReviewInv'
<1> USE ReviewAssumption
<1>1. CASE UNCHANGED review
  BY <1>1 DEF review, ReviewInv, ReviewKnown, SlotsKnown, IsSandbox
<1>2. ASSUME NEW r \in Reviews, Propose(r) PROVE ReviewInv'
  BY <1>2 DEF Propose, ReviewInv, ReviewKnown, SlotsKnown, IsSandbox
<1>3. ASSUME NEW r \in Reviews, NEW decision \in {"approved", "rejected"},
             DecideReview(r, decision)
      PROVE  ReviewInv'
  BY <1>3 DEF DecideReview, Undecided, ReviewInv, ReviewKnown, SlotsKnown, IsSandbox
<1>4. ASSUME NEW r \in Reviews, TakesParked(r)
      PROVE  /\ record[r] = "approved" /\ runs[r] = 0 /\ ~IsSandbox(r)
             /\ proposal[r] \in Proposals /\ SlotsKnown'
  BY <1>4 DEF TakesParked, ReviewInv, ReviewKnown, SlotsKnown
<1>5. ASSUME NEW r \in Reviews, NEW deed, TakesParked(r), Acts(r, deed),
             Within(deed, proposal[r])
      PROVE  ReviewInv'
  BY <1>4, <1>5, ActsOnce DEF TakesParked
<1>6. ASSUME NEW r \in Reviews, NEW path \in Paths, NEW content \in Codes,
             WriteFile(r, path, content)
      PROVE  ReviewInv'
  BY <1>4, <1>5, <1>6, DeedsWithin DEF WriteFile
<1>7. ASSUME NEW r \in Reviews, Rebuild(r) PROVE ReviewInv'
  BY <1>4, <1>5, <1>7, DeedsWithin DEF Rebuild
<1>8. ASSUME NEW r \in Reviews, FailWrite(r) PROVE ReviewInv'
  BY <1>8 DEF FailWrite, TakesParked, ReviewInv, ReviewKnown, SlotsKnown, IsSandbox
<1>9. ASSUME NEW r \in Reviews, NEW code \in Codes, TakesSlot(r, code)
      PROVE  /\ record[r] = "approved" /\ runs[r] = 0 /\ IsSandbox(r)
             /\ r \notin parked /\ proposal[r] \in Proposals
             /\ Within(Code(code), proposal[r])
  BY <1>9, DeedsWithin DEF TakesSlot, Usable, ReviewInv, ReviewKnown, IsSandbox, Code
<1>10. ASSUME NEW r \in Reviews, NEW code \in Codes, RunCode(r, code) PROVE ReviewInv'
  <2>1. TakesSlot(r, code) /\ Acts(r, Code(code)) /\ running' = running \cup {r}
    BY <1>10 DEF RunCode
  <2>2. SlotsKnown'
    BY <2>1, SlotTaken
  <2> QED BY <1>9, <2>1, <2>2, ActsOnce DEF TakesSlot
<1>11. ASSUME NEW r \in Reviews, NEW code \in Codes, FailStart(r, code) PROVE ReviewInv'
  <2>1. /\ TakesSlot(r, code)
        /\ UNCHANGED <<record, proposal, parked, verdict, running, runs, done>>
        /\ consumed' = consumed \cup {r}
    BY <1>11 DEF FailStart, TakesSlot
  <2>2. SlotsKnown'
    BY <2>1, SlotTaken
  <2>3. ASSUME NEW q \in Reviews PROVE ReviewKnown(q)'
    BY <1>9, <2>1 DEF ReviewInv, ReviewKnown, IsSandbox
  <2> QED BY <2>1, <2>2, <2>3 DEF ReviewInv
<1>12. ASSUME NEW r \in Reviews, FinishCode(r) PROVE ReviewInv'
  <2>1. /\ IsFiniteSet(running \ {r})
        /\ Cardinality(running \ {r}) = Cardinality(running) - 1
        /\ Cardinality(running) \in Nat /\ Cardinality(running \ {r}) \in Nat
    BY <1>12, FS_RemoveElement, FS_CardinalityType DEF FinishCode, ReviewInv, SlotsKnown
  <2>2. SlotsKnown'
    BY <1>12, <2>1 DEF FinishCode, ReviewInv, SlotsKnown
  <2> QED BY <1>12, <2>2 DEF FinishCode, ReviewInv, ReviewKnown, IsSandbox
<1>13. CASE RestartReview
  <2>1. SlotsKnown'
    BY <1>13, FS_EmptySet DEF RestartReview, SlotsKnown
  <2> QED BY <1>13, <2>1 DEF RestartReview, ReviewInv, ReviewKnown, IsSandbox
<1> QED
  BY <1>1, <1>2, <1>3, <1>6, <1>7, <1>8, <1>10, <1>11, <1>12, <1>13 DEF ReviewNext

(* Each approval is good for one deed at most, whatever calls, decisions,    *)
(* failures and restarts come between: of sandbox code the code proposed, of *)
(* a file the approved content at whatever path the request names, of a       *)
(* rebuild a rebuild or any write; and no more executions run than slots are  *)
(* taken (hitlManager, runCode, the approval routes).                        *)
THEOREM ApprovalsAreUsedOnce == ServicesSpec => []ReviewedOnce
<1>1. ReviewInv => ReviewedOnce
  BY DEF ReviewInv, ReviewKnown, SlotsKnown, ReviewedOnce
<1>2. ServicesInit => ReviewInv
  BY ReviewStart DEF ServicesInit
<1>3. ReviewInv /\ [ServicesNext]_ServicesVars => ReviewInv'
  BY ReviewStep, StepsOfServices
<1> QED BY <1>1, <1>2, <1>3, PTL DEF ServicesSpec

------------------------------------------------------------------------------
(* OrganDispatch *)

CallsOf(o) == {c \in Calls : call[c] = o}

RegistryInv ==
    /\ DOMAIN status = Organs
    /\ isolated \in [Organs -> BOOLEAN]
    /\ inflight \in [Organs -> Nat]
    /\ call \in [Calls -> Dispatched \cup {NoOrgan}]
    /\ \A o \in Dispatched :
        /\ IsFiniteSet(CallsOf(o)) /\ inflight[o] = Cardinality(CallsOf(o))
        /\ isolated[o] => status[o] = "disabled"
        /\ status[o] = "busy" => inflight[o] > 0

LEMMA RegistryStart == OrgansInit => RegistryInv
<1> SUFFICES ASSUME OrgansInit PROVE RegistryInv
  OBVIOUS
<1>1. \A o \in Dispatched : CallsOf(o) = {}
  BY OrgansAssumption DEF OrgansInit, CallsOf
<1> QED BY <1>1, FS_EmptySet DEF OrgansInit, RegistryInv, Organs

(* The command pipeline touches memory and brain only. *)
LEMMA RegistryFrame ==
    ASSUME RegistryInv, UNCHANGED <<isolated, inflight, call>>,
           DOMAIN status' = Organs, \A o \in Dispatched : status'[o] = status[o]
    PROVE  RegistryInv'
BY DEF RegistryInv, CallsOf

LEMMA RegistryStep ==
    ASSUME RegistryInv, [OrgansNext]_organs
    PROVE  RegistryInv'
<1>0. Dispatched \subseteq Organs /\ {"memory", "brain"} \subseteq Organs
  BY DEF Organs
<1>1. CASE UNCHANGED registry
  BY <1>1, RegistryFrame DEF registry, RegistryInv
<1>2. ASSUME NEW c \in Calls, NEW o \in Dispatched, BeginCall(c, o) PROVE RegistryInv'
  <2>1. /\ call[c] = NoOrgan /\ ~isolated[o]
        /\ call' = [call EXCEPT ![c] = o]
        /\ inflight' = [inflight EXCEPT ![o] = @ + 1]
        /\ status' = [status EXCEPT ![o] = "busy"]
        /\ isolated' = isolated
    BY <1>2 DEF BeginCall
  <2>2. /\ c \notin CallsOf(o) /\ CallsOf(o)' = CallsOf(o) \cup {c}
        /\ \A p \in Dispatched : p # o => CallsOf(p)' = CallsOf(p)
    BY <2>1, OrgansAssumption DEF RegistryInv, CallsOf
  <2>3. IsFiniteSet(CallsOf(o)') /\ Cardinality(CallsOf(o)') = Cardinality(CallsOf(o)) + 1
    BY <2>2, FS_AddElement DEF RegistryInv
  <2> QED BY <1>0, <2>1, <2>2, <2>3 DEF RegistryInv
<1>3. ASSUME NEW c \in Calls, NEW succeeded \in BOOLEAN, EndCall(c, succeeded) PROVE RegistryInv'
  <2>0. PICK o \in Dispatched : o = call[c]
    BY <1>3 DEF EndCall, RegistryInv
  <2> DEFINE remaining == inflight[o] - 1
  <2>1. /\ o # NoOrgan /\ o \in Dispatched
        /\ call' = [call EXCEPT ![c] = NoOrgan]
        /\ inflight' = [inflight EXCEPT ![o] = remaining]
        /\ status' = [status EXCEPT ![o] = StatusAfter(o, remaining, succeeded)]
        /\ isolated' = isolated
    BY <1>3, <2>0 DEF EndCall, RegistryInv
  <2>2. /\ c \in CallsOf(o) /\ CallsOf(o)' = CallsOf(o) \ {c}
        /\ \A p \in Dispatched : p # o => CallsOf(p)' = CallsOf(p)
    BY <2>0, <2>1, OrgansAssumption DEF RegistryInv, CallsOf
  <2>3. /\ IsFiniteSet(CallsOf(o) \ {c})
        /\ Cardinality(CallsOf(o) \ {c}) = Cardinality(CallsOf(o)) - 1
        /\ Cardinality(CallsOf(o) \ {c}) \in Nat
    BY <2>1, <2>2, FS_RemoveElement, FS_CardinalityType DEF RegistryInv
  <2>4. /\ isolated[o] => StatusAfter(o, remaining, succeeded) = "disabled"
        /\ StatusAfter(o, remaining, succeeded) = "busy" => remaining > 0
    BY DEF StatusAfter
  <2>5. remaining \in Nat /\ remaining = Cardinality(CallsOf(o)')
    BY <2>1, <2>2, <2>3 DEF RegistryInv
  <2>6. DOMAIN status' = Organs /\ inflight' \in [Organs -> Nat]
        /\ call' \in [Calls -> Dispatched \cup {NoOrgan}]
    BY <1>0, <2>1, <2>5 DEF RegistryInv
  <2>7. ASSUME NEW p \in Dispatched
        PROVE  /\ IsFiniteSet(CallsOf(p)') /\ inflight'[p] = Cardinality(CallsOf(p)')
               /\ isolated'[p] => status'[p] = "disabled"
               /\ status'[p] = "busy" => inflight'[p] > 0
    <3>1. CASE p = o
      <4>1. inflight'[p] = remaining /\ status'[p] = StatusAfter(o, remaining, succeeded)
        BY <1>0, <2>1, <3>1 DEF RegistryInv
      <4> HIDE DEF remaining
      <4> QED BY <2>1, <2>2, <2>3, <2>4, <2>5, <3>1, <4>1
    <3>2. CASE p # o
      BY <1>0, <2>1, <2>2, <3>2 DEF RegistryInv
    <3> QED BY <3>1, <3>2
  <2> QED BY <2>1, <2>6, <2>7 DEF RegistryInv
<1>4. ASSUME NEW o \in Organs, Isolate(o) PROVE RegistryInv'
  BY <1>0, <1>4 DEF Isolate, RegistryInv, CallsOf
<1>5. ASSUME NEW S \in SUBSET Organs, Reset(S) PROVE RegistryInv'
  BY <1>0, <1>5 DEF Reset, RegistryInv, CallsOf
<1>6. ASSUME (\E o \in Organs : ResetOrgan(o)) \/ Heal PROVE RegistryInv'
  BY <1>5, <1>6 DEF ResetOrgan, Heal
<1>7. ASSUME NEW c \in Commands, NEW o \in {"memory", "brain"}, RunStage(c, o) \/ EndStage(c, o)
      PROVE  RegistryInv'
  <2>1. UNCHANGED <<isolated, inflight, call>>
    BY <1>7 DEF RunStage, EndStage
  <2>2. o \notin Dispatched
    BY OrgansAssumption
  <2>3. status' = status \/ \E value : status' = [status EXCEPT ![o] = value]
    BY <1>7 DEF RunStage, EndStage, Show
  <2>4. DOMAIN status' = Organs /\ \A p \in Dispatched : status'[p] = status[p]
    BY <2>2, <2>3 DEF RegistryInv, Organs
  <2> QED BY <2>1, <2>4, RegistryFrame
<1>8. ASSUME NEW c \in Commands,
             \/ Block(c) \/ Route(c) \/ Synthesize(c) \/ PersistAnswer(c) \/ CollectFeedback(c)
             \/ \E rows \in {"answer", "feedback"} : LosePersist(c, rows)
      PROVE  RegistryInv'
  BY <1>1, <1>8 DEF Block, Route, Synthesize, PersistAnswer, CollectFeedback, LosePersist
<1>9. ASSUME UNCHANGED organs PROVE RegistryInv'
  BY <1>1, <1>9 DEF organs
<1> QED
  BY <1>2, <1>3, <1>4, <1>6, <1>7, <1>8, <1>9 DEF OrgansNext

(* Isolation is shown as long as it lasts, whatever calls end in between, and *)
(* the counter is the number of calls under way, for any number of calls      *)
(* (dispatchOrgan, isolate, reset).                                         *)
THEOREM IsolationIsShown == ServicesSpec => []IsolationShown
<1>1. ServicesInit => RegistryInv
  BY RegistryStart DEF ServicesInit
<1>2. RegistryInv /\ [ServicesNext]_ServicesVars => RegistryInv'
  BY StepsOfServices, RegistryStep
<1>3. RegistryInv => IsolationShown
  BY DEF RegistryInv, CallsOf, IsolationShown
<1> QED BY <1>1, <1>2, <1>3, PTL DEF ServicesSpec

(* What a command has announced and stored at each of its stages. *)
Replied == {"feedback", "succeeded"}

Told(c) == {e \in events : e[1] = c}

CommandInv ==
    /\ command \in [Commands -> {"intake", "blocked", "memory", "memory:busy", "brain",
                                 "brain:busy", "synthesis", "persistence", "feedback",
                                 "succeeded", "failed"}]
    /\ \A c \in Commands :
        /\ command[c] \notin {"succeeded", "failed"} => Told(c) = {}
        /\ command[c] = "failed" => Told(c) = {<<c, "command:error">>}
        /\ command[c] = "succeeded" => Told(c) = Announcements(c)
        /\ command[c] \in Replied => <<c, "answer">> \in stored
        /\ command[c] = "succeeded" => <<c, "feedback">> \in stored

LEMMA CommandStart == OrgansInit => CommandInv
BY DEF OrgansInit, CommandInv, Told, Replied

(* Command c goes on to another stage without an announcement. *)
LEMMA CommandProceeds ==
    ASSUME CommandInv, NEW c \in Commands, command[c] \notin {"succeeded", "failed"},
           NEW step \in {"blocked", "memory", "memory:busy", "brain", "brain:busy", "synthesis",
                         "persistence", "feedback"},
           Proceed(c, step), events' = events, stored \subseteq stored',
           step = "feedback" => <<c, "answer">> \in stored'
    PROVE  CommandInv'
BY DEF CommandInv, Proceed, Told, Replied

LEMMA CommandEnds ==
    ASSUME CommandInv, NEW c \in Commands, command[c] \notin {"succeeded", "failed"},
           NEW step \in {"succeeded", "failed"}, NEW announced,
           Proceed(c, step), Emit(announced), stored \subseteq stored',
           announced = IF step = "failed" THEN {<<c, "command:error">>} ELSE Announcements(c),
           step = "succeeded" => {<<c, "answer">>, <<c, "feedback">>} \subseteq stored'
    PROVE  CommandInv'
<1>1. \A e \in announced : e[1] = c
  BY DEF Announcements
<1>2. Told(c)' = announced
  BY <1>1 DEF CommandInv, Told, Emit
<1>3. \A d \in Commands : d # c => Told(d)' = Told(d) /\ command'[d] = command[d]
  BY <1>1 DEF Told, Emit, Proceed, CommandInv
<1>4. command'[c] = step /\ command' \in [Commands -> {"intake", "blocked", "memory",
        "memory:busy", "brain", "brain:busy", "synthesis", "persistence", "feedback",
        "succeeded", "failed"}]
  BY DEF Proceed, CommandInv
<1>5. \A d : Announcements(d)' = Announcements(d)
  BY DEF Announcements
<1> QED BY <1>2, <1>3, <1>4, <1>5 DEF CommandInv, Replied

LEMMA CommandStep ==
    ASSUME CommandInv, [OrgansNext]_organs
    PROVE  CommandInv'
<1>1. CASE UNCHANGED pipeline
  <2>1. \A d : Announcements(d)' = Announcements(d)
    BY DEF Announcements
  <2> QED BY <1>1, <2>1 DEF pipeline, CommandInv, Told
<1>2. ASSUME NEW c \in Commands, FailCommand(c), command[c] \notin {"succeeded", "failed"}
      PROVE  CommandInv'
  BY <1>2, CommandEnds DEF FailCommand
<1>3. ASSUME NEW c \in Commands, Block(c) PROVE CommandInv'
  BY <1>3, CommandProceeds DEF Block
<1>4. ASSUME NEW c \in Commands, Route(c) PROVE CommandInv'
  BY <1>2, <1>4, CommandProceeds DEF Route
<1>5. ASSUME NEW c \in Commands, NEW o \in {"memory", "brain"}, RunStage(c, o) PROVE CommandInv'
  <2>1. command[c] \notin {"succeeded", "failed"}
    BY <1>5 DEF RunStage
  <2>2. CASE isolated[o]
    BY <1>2, <1>5, <2>1, <2>2 DEF RunStage
  <2>3. CASE ~isolated[o]
    <3>1. Running[o] \in {"memory:busy", "brain:busy"}
      BY DEF Running
    <3> QED BY <1>5, <2>1, <2>3, <3>1, CommandProceeds DEF RunStage
  <2> QED BY <2>2, <2>3
<1>6. ASSUME NEW c \in Commands, NEW o \in {"memory", "brain"}, EndStage(c, o) PROVE CommandInv'
  <2>1. command[c] \notin {"succeeded", "failed"} /\ After[o] \in {"brain", "synthesis"}
    BY <1>6 DEF EndStage, Running, After
  <2>2. CASE Proceed(c, After[o]) /\ UNCHANGED <<stored, events>>
    BY <2>1, <2>2, CommandProceeds
  <2>3. CASE FailCommand(c)
    BY <1>2, <2>1, <2>3
  <2> QED BY <1>6, <2>2, <2>3 DEF EndStage
<1>7. ASSUME NEW c \in Commands, Synthesize(c) PROVE CommandInv'
  BY <1>2, <1>7, CommandProceeds DEF Synthesize
<1>8. ASSUME NEW c \in Commands, PersistAnswer(c) PROVE CommandInv'
  BY <1>8, CommandProceeds DEF PersistAnswer
<1>9. ASSUME NEW c \in Commands, NEW kept \in {"answer", "feedback"}, LosePersist(c, kept)
      PROVE  CommandInv'
  BY <1>9, CommandEnds DEF LosePersist
<1>10. ASSUME NEW c \in Commands, CollectFeedback(c) PROVE CommandInv'
  <2>1. <<c, "answer">> \in stored
    BY <1>10 DEF CollectFeedback, CommandInv, Replied
  <2> QED BY <1>10, <2>1, CommandEnds DEF CollectFeedback
<1>11. ASSUME \/ \E c \in Calls, o \in Dispatched : BeginCall(c, o)
              \/ \E c \in Calls, succeeded \in BOOLEAN : EndCall(c, succeeded)
              \/ \E o \in Organs : Isolate(o) \/ ResetOrgan(o)
              \/ Heal
              \/ UNCHANGED organs
       PROVE  CommandInv'
  BY <1>1, <1>11 DEF BeginCall, EndCall, Isolate, ResetOrgan, Heal, Reset, organs
<1> QED
  BY <1>3, <1>4, <1>5, <1>6, <1>7, <1>8, <1>9, <1>10, <1>11 DEF OrgansNext

(* A command that failed at any stage announces that and nothing else; one    *)
(* that is announced complete has stored its answer and feedback (runCommand, *)
(* recordCommandFailure).                                                   *)
THEOREM CommandsAnnounceTheTruth == ServicesSpec => []CommandsTold
<1>1. ServicesInit => CommandInv
  BY CommandStart DEF ServicesInit
<1>2. CommandInv /\ [ServicesNext]_ServicesVars => CommandInv'
  BY StepsOfServices, CommandStep
<1>3. CommandInv => CommandsTold
  <2> SUFFICES ASSUME CommandInv, NEW c \in Commands
               PROVE  /\ <<c, "command:complete">> \in events =>
                            /\ c \notin Spoken /\ command[c] = "succeeded"
                            /\ {<<c, "answer">>, <<c, "feedback">>} \subseteq stored
                      /\ <<c, "command:error">> \in events =>
                            \A e \in events : e[1] = c => e = <<c, "command:error">>
                      /\ command[c] = "failed" => <<c, "command:error">> \in events
    BY DEF CommandsTold
  <2>1. \A what : <<c, what>> \in events <=> <<c, what>> \in Told(c)
    BY DEF Told
  <2>2. \A e \in events : e[1] = c => e \in Told(c)
    BY DEF Told
  <2>3. /\ <<c, "command:complete">> \in Announcements(c) => c \notin Spoken
        /\ <<c, "command:error">> \notin Announcements(c)
    BY DEF Announcements
  <2> QED BY <2>1, <2>2, <2>3 DEF CommandInv, Replied
<1> QED BY <1>1, <1>2, <1>3, PTL DEF ServicesSpec

------------------------------------------------------------------------------
(* MissionDispatch *)

HandRecords ==
    [task : 0 .. Len(Batch), attempt : Nat,
     at : {"next", "valid", "authorize", "succeeded", "failed"}]

Busy(h) == hand[h].at # "next"

(* The worker has called the adapter and has not recorded the outcome. *)
Called(h) == hand[h].at \in {"succeeded", "failed"}

DispatchTypes ==
    /\ cursor \in 1 .. Len(Batch) + 1
    /\ hand \in [Hands -> HandRecords]
    /\ results \in [Tasks -> {"none", "SUCCESS", "FAILED"}]
    /\ log \in [Tasks -> {"none", "SUCCESS", "FAILED"}]
    /\ calls \in [Tasks -> Nat]
    /\ evidence \in [Tasks -> SUBSET {"succeeded", "failed"}]

(* A task taken is in one hand, and was called once per attempt. *)
HandKnown(h) ==
    Busy(h) =>
        /\ hand[h].task \in 1 .. cursor - 1
        /\ results[TaskOf(h)] = "none"
        /\ hand[h].attempt <= MaxRetries
        /\ hand[h].attempt > 0 => TaskOf(h) \in RetrySafe
        /\ calls[TaskOf(h)] = hand[h].attempt + IF Called(h) THEN 1 ELSE 0

TaskKnown(t) ==
    /\ calls[t] <= IF t \in RetrySafe THEN MaxRetries + 1 ELSE 1
    /\ results[t] = "SUCCESS" => calls[t] > 0 /\ "succeeded" \in evidence[t]

DispatchInv ==
    /\ DispatchTypes
    /\ \A h \in Hands : HandKnown(h)
    /\ \A g, h \in Hands : Busy(g) /\ Busy(h) /\ hand[g].task = hand[h].task => g = h
    /\ \A i \in cursor .. Len(Batch) : results[Batch[i]] = "none" /\ calls[Batch[i]] = 0
    /\ \A t \in Tasks : TaskKnown(t)
    /\ reply # "none" => BatchDone
    /\ reply = "results" => log = results

LEMMA BatchFacts ==
    /\ Len(Batch) \in Nat
    /\ \A i \in 1 .. Len(Batch) : Batch[i] \in Tasks
    /\ \A i, j \in 1 .. Len(Batch) : Batch[i] = Batch[j] => i = j
    /\ \A t \in Tasks : \E i \in 1 .. Len(Batch) : t = Batch[i]
    /\ MaxRetries \in Nat
BY DispatchAssumption DEF Tasks

LEMMA DispatchStart == DispatchInit => DispatchInv
<1> SUFFICES ASSUME DispatchInit PROVE DispatchInv
  OBVIOUS
<1>1. DispatchTypes /\ \A h \in Hands : ~Busy(h)
  BY BatchFacts
     DEF DispatchInit, DispatchTypes, Busy, HandRecords, Resting, NoResults
<1>2. \A t \in Tasks : TaskKnown(t)
  BY BatchFacts DEF DispatchInit, TaskKnown, NoResults
<1>3. \A i \in cursor .. Len(Batch) : results[Batch[i]] = "none" /\ calls[Batch[i]] = 0
  BY BatchFacts DEF DispatchInit, NoResults
<1> QED BY <1>1, <1>2, <1>3 DEF DispatchInit, DispatchInv, HandKnown

(* A worker goes to another step of its attempt, or to the next attempt. *)
LEMMA StepHeld ==
    ASSUME NEW r \in HandRecords,
           NEW step \in {"next", "valid", "authorize", "succeeded", "failed"}
    PROVE  LET held == [r EXCEPT !.at = step]
           IN  /\ held \in HandRecords /\ held.at = step
               /\ held.task = r.task /\ held.attempt = r.attempt
BY DEF HandRecords

LEMMA AttemptHeld ==
    ASSUME NEW r \in HandRecords
    PROVE  LET held == [r EXCEPT !.attempt = @ + 1]
           IN  /\ held \in HandRecords /\ held.at = r.at
               /\ held.task = r.task /\ held.attempt = r.attempt + 1
BY DEF HandRecords

LEMMA HandMoved ==
    ASSUME hand \in [Hands -> HandRecords], NEW h \in Hands,
           NEW step \in {"next", "valid", "authorize", "succeeded", "failed"},
           hand' = [hand EXCEPT ![h].at = step]
    PROVE  /\ hand' \in [Hands -> HandRecords]
           /\ hand'[h].at = step
           /\ hand'[h].task = hand[h].task /\ hand'[h].attempt = hand[h].attempt
           /\ \A g \in Hands : g # h => hand'[g] = hand[g]
<1> DEFINE held == [hand[h] EXCEPT !.at = step]
<1>1. hand' = [hand EXCEPT ![h] = held]
  OBVIOUS
<1>2. /\ held \in HandRecords /\ held.at = step
      /\ held.task = hand[h].task /\ held.attempt = hand[h].attempt
  BY StepHeld
<1> HIDE DEF held
<1> QED BY <1>1, <1>2

LEMMA HandRetries ==
    ASSUME hand \in [Hands -> HandRecords], NEW h \in Hands,
           hand' = [hand EXCEPT ![h].attempt = @ + 1, ![h].at = "authorize"]
    PROVE  /\ hand' \in [Hands -> HandRecords]
           /\ hand'[h].at = "authorize"
           /\ hand'[h].task = hand[h].task /\ hand'[h].attempt = hand[h].attempt + 1
           /\ \A g \in Hands : g # h => hand'[g] = hand[g]
<1> DEFINE next == [hand[h] EXCEPT !.attempt = @ + 1]
           held == [next EXCEPT !.at = "authorize"]
<1>1. hand' = [hand EXCEPT ![h] = held]
  OBVIOUS
<1>2. /\ next \in HandRecords
      /\ next.task = hand[h].task /\ next.attempt = hand[h].attempt + 1
  BY AttemptHeld
<1> HIDE DEF next
<1>3. /\ held \in HandRecords /\ held.at = "authorize"
      /\ held.task = hand[h].task /\ held.attempt = hand[h].attempt + 1
  BY <1>2, StepHeld
<1> HIDE DEF held
<1> QED BY <1>1, <1>3

(* A worker with a task in hand changes the rows of that task only.        *)
LEMMA OneTaskMoves ==
    ASSUME DispatchInv, NEW h \in Hands, Busy(h), NEW t, t = TaskOf(h),
           UNCHANGED <<cursor, log, reply, batches>>, DispatchTypes',
           \A u \in Tasks : u # t =>
               results'[u] = results[u] /\ calls'[u] = calls[u] /\ evidence'[u] = evidence[u],
           \A g \in Hands : g # h => hand'[g] = hand[g],
           Busy(h)' => hand'[h].task = hand[h].task,
           HandKnown(h)',
           TaskKnown(t)'
    PROVE  DispatchInv'
<1>1. /\ hand[h].task \in 1 .. cursor - 1 /\ cursor - 1 <= Len(Batch) /\ cursor \in Nat
      /\ t \in Tasks /\ results[t] = "none"
  BY BatchFacts DEF DispatchInv, DispatchTypes, HandKnown, TaskOf
<1>2. reply = "none"
  BY <1>1 DEF DispatchInv, BatchDone
<1>3. ASSUME NEW g \in Hands, g # h, Busy(g)
      PROVE  /\ Busy(g)' /\ hand'[g] = hand[g] /\ hand[g].task \in 1 .. cursor - 1
             /\ hand[g].task # hand[h].task
             /\ TaskOf(g) \in Tasks /\ TaskOf(g) # t /\ TaskOf(g)' = TaskOf(g)
  BY <1>1, <1>3, BatchFacts DEF DispatchInv, HandKnown, Busy, TaskOf
<1>4. ASSUME NEW g \in Hands PROVE HandKnown(g)'
  <2>1. CASE g = h
    BY <2>1
  <2>2. CASE g # h /\ Busy(g)
    BY <1>3, <2>2 DEF DispatchInv, HandKnown, Called
  <2>3. CASE g # h /\ ~Busy(g)
    BY <2>3 DEF HandKnown, Busy
  <2> QED BY <2>1, <2>2, <2>3
<1>5. ASSUME NEW f \in Hands, NEW g \in Hands, Busy(f)', Busy(g)', hand'[f].task = hand'[g].task
      PROVE  f = g
  <2>1. (f # h => Busy(f) /\ hand'[f] = hand[f]) /\ (g # h => Busy(g) /\ hand'[g] = hand[g])
    BY <1>5 DEF Busy
  <2>2. CASE f = h \/ g = h
    BY <1>3, <1>5, <2>1, <2>2
  <2>3. CASE f # h /\ g # h
    BY <1>5, <2>1, <2>3 DEF DispatchInv
  <2> QED BY <2>2, <2>3
<1>6. ASSUME NEW i \in cursor' .. Len(Batch)
      PROVE  results'[Batch[i]] = "none" /\ calls'[Batch[i]] = 0
  <2>1. i \in cursor .. Len(Batch) /\ i \in 1 .. Len(Batch) /\ i # hand[h].task
    BY <1>1, BatchFacts
  <2>2. Batch[i] \in Tasks /\ Batch[i] # t
    BY <1>1, <2>1, BatchFacts DEF TaskOf
  <2> QED BY <2>1, <2>2 DEF DispatchInv
<1>7. \A u \in Tasks : TaskKnown(u)'
  BY DEF DispatchInv, TaskKnown
<1> QED BY <1>2, <1>4, <1>5, <1>6, <1>7 DEF DispatchInv

LEMMA DispatchStep ==
    ASSUME DispatchInv, [DispatchNext]_dispatch
    PROVE  DispatchInv'
<1> USE BatchFacts
<1>0. ASSUME NEW h \in Hands, Busy(h)
      PROVE  /\ TaskOf(h) \in Tasks /\ results[TaskOf(h)] = "none"
             /\ calls[TaskOf(h)] \in Nat /\ hand[h].attempt \in Nat
             /\ hand[h].task \in 0 .. Len(Batch)
  <2>1. hand[h] \in HandRecords /\ cursor \in 1 .. Len(Batch) + 1
    BY DEF DispatchInv, DispatchTypes
  <2>2. hand[h].task \in 0 .. Len(Batch) /\ hand[h].attempt \in Nat
    BY <2>1 DEF HandRecords
  <2>3. hand[h].task \in 1 .. Len(Batch) /\ results[TaskOf(h)] = "none"
    BY <1>0, <2>1, <2>2 DEF DispatchInv, HandKnown
  <2>4. TaskOf(h) \in Tasks
    BY <2>3 DEF TaskOf
  <2> QED BY <2>2, <2>3, <2>4 DEF DispatchInv, DispatchTypes
<1>1. CASE UNCHANGED dispatch
  BY <1>1 DEF dispatch, DispatchInv, DispatchTypes, HandKnown, TaskKnown, Busy, Called, TaskOf,
              BatchDone
<1>2. ASSUME NEW h \in Hands, TakeTask(h) PROVE DispatchInv'
  <2>1. /\ ~Busy(h) /\ cursor \in 1 .. Len(Batch) /\ cursor' = cursor + 1
        /\ hand' = [hand EXCEPT ![h] = [task |-> cursor, attempt |-> 0, at |-> "valid"]]
        /\ UNCHANGED <<results, log, reply, batches, calls, evidence>>
    BY <1>2 DEF TakeTask, DispatchInv, DispatchTypes, Busy
  <2>2. DispatchTypes'
    BY <2>1 DEF DispatchInv, DispatchTypes, HandRecords
  <2>3. /\ hand'[h] = [task |-> cursor, attempt |-> 0, at |-> "valid"]
        /\ \A g \in Hands : g # h => hand'[g] = hand[g]
    BY <2>1 DEF DispatchInv, DispatchTypes
  <2>4. ASSUME NEW g \in Hands PROVE HandKnown(g)'
    <3>1. CASE g = h
      BY <2>1, <2>3, <3>1 DEF DispatchInv, HandKnown, Called, TaskOf
    <3>2. CASE g # h
      BY <2>1, <2>3, <3>2 DEF DispatchInv, HandKnown, Busy, Called, TaskOf
    <3> QED BY <3>1, <3>2
  <2>5. \A f, g \in Hands : Busy(f)' /\ Busy(g)' /\ hand'[f].task = hand'[g].task => f = g
    <3>1. \A g \in Hands : g # h /\ Busy(g)' => Busy(g) /\ hand'[g].task # cursor
      BY <2>1, <2>3 DEF DispatchInv, HandKnown, Busy
    <3> QED BY <2>3, <3>1 DEF DispatchInv
  <2>6. \A i \in cursor' .. Len(Batch) : results'[Batch[i]] = "none" /\ calls'[Batch[i]] = 0
    BY <2>1 DEF DispatchInv
  <2>7. /\ \A t \in Tasks : TaskKnown(t)'
        /\ reply' # "none" => BatchDone'
        /\ reply' = "results" => log' = results'
    BY <2>1 DEF DispatchInv, TaskKnown, BatchDone
  <2> QED BY <2>2, <2>4, <2>5, <2>6, <2>7 DEF DispatchInv
<1>3. ASSUME NEW h \in Hands, ValidateTask(h) PROVE DispatchInv'
  <2>1. /\ Busy(h) /\ ~Called(h)
        /\ hand' = [hand EXCEPT ![h].at = "authorize"]
        /\ UNCHANGED <<cursor, log, reply, batches, results, calls, evidence>>
    BY <1>3 DEF ValidateTask, Move, Bookkeeping, Busy, Called
  <2>2. /\ hand' \in [Hands -> HandRecords]
        /\ hand'[h].at = "authorize" /\ hand'[h].task = hand[h].task
        /\ hand'[h].attempt = hand[h].attempt
        /\ \A g \in Hands : g # h => hand'[g] = hand[g]
    BY <2>1, HandMoved DEF DispatchInv, DispatchTypes
  <2>3. DispatchTypes'
    BY <2>1, <2>2 DEF DispatchInv, DispatchTypes
  <2>4. HandKnown(h)' /\ TaskKnown(TaskOf(h))'
    BY <1>0, <2>1, <2>2 DEF DispatchInv, HandKnown, TaskKnown, Called, TaskOf
  <2>5. TaskOf(h)' = TaskOf(h)
    BY <2>2 DEF TaskOf
  <2> QED BY <2>1, <2>2, <2>3, <2>4, <2>5, OneTaskMoves
<1>4. ASSUME NEW h \in Hands, NEW outcome \in {"SUCCESS", "FAILED"}, Busy(h), Leave(h, outcome),
             UNCHANGED <<Bookkeeping, calls>>,
             evidence' \in [Tasks -> SUBSET {"succeeded", "failed"}],
             \A t \in Tasks : evidence[t] \subseteq evidence'[t],
             \A t \in Tasks : t # TaskOf(h) => evidence'[t] = evidence[t],
             outcome = "SUCCESS" => hand[h].at = "succeeded" /\ "succeeded" \in evidence'[TaskOf(h)]
      PROVE  DispatchInv'
  <2>1. /\ hand' \in [Hands -> HandRecords]
        /\ hand'[h] = Resting
        /\ \A g \in Hands : g # h => hand'[g] = hand[g]
    BY <1>4 DEF Leave, Resting, HandRecords, DispatchInv, DispatchTypes
  <2>2. /\ results' \in [Tasks -> {"none", "SUCCESS", "FAILED"}]
        /\ results'[TaskOf(h)] = outcome
        /\ \A t \in Tasks : t # TaskOf(h) => results'[t] = results[t]
    BY <1>0, <1>4 DEF Leave, DispatchInv, DispatchTypes
  <2>3. DispatchTypes' /\ UNCHANGED <<cursor, log, reply, batches, calls>>
    BY <1>4, <2>1, <2>2 DEF DispatchInv, DispatchTypes, Bookkeeping
  <2>4. ~Busy(h)'
    BY <2>1 DEF Busy, Resting
  <2>5. outcome = "SUCCESS" => calls[TaskOf(h)] > 0
    BY <1>0, <1>4 DEF DispatchInv, HandKnown, Called
  <2>6. PICK u \in Tasks : u = TaskOf(h)
    BY <1>0, <1>4
  <2>7. TaskKnown(u)'
    BY <1>4, <2>2, <2>3, <2>5, <2>6 DEF DispatchInv, TaskKnown
  <2> QED BY <1>4, <2>1, <2>2, <2>3, <2>4, <2>6, <2>7, OneTaskMoves DEF HandKnown
<1>5. ASSUME NEW h \in Hands, RejectTask(h) PROVE DispatchInv'
  <2>1. Busy(h) /\ Leave(h, "FAILED") /\ UNCHANGED <<Bookkeeping, calls, evidence>>
    BY <1>5 DEF RejectTask, Busy
  <2>2. evidence' \in [Tasks -> SUBSET {"succeeded", "failed"}]
    BY <2>1 DEF DispatchInv, DispatchTypes
  <2> QED BY <1>4, <2>1, <2>2
<1>6. ASSUME NEW h \in Hands, CallAdapter(h) PROVE DispatchInv'
  <2>1. /\ Busy(h) /\ ~Called(h)
        /\ calls' = [calls EXCEPT ![TaskOf(h)] = @ + 1]
        /\ UNCHANGED <<cursor, log, reply, batches, results, evidence>>
    BY <1>6 DEF CallAdapter, Bookkeeping, Busy, Called
  <2>2. PICK outcome \in {"succeeded", "failed"} : hand' = [hand EXCEPT ![h].at = outcome]
    BY <1>6 DEF CallAdapter, Move
  <2>3. /\ hand' \in [Hands -> HandRecords]
        /\ hand'[h].at = outcome /\ hand'[h].task = hand[h].task
        /\ hand'[h].attempt = hand[h].attempt
        /\ \A g \in Hands : g # h => hand'[g] = hand[g]
    BY <2>2, HandMoved DEF DispatchInv, DispatchTypes
  <2>4. PICK t \in Tasks : t = TaskOf(h)
    BY <1>0, <2>1
  <2>5. /\ calls' \in [Tasks -> Nat] /\ calls'[t] = calls[t] + 1
        /\ \A u \in Tasks : u # t => calls'[u] = calls[u]
    BY <2>1, <2>4 DEF DispatchInv, DispatchTypes
  <2>6. DispatchTypes'
    BY <2>1, <2>3, <2>5 DEF DispatchInv, DispatchTypes
  <2>7. TaskOf(h)' = t
    BY <2>3, <2>4 DEF TaskOf
  <2>8. HandKnown(h)' /\ TaskKnown(t)'
    BY <1>0, <2>1, <2>3, <2>4, <2>5, <2>7 DEF DispatchInv, HandKnown, TaskKnown, Called
  <2> QED BY <2>1, <2>3, <2>4, <2>5, <2>6, <2>8, OneTaskMoves
<1>7. ASSUME NEW h \in Hands, PersistOutcome(h) PROVE DispatchInv'
  <2>1. /\ Busy(h) /\ Called(h)
        /\ evidence' = [evidence EXCEPT ![TaskOf(h)] = @ \cup {hand[h].at}]
        /\ UNCHANGED <<Bookkeeping, calls>>
    BY <1>7 DEF PersistOutcome, Busy, Called
  <2>2. PICK t \in Tasks : t = TaskOf(h)
    BY <1>0, <2>1
  <2>3. /\ evidence' \in [Tasks -> SUBSET {"succeeded", "failed"}]
        /\ \A u \in Tasks : evidence[u] \subseteq evidence'[u]
        /\ \A u \in Tasks : u # t => evidence'[u] = evidence[u]
        /\ hand[h].at \in evidence'[t]
    BY <2>1, <2>2 DEF DispatchInv, DispatchTypes, Called
  <2>4. CASE hand[h].at = "failed" /\ Retriable(h)
    <3>1. /\ hand' = [hand EXCEPT ![h].attempt = @ + 1, ![h].at = "authorize"]
          /\ results' = results
      BY <1>7, <2>4 DEF PersistOutcome
    <3>2. /\ hand' \in [Hands -> HandRecords]
          /\ hand'[h].at = "authorize" /\ hand'[h].task = hand[h].task
          /\ hand'[h].attempt = hand[h].attempt + 1
          /\ \A g \in Hands : g # h => hand'[g] = hand[g]
      BY <3>1, HandRetries DEF DispatchInv, DispatchTypes
    <3>3. DispatchTypes'
      BY <2>1, <2>3, <3>1, <3>2 DEF DispatchInv, DispatchTypes, Bookkeeping
    <3>4. TaskOf(h)' = t
      BY <2>1, <2>2, <3>2 DEF TaskOf
    <3>5. HandKnown(h)'
      BY <1>0, <2>1, <2>2, <2>4, <3>1, <3>2, <3>4
         DEF DispatchInv, HandKnown, Called, Retriable, Bookkeeping
    <3>6. TaskKnown(t)'
      BY <2>1, <2>3, <3>1 DEF DispatchInv, TaskKnown
    <3> QED BY <2>1, <2>2, <2>3, <3>1, <3>2, <3>3, <3>5, <3>6, OneTaskMoves DEF Bookkeeping
  <2>5. CASE ~(hand[h].at = "failed" /\ Retriable(h))
    <3> DEFINE outcome == IF hand[h].at = "succeeded" THEN "SUCCESS" ELSE "FAILED"
    <3>1. Leave(h, outcome)
      BY <1>7, <2>5 DEF PersistOutcome
    <3>2. outcome \in {"SUCCESS", "FAILED"}
      OBVIOUS
    <3> QED BY <1>4, <2>1, <2>2, <2>3, <3>1, <3>2
  <2> QED BY <2>4, <2>5
<1>8. ASSUME NEW h \in Hands, PersistLost(h) PROVE DispatchInv'
  <2>1. /\ Busy(h) /\ Called(h) /\ Leave(h, "FAILED")
        /\ UNCHANGED <<Bookkeeping, calls>>
    BY <1>8 DEF PersistLost, Busy, Called
  <2>2. PICK written \in BOOLEAN :
            evidence' = [evidence EXCEPT ![TaskOf(h)] = IF written THEN @ \cup {hand[h].at} ELSE @]
    BY <1>8 DEF PersistLost
  <2>3. /\ evidence' \in [Tasks -> SUBSET {"succeeded", "failed"}]
        /\ \A u \in Tasks : evidence[u] \subseteq evidence'[u]
        /\ \A u \in Tasks : u # TaskOf(h) => evidence'[u] = evidence[u]
    BY <1>0, <2>1, <2>2 DEF DispatchInv, DispatchTypes, Called
  <2> QED BY <1>4, <2>1, <2>3
<1>9. CASE AnswerBatch
  <2>1. PICK lost \in SUBSET Tasks, written \in SUBSET Tasks :
            /\ log' = Logged(lost, written)
            /\ reply' = IF AllRecorded(lost) THEN "results" ELSE "unavailable"
    BY <1>9 DEF AnswerBatch
  <2>2. BatchDone /\ UNCHANGED <<cursor, hand, results, batches, calls, evidence>>
    BY <1>9 DEF AnswerBatch
  <2>3. log' \in [Tasks -> {"none", "SUCCESS", "FAILED"}]
    BY <2>1 DEF Logged, DispatchInv, DispatchTypes
  <2>4. reply' = "results" => log' = results
    BY <2>1 DEF AllRecorded, Logged, DispatchInv, DispatchTypes
  <2>5. DispatchTypes'
    BY <2>2, <2>3 DEF DispatchInv, DispatchTypes
  <2> QED BY <2>2, <2>4, <2>5
          DEF DispatchInv, HandKnown, TaskKnown, Busy, Called, TaskOf, BatchDone
<1>10. CASE SendAgain
  <2>1. /\ cursor' = 1 /\ hand' = [h \in Hands |-> Resting] /\ results' = NoResults
        /\ reply' = "none" /\ calls' = [t \in Tasks |-> 0] /\ evidence' = [t \in Tasks |-> {}]
        /\ log' = log
    BY <1>10 DEF SendAgain, BatchStarts
  <2>2. DispatchTypes' /\ \A h \in Hands : ~Busy(h)'
    BY <2>1 DEF DispatchInv, DispatchTypes, Busy, HandRecords, Resting, NoResults
  <2>3. \A t \in Tasks : TaskKnown(t)'
    BY <2>1 DEF TaskKnown, NoResults
  <2>4. \A i \in cursor' .. Len(Batch) : results'[Batch[i]] = "none" /\ calls'[Batch[i]] = 0
    BY <2>1 DEF NoResults
  <2> QED BY <2>1, <2>2, <2>3, <2>4 DEF DispatchInv, HandKnown
<1> QED
  BY <1>1, <1>2, <1>3, <1>5, <1>6, <1>7, <1>8, <1>9, <1>10 DEF DispatchNext

(* For any batch, any number of workers and any interleaving, a task that is *)
(* not retry-safe calls its adapter at most once, a success has its evidence, *)
(* and results are returned only if the log holds exactly them               *)
(* (dispatchMissionBatch, logEvent).                                        *)
THEOREM TasksAreDispatchedOnce == ServicesSpec => []DispatchedOnce
<1>1. ServicesInit => DispatchInv
  BY DispatchStart DEF ServicesInit
<1>2. DispatchInv /\ [ServicesNext]_ServicesVars => DispatchInv'
  BY StepsOfServices, DispatchStep
<1>3. DispatchInv => DispatchedOnce
  BY DEF DispatchInv, TaskKnown, DispatchedOnce
<1> QED BY <1>1, <1>2, <1>3, PTL DEF ServicesSpec

------------------------------------------------------------------------------
(* CompletionRounds *)

RunStates == {"off", "open", "run", "messages", "review", "evaluate", "final"}

CompletionReviews ==
    [snapshot : [tasks : Nat, artifacts : SUBSET Nat], verdict : {"complete", "continue", "blocked"}]

RunRecords ==
    [pc : RunStates, tasks : Nat, left : SUBSET Nat, artifacts : SUBSET Nat,
     known : SUBSET CompletionReviews]

TaskStates == {"queued", "succeeded", "blocked"}

CompletionTypes ==
    /\ mission \in [status : {"queued", "running", "waiting", "succeeded"}, resumes : Nat]
    /\ tasks \in Seq(TaskStates) /\ 1 \in DOMAIN tasks
    /\ artifacts \in SUBSET (DOMAIN tasks)
    /\ reviews \in SUBSET CompletionReviews /\ IsFiniteSet(reviews)
    /\ lead \in [owner : Runners, live : BOOLEAN]
    /\ at \in [Runners -> RunRecords]
    /\ rounds \in [Runners -> Nat]
    /\ late \in SUBSET (DOMAIN tasks)

(* What a run has read, with or without the lease, is still so of the tasks   *)
(* it knew; what was added to them since, it does not know.                  *)
RunKnows(w) ==
    /\ at[w].pc \notin {"off", "open"} =>
           at[w].tasks \in DOMAIN tasks /\ at[w].left \subseteq 1..at[w].tasks
    /\ at[w].pc = "run" => \A i \in 1..at[w].tasks : i \in at[w].left \/ tasks[i] = "succeeded"
    /\ at[w].pc \in {"messages", "review", "evaluate", "final"} =>
           /\ \A i \in 1..at[w].tasks : tasks[i] = "succeeded" /\ i \in at[w].artifacts
           /\ at[w].artifacts \subseteq DOMAIN tasks
    /\ at[w].pc = "review" => at[w].known \subseteq reviews /\ rounds[w] <= Cardinality(at[w].known)
    /\ at[w].pc \in {"evaluate", "final"} => \E r \in reviews : r.snapshot = Snapshot(w)
    /\ at[w].pc = "final" => JudgedOn(at[w].tasks)

RoundsKnown ==
    /\ \A w \in Runners : rounds[w] <= Cardinality(reviews) /\ rounds[w] <= MaxRounds
    /\ IsFiniteSet(DOMAIN tasks \ late)
    /\ Cardinality(DOMAIN tasks \ late) <= 1 + Cardinality(reviews)
    /\ Cardinality(DOMAIN tasks \ late) <= 1 + MaxRounds

CompletionInv ==
    /\ CompletionTypes
    /\ \A i \in DOMAIN tasks : tasks[i] = "succeeded" => i \in artifacts
    /\ \A w \in Runners : RunKnows(w)
    /\ SuccessJudged
    /\ RoundsKnown

(* What is stored stays; and a task that is added below a review of all       *)
(* there were is one of a run that had been overtaken.                      *)
Grown ==
    /\ reviews \subseteq reviews' /\ late \subseteq late'
    /\ Len(tasks) <= Len(tasks')
    /\ \A i \in DOMAIN tasks : tasks[i] = "succeeded" => tasks'[i] = "succeeded"
    /\ Len(tasks) < Len(tasks') =>
           \/ Len(tasks) + 1 \in late'
           \/ ~ \E r \in reviews : r.snapshot = [tasks |-> Len(tasks), artifacts |-> 1..Len(tasks)]

LEMMA LeastNat ==
    ASSUME NEW T, T \subseteq Nat, T # {}
    PROVE  \E n \in T : \A m \in T : n <= m
<1>1. IsWellFoundedOn(OpToRel(<, Nat), Nat)
  BY NatLessThanWellFounded
<1>2. PICK n \in T : \A m \in T : ~(<<m, n>> \in OpToRel(<, Nat))
  BY <1>1, WFMin, Zenon
<1>3. ASSUME NEW m \in T PROVE n <= m
  <2>1. <<m, n>> \notin OpToRel(<, Nat)
    BY <1>2
  <2>2. ~(m < n)
    BY <2>1 DEF OpToRel
  <2> QED BY <2>2
<1> QED BY <1>3

LEMMA TurnIsLeft ==
    ASSUME CompletionTypes, NEW w \in Runners, at[w].left # {}
    PROVE  Turn(w) \in at[w].left /\ Turn(w) \in Nat
<1>1. at[w] \in RunRecords
  BY DEF CompletionTypes
<1>2. at[w].left \subseteq Nat
  BY <1>1 DEF RunRecords
<1>3. \E n \in at[w].left : \A m \in at[w].left : n <= m
  BY <1>2, LeastNat
<1> QED BY <1>2, <1>3 DEF Turn, Min

(* Filing a review keeps those that are there.                            *)
LEMMA FiledKeeps ==
    ASSUME CompletionTypes, NEW w \in Runners, NEW word \in {"complete", "continue", "blocked"}
    PROVE  /\ reviews \subseteq Filed(w, word)
           /\ Filed(w, word) \subseteq CompletionReviews
           /\ IsFiniteSet(Filed(w, word))
           /\ Cardinality(reviews) \in Nat
           /\ Cardinality(Filed(w, word)) \in Nat
           /\ Cardinality(reviews) <= Cardinality(Filed(w, word))
           /\ ~(\E r \in reviews : r.snapshot = Snapshot(w)) =>
                 Cardinality(Filed(w, word)) = Cardinality(reviews) + 1
<1> DEFINE new == [snapshot |-> Snapshot(w), verdict |-> word]
<1>1. at[w] \in RunRecords /\ IsFiniteSet(reviews)
  BY DEF CompletionTypes
<1>2. Snapshot(w) \in [tasks : Nat, artifacts : SUBSET Nat]
  BY <1>1 DEF RunRecords, Snapshot
<1>3. new \in CompletionReviews /\ new.snapshot = Snapshot(w)
  BY <1>2 DEF CompletionReviews
<1>4. Filed(w, word) = IF \E r \in reviews : r.snapshot = Snapshot(w) THEN reviews
                  ELSE reviews \cup {new}
  BY DEF Filed
<1> HIDE DEF new
<1>5. Cardinality(reviews) \in Nat
  BY <1>1, FS_CardinalityType
<1>6. CASE \E r \in reviews : r.snapshot = Snapshot(w)
  BY <1>1, <1>4, <1>5, <1>6 DEF CompletionTypes
<1>7. CASE ~(\E r \in reviews : r.snapshot = Snapshot(w))
  <2>1. new \notin reviews
    BY <1>3, <1>7
  <2>2. /\ IsFiniteSet(reviews \cup {new})
        /\ Cardinality(reviews \cup {new}) = Cardinality(reviews) + 1
    BY <1>1, <2>1, FS_AddElement
  <2> QED BY <1>3, <1>4, <1>5, <1>7, <2>2 DEF CompletionTypes
<1> QED BY <1>6, <1>7

(* One field of what a run has read is replaced at a time. *)
LEMMA RunRead ==
    ASSUME NEW r \in RunRecords
    PROVE  /\ \A p \in RunStates :
                 LET s == [r EXCEPT !.pc = p]
                 IN  /\ s \in RunRecords /\ s.pc = p /\ s.tasks = r.tasks /\ s.left = r.left
                     /\ s.artifacts = r.artifacts /\ s.known = r.known
           /\ \A n \in Nat :
                 LET s == [r EXCEPT !.tasks = n]
                 IN  /\ s \in RunRecords /\ s.pc = r.pc /\ s.tasks = n /\ s.left = r.left
                     /\ s.artifacts = r.artifacts /\ s.known = r.known
           /\ \A S \in SUBSET Nat :
                 LET s == [r EXCEPT !.left = S]
                 IN  /\ s \in RunRecords /\ s.pc = r.pc /\ s.tasks = r.tasks /\ s.left = S
                     /\ s.artifacts = r.artifacts /\ s.known = r.known
           /\ \A S \in SUBSET Nat :
                 LET s == [r EXCEPT !.artifacts = S]
                 IN  /\ s \in RunRecords /\ s.pc = r.pc /\ s.tasks = r.tasks /\ s.left = r.left
                     /\ s.artifacts = S /\ s.known = r.known
           /\ \A S \in SUBSET CompletionReviews :
                 LET s == [r EXCEPT !.known = S]
                 IN  /\ s \in RunRecords /\ s.pc = r.pc /\ s.tasks = r.tasks /\ s.left = r.left
                     /\ s.artifacts = r.artifacts /\ s.known = S
BY DEF RunRecords

LEMMA CompletionStart == CompletionInit => CompletionInv
<1> SUFFICES ASSUME CompletionInit PROVE CompletionInv
  OBVIOUS
<1>1. lead \in [owner : Runners, live : BOOLEAN]
  BY CompletionAssumption DEF CompletionInit
<1>2. Off \in RunRecords /\ Off.pc = "off"
  BY DEF Off, RunRecords, RunStates
<1>3. at \in [Runners -> RunRecords] /\ \A w \in Runners : at[w].pc = "off"
  BY <1>2 DEF CompletionInit
<1>4. /\ IsFiniteSet(reviews) /\ Cardinality(reviews) = 0 /\ reviews = {}
      /\ tasks = <<"queued">> /\ artifacts = {} /\ late = {}
      /\ mission = [status |-> "queued", resumes |-> 0]
      /\ rounds = [w \in Runners |-> 0]
  BY FS_EmptySet DEF CompletionInit
<1>5. DOMAIN tasks = {1} /\ tasks[1] = "queued"
  BY <1>4
<1>6. CompletionTypes
  BY <1>1, <1>3, <1>4, <1>5 DEF CompletionTypes, TaskStates
<1>7. IsFiniteSet(DOMAIN tasks \ late) /\ Cardinality(DOMAIN tasks \ late) = 1
  <2>1. DOMAIN tasks \ late = {1}
    BY <1>4, <1>5
  <2> QED BY <2>1, FS_Singleton
<1>8. RoundsKnown
  BY <1>4, <1>7, CompletionAssumption DEF RoundsKnown
<1>9. \A w \in Runners : RunKnows(w)
  BY <1>3 DEF RunKnows
<1>10. SuccessJudged
  BY <1>4 DEF SuccessJudged
<1> QED BY <1>5, <1>6, <1>8, <1>9, <1>10 DEF CompletionInv

(* A judgement once passed stays. *)
LEMMA JudgementStays ==
    ASSUME CompletionTypes, CompletionTypes', Grown, NEW n \in DOMAIN tasks, JudgedOn(n)
    PROVE  JudgedOn(n)' /\ n \in DOMAIN tasks'
<1>1. /\ DOMAIN tasks = 1..Len(tasks) /\ DOMAIN tasks' = 1..Len(tasks') /\ n \in Nat
      /\ Len(tasks) \in Nat /\ Len(tasks') \in Nat
  BY DEF CompletionTypes
<1>2. n <= Len(tasks) /\ Len(tasks) <= Len(tasks') /\ n \in DOMAIN tasks'
  BY <1>1 DEF Grown
<1>3. \E r \in reviews' : r.snapshot = [tasks |-> n, artifacts |-> 1..n]
  BY DEF JudgedOn, Grown
<1>4. \A i \in 1..n : tasks'[i] = "succeeded"
  BY <1>1, <1>2 DEF JudgedOn, Grown
<1>5. ASSUME n < Len(tasks') PROVE n + 1 \in late'
  <2>1. CASE n < Len(tasks)
    BY <2>1 DEF JudgedOn, Grown
  <2>2. CASE n = Len(tasks)
    BY <1>5, <2>2 DEF JudgedOn, Grown
  <2> QED BY <1>1, <1>2, <2>1, <2>2
<1> QED BY <1>2, <1>3, <1>4, <1>5 DEF JudgedOn

(* What a run knows stays true while others move. *)
LEMMA KnowledgeStays ==
    ASSUME CompletionTypes, CompletionTypes', Grown, NEW w \in Runners, RunKnows(w),
           at'[w] = at[w], rounds'[w] = rounds[w]
    PROVE  RunKnows(w)'
<1>1. /\ DOMAIN tasks = 1..Len(tasks) /\ DOMAIN tasks' = 1..Len(tasks')
      /\ Len(tasks) \in Nat /\ Len(tasks') \in Nat /\ Len(tasks) <= Len(tasks')
  BY DEF CompletionTypes, Grown
<1>2. DOMAIN tasks \subseteq DOMAIN tasks'
  BY <1>1
<1>3. ASSUME at[w].tasks \in DOMAIN tasks
      PROVE  \A i \in 1..at[w].tasks : i \in DOMAIN tasks /\ (tasks[i] = "succeeded" => tasks'[i] = "succeeded")
  BY <1>1, <1>3 DEF Grown
<1>4. Snapshot(w)' = Snapshot(w)
  BY DEF Snapshot
<1>5. ASSUME at[w].pc = "final" PROVE JudgedOn(at[w].tasks)'
  <2>1. at[w].tasks \in DOMAIN tasks /\ JudgedOn(at[w].tasks)
    BY <1>5 DEF RunKnows
  <2> DEFINE n == at[w].tasks
  <2>2. n \in DOMAIN tasks /\ JudgedOn(n) /\ n = at[w].tasks
    BY <2>1
  <2>3. PICK k \in DOMAIN tasks : JudgedOn(k) /\ k = at[w].tasks
    BY <2>1
  <2>4. JudgedOn(k)'
    BY <2>3, JudgementStays
  <2> QED BY <2>3, <2>4 DEF JudgedOn
<1>6. at[w].pc \notin {"off", "open"} =>
          at[w].tasks \in DOMAIN tasks' /\ at[w].left \subseteq 1..at[w].tasks
  BY <1>2 DEF RunKnows
<1>7. at[w].pc = "run" => \A i \in 1..at[w].tasks : i \in at[w].left \/ tasks'[i] = "succeeded"
  BY <1>3 DEF RunKnows
<1>8. at[w].pc \in {"messages", "review", "evaluate", "final"} =>
          /\ \A i \in 1..at[w].tasks : tasks'[i] = "succeeded" /\ i \in at[w].artifacts
          /\ at[w].artifacts \subseteq DOMAIN tasks'
  BY <1>2, <1>3 DEF RunKnows
<1>9. at[w].pc = "review" => at[w].known \subseteq reviews' /\ rounds[w] <= Cardinality(at[w].known)
  BY DEF RunKnows, Grown
<1>10. at[w].pc \in {"evaluate", "final"} => \E r \in reviews' : r.snapshot = Snapshot(w)
  BY DEF RunKnows, Grown
<1> QED BY <1>4, <1>5, <1>6, <1>7, <1>8, <1>9, <1>10 DEF RunKnows

(* One run moves, and counts no round: it is enough to look at that run. *)
LEMMA RunMoves ==
    ASSUME CompletionInv, CompletionTypes', Grown, UNCHANGED histories,
           Len(tasks') = Len(tasks),
           \A i \in DOMAIN tasks' : tasks'[i] = "succeeded" => i \in artifacts',
           NEW w \in Runners, \A v \in Runners : v # w => at'[v] = at[v],
           at'[w] = at[w] \/ RunKnows(w)',
           mission'.status = "succeeded" => mission.status = "succeeded" \/ \E n \in DOMAIN tasks : JudgedOn(n)
    PROVE  CompletionInv'
<1>1. CompletionTypes /\ rounds' = rounds /\ late' = late
  BY DEF CompletionInv, histories
<1>2. \A v \in Runners : RunKnows(v)'
  BY <1>1, KnowledgeStays DEF CompletionInv
<1>3. SuccessJudged'
  <2>1. SUFFICES ASSUME mission'.status = "succeeded" PROVE \E n \in DOMAIN tasks' : JudgedOn(n)'
    BY DEF SuccessJudged
  <2>2. PICK n \in DOMAIN tasks : JudgedOn(n)
    BY <2>1 DEF CompletionInv, SuccessJudged
  <2> QED BY <1>1, <2>2, JudgementStays
<1>4. RoundsKnown'
  <2>1. /\ Cardinality(reviews) \in Nat /\ Cardinality(reviews') \in Nat
        /\ Cardinality(reviews) <= Cardinality(reviews')
    BY FS_Subset, FS_CardinalityType DEF CompletionInv, CompletionTypes, Grown
  <2>2. DOMAIN tasks' \ late' = DOMAIN tasks \ late
    BY <1>1 DEF CompletionTypes
  <2>3. /\ IsFiniteSet(DOMAIN tasks \ late) /\ Cardinality(DOMAIN tasks \ late) \in Nat
        /\ Cardinality(DOMAIN tasks \ late) <= 1 + Cardinality(reviews)
        /\ Cardinality(DOMAIN tasks \ late) <= 1 + MaxRounds
    BY FS_CardinalityType DEF CompletionInv, RoundsKnown
  <2>4. ASSUME NEW v \in Runners PROVE rounds'[v] <= Cardinality(reviews') /\ rounds'[v] <= MaxRounds
    <3>1. rounds[v] \in Nat /\ rounds[v] <= Cardinality(reviews) /\ rounds[v] <= MaxRounds
      BY DEF CompletionInv, CompletionTypes, RoundsKnown
    <3> QED BY <1>1, <2>1, <3>1
  <2>5. Cardinality(DOMAIN tasks \ late) <= 1 + Cardinality(reviews')
    BY <2>1, <2>3
  <2> QED BY <2>2, <2>3, <2>4, <2>5 DEF RoundsKnown
<1> QED BY <1>2, <1>3, <1>4 DEF CompletionInv

(* A step that writes no row of the mission. *)
LEMMA RunReads ==
    ASSUME CompletionInv, UNCHANGED <<mission, tasks, artifacts, reviews, histories>>,
           lead' \in [owner : Runners, live : BOOLEAN], at' \in [Runners -> RunRecords],
           NEW w \in Runners, \A v \in Runners : v # w => at'[v] = at[v],
           at'[w] = at[w] \/ RunKnows(w)'
    PROVE  CompletionInv'
<1>1. CompletionTypes'
  BY DEF CompletionInv, CompletionTypes, histories
<1>2. Grown
  BY DEF Grown, histories, CompletionInv, CompletionTypes
<1> QED BY <1>1, <1>2, RunMoves DEF CompletionInv

(* The end of a run by itself.                                            *)
LEMMA RunEnds ==
    ASSUME CompletionTypes, NEW w \in Runners, EndRun(w)
    PROVE  /\ at' \in [Runners -> RunRecords] /\ at'[w].pc = "off"
           /\ \A v \in Runners : v # w => at'[v] = at[v]
           /\ lead' \in [owner : Runners, live : BOOLEAN] /\ lead'.owner = lead.owner
<1>1. Off \in RunRecords /\ Off.pc = "off"
  BY DEF Off, RunRecords, RunStates
<1>2. lead' = IF lead.owner = w THEN [lead EXCEPT !.live = FALSE] ELSE lead
  BY DEF EndRun
<1>3. lead' \in [owner : Runners, live : BOOLEAN] /\ lead'.owner = lead.owner
  BY <1>2 DEF CompletionTypes
<1>4. at' = [at EXCEPT ![w] = Off]
  BY DEF EndRun
<1> QED BY <1>1, <1>3, <1>4 DEF CompletionTypes

(* A run ends, having changed at most the status of tasks that are not done,  *)
(* filed a review, or parked the mission.                                   *)
LEMMA RunStops ==
    ASSUME CompletionInv, NEW w \in Runners, EndRun(w), UNCHANGED <<artifacts, histories>>,
           mission' \in [status : {"queued", "running", "waiting", "succeeded"}, resumes : Nat],
           mission'.status = "succeeded" => mission.status = "succeeded" \/ \E n \in DOMAIN tasks : JudgedOn(n),
           tasks' \in Seq(TaskStates), Len(tasks') = Len(tasks),
           \A i \in DOMAIN tasks : tasks[i] = "succeeded" <=> tasks'[i] = "succeeded",
           reviews' \in SUBSET CompletionReviews, IsFiniteSet(reviews'), reviews \subseteq reviews'
    PROVE  CompletionInv'
<1>1. /\ at' \in [Runners -> RunRecords] /\ at'[w].pc = "off"
      /\ \A v \in Runners : v # w => at'[v] = at[v]
      /\ lead' \in [owner : Runners, live : BOOLEAN]
  BY RunEnds DEF CompletionInv
<1>2. DOMAIN tasks' = DOMAIN tasks
  BY DEF CompletionInv, CompletionTypes
<1>3. CompletionTypes'
  BY <1>1, <1>2 DEF CompletionInv, CompletionTypes, histories
<1>4. Grown
  BY DEF Grown, histories, CompletionInv, CompletionTypes
<1>5. RunKnows(w)'
  BY <1>1 DEF RunKnows
<1> QED BY <1>1, <1>2, <1>3, <1>4, <1>5, RunMoves DEF CompletionInv

LEMMA Parked ==
    ASSUME CompletionTypes, Park
    PROVE  /\ mission' \in [status : {"queued", "running", "waiting", "succeeded"}, resumes : Nat]
           /\ mission'.status = "succeeded" => mission.status = "succeeded"
BY DEF CompletionTypes, Park

(* A run continues only where it knows of no review of what it saw, and of   *)
(* fewer reviews than MaxRounds: what it files is one more.                 *)
LEMMA ContinuationCounts ==
    ASSUME CompletionInv, NEW w \in Runners, at[w].pc = "review", "continue" \in Verdicts(w),
           reviews' = Filed(w, "continue")
    PROVE  /\ Prior(w) = {}
           /\ rounds[w] + 1 <= MaxRounds /\ rounds[w] + 1 <= Cardinality(reviews')
           /\ Cardinality(at[w].known) \in Nat /\ Cardinality(at[w].known) < MaxRounds
<1>1. Prior(w) = {} /\ Rounds(w) < MaxRounds
  BY DEF Verdicts
<1>2. at[w].known \subseteq reviews /\ rounds[w] <= Cardinality(at[w].known) /\ rounds[w] \in Nat
  BY DEF CompletionInv, RunKnows, CompletionTypes
<1>3. IsFiniteSet(at[w].known) /\ Cardinality(at[w].known) \in Nat
  BY <1>2, FS_Subset, FS_CardinalityType DEF CompletionInv, CompletionTypes
<1>4. /\ reviews \subseteq reviews' /\ IsFiniteSet(reviews') /\ Cardinality(reviews') \in Nat
  BY FiledKeeps DEF CompletionInv
<1>5. \E r \in reviews' : r.snapshot = Snapshot(w)
  <2> DEFINE new == [snapshot |-> Snapshot(w), verdict |-> "continue"]
  <2>1. new.snapshot = Snapshot(w)
    OBVIOUS
  <2>2. reviews' = IF \E r \in reviews : r.snapshot = Snapshot(w) THEN reviews
                   ELSE reviews \cup {new}
    BY DEF Filed
  <2> HIDE DEF new
  <2> QED BY <2>1, <2>2
<1>6. PICK r \in reviews' : r.snapshot = Snapshot(w)
  BY <1>5
<1>7. r \notin at[w].known
  BY <1>1, <1>6 DEF Prior
<1>8. IsFiniteSet(at[w].known \cup {r}) /\ Cardinality(at[w].known \cup {r}) = Cardinality(at[w].known) + 1
  BY <1>3, <1>7, FS_AddElement
<1>9. at[w].known \cup {r} \subseteq reviews'
  BY <1>2, <1>4, <1>6
<1>10. Cardinality(at[w].known \cup {r}) <= Cardinality(reviews')
  BY <1>4, <1>9, FS_Subset
<1>11. Cardinality(at[w].known) < MaxRounds
  BY <1>1 DEF Rounds
<1> QED BY <1>1, <1>2, <1>3, <1>4, <1>8, <1>10, <1>11, CompletionAssumption

(* The one step that adds a task. *)
LEMMA MissionContinues ==
    ASSUME CompletionInv, NEW w \in Runners, ContinueMission(w)
    PROVE  CompletionInv'
<1> DEFINE n == Len(tasks)
           held == at'[w]
<1>1. /\ at[w].pc = "review" /\ "continue" \in Verdicts(w)
      /\ reviews' = Filed(w, "continue")
      /\ tasks' = Append(tasks, "queued")
      /\ rounds' = [rounds EXCEPT ![w] = @ + 1]
      /\ late' = IF Overtaken(w) THEN late \cup {Len(tasks')} ELSE late
      /\ UNCHANGED <<mission, artifacts, lead>>
  BY DEF ContinueMission
<1>2. CompletionTypes
  BY DEF CompletionInv
<1>3. /\ tasks' \in Seq(TaskStates) /\ n \in Nat /\ Len(tasks') = n + 1
      /\ DOMAIN tasks = 1..n /\ DOMAIN tasks' = 1..(n + 1)
      /\ \A i \in 1..n : tasks'[i] = tasks[i]
      /\ tasks'[n + 1] = "queued"
  BY <1>1, <1>2 DEF CompletionTypes, TaskStates
<1>4. /\ held \in RunRecords /\ held.pc = "run" /\ held.tasks = n + 1
      /\ held.left = {i \in 1..(n + 1) : tasks'[i] # "succeeded"}
      /\ at' \in [Runners -> RunRecords]
      /\ \A v \in Runners : v # w => at'[v] = at[v]
  <2> DEFINE m == Len(tasks')
             S == {i \in DOMAIN tasks' : tasks'[i] # "succeeded"}
             r1 == [at[w] EXCEPT !.pc = "run"]
             r2 == [r1 EXCEPT !.tasks = m]
             r3 == [r2 EXCEPT !.left = S]
  <2>1. at[w] \in RunRecords /\ m \in Nat /\ S \in SUBSET Nat
    BY <1>2, <1>3 DEF CompletionTypes
  <2>2. at' = [at EXCEPT ![w] = r3]
    BY DEF ContinueMission
  <2>3. m = n + 1 /\ S = {i \in 1..(n + 1) : tasks'[i] # "succeeded"}
    BY <1>3
  <2> HIDE DEF m, S, n
  <2>4. r1 \in RunRecords /\ r1.pc = "run"
    BY <2>1, RunRead DEF RunStates
  <2> HIDE DEF r1
  <2>5. r2 \in RunRecords /\ r2.pc = "run" /\ r2.tasks = m
    BY <2>1, <2>4, RunRead
  <2> HIDE DEF r2
  <2>6. r3 \in RunRecords /\ r3.pc = "run" /\ r3.tasks = m /\ r3.left = S
    BY <2>1, <2>5, RunRead
  <2> HIDE DEF r3
  <2>7. at'[w] = r3 /\ at' \in [Runners -> RunRecords] /\ \A v \in Runners : v # w => at'[v] = at[v]
    BY <1>2, <2>2, <2>6 DEF CompletionTypes
  <2> QED BY <2>3, <2>6, <2>7
<1>5. /\ reviews \subseteq reviews' /\ reviews' \subseteq CompletionReviews /\ IsFiniteSet(reviews')
      /\ Cardinality(reviews) \in Nat /\ Cardinality(reviews') \in Nat
      /\ Cardinality(reviews) <= Cardinality(reviews')
      /\ ~(\E r \in reviews : r.snapshot = Snapshot(w)) =>
             Cardinality(reviews') = Cardinality(reviews) + 1
  BY <1>1, <1>2, FiledKeeps
<1>6. /\ Prior(w) = {}
      /\ rounds[w] + 1 <= MaxRounds /\ rounds[w] + 1 <= Cardinality(reviews')
      /\ Cardinality(at[w].known) \in Nat /\ Cardinality(at[w].known) < MaxRounds
  BY <1>1, ContinuationCounts
<1>7. late' \subseteq DOMAIN tasks' /\ late \subseteq late'
  BY <1>1, <1>2, <1>3 DEF CompletionTypes
<1>8. rounds' \in [Runners -> Nat] /\ artifacts' \in SUBSET (DOMAIN tasks')
  BY <1>1, <1>2, <1>3 DEF CompletionTypes
<1>9. CompletionTypes'
  BY <1>1, <1>2, <1>3, <1>4, <1>5, <1>7, <1>8 DEF CompletionTypes
<1>10. ASSUME ~Overtaken(w)
       PROVE  /\ ~ \E r \in reviews : r.snapshot = Snapshot(w)
              /\ Snapshot(w) = [tasks |-> n, artifacts |-> 1..n]
              /\ reviews = at[w].known
  <2>1. at[w].tasks = n /\ reviews = at[w].known
    BY <1>10 DEF Overtaken
  <2>2. at[w].artifacts = 1..n
    BY <1>1, <1>3, <2>1 DEF CompletionInv, RunKnows
  <2> QED BY <1>6, <2>1, <2>2 DEF Prior, Snapshot
<1>11. Grown
  <2>1. n + 1 \in late' \/ ~ \E r \in reviews : r.snapshot = [tasks |-> n, artifacts |-> 1..n]
    BY <1>1, <1>3, <1>10
  <2> QED BY <1>3, <1>5, <1>7, <2>1 DEF Grown
<1>12. ASSUME NEW v \in Runners PROVE RunKnows(v)'
  <2>1. CASE v = w
    <3>1. /\ at'[v].pc = "run" /\ at'[v].tasks \in DOMAIN tasks' /\ at'[v].left \subseteq 1..at'[v].tasks
          /\ \A i \in 1..at'[v].tasks : i \in at'[v].left \/ tasks'[i] = "succeeded"
      BY <1>3, <1>4, <2>1
    <3> QED BY <3>1 DEF RunKnows
  <2>2. CASE v # w
    <3>1. at'[v] = at[v] /\ rounds'[v] = rounds[v] /\ RunKnows(v)
      BY <1>1, <1>2, <1>4, <2>2 DEF CompletionInv, CompletionTypes
    <3> QED BY <1>2, <1>9, <1>11, <3>1, KnowledgeStays
  <2> QED BY <2>1, <2>2
<1>13. SuccessJudged'
  <2>1. SUFFICES ASSUME mission'.status = "succeeded" PROVE \E k \in DOMAIN tasks' : JudgedOn(k)'
    BY DEF SuccessJudged
  <2>2. PICK k \in DOMAIN tasks : JudgedOn(k)
    BY <1>1, <2>1 DEF CompletionInv, SuccessJudged
  <2> QED BY <1>2, <1>9, <1>11, <2>2, JudgementStays
<1>14. ASSUME NEW v \in Runners PROVE rounds'[v] <= Cardinality(reviews') /\ rounds'[v] <= MaxRounds
  <2>1. rounds[v] \in Nat /\ rounds[v] <= Cardinality(reviews) /\ rounds[v] <= MaxRounds
    BY DEF CompletionInv, CompletionTypes, RoundsKnown
  <2>2. rounds'[v] = IF v = w THEN rounds[w] + 1 ELSE rounds[v]
    BY <1>1, <1>2 DEF CompletionTypes
  <2>3. rounds[v] <= Cardinality(reviews')
    BY <1>5, <2>1
  <2> QED BY <1>6, <2>1, <2>2, <2>3
<1>15. /\ IsFiniteSet(DOMAIN tasks' \ late')
       /\ Cardinality(DOMAIN tasks' \ late') <= 1 + Cardinality(reviews')
       /\ Cardinality(DOMAIN tasks' \ late') <= 1 + MaxRounds
  <2> DEFINE own == DOMAIN tasks \ late
  <2>1. /\ IsFiniteSet(own) /\ Cardinality(own) \in Nat
        /\ Cardinality(own) <= 1 + Cardinality(reviews) /\ Cardinality(own) <= 1 + MaxRounds
    BY FS_CardinalityType DEF CompletionInv, RoundsKnown
  <2>2. CASE Overtaken(w)
    <3>1. DOMAIN tasks' \ late' = own
      BY <1>1, <1>2, <1>3, <2>2 DEF CompletionTypes
    <3>2. Cardinality(own) <= 1 + Cardinality(reviews')
      BY <1>5, <2>1
    <3> QED BY <2>1, <3>1, <3>2
  <2>3. CASE ~Overtaken(w)
    <3>1. DOMAIN tasks' \ late' = own \cup {n + 1} /\ n + 1 \notin own
      BY <1>1, <1>2, <1>3, <2>3 DEF CompletionTypes
    <3> HIDE DEF own
    <3>2. IsFiniteSet(own \cup {n + 1}) /\ Cardinality(own \cup {n + 1}) = Cardinality(own) + 1
      BY <2>1, <3>1, FS_AddElement
    <3>3. Cardinality(reviews') = Cardinality(reviews) + 1 /\ Cardinality(reviews) < MaxRounds
      BY <1>5, <1>6, <1>10, <2>3
    <3>4. /\ Cardinality(own) + 1 <= 1 + Cardinality(reviews')
          /\ Cardinality(own) + 1 <= 1 + MaxRounds
      BY <1>5, <2>1, <3>3, CompletionAssumption
    <3> QED BY <3>1, <3>2, <3>4
  <2> QED BY <2>2, <2>3
<1>16. RoundsKnown'
  BY <1>14, <1>15 DEF RoundsKnown
<1>17. \A i \in DOMAIN tasks' : tasks'[i] = "succeeded" => i \in artifacts'
  BY <1>1, <1>3 DEF CompletionInv
<1> QED BY <1>9, <1>12, <1>13, <1>16, <1>17 DEF CompletionInv

LEMMA CompletionStep ==
    ASSUME CompletionInv, [CompletionNext]_completion
    PROVE  CompletionInv'
<1> USE DEF CompletionInv
<1>0. PICK one \in Runners : TRUE
  BY CompletionAssumption
<1>1. CASE UNCHANGED completion
  BY <1>0, <1>1, RunReads DEF completion, CompletionTypes
<1>2. CASE LapseLead
  <2>1. lead' \in [owner : Runners, live : BOOLEAN]
    BY <1>2 DEF LapseLead, CompletionTypes
  <2> QED BY <1>0, <1>2, <2>1, RunReads DEF LapseLead, CompletionTypes
<1>3. CASE ResumeParked
  <2>1. /\ mission.status = "waiting" /\ mission' = [status |-> "queued", resumes |-> mission.resumes + 1]
        /\ tasks' = [i \in DOMAIN tasks |-> IF tasks[i] = "blocked" THEN "queued" ELSE tasks[i]]
        /\ UNCHANGED <<artifacts, reviews, lead, at, histories>>
    BY <1>3 DEF ResumeParked
  <2>2. /\ tasks' \in Seq(TaskStates) /\ Len(tasks') = Len(tasks) /\ DOMAIN tasks' = DOMAIN tasks
        /\ \A i \in DOMAIN tasks : tasks[i] = "succeeded" <=> tasks'[i] = "succeeded"
    <3>1. DOMAIN tasks = 1..Len(tasks) /\ Len(tasks) \in Nat
          /\ \A i \in DOMAIN tasks : tasks[i] \in TaskStates
      BY DEF CompletionTypes
    <3>2. \A i \in DOMAIN tasks : tasks'[i] = IF tasks[i] = "blocked" THEN "queued" ELSE tasks[i]
      BY <2>1
    <3>3. \A i \in DOMAIN tasks : tasks'[i] \in TaskStates
      BY <3>1, <3>2 DEF TaskStates
    <3>4. tasks' \in [1..Len(tasks) -> TaskStates]
      BY <2>1, <3>1, <3>3
    <3> QED BY <3>1, <3>2, <3>4
  <2>3. mission' \in [status : {"queued", "running", "waiting", "succeeded"}, resumes : Nat]
        /\ mission'.status = "queued"
    BY <2>1 DEF CompletionTypes
  <2>4. CompletionTypes'
    BY <2>1, <2>2, <2>3 DEF CompletionTypes, histories
  <2>5. Grown
    BY <2>1, <2>2 DEF Grown, histories, CompletionTypes
  <2> QED BY <1>0, <2>1, <2>2, <2>3, <2>4, <2>5, RunMoves
<1>4. ASSUME NEW w \in Runners, BeginRun(w) PROVE CompletionInv'
  <2> DEFINE held == [at[w] EXCEPT !.pc = "open"]
  <2>1. at[w] \in RunRecords
    BY DEF CompletionTypes
  <2>2. held \in RunRecords /\ held.pc = "open"
    BY <2>1, RunRead DEF RunStates
  <2>3. at' = [at EXCEPT ![w] = held] /\ lead' \in [owner : Runners, live : BOOLEAN]
    BY <1>4 DEF BeginRun
  <2> HIDE DEF held
  <2>4. /\ at' \in [Runners -> RunRecords] /\ at'[w].pc = "open"
        /\ \A v \in Runners : v # w => at'[v] = at[v]
    BY <2>2, <2>3 DEF CompletionTypes
  <2>5. RunKnows(w)'
    BY <2>4 DEF RunKnows
  <2> QED BY <1>4, <2>3, <2>4, <2>5, RunReads DEF BeginRun
<1>5. ASSUME NEW w \in Runners, BeatLead(w) PROVE CompletionInv'
  <2>1. lead' \in [owner : Runners, live : BOOLEAN]
    BY <1>5 DEF BeatLead
  <2> QED BY <1>5, <2>1, RunReads DEF BeatLead, CompletionTypes
<1>6. ASSUME NEW w \in Runners, DieRunning(w) PROVE CompletionInv'
  <2>1. Off \in RunRecords /\ Off.pc = "off"
    BY DEF Off, RunRecords, RunStates
  <2>2. /\ at' \in [Runners -> RunRecords] /\ at'[w].pc = "off"
        /\ \A v \in Runners : v # w => at'[v] = at[v]
    BY <1>6, <2>1 DEF DieRunning, CompletionTypes
  <2>3. RunKnows(w)'
    BY <2>2 DEF RunKnows
  <2> QED BY <1>6, <2>2, <2>3, RunReads DEF DieRunning, CompletionTypes
<1>7. ASSUME NEW w \in Runners, LoseRun(w) PROVE CompletionInv'
  <2>1. EndRun(w) /\ UNCHANGED <<mission, tasks, artifacts, reviews, histories>>
    BY <1>7 DEF LoseRun
  <2> QED BY <2>1, RunStops DEF CompletionTypes
<1>8. ASSUME NEW w \in Runners, OpenMission(w) PROVE CompletionInv'
  <2>1. UNCHANGED <<tasks, artifacts, reviews, histories>>
    BY <1>8 DEF OpenMission
  <2>2. CASE mission.status \in {"queued", "running"}
    <3> DEFINE S == {i \in DOMAIN tasks : tasks[i] # "succeeded"}
               m == Len(tasks)
               r1 == [at[w] EXCEPT !.pc = "run"]
               r2 == [r1 EXCEPT !.tasks = m]
               held == [r2 EXCEPT !.left = S]
    <3>1. at[w] \in RunRecords /\ m \in Nat /\ S \in SUBSET Nat
      BY DEF CompletionTypes
    <3>2. at' = [at EXCEPT ![w] = held]
      BY <1>8, <2>2 DEF OpenMission
    <3>3. /\ m \in DOMAIN tasks /\ S \subseteq 1..m
          /\ \A i \in 1..m : i \in S \/ tasks[i] = "succeeded"
      BY DEF CompletionTypes
    <3> HIDE DEF m, S
    <3>4. r1 \in RunRecords /\ r1.pc = "run"
      BY <3>1, RunRead DEF RunStates
    <3> HIDE DEF r1
    <3>5. r2 \in RunRecords /\ r2.pc = "run" /\ r2.tasks = m
      BY <3>1, <3>4, RunRead
    <3> HIDE DEF r2
    <3>6. held \in RunRecords /\ held.pc = "run" /\ held.tasks = m /\ held.left = S
      BY <3>1, <3>5, RunRead
    <3> HIDE DEF held
    <3>7. /\ at'[w] = held /\ at' \in [Runners -> RunRecords]
          /\ \A v \in Runners : v # w => at'[v] = at[v]
      BY <3>2, <3>6 DEF CompletionTypes
    <3>8. /\ mission' \in [status : {"queued", "running", "waiting", "succeeded"}, resumes : Nat]
          /\ mission'.status = "running" /\ lead' = lead
      BY <1>8, <2>2 DEF OpenMission, CompletionTypes
    <3>9. CompletionTypes'
      BY <2>1, <3>7, <3>8 DEF CompletionTypes, histories
    <3>10. Grown
      BY <2>1 DEF Grown, histories, CompletionTypes
    <3>11. RunKnows(w)'
      BY <2>1, <3>3, <3>6, <3>7 DEF RunKnows
    <3> QED BY <2>1, <3>7, <3>8, <3>9, <3>10, <3>11, RunMoves
  <2>3. CASE mission.status \notin {"queued", "running"}
    <3>1. EndRun(w) /\ mission' = mission
      BY <1>8, <2>3 DEF OpenMission
    <3> QED BY <2>1, <3>1, RunStops DEF CompletionTypes
  <2> QED BY <2>2, <2>3
<1>9. ASSUME NEW w \in Runners, RunTask(w) PROVE CompletionInv'
  <2>1. /\ at[w].pc = "run" /\ at[w].left # {}
        /\ tasks' = [tasks EXCEPT ![Turn(w)] = "succeeded"]
        /\ artifacts' = artifacts \cup {Turn(w)}
        /\ at' = [at EXCEPT ![w].left = @ \ {Turn(w)}]
        /\ UNCHANGED <<mission, reviews, lead, histories>>
    BY <1>9 DEF RunTask
  <2>2. /\ at[w] \in RunRecords /\ at[w].tasks \in DOMAIN tasks /\ at[w].left \subseteq 1..at[w].tasks
        /\ \A i \in 1..at[w].tasks : i \in at[w].left \/ tasks[i] = "succeeded"
    BY <2>1 DEF CompletionTypes, RunKnows
  <2>3. Turn(w) \in at[w].left /\ Turn(w) \in Nat
    BY <2>1, TurnIsLeft
  <2>4. Turn(w) \in DOMAIN tasks /\ 1..at[w].tasks \subseteq DOMAIN tasks
    BY <2>2, <2>3 DEF CompletionTypes
  <2>5. /\ tasks' \in Seq(TaskStates) /\ Len(tasks') = Len(tasks) /\ DOMAIN tasks' = DOMAIN tasks
        /\ \A i \in DOMAIN tasks : tasks[i] = "succeeded" => tasks'[i] = "succeeded"
        /\ tasks'[Turn(w)] = "succeeded"
        /\ \A i \in DOMAIN tasks : i # Turn(w) => tasks'[i] = tasks[i]
    BY <2>1, <2>4 DEF CompletionTypes, TaskStates
  <2> DEFINE S == at[w].left \ {Turn(w)}
             held == [at[w] EXCEPT !.left = S]
  <2>6. S \in SUBSET Nat
    BY <2>2 DEF RunRecords
  <2>7. at' = [at EXCEPT ![w] = held] /\ S \subseteq 1..at[w].tasks
        /\ \A i \in 1..at[w].tasks : i \in S \/ tasks'[i] = "succeeded"
    BY <2>1, <2>2, <2>4, <2>5
  <2> HIDE DEF S
  <2>8. held \in RunRecords /\ held.pc = "run" /\ held.tasks = at[w].tasks /\ held.left = S
    BY <2>1, <2>2, <2>6, RunRead
  <2> HIDE DEF held
  <2>9. /\ at'[w] = held /\ at' \in [Runners -> RunRecords]
        /\ \A v \in Runners : v # w => at'[v] = at[v]
    BY <2>7, <2>8 DEF CompletionTypes
  <2>10. CompletionTypes'
    BY <2>1, <2>4, <2>5, <2>9 DEF CompletionTypes, histories
  <2>11. Grown
    BY <2>1, <2>5 DEF Grown, histories, CompletionTypes
  <2>12. RunKnows(w)'
    BY <2>2, <2>5, <2>7, <2>8, <2>9 DEF RunKnows
  <2>13. \A i \in DOMAIN tasks' : tasks'[i] = "succeeded" => i \in artifacts'
    BY <2>1, <2>5
  <2> QED BY <2>1, <2>5, <2>9, <2>10, <2>11, <2>12, <2>13, RunMoves
<1>10. ASSUME NEW w \in Runners, BlockTask(w) PROVE CompletionInv'
  <2>1. /\ tasks[Turn(w)] # "succeeded" /\ Park /\ EndRun(w)
        /\ tasks' = [tasks EXCEPT ![Turn(w)] = "blocked"]
        /\ UNCHANGED <<artifacts, reviews, histories>>
    BY <1>10 DEF BlockTask
  <2>2. /\ tasks' \in Seq(TaskStates) /\ Len(tasks') = Len(tasks)
        /\ \A i \in DOMAIN tasks : tasks[i] = "succeeded" <=> tasks'[i] = "succeeded"
    <3>1. Turn(w) \in DOMAIN tasks
      <4>1. at[w].pc = "run" /\ at[w].left # {}
        BY <1>10 DEF BlockTask
      <4>2. Turn(w) \in at[w].left
        BY <4>1, TurnIsLeft
      <4> QED BY <4>1, <4>2 DEF RunKnows, CompletionTypes
    <3>2. tasks' \in Seq(TaskStates) /\ Len(tasks') = Len(tasks)
      BY <2>1, <3>1 DEF CompletionTypes, TaskStates
    <3>3. \A i \in DOMAIN tasks : tasks'[i] = IF i = Turn(w) THEN "blocked" ELSE tasks[i]
      BY <2>1, <3>1
    <3> QED BY <2>1, <3>2, <3>3
  <2> QED BY <2>1, <2>2, Parked, RunStops DEF CompletionTypes
<1>11. ASSUME NEW w \in Runners, ReadArtifacts(w) PROVE CompletionInv'
  <2>1. /\ at[w].pc = "run" /\ at[w].left = {}
        /\ UNCHANGED <<mission, tasks, artifacts, reviews, lead, histories>>
    BY <1>11 DEF ReadArtifacts
  <2> DEFINE r1 == [at[w] EXCEPT !.pc = "messages"]
             held == [r1 EXCEPT !.artifacts = artifacts]
  <2>2. at[w] \in RunRecords /\ artifacts \in SUBSET Nat
    BY DEF CompletionTypes
  <2>3. /\ r1 \in RunRecords /\ r1.pc = "messages" /\ r1.tasks = at[w].tasks
        /\ r1.left = at[w].left
    BY <2>2, RunRead DEF RunStates
  <2>4. at' = [at EXCEPT ![w] = held]
    BY <1>11 DEF ReadArtifacts
  <2> HIDE DEF r1
  <2>5. /\ held \in RunRecords /\ held.pc = "messages" /\ held.tasks = at[w].tasks
        /\ held.artifacts = artifacts /\ held.left = at[w].left
    <3>1. held \in RunRecords /\ held.artifacts = artifacts
      BY <2>2, <2>3 DEF RunRecords
    <3>2. held.pc = r1.pc /\ held.tasks = r1.tasks /\ held.left = r1.left
      BY <2>3 DEF RunRecords
    <3> QED BY <2>3, <3>1, <3>2
  <2> HIDE DEF held
  <2>6. /\ at'[w] = held /\ at' \in [Runners -> RunRecords]
        /\ \A v \in Runners : v # w => at'[v] = at[v]
    BY <2>4, <2>5 DEF CompletionTypes
  <2>7. /\ at[w].tasks \in DOMAIN tasks
        /\ \A i \in 1..at[w].tasks : tasks[i] = "succeeded" /\ i \in artifacts
        /\ artifacts \subseteq DOMAIN tasks /\ at[w].left \subseteq 1..at[w].tasks
    <3>1. at[w].tasks \in DOMAIN tasks /\ \A i \in 1..at[w].tasks : tasks[i] = "succeeded"
      BY <2>1 DEF RunKnows
    <3>2. 1..at[w].tasks \subseteq DOMAIN tasks
      BY <3>1 DEF CompletionTypes
    <3> QED BY <2>1, <3>1, <3>2 DEF CompletionTypes
  <2>8. RunKnows(w)'
    BY <2>1, <2>5, <2>6, <2>7 DEF RunKnows
  <2> QED BY <2>1, <2>6, <2>8, RunReads DEF CompletionTypes
<1>12. ASSUME NEW w \in Runners, ReadReviews(w) PROVE CompletionInv'
  <2>1. at[w].pc = "messages" /\ UNCHANGED <<mission, tasks, artifacts, reviews, lead, histories>>
    BY <1>12 DEF ReadReviews
  <2> DEFINE r1 == [at[w] EXCEPT !.pc = "review"]
             held == [r1 EXCEPT !.known = reviews]
  <2>2. at[w] \in RunRecords /\ reviews \in SUBSET CompletionReviews
    BY DEF CompletionTypes
  <2>3. /\ r1 \in RunRecords /\ r1.pc = "review" /\ r1.tasks = at[w].tasks
        /\ r1.artifacts = at[w].artifacts /\ r1.left = at[w].left
    BY <2>2, RunRead DEF RunStates
  <2>4. at' = [at EXCEPT ![w] = held]
    BY <1>12 DEF ReadReviews
  <2> HIDE DEF r1
  <2>5. /\ held \in RunRecords /\ held.pc = "review" /\ held.tasks = at[w].tasks
        /\ held.artifacts = at[w].artifacts /\ held.known = reviews /\ held.left = at[w].left
    BY <2>2, <2>3, RunRead
  <2> HIDE DEF held
  <2>6. /\ at'[w] = held /\ at' \in [Runners -> RunRecords]
        /\ \A v \in Runners : v # w => at'[v] = at[v]
    BY <2>4, <2>5 DEF CompletionTypes
  <2>7. rounds' = rounds /\ rounds[w] <= Cardinality(reviews)
    BY <2>1 DEF RoundsKnown, histories
  <2>8. RunKnows(w)'
    BY <2>1, <2>5, <2>6, <2>7 DEF RunKnows
  <2> QED BY <2>1, <2>6, <2>8, RunReads DEF CompletionTypes
<1>13. ASSUME NEW w \in Runners, AcceptResult(w) PROVE CompletionInv'
  <2>1. /\ at[w].pc = "review" /\ reviews' = Filed(w, "complete")
        /\ UNCHANGED <<mission, tasks, artifacts, lead, histories>>
    BY <1>13 DEF AcceptResult
  <2> DEFINE held == [at[w] EXCEPT !.pc = "evaluate"]
             new == [snapshot |-> Snapshot(w), verdict |-> "complete"]
  <2>2. at[w] \in RunRecords
    BY DEF CompletionTypes
  <2>3. /\ held \in RunRecords /\ held.pc = "evaluate" /\ held.tasks = at[w].tasks
        /\ held.artifacts = at[w].artifacts /\ held.left = at[w].left
    BY <2>2, RunRead DEF RunStates
  <2>4. at' = [at EXCEPT ![w] = held]
    BY <1>13 DEF AcceptResult
  <2> HIDE DEF held
  <2>5. /\ at'[w] = held /\ at' \in [Runners -> RunRecords]
        /\ \A v \in Runners : v # w => at'[v] = at[v]
    BY <2>3, <2>4 DEF CompletionTypes
  <2>6. \E r \in reviews' : r.snapshot = Snapshot(w)
    <3>1. new.snapshot = Snapshot(w)
      OBVIOUS
    <3>2. reviews' = IF \E r \in reviews : r.snapshot = Snapshot(w) THEN reviews
                     ELSE reviews \cup {new}
      BY <2>1 DEF Filed
    <3> HIDE DEF new
    <3> QED BY <3>1, <3>2
  <2>7. /\ reviews' \in SUBSET CompletionReviews /\ IsFiniteSet(reviews')
        /\ reviews \subseteq reviews'
    BY <2>1, FiledKeeps
  <2>8. CompletionTypes'
    BY <2>1, <2>5, <2>7 DEF CompletionTypes, histories
  <2>9. Grown
    BY <2>1, <2>7 DEF Grown, histories, CompletionTypes
  <2>10. Snapshot(w)' = Snapshot(w)
    BY <2>3, <2>5 DEF Snapshot
  <2>11. RunKnows(w)'
    BY <2>1, <2>3, <2>5, <2>6, <2>10 DEF RunKnows
  <2> QED BY <2>1, <2>5, <2>8, <2>9, <2>11, RunMoves
<1>14. ASSUME NEW w \in Runners, ContinueMission(w) PROVE CompletionInv'
  BY <1>14, MissionContinues
<1>15. ASSUME NEW w \in Runners, StopMission(w) \/ FailReview(w) PROVE CompletionInv'
  <2>1. /\ Park /\ EndRun(w) /\ UNCHANGED <<tasks, artifacts, histories>>
        /\ reviews' \in {reviews, Filed(w, "blocked")}
    BY <1>15 DEF StopMission, FailReview
  <2>2. /\ reviews' \in SUBSET CompletionReviews /\ IsFiniteSet(reviews')
        /\ reviews \subseteq reviews'
    BY <2>1, FiledKeeps DEF CompletionTypes
  <2> QED BY <2>1, <2>2, Parked, RunStops DEF CompletionTypes
<1>16. ASSUME NEW w \in Runners, Evaluate(w) PROVE CompletionInv'
  <2>1. at[w].pc = "evaluate" /\ UNCHANGED <<tasks, artifacts, reviews, histories>>
    BY <1>16 DEF Evaluate
  <2>2. CASE Passes(w)
    <3> DEFINE held == [at[w] EXCEPT !.pc = "final"]
    <3>1. at[w] \in RunRecords
      BY DEF CompletionTypes
    <3>2. /\ held \in RunRecords /\ held.pc = "final" /\ held.tasks = at[w].tasks
          /\ held.artifacts = at[w].artifacts /\ held.left = at[w].left
      BY <3>1, RunRead DEF RunStates
    <3>3. at' = [at EXCEPT ![w] = held] /\ UNCHANGED <<mission, lead>>
      BY <1>16, <2>2 DEF Evaluate
    <3> HIDE DEF held
    <3>4. /\ at'[w] = held /\ at' \in [Runners -> RunRecords]
          /\ \A v \in Runners : v # w => at'[v] = at[v]
      BY <3>2, <3>3 DEF CompletionTypes
    <3>5. Snapshot(w)' = Snapshot(w)
      BY <3>2, <3>4 DEF Snapshot
    <3>6. /\ at[w].tasks = Len(tasks) /\ at[w].artifacts = 1..Len(tasks)
          /\ \A i \in 1..Len(tasks) : tasks[i] = "succeeded"
      <4>1. DOMAIN tasks = 1..Len(tasks) /\ Len(tasks) \in Nat
        BY DEF CompletionTypes
      <4> QED BY <2>1, <2>2, <4>1 DEF Passes, RunKnows
    <3>7. \E r \in reviews : r.snapshot = [tasks |-> Len(tasks), artifacts |-> 1..Len(tasks)]
      BY <2>1, <3>6 DEF RunKnows, Snapshot
    <3>8. Len(tasks)' = Len(tasks) /\ Len(tasks) \in Nat
      BY <2>1 DEF CompletionTypes
    <3>9. JudgedOn(Len(tasks))'
      BY <2>1, <3>6, <3>7, <3>8 DEF JudgedOn
    <3>10. at'[w].tasks = Len(tasks)'
      BY <3>2, <3>4, <3>6, <3>8
    <3>11. RunKnows(w)'
      BY <2>1, <3>2, <3>4, <3>5, <3>9, <3>10 DEF RunKnows
    <3> QED BY <2>1, <3>3, <3>4, <3>11, RunReads DEF CompletionTypes
  <2>3. CASE ~Passes(w)
    <3>1. Park /\ EndRun(w)
      BY <1>16, <2>3 DEF Evaluate
    <3> QED BY <2>1, <3>1, Parked, RunStops DEF CompletionTypes
  <2> QED BY <2>2, <2>3
<1>17. ASSUME NEW w \in Runners, Succeed(w) PROVE CompletionInv'
  <2>1. /\ at[w].pc = "final" /\ EndRun(w)
        /\ mission' = [mission EXCEPT !.status = "succeeded"]
        /\ UNCHANGED <<tasks, artifacts, reviews, histories>>
    BY <1>17 DEF Succeed
  <2>2. mission' \in [status : {"queued", "running", "waiting", "succeeded"}, resumes : Nat]
    BY <2>1 DEF CompletionTypes
  <2>3. at[w].tasks \in DOMAIN tasks /\ JudgedOn(at[w].tasks)
    BY <2>1 DEF RunKnows
  <2> QED BY <2>1, <2>2, <2>3, RunStops DEF CompletionTypes
<1> QED
  BY <1>1, <1>2, <1>3, <1>4, <1>5, <1>6, <1>7, <1>8, <1>9, <1>10, <1>11, <1>12, <1>13, <1>14,
     <1>15, <1>16, <1>17
     DEF CompletionNext

(* A mission succeeds only on a stored review of exactly the tasks there were *)
(* and of their artifacts, all done, and a task added after that is one of a   *)
(* run that went by rows no longer current: over any number of processes,     *)
(* crashes, lapses, takeovers and leases taken back (executionSpine.ts, the   *)
(* evaluation and the final transaction).                                    *)
THEOREM SuccessesAreJudged == ServicesSpec => []SuccessJudged
<1>1. ServicesInit => CompletionInv
  BY CompletionStart DEF ServicesInit
<1>2. CompletionInv /\ [ServicesNext]_ServicesVars => CompletionInv'
  BY StepsOfServices, CompletionStep
<1>3. CompletionInv => SuccessJudged
  BY DEF CompletionInv
<1> QED BY <1>1, <1>2, <1>3, PTL DEF ServicesSpec

(* No process continues a mission more than MaxRounds times, nor do all of   *)
(* them together, the rounds of overtaken runs apart, for any number of        *)
(* processes, tasks and leases lost and taken back (executionSpine.ts, the     *)
(* review and the continuation).                                            *)
THEOREM RoundsAreCounted == ServicesSpec => []RoundsCounted
<1>1. ServicesInit => CompletionInv
  BY CompletionStart DEF ServicesInit
<1>2. CompletionInv /\ [ServicesNext]_ServicesVars => CompletionInv'
  BY StepsOfServices, CompletionStep
<1>3. CompletionInv => RoundsCounted
  BY DEF CompletionInv, RoundsKnown, RoundsCounted
<1> QED BY <1>1, <1>2, <1>3, PTL DEF ServicesSpec

------------------------------------------------------------------------------
(* ObdUplink *)

Samples == [sequence : Nat, body : Nat]

Rows == [sequence : Nat, latest : Samples, history : Seq(Samples)]

Bridges ==
    [doing : {"scanning", "closing", "failed", "reporting", "ended"}, sequence : Nat,
     bodies : Nat, sample : Samples, tried : Nat]

Copies == [sample : Samples, copy : Nat, seen : SUBSET Rows]

(* A copy under way carries no number the bridge has not reached, and the row *)
(* it has read is the row there is or one of a lower number.                 *)
CopyKnown(q) ==
    /\ q \in Copies
    /\ q.sample.sequence >= 1 /\ q.sample.sequence <= bridge.sequence + 1
    /\ \A r \in q.seen :
        /\ r.sequence = r.latest.sequence /\ r.sequence <= recorded.sequence
        /\ r.sequence = recorded.sequence => r = recorded

UplinkInv ==
    /\ bridge \in Bridges /\ recorded \in Rows /\ confirmed \in Seq(Samples)
    /\ bridge.sequence = Len(confirmed)
    /\ bridge.sample # NoSample => bridge.sample.sequence = bridge.sequence + 1
    /\ recorded.sequence = recorded.latest.sequence
    /\ \A q \in requests : CopyKnown(q)
    /\ \/ /\ recorded.sequence = bridge.sequence
          /\ recorded.history = LastUpTo(Kept, confirmed)
       \/ /\ recorded.sequence = bridge.sequence + 1
          /\ recorded.history = LastUpTo(Kept, Append(confirmed, recorded.latest))

Dropped(n, s) == IF Len(s) > n THEN Len(s) - n ELSE 0

LEMMA LastUpToFacts ==
    ASSUME NEW S, NEW s \in Seq(S), NEW n \in Nat
    PROVE  /\ Dropped(n, s) \in Nat /\ Dropped(n, s) <= Len(s)
           /\ LastUpTo(n, s) \in Seq(S)
           /\ Len(LastUpTo(n, s)) = Len(s) - Dropped(n, s)
           /\ \A i \in 1 .. Len(LastUpTo(n, s)) : LastUpTo(n, s)[i] = s[i + Dropped(n, s)]
<1>1. Len(s) \in Nat
  OBVIOUS
<1>2. Dropped(n, s) \in Nat /\ Dropped(n, s) <= Len(s)
  BY <1>1 DEF Dropped
<1>3. LastUpTo(n, s) = SubSeq(s, Dropped(n, s) + 1, Len(s))
  BY <1>1 DEF LastUpTo, Dropped
<1> DEFINE d == Dropped(n, s)
           part == SubSeq(s, d + 1, Len(s))
<1> HIDE DEF d
<1>4. d \in Nat /\ d <= Len(s) /\ Len(s) \in Nat
  BY <1>1, <1>2 DEF d
<1>5. part \in Seq(S)
  BY <1>4
<1>6. Len(part) = Len(s) - d
  BY <1>4
<1>7. ASSUME NEW i \in 1 .. Len(s) - d PROVE part[i] = s[i + d]
  BY <1>4, <1>7
<1> HIDE DEF part
<1>8. LastUpTo(n, s) = part
  BY <1>3 DEF part, d
<1> QED BY <1>2, <1>5, <1>6, <1>7, <1>8 DEF d

LEMMA AppendFacts ==
    ASSUME NEW S, NEW s \in Seq(S), NEW x \in S
    PROVE  /\ Append(s, x) \in Seq(S)
           /\ Len(Append(s, x)) = Len(s) + 1
           /\ \A i \in 1 .. Len(s) : Append(s, x)[i] = s[i]
           /\ Append(s, x)[Len(s) + 1] = x
OBVIOUS

LEMMA SameSequence ==
    ASSUME NEW S, NEW s \in Seq(S), NEW t \in Seq(S), Len(s) = Len(t),
           \A i \in 1 .. Len(s) : s[i] = t[i]
    PROVE  s = t
OBVIOUS

(* What falls off the history would have fallen off the longer one.         *)
LEMMA LastOfLast ==
    ASSUME NEW S, NEW s \in Seq(S), NEW n \in Nat, NEW x \in S
    PROVE  LastUpTo(n, Append(LastUpTo(n, s), x)) = LastUpTo(n, Append(s, x))
<1> DEFINE t == LastUpTo(n, s)
           tx == Append(t, x)
           sx == Append(s, x)
           a == LastUpTo(n, tx)
           b == LastUpTo(n, sx)
           d == Dropped(n, s)
<1>1. /\ t \in Seq(S) /\ Len(t) = Len(s) - d /\ d \in Nat /\ d <= Len(s) /\ Len(s) \in Nat
      /\ \A i \in 1 .. Len(t) : t[i] = s[i + d]
  BY LastUpToFacts
<1>2. d = IF Len(s) > n THEN Len(s) - n ELSE 0
  BY DEF Dropped
<1> HIDE DEF t, d
<1>3. /\ tx \in Seq(S) /\ Len(tx) = Len(t) + 1 /\ tx[Len(t) + 1] = x
      /\ \A i \in 1 .. Len(t) : tx[i] = t[i]
  BY <1>1, AppendFacts
<1>4. /\ sx \in Seq(S) /\ Len(sx) = Len(s) + 1 /\ sx[Len(s) + 1] = x
      /\ \A i \in 1 .. Len(s) : sx[i] = s[i]
  BY AppendFacts
<1> HIDE DEF tx, sx
<1>5. /\ a \in Seq(S) /\ Len(a) = Len(tx) - Dropped(n, tx)
      /\ \A i \in 1 .. Len(a) : a[i] = tx[i + Dropped(n, tx)]
  BY <1>3, LastUpToFacts
<1>6. /\ b \in Seq(S) /\ Len(b) = Len(sx) - Dropped(n, sx)
      /\ \A i \in 1 .. Len(b) : b[i] = sx[i + Dropped(n, sx)]
  BY <1>4, LastUpToFacts
<1> HIDE DEF a, b
<1>7. /\ Len(s) \in Nat /\ Len(t) \in Nat /\ d \in Nat
      /\ Len(tx) = Len(s) - d + 1 /\ Len(sx) = Len(s) + 1 /\ Len(t) = Len(s) - d
  BY <1>1, <1>3, <1>4
<1>8. /\ Dropped(n, tx) = IF Len(tx) > n THEN Len(tx) - n ELSE 0
      /\ Dropped(n, sx) = IF Len(sx) > n THEN Len(sx) - n ELSE 0
  BY DEF Dropped
<1>9. Len(a) = Len(tx) - Dropped(n, tx) /\ Len(b) = Len(sx) - Dropped(n, sx)
  BY <1>5, <1>6
<1>10. /\ Dropped(n, sx) = Dropped(n, tx) + d
      /\ Dropped(n, tx) \in Nat /\ Len(a) = Len(b) /\ Len(a) \in Nat
      /\ Len(a) + Dropped(n, tx) = Len(t) + 1
  <2>1. CASE Len(s) > n
    <3>1. d = Len(s) - n /\ Len(t) = n /\ Len(tx) = n + 1
      BY <1>2, <1>7, <2>1
    <3>2. Dropped(n, tx) = 1
      BY <1>8, <3>1
    <3>3. Dropped(n, sx) = Len(s) + 1 - n
      BY <1>8, <1>7, <2>1
    <3> QED BY <1>7, <1>9, <3>1, <3>2, <3>3
  <2>2. CASE ~(Len(s) > n)
    BY <1>2, <1>7, <1>8, <1>9, <2>2
  <2> QED BY <2>1, <2>2
<1>11. ASSUME NEW i \in 1 .. Len(a) PROVE a[i] = b[i]
  <2> DEFINE j == i + Dropped(n, tx)
  <2>1. j \in Nat /\ j >= 1 /\ j <= Len(t) + 1
    BY <1>10
  <2>2. a[i] = tx[j] /\ b[i] = sx[j + d]
    <3>1. a[i] = tx[i + Dropped(n, tx)]
      BY <1>5
    <3>2. i \in 1 .. Len(b) /\ i \in Nat
      BY <1>10
    <3>3. b[i] = sx[i + Dropped(n, sx)]
      BY <1>6, <3>2
    <3>4. i + Dropped(n, sx) = j + d
      BY <1>1, <1>10, <3>2
    <3> QED BY <3>1, <3>3, <3>4
  <2> HIDE DEF j
  <2>3. CASE j = Len(t) + 1
    <3>1. j + d = Len(s) + 1
      BY <1>1, <2>3
    <3> QED BY <1>3, <1>4, <2>2, <2>3, <3>1
  <2>4. CASE j <= Len(t)
    <3>1. j \in 1 .. Len(t) /\ j + d \in 1 .. Len(s)
      BY <1>1, <2>1, <2>4
    <3>2. tx[j] = t[j] /\ t[j] = s[j + d] /\ sx[j + d] = s[j + d]
      BY <1>1, <1>3, <1>4, <3>1
    <3> QED BY <2>2, <3>2
  <2>5. j <= Len(t) \/ j = Len(t) + 1
    BY <1>7, <2>1
  <2> QED BY <2>3, <2>4, <2>5
<1>12. a = b
  <2>1. a \in Seq(S) /\ b \in Seq(S) /\ Len(a) = Len(b)
    BY <1>5, <1>6, <1>10
  <2> QED BY <1>11, <2>1, SameSequence
<1> QED BY <1>12 DEF a, b, tx, sx, t

LEMMA UplinkStart == UplinkInit => UplinkInv
<1> SUFFICES ASSUME UplinkInit PROVE UplinkInv
  OBVIOUS
<1>1. NoSample \in Samples /\ NoSample.sequence = 0
  BY DEF NoSample, Samples
<1>2. /\ bridge = [doing |-> "scanning", sequence |-> 0, bodies |-> 0,
                   sample |-> NoSample, tried |-> 0]
      /\ recorded = [sequence |-> 0, latest |-> NoSample, history |-> <<>>]
      /\ requests = {} /\ confirmed = <<>>
  BY DEF UplinkInit
<1>3. bridge \in Bridges /\ recorded \in Rows /\ confirmed \in Seq(Samples)
  BY <1>1, <1>2 DEF Bridges, Rows
<1>4. LastUpTo(Kept, <<>>) = <<>>
  BY UplinkAssumption DEF LastUpTo
<1> QED BY <1>1, <1>2, <1>3, <1>4 DEF UplinkInv

Doings == {"scanning", "closing", "failed", "reporting", "ended"}

LEMMA BridgeSends ==
    ASSUME NEW b \in Bridges, NEW k \in Nat
    PROVE  LET r == [b EXCEPT !.tried = k]
           IN  r \in Bridges /\ r.sequence = b.sequence /\ r.sample = b.sample
BY DEF Bridges

LEMMA BridgeBreaksOff ==
    ASSUME NEW b \in Bridges, NEW g \in Doings, NEW s \in Samples
    PROVE  LET r == [b EXCEPT !.sample = s, !.doing = g]
           IN  r \in Bridges /\ r.sequence = b.sequence /\ r.sample = s
BY DEF Bridges, Doings

(* A step that stores and confirms nothing.                                  *)
LEMMA UplinkSteady ==
    ASSUME UplinkInv, recorded' = recorded, confirmed' = confirmed,
           bridge' \in Bridges, bridge'.sequence = bridge.sequence,
           bridge'.sample # NoSample => bridge'.sample.sequence = bridge.sequence + 1,
           \A q \in requests' : CopyKnown(q)
    PROVE  UplinkInv'
<1>1. \A q \in requests' : CopyKnown(q)'
  <2> SUFFICES ASSUME NEW q \in requests' PROVE CopyKnown(q)'
    OBVIOUS
  <2>1. CopyKnown(q)
    OBVIOUS
  <2> QED BY <2>1 DEF CopyKnown
<1>2. LastUpTo(Kept, confirmed)' = LastUpTo(Kept, confirmed)
  BY DEF LastUpTo
<1>3. LastUpTo(Kept, Append(confirmed, recorded.latest))'
        = LastUpTo(Kept, Append(confirmed, recorded.latest))
  BY DEF LastUpTo
<1> QED BY <1>1, <1>2, <1>3 DEF UplinkInv

(* The confirmation of the sample that is stored last.                       *)
LEMMA UplinkConfirms ==
    ASSUME UplinkInv, NEW q \in requests, NEW r \in Rows, Awaited(q),
           CopyKnown(q), Confirm(q), confirmed' # confirmed,
           recorded' = r, requests' \subseteq requests,
           r.latest = q.sample, r.sequence = q.sample.sequence,
           r.history = LastUpTo(Kept, Append(confirmed, q.sample)),
           \A p \in requests' : \A s \in p.seen :
              s.sequence <= r.sequence /\ (s.sequence = r.sequence => s = r)
    PROVE  UplinkInv'
<1>1. /\ q.sample \in Samples /\ q.sample.sequence \in Nat /\ q.sample.sequence >= 1
      /\ NoSample \in Samples /\ NoSample.sequence = 0
  BY DEF CopyKnown, Copies, Samples, NoSample
<1>2. q.sample # NoSample /\ q.sample = bridge.sample
  BY <1>1 DEF Awaited
<1>3. bridge \in Bridges /\ bridge.sequence \in Nat /\ confirmed \in Seq(Samples)
  BY DEF UplinkInv, Bridges
<1>4. q.sample.sequence = bridge.sequence + 1 /\ bridge.sequence = Len(confirmed)
  BY <1>2 DEF UplinkInv
<1>5. bridge' = [bridge EXCEPT !.sequence = q.sample.sequence, !.sample = NoSample,
                               !.doing = IF @ = "scanning" THEN @ ELSE "ended"]
      /\ confirmed' = Append(confirmed, q.sample)
  BY DEF Confirm
<1>6. (IF bridge.doing = "scanning" THEN bridge.doing ELSE "ended") \in Doings
  BY DEF Doings
<1>7. bridge' \in Bridges /\ bridge'.sequence = q.sample.sequence /\ bridge'.sample = NoSample
  <2>1. PICK g \in Doings :
          bridge' = [bridge EXCEPT !.sequence = q.sample.sequence, !.sample = NoSample,
                                   !.doing = g]
    BY <1>5, <1>6
  <2> DEFINE n == q.sample.sequence
  <2>2. n \in Nat /\ bridge \in Bridges /\ NoSample \in Samples
    BY <1>1, <1>3
  <2> HIDE DEF n
  <2>3. LET h == [bridge EXCEPT !.sequence = n, !.sample = NoSample, !.doing = g]
        IN  h \in Bridges /\ h.sequence = n /\ h.sample = NoSample
    BY <2>2 DEF Bridges, Doings
  <2> QED BY <2>1, <2>3 DEF n
<1>8. /\ confirmed' \in Seq(Samples) /\ Len(confirmed') = Len(confirmed) + 1
  BY <1>1, <1>3, <1>5, AppendFacts
<1>9. bridge'.sequence = Len(confirmed')
  BY <1>4, <1>7, <1>8
<1>10. \A p \in requests' : CopyKnown(p)'
  <2> SUFFICES ASSUME NEW p \in requests' PROVE CopyKnown(p)'
    OBVIOUS
  <2>1. CopyKnown(p)
    BY DEF UplinkInv
  <2>2. p.sample.sequence \in Nat /\ p \in Copies
    BY <2>1 DEF CopyKnown, Copies, Samples
  <2>3. p.sample.sequence >= 1 /\ p.sample.sequence <= bridge'.sequence + 1
    BY <1>3, <1>4, <1>7, <2>1, <2>2 DEF CopyKnown
  <2>4. \A s \in p.seen : /\ s.sequence = s.latest.sequence /\ s.sequence <= recorded'.sequence
                          /\ s.sequence = recorded'.sequence => s = recorded'
    BY <2>1 DEF CopyKnown
  <2> QED BY <2>2, <2>3, <2>4 DEF CopyKnown
<1>11. recorded'.history = LastUpTo(Kept, confirmed)'
  BY <1>5 DEF LastUpTo
<1>12. recorded' \in Rows /\ recorded'.sequence = recorded'.latest.sequence
  OBVIOUS
<1>13. recorded'.sequence = bridge'.sequence
  BY <1>7
<1> QED BY <1>7, <1>8, <1>9, <1>10, <1>11, <1>12, <1>13 DEF UplinkInv

(* The bridge gives up.                                                      *)
LEMMA UplinkBreaksOff ==
    ASSUME bridge \in Bridges, BreakOff
    PROVE  /\ bridge' \in Bridges /\ bridge'.sequence = bridge.sequence
           /\ bridge'.sample = NoSample
<1>1. NoSample \in Samples
  BY DEF NoSample, Samples
<1>2. PICK g \in Doings : bridge' = [bridge EXCEPT !.sample = NoSample, !.doing = g]
  BY DEF BreakOff, Doings
<1>3. LET h == [bridge EXCEPT !.sample = NoSample, !.doing = g]
      IN  h \in Bridges /\ h.sequence = bridge.sequence /\ h.sample = NoSample
  BY <1>1 DEF Bridges, Doings
<1> QED BY <1>2, <1>3

LEMMA UplinkPublishes ==
    ASSUME UplinkInv, NEW g \in Doings, Publish(g)
    PROVE  UplinkInv'
<1> DEFINE s == [sequence |-> bridge.sequence + 1, body |-> bridge.bodies + 1]
           k == bridge.bodies + 1
<1>1. bridge \in Bridges /\ bridge.sequence \in Nat /\ k \in Nat
  BY DEF UplinkInv, Bridges
<1>2. s \in Samples /\ s.sequence = bridge.sequence + 1
  BY <1>1 DEF Samples
<1>3. bridge' = [bridge EXCEPT !.doing = g, !.bodies = k, !.tried = 0, !.sample = s]
  BY DEF Publish
<1> HIDE DEF s, k
<1>4. LET h == [bridge EXCEPT !.doing = g, !.bodies = k, !.tried = 0, !.sample = s]
      IN  h \in Bridges /\ h.sequence = bridge.sequence /\ h.sample = s
  <2> DEFINE h == [bridge EXCEPT !.doing = g, !.bodies = k]
  <2>1. h \in Bridges /\ h.sequence = bridge.sequence
    BY <1>1 DEF Bridges, Doings
  <2> HIDE DEF h
  <2>2. LET r == [h EXCEPT !.tried = 0, !.sample = s]
        IN  r \in Bridges /\ r.sequence = bridge.sequence /\ r.sample = s
    BY <1>2, <2>1 DEF Bridges, Doings
  <2> QED BY <2>2 DEF h
<1>5. recorded' = recorded /\ confirmed' = confirmed /\ requests' = requests
  BY DEF Publish
<1>6. \A q \in requests' : CopyKnown(q)
  BY <1>5 DEF UplinkInv
<1> QED BY <1>2, <1>3, <1>4, <1>5, <1>6, UplinkSteady

LEMMA UplinkSends ==
    ASSUME UplinkInv, Send
    PROVE  UplinkInv'
<1> DEFINE k == bridge.tried + 1
           q == [sample |-> bridge.sample, copy |-> k, seen |-> {}]
<1>1. /\ bridge \in Bridges /\ bridge.sequence \in Nat /\ k \in Nat /\ bridge.sample \in Samples
      /\ bridge.sample.sequence = bridge.sequence + 1
  BY DEF UplinkInv, Bridges, Send, Sending
<1>2. /\ bridge' = [bridge EXCEPT !.tried = k] /\ recorded' = recorded
      /\ confirmed' = confirmed /\ requests' = requests \cup {q}
  BY DEF Send
<1>3. CopyKnown(q)
  BY <1>1 DEF CopyKnown, Copies
<1> HIDE DEF q, k
<1>4. LET h == [bridge EXCEPT !.tried = k]
      IN  h \in Bridges /\ h.sequence = bridge.sequence /\ h.sample = bridge.sample
  BY <1>1, BridgeSends
<1>5. \A p \in requests' : CopyKnown(p)
  BY <1>2, <1>3 DEF UplinkInv
<1> QED BY <1>1, <1>2, <1>4, <1>5, UplinkSteady

LEMMA UplinkLoads ==
    ASSUME UplinkInv, NEW q \in requests, Load(q)
    PROVE  UplinkInv'
<1> DEFINE p == [q EXCEPT !.seen = {recorded}]
<1>1. /\ bridge' = bridge /\ recorded' = recorded /\ confirmed' = confirmed
      /\ requests' = (requests \ {q}) \cup {p}
  BY DEF Load
<1>2. recorded \in Rows /\ recorded.sequence \in Nat /\ CopyKnown(q)
      /\ recorded.sequence = recorded.latest.sequence
  BY DEF UplinkInv, Rows
<1>3. q \in Copies
  BY <1>2 DEF CopyKnown
<1>4. p \in Copies /\ p.sample = q.sample /\ p.seen = {recorded}
  BY <1>2, <1>3 DEF Copies
<1> HIDE DEF p
<1>5. CopyKnown(p)
  BY <1>2, <1>4 DEF CopyKnown
<1>6. \A c \in requests' : CopyKnown(c)
  BY <1>1, <1>5 DEF UplinkInv
<1> QED BY <1>1, <1>6, UplinkSteady DEF UplinkInv

(* A copy that is gone, with nothing confirmed or stored.                    *)
LEMMA UplinkLeaves ==
    ASSUME UplinkInv, requests' \subseteq requests, recorded' = recorded,
           confirmed' = confirmed, bridge' = bridge \/ BreakOff
    PROVE  UplinkInv'
<1>1. bridge \in Bridges /\ (bridge.sample # NoSample => bridge.sample.sequence = bridge.sequence + 1)
  BY DEF UplinkInv
<1>2. \A c \in requests' : CopyKnown(c)
  BY DEF UplinkInv
<1>3. bridge' \in Bridges /\ bridge'.sequence = bridge.sequence
      /\ (bridge'.sample # NoSample => bridge'.sample.sequence = bridge.sequence + 1)
  BY <1>1, UplinkBreaksOff
<1> QED BY <1>2, <1>3, UplinkSteady

LEMMA UplinkRepeats ==
    ASSUME UplinkInv, NEW q \in requests, NEW read \in q.seen, AnswerRepeat(q, read)
    PROVE  UplinkInv'
<1>1. /\ read.latest = q.sample /\ recorded' = recorded /\ requests' \subseteq requests
      /\ Confirm(q)
  BY DEF AnswerRepeat, Repeats
<1>2. CASE UNCHANGED <<bridge, confirmed>>
  BY <1>1, <1>2, UplinkLeaves
<1>3. CASE ~UNCHANGED <<bridge, confirmed>>
  <2>1. Awaited(q) /\ confirmed' = Append(confirmed, q.sample)
    BY <1>1, <1>3 DEF Confirm
  <2>2. /\ CopyKnown(q) /\ confirmed \in Seq(Samples) /\ bridge \in Bridges
        /\ recorded \in Rows
    BY DEF UplinkInv
  <2>3. /\ q.sample \in Samples /\ q.sample.sequence \in Nat /\ q.sample.sequence >= 1
        /\ NoSample.sequence = 0 /\ bridge.sequence \in Nat /\ recorded.sequence \in Nat
    BY <2>2 DEF CopyKnown, Copies, Samples, NoSample, Bridges, Rows
  <2>4. q.sample # NoSample /\ q.sample = bridge.sample
    BY <2>1, <2>3 DEF Awaited
  <2>5. q.sample.sequence = bridge.sequence + 1
    BY <2>4 DEF UplinkInv
  <2>6. /\ read.sequence = q.sample.sequence /\ read.sequence <= recorded.sequence
        /\ read.sequence = recorded.sequence => read = recorded
    BY <1>1, <2>2 DEF CopyKnown
  <2>7. recorded.sequence = bridge.sequence \/ recorded.sequence = bridge.sequence + 1
    BY DEF UplinkInv
  <2>8. read = recorded /\ recorded.sequence = bridge.sequence + 1
    BY <2>3, <2>5, <2>6, <2>7
  <2>9. recorded.history = LastUpTo(Kept, Append(confirmed, q.sample))
    BY <1>1, <2>3, <2>8 DEF UplinkInv
  <2>10. confirmed' # confirmed
    <3>1. Len(confirmed') = Len(confirmed) + 1 /\ Len(confirmed) \in Nat
      BY <2>1, <2>2, <2>3, AppendFacts
    <3> QED BY <3>1
  <2>11. \A p \in requests' : \A s \in p.seen :
           s.sequence <= recorded.sequence /\ (s.sequence = recorded.sequence => s = recorded)
    BY <1>1 DEF UplinkInv, CopyKnown
  <2>12. recorded.latest = q.sample /\ recorded.sequence = q.sample.sequence
    BY <1>1, <2>6, <2>8
  <2> QED BY <1>1, <2>1, <2>2, <2>9, <2>10, <2>11, <2>12, UplinkConfirms
<1> QED BY <1>2, <1>3

LEMMA UplinkStores ==
    ASSUME UplinkInv, NEW q \in requests, NEW read \in q.seen, StoreSample(q, read)
    PROVE  UplinkInv'
<1> DEFINE h == LastUpTo(Kept, Append(read.history, q.sample))
           r == [sequence |-> q.sample.sequence, latest |-> q.sample, history |-> h]
<1>1. /\ q.sample.sequence = read.sequence + 1 /\ read.sequence = recorded.sequence
      /\ recorded' = r /\ Confirm(q) /\ requests' \subseteq requests
  BY DEF StoreSample, StillRead
<1>2. /\ CopyKnown(q) /\ confirmed \in Seq(Samples) /\ bridge \in Bridges
      /\ recorded \in Rows /\ bridge.sequence = Len(confirmed)
  BY DEF UplinkInv
<1>3. /\ q.sample \in Samples /\ q.sample.sequence \in Nat
      /\ q.sample.sequence >= 1 /\ q.sample.sequence <= bridge.sequence + 1
      /\ bridge.sequence \in Nat /\ recorded.sequence \in Nat
      /\ recorded.history \in Seq(Samples)
  BY <1>2 DEF CopyKnown, Copies, Samples, Bridges, Rows
<1>4. read = recorded
  BY <1>1, <1>2 DEF CopyKnown
<1>5. recorded.sequence = bridge.sequence /\ recorded.history = LastUpTo(Kept, confirmed)
  <2>1. recorded.sequence = bridge.sequence \/ recorded.sequence = bridge.sequence + 1
    BY DEF UplinkInv
  <2>2. recorded.sequence = bridge.sequence
    BY <1>1, <1>3, <2>1
  <2>3. recorded.sequence # bridge.sequence + 1
    BY <1>3, <2>2
  <2> QED BY <2>2, <2>3 DEF UplinkInv
<1>6. h = LastUpTo(Kept, Append(confirmed, q.sample))
  BY <1>2, <1>3, <1>4, <1>5, LastOfLast, UplinkAssumption
<1>7. h \in Seq(Samples)
  <2>1. Append(confirmed, q.sample) \in Seq(Samples)
    BY <1>2, <1>3
  <2> QED BY <1>6, <2>1, LastUpToFacts, UplinkAssumption
<1> HIDE DEF h
<1>8. /\ r \in Rows /\ r.latest = q.sample /\ r.sequence = q.sample.sequence
      /\ r.history = LastUpTo(Kept, Append(confirmed, q.sample))
  BY <1>3, <1>6, <1>7 DEF Rows
<1>9. r.sequence = bridge.sequence + 1
  BY <1>1, <1>5, <1>8
<1> HIDE DEF r
<1>10. \A p \in requests' : /\ CopyKnown(p)
                            /\ \A s \in p.seen : s.sequence \in Nat /\ s.sequence < r.sequence
  <2> SUFFICES ASSUME NEW p \in requests', NEW s \in p.seen
               PROVE  s.sequence \in Nat /\ s.sequence < r.sequence
    BY <1>1 DEF UplinkInv
  <2>1. CopyKnown(p)
    BY <1>1 DEF UplinkInv
  <2>2. s.sequence \in Nat /\ s.sequence <= recorded.sequence
    BY <2>1 DEF CopyKnown, Copies, Rows
  <2> QED BY <1>3, <1>5, <1>9, <2>2
<1>11. \A p \in requests' : \A s \in p.seen :
         s.sequence <= r.sequence /\ (s.sequence = r.sequence => s = r)
  BY <1>3, <1>9, <1>10
<1>12. CASE confirmed' # confirmed
  <2>1. Awaited(q)
    BY <1>1, <1>12 DEF Confirm
  <2> QED BY <1>1, <1>2, <1>8, <1>11, <1>12, <2>1, UplinkConfirms
<1>13. CASE confirmed' = confirmed
  <2>1. bridge' = bridge
    <3>1. Append(confirmed, q.sample) # confirmed
      <4>1. Len(Append(confirmed, q.sample)) = Len(confirmed) + 1 /\ Len(confirmed) \in Nat
        BY <1>2, <1>3, AppendFacts
      <4> QED BY <4>1
    <3> QED BY <1>1, <1>13, <3>1 DEF Confirm
  <2>2. \A p \in requests' : CopyKnown(p)'
    <3> SUFFICES ASSUME NEW p \in requests' PROVE CopyKnown(p)'
      OBVIOUS
    <3>1. CopyKnown(p) /\ \A s \in p.seen : s.sequence <= r.sequence
                                            /\ (s.sequence = r.sequence => s = r)
      BY <1>10, <1>11
    <3> QED BY <1>1, <2>1, <3>1 DEF CopyKnown
  <2>3. LastUpTo(Kept, Append(confirmed, recorded.latest))'
          = LastUpTo(Kept, Append(confirmed, q.sample))
    BY <1>1, <1>8, <1>13 DEF LastUpTo
  <2>4. /\ recorded' \in Rows /\ recorded'.sequence = recorded'.latest.sequence
        /\ recorded'.sequence = bridge'.sequence + 1
        /\ recorded'.history = LastUpTo(Kept, Append(confirmed, recorded.latest))'
    BY <1>1, <1>8, <1>9, <2>1, <2>3
  <2>5. /\ bridge' \in Bridges /\ confirmed' \in Seq(Samples)
        /\ bridge'.sequence = Len(confirmed')
        /\ bridge'.sample # NoSample => bridge'.sample.sequence = bridge'.sequence + 1
    BY <1>13, <2>1 DEF UplinkInv
  <2> QED BY <2>2, <2>4, <2>5 DEF UplinkInv
<1> QED BY <1>12, <1>13

LEMMA UplinkStep == UplinkInv /\ [UplinkNext]_uplink => UplinkInv'
<1> SUFFICES ASSUME UplinkInv, [UplinkNext]_uplink PROVE UplinkInv'
  OBVIOUS
<1>1. CASE Sweep
  BY <1>1, UplinkPublishes DEF Sweep, Doings
<1>2. CASE Report
  BY <1>2, UplinkPublishes DEF Report, Doings
<1>3. CASE Send
  BY <1>3, UplinkSends
<1>4. CASE Fail
  BY <1>4, UplinkLeaves DEF Fail
<1>5. ASSUME NEW q \in requests, Load(q) PROVE UplinkInv'
  BY <1>5, UplinkLoads
<1>6. ASSUME NEW q \in requests, NEW read \in q.seen, AnswerRepeat(q, read) PROVE UplinkInv'
  BY <1>6, UplinkRepeats
<1>7. ASSUME NEW q \in requests, NEW read \in q.seen, RefuseSample(q, read) PROVE UplinkInv'
  BY <1>7, UplinkLeaves DEF RefuseSample, Refuse
<1>8. ASSUME NEW q \in requests, NEW read \in q.seen, StoreSample(q, read) PROVE UplinkInv'
  BY <1>8, UplinkStores
<1>9. CASE UNCHANGED uplink
  BY <1>9, UplinkLeaves DEF uplink
<1> QED BY <1>1, <1>2, <1>3, <1>4, <1>5, <1>6, <1>7, <1>8, <1>9 DEF UplinkNext

(* Whatever copies of an upload arrive late, twice or side by side, and       *)
(* however often an upload is tried, the history is the end of the confirmed *)
(* samples in order, each once, followed at most by one that was stored and  *)
(* never confirmed (obdRouter.ts, the sample route; bridge.py, publish).     *)
THEOREM SamplesAreStoredOnce == ServicesSpec => []SamplesStored
<1>1. ServicesInit => UplinkInv
  BY UplinkStart DEF ServicesInit
<1>2. UplinkInv /\ [ServicesNext]_ServicesVars => UplinkInv'
  BY StepsOfServices, UplinkStep
<1>3. UplinkInv => SamplesStored
  <2> SUFFICES ASSUME UplinkInv PROVE SamplesStored
    OBVIOUS
  <2>1. confirmed \in Seq(Samples) /\ recorded.latest \in Samples
        /\ bridge.sequence = Len(confirmed)
    BY DEF UplinkInv, Rows
  <2>2. Len(Append(confirmed, recorded.latest)) = Len(confirmed) + 1
    BY <2>1, AppendFacts
  <2> QED BY <2>1, <2>2 DEF UplinkInv, SamplesStored
<1> QED BY <1>1, <1>2, <1>3, PTL DEF ServicesSpec

------------------------------------------------------------------------------
(* CrawlWalk *)

Entries == [url : Pages, depth : 0..MaxDepth]

CrawlTyped ==
    /\ web \in [Pages -> Seq(Pages)]
    /\ frontier \in Seq(Entries) /\ found \in Seq(Entries)
    /\ visited \subseteq Pages
    /\ session \in {"running", "done"}

(* The crawl follows a link from page p to url. *)
LinksTo(p, url) == url \in Range(Followed(p.url))

(* A queue is sorted by depth and spans two levels at most,                  *)
InOrder(queue) ==
    \A i, j \in DOMAIN queue :
        i <= j => queue[i].depth <= queue[j].depth /\ queue[j].depth <= queue[i].depth + 1

(* lies below the pages that were found,                                     *)
Below(pages, queue) ==
    \A i \in DOMAIN pages, k \in DOMAIN queue : pages[i].depth <= queue[k].depth

(* holds what pages one level above lead to,                                 *)
Grounded(pages, queue) ==
    \A k \in DOMAIN queue :
        \/ queue[k] = At(Seed, 0)
        \/ \E j \in DOMAIN pages : /\ pages[j].depth = queue[k].depth - 1
                                   /\ LinksTo(pages[j], queue[k].url)

(* and, early enough, all of what pages lead to that was not tried.          *)
Waits(queue, url, depth) ==
    \E k \in DOMAIN queue : queue[k].url = url /\ queue[k].depth <= depth

Covered(pages, queue, tried) ==
    \A i \in DOMAIN pages : pages[i].depth < MaxDepth =>
        \A url : LinksTo(pages[i], url) => url \in tried \/ Waits(queue, url, pages[i].depth + 1)

(* What a breadth-first walk finds.                                          *)
Walked(pages) ==
    /\ \A i \in DOMAIN pages :
          IF pages[i].url = Seed THEN pages[i].depth = 0
          ELSE \E j \in 1 .. i - 1 : /\ pages[j].depth = pages[i].depth - 1
                                     /\ LinksTo(pages[j], pages[i].url)
    /\ \A i, j \in DOMAIN pages :
          /\ pages[i].url = pages[j].url => i = j
          /\ LinksTo(pages[j], pages[i].url) /\ pages[j].depth < MaxDepth =>
                pages[i].depth <= pages[j].depth + 1

WalkInv ==
    /\ CrawlTyped
    /\ Len(found) <= MaxPages
    /\ session = "done" => frontier = <<>> \/ Len(found) = MaxPages
    /\ Seed \notin visited => frontier = <<At(Seed, 0)>> /\ found = <<>>
    /\ \A i \in DOMAIN found : found[i].url \in visited
    /\ InOrder(frontier)
    /\ Below(found, frontier)
    /\ Grounded(found, frontier)
    /\ Covered(found, frontier, visited)
    /\ Walked(found)

LEMMA FollowedFacts ==
    ASSUME WalkInv, NEW url \in Pages
    PROVE  Followed(url) \in Seq(Pages)
<1>1. web[url] \in Seq(Pages) /\ Fanout \in Nat
  BY CrawlAssumption DEF WalkInv, CrawlTyped
<1> QED BY <1>1 DEF Followed

(* One turn of the loop, and q[n]: what the first n links leave in the queue.*)
PushOne(queue, link, seen, depth) ==
    IF link \in seen THEN queue ELSE Append(queue, At(link, depth))

Pushes(q, links, seen, depth, n) ==
    /\ q = [i \in 0..n |-> q[i]]
    /\ q[0] = <<>>
    /\ \A i \in 1..n : q[i] = PushOne(q[i - 1], links[i], seen, depth)

LEMMA PushesExist ==
    ASSUME NEW links \in Seq(Pages), NEW seen, NEW depth
    PROVE  \E q : Pushes(q, links, seen, depth, Len(links))
<1> DEFINE T == {n \in 0..Len(links) : ~(\E q : Pushes(q, links, seen, depth, n))}
<1>1. Len(links) \in Nat
  OBVIOUS
<1>2. ASSUME T # {} PROVE FALSE
  <2>0. T \subseteq Nat
    BY <1>1
  <2> HIDE DEF T
  <2>1. PICK n \in T : \A m \in T : n <= m
    BY <1>2, <2>0, LeastNat
  <2> USE DEF T
  <2>2. n \in 0..Len(links) /\ ~(\E q : Pushes(q, links, seen, depth, n))
    BY <2>1
  <2>3. CASE n = 0
    <3> DEFINE q == [i \in 0..0 |-> <<>>]
    <3>1. q[0] = <<>> /\ q = [i \in 0..0 |-> q[i]]
      OBVIOUS
    <3> HIDE DEF q
    <3>2. Pushes(q, links, seen, depth, 0)
      BY <3>1 DEF Pushes
    <3> QED BY <2>2, <2>3, <3>2
  <2>4. CASE n # 0
    <3>1. n - 1 \in 0..Len(links) /\ n - 1 \notin T /\ n \in Nat \ {0}
      BY <1>1, <2>1, <2>2, <2>4
    <3>2. PICK p : Pushes(p, links, seen, depth, n - 1)
      BY <3>1
    <3>3. p[0] = <<>> /\ \A i \in 1..n - 1 : p[i] = PushOne(p[i - 1], links[i], seen, depth)
      BY <3>2 DEF Pushes
    <3> DEFINE last == PushOne(p[n - 1], links[n], seen, depth)
               q == [i \in 0..n |-> IF i = n THEN last ELSE p[i]]
    <3> HIDE DEF last
    <3>4. q = [i \in 0..n |-> q[i]]
      OBVIOUS
    <3>5. q[n] = last /\ \A i \in 0..n - 1 : q[i] = p[i]
      BY <3>1
    <3> HIDE DEF q
    <3>6. q[0] = <<>>
      BY <3>1, <3>3, <3>5
    <3>7. ASSUME NEW i \in 1..n PROVE q[i] = PushOne(q[i - 1], links[i], seen, depth)
      <4>1. i - 1 \in 0..n - 1
        BY <3>1
      <4>2. CASE i = n
        BY <3>5, <4>1, <4>2 DEF last
      <4>3. CASE i # n
        <5>1. i \in 1..n - 1 /\ i \in 0..n - 1
          BY <3>1, <4>3
        <5> QED BY <3>3, <3>5, <4>1, <5>1
      <4> QED BY <4>2, <4>3
    <3>8. Pushes(q, links, seen, depth, n)
      BY <3>4, <3>6, <3>7 DEF Pushes
    <3> QED BY <2>2, <3>8
  <2> QED BY <2>3, <2>4
<1>3. Len(links) \notin T
  BY <1>2
<1> QED BY <1>1, <1>3

(* queue holds entries for links among the first n, and all that are not seen.*)
Queued(queue, S, links, seen, n) ==
    /\ queue \in Seq(S)
    /\ \A k \in 1..Len(queue) : \E i \in 1..n : queue[k].url = links[i]
    /\ \A i \in 1..n : links[i] \notin seen => \E k \in 1..Len(queue) : queue[k].url = links[i]

LEMMA PushQueues ==
    ASSUME NEW S, NEW links, NEW seen, NEW depth, NEW n \in Nat \ {0}, NEW queue,
           Queued(queue, S, links, seen, n - 1), At(links[n], depth) \in S
    PROVE  Queued(PushOne(queue, links[n], seen, depth), S, links, seen, n)
<1>1. /\ queue \in Seq(S) /\ Len(queue) \in Nat
      /\ \A k \in 1..Len(queue) : \E i \in 1..n - 1 : queue[k].url = links[i]
      /\ \A i \in 1..n - 1 : links[i] \notin seen => \E k \in 1..Len(queue) : queue[k].url = links[i]
  BY DEF Queued
<1>2. \A i : i \in 1..n <=> i \in 1..n - 1 \/ i = n
  OBVIOUS
<1>3. CASE links[n] \in seen
  BY <1>1, <1>2, <1>3 DEF Queued, PushOne
<1>4. CASE links[n] \notin seen
  <2> DEFINE e == At(links[n], depth)
             r == Append(queue, e)
  <2>1. PushOne(queue, links[n], seen, depth) = r /\ e.url = links[n]
    BY <1>4 DEF PushOne, At
  <2>2. e \in S
    OBVIOUS
  <2> HIDE DEF e
  <2>3. /\ r \in Seq(S) /\ Len(r) = Len(queue) + 1 /\ r[Len(queue) + 1] = e
        /\ \A k \in 1..Len(queue) : r[k] = queue[k]
    BY <1>1, <2>2, AppendFacts
  <2> HIDE DEF r
  <2>4. \A k : k \in 1..Len(r) <=> k \in 1..Len(queue) \/ k = Len(queue) + 1
    BY <1>1, <2>3
  <2>5. \A k \in 1..Len(r) : \E i \in 1..n : r[k].url = links[i]
    BY <1>1, <1>2, <2>1, <2>3, <2>4
  <2>6. \A i \in 1..n : links[i] \notin seen => \E k \in 1..Len(r) : r[k].url = links[i]
    BY <1>1, <1>2, <2>1, <2>3, <2>4
  <2> QED BY <2>1, <2>3, <2>5, <2>6 DEF Queued
<1> QED BY <1>3, <1>4

(* The loop queues each link that was not seen, and nothing else.            *)
LEMMA PushedFacts ==
    ASSUME NEW S, NEW links \in Seq(Pages), NEW seen, NEW depth,
           \A url \in Pages : At(url, depth) \in S
    PROVE  Queued(Pushed(links, seen, depth), S, links, seen, Len(links))
<1> DEFINE Eq(q) == q = [n \in 0..Len(links) |->
                            IF n = 0 THEN <<>>
                            ELSE IF links[n] \in seen THEN q[n - 1]
                            ELSE Append(q[n - 1], At(links[n], depth))]
           pushed == CHOOSE q : Eq(q)
<1>1. Len(links) \in Nat
  OBVIOUS
<1>2. Pushed(links, seen, depth) = pushed[Len(links)]
  BY DEF Pushed
<1>3. Eq(pushed)
  <2>1. PICK q : Pushes(q, links, seen, depth, Len(links))
    BY PushesExist
  <2>2. \A n \in 0..Len(links) :
              q[n] = IF n = 0 THEN <<>> ELSE PushOne(q[n - 1], links[n], seen, depth)
    BY <1>1, <2>1 DEF Pushes
  <2>3. \A n \in 0..Len(links) :
              q[n] = IF n = 0 THEN <<>>
                     ELSE IF links[n] \in seen THEN q[n - 1]
                     ELSE Append(q[n - 1], At(links[n], depth))
    BY <2>2 DEF PushOne
  <2>4. q = [n \in 0..Len(links) |-> q[n]]
    BY <2>1 DEF Pushes
  <2>5. Eq(q)
    BY <2>3, <2>4
  <2> QED BY <2>5
<1> HIDE DEF pushed
<1>4. \A n \in 0..Len(links) :
        pushed[n] = IF n = 0 THEN <<>> ELSE PushOne(pushed[n - 1], links[n], seen, depth)
  BY <1>3 DEF PushOne
<1> HIDE DEF Eq
<1> DEFINE T == {n \in 0..Len(links) : ~Queued(pushed[n], S, links, seen, n)}
<1>5. ASSUME T # {} PROVE FALSE
  <2>0. T \subseteq Nat
    BY <1>1
  <2> HIDE DEF T
  <2>1. PICK n \in T : \A m \in T : n <= m
    BY <1>5, <2>0, LeastNat
  <2> USE DEF T
  <2>2. n \in 0..Len(links) /\ ~Queued(pushed[n], S, links, seen, n)
    BY <2>1
  <2>3. CASE n = 0
    <3>1. pushed[0] = <<>>
      BY <1>4, <2>2, <2>3
    <3> QED BY <2>2, <2>3, <3>1 DEF Queued
  <2>4. CASE n # 0
    <3>1. n - 1 \in 0..Len(links) /\ n \in Nat \ {0} /\ links[n] \in Pages
      BY <1>1, <2>1, <2>2, <2>4
    <3>2. n - 1 \notin T
      BY <2>1, <3>1
    <3>3. Queued(pushed[n - 1], S, links, seen, n - 1)
      BY <3>1, <3>2
    <3>4. At(links[n], depth) \in S
      BY <3>1
    <3>5. Queued(PushOne(pushed[n - 1], links[n], seen, depth), S, links, seen, n)
      BY <3>1, <3>3, <3>4, PushQueues
    <3> QED BY <1>4, <2>2, <2>4, <3>5
  <2> QED BY <2>3, <2>4
<1>6. Queued(pushed[Len(links)], S, links, seen, Len(links))
  BY <1>1, <1>5
<1> QED BY <1>2, <1>6

LEMMA ConcatFacts ==
    ASSUME NEW S, NEW s \in Seq(S), NEW t \in Seq(S)
    PROVE  /\ s \o t \in Seq(S) /\ Len(s \o t) = Len(s) + Len(t)
           /\ \A k \in 1..Len(s) : (s \o t)[k] = s[k]
           /\ \A k \in 1..Len(t) : (s \o t)[Len(s) + k] = t[k]
OBVIOUS

LEMMA PickedFacts ==
    ASSUME WalkInv, Walking
    PROVE  /\ Picked = frontier[1] /\ Picked \in Entries
           /\ Rest \in Seq(Entries) /\ Len(frontier) = Len(Rest) + 1
           /\ \A k \in 1..Len(Rest) : Rest[k] = frontier[k + 1]
<1>1. frontier \in Seq(Entries) /\ frontier # <<>>
  BY DEF WalkInv, CrawlTyped, Walking
<1>2. Rest = Tail(frontier)
  BY <1>1 DEF Rest, NextEntry, RemoveAt
<1> QED BY <1>1, <1>2 DEF Picked, NextEntry

(* Taking the first entry leaves a queue of the same kind.                   *)
LEMMA RestKeeps ==
    ASSUME WalkInv, Walking
    PROVE  /\ InOrder(Rest) /\ Below(found, Rest) /\ Grounded(found, Rest)
           /\ Covered(found, Rest, visited \cup {Picked.url})
           /\ \A k \in 1..Len(Rest) : /\ Picked.depth <= Rest[k].depth
                                      /\ Rest[k].depth <= Picked.depth + 1
<1>1. /\ Picked = frontier[1] /\ Picked \in Entries /\ Rest \in Seq(Entries)
      /\ Len(frontier) = Len(Rest) + 1 /\ Len(Rest) \in Nat
      /\ \A k \in 1..Len(Rest) : Rest[k] = frontier[k + 1]
  BY PickedFacts
<1>2. frontier \in Seq(Entries) /\ DOMAIN frontier = 1..Len(Rest) + 1 /\ DOMAIN Rest = 1..Len(Rest)
  BY <1>1 DEF WalkInv, CrawlTyped
<1> PICK n \in Nat : n = Len(Rest)
  BY <1>1
<1>3. /\ DOMAIN frontier = 1..n + 1 /\ DOMAIN Rest = 1..n
      /\ \A k \in 1..n : k + 1 \in 1..n + 1 /\ Rest[k] = frontier[k + 1]
  BY <1>1, <1>2
<1>4. \A i, j \in 1..n + 1 :
        i <= j => /\ frontier[i].depth <= frontier[j].depth
                  /\ frontier[j].depth <= frontier[i].depth + 1
  BY <1>3 DEF WalkInv, InOrder
<1>5. InOrder(Rest)
  <2> SUFFICES ASSUME NEW i \in 1..n, NEW j \in 1..n, i <= j
               PROVE  Rest[i].depth <= Rest[j].depth /\ Rest[j].depth <= Rest[i].depth + 1
    BY <1>3 DEF InOrder
  <2>1. i + 1 \in 1..n + 1 /\ j + 1 \in 1..n + 1 /\ i + 1 <= j + 1
    OBVIOUS
  <2> QED BY <1>3, <1>4, <2>1
<1>6. Below(found, Rest)
  BY <1>3 DEF WalkInv, Below
<1>7. Grounded(found, Rest)
  BY <1>3 DEF WalkInv, Grounded
<1>8. Covered(found, Rest, visited \cup {Picked.url})
  <2> SUFFICES ASSUME NEW i \in DOMAIN found, found[i].depth < MaxDepth,
                      NEW url, LinksTo(found[i], url), url \notin visited \cup {Picked.url}
               PROVE  Waits(Rest, url, found[i].depth + 1)
    BY DEF Covered
  <2>1. PICK k \in 1..n + 1 : frontier[k].url = url /\ frontier[k].depth <= found[i].depth + 1
    BY <1>3 DEF WalkInv, Covered, Waits
  <2>2. k # 1
    BY <1>1, <2>1
  <2>3. k - 1 \in 1..n /\ Rest[k - 1] = frontier[k]
    BY <1>3, <2>1, <2>2
  <2> QED BY <1>3, <2>1, <2>3 DEF Waits
<1>9. \A k \in 1..n : Picked.depth <= Rest[k].depth /\ Rest[k].depth <= Picked.depth + 1
  <2> SUFFICES ASSUME NEW k \in 1..n
               PROVE  Picked.depth <= Rest[k].depth /\ Rest[k].depth <= Picked.depth + 1
    OBVIOUS
  <2>1. 1 \in 1..n + 1 /\ k + 1 \in 1..n + 1 /\ 1 <= k + 1
    OBVIOUS
  <2> QED BY <1>1, <1>3, <1>4, <2>1
<1> QED BY <1>5, <1>6, <1>7, <1>8, <1>9

(* What a page adds to the queue.                                            *)
LEMMA ChildrenFacts ==
    ASSUME WalkInv, NEW p \in Entries
    PROVE  /\ Children(p) \in Seq(Entries)
           /\ \A k \in 1..Len(Children(p)) : /\ Children(p)[k].depth = p.depth + 1
                                             /\ LinksTo(p, Children(p)[k].url)
           /\ p.depth < MaxDepth => \A url : LinksTo(p, url) =>
                 url \in visited \cup {p.url} \/ \E k \in 1..Len(Children(p)) : Children(p)[k].url = url
<1>1. p.url \in Pages /\ p.depth \in 0..MaxDepth /\ MaxDepth \in Nat
  BY CrawlAssumption DEF Entries
<1>2. CASE p.depth >= MaxDepth
  <2>1. Children(p) = <<>>
    BY <1>2 DEF Children
  <2> QED BY <1>1, <1>2, <2>1
<1>3. CASE ~(p.depth >= MaxDepth)
  <2> DEFINE links == Followed(p.url)
             seen == visited \cup {p.url}
             S == [url : Pages, depth : {p.depth + 1}]
  <2>1. links \in Seq(Pages)
    BY <1>1, FollowedFacts
  <2>2. \A url \in Pages : At(url, p.depth + 1) \in S
    BY DEF At
  <2>3. \A url : LinksTo(p, url) <=> \E i \in 1..Len(links) : url = links[i]
    BY <2>1 DEF LinksTo, Range
  <2>4. Children(p) = Pushed(links, seen, p.depth + 1)
    BY <1>3 DEF Children
  <2> DEFINE depth == p.depth + 1
  <2>5. S \subseteq Entries /\ \A e \in S : e.depth = p.depth + 1
    BY <1>1, <1>3 DEF Entries
  <2>6. Queued(Pushed(links, seen, depth), S, links, seen, Len(links))
    <3> HIDE DEF links, seen, S
    <3> QED BY <2>1, <2>2, PushedFacts
  <2> HIDE DEF links, seen, S
  <2>7. Queued(Children(p), S, links, seen, Len(links))
    BY <2>4, <2>6
  <2> PICK c : c = Children(p)
    OBVIOUS
  <2>8. /\ c \in Seq(S)
        /\ \A k \in 1..Len(c) : \E i \in 1..Len(links) : c[k].url = links[i]
        /\ \A i \in 1..Len(links) : links[i] \notin seen => \E k \in 1..Len(c) : c[k].url = links[i]
    BY <2>7 DEF Queued
  <2>9. c \in Seq(Entries) /\ \A k \in 1..Len(c) : c[k] \in S
    BY <2>5, <2>8
  <2>10. \A k \in 1..Len(c) : c[k].depth = p.depth + 1 /\ LinksTo(p, c[k].url)
    BY <2>3, <2>5, <2>8, <2>9
  <2>11. ASSUME NEW url, LinksTo(p, url), url \notin seen
         PROVE  \E k \in 1..Len(c) : c[k].url = url
    <3>1. PICK i \in 1..Len(links) : url = links[i]
      BY <2>3, <2>11
    <3>2. links[i] \notin seen
      BY <2>11, <3>1
    <3>3. PICK k \in 1..Len(c) : c[k].url = links[i]
      BY <2>8, <3>2
    <3> QED BY <3>1, <3>3
  <2> QED BY <2>9, <2>10, <2>11 DEF seen
<1> QED BY <1>2, <1>3

(* The page that is visited next is as near to the seed as can be.           *)
LEMMA PickedIsNearest ==
    ASSUME WalkInv, Walking, Picked.url \notin visited
    PROVE  /\ \A i \in DOMAIN found : found[i].url # Picked.url /\ found[i].depth <= Picked.depth
           /\ IF Picked.url = Seed THEN Picked.depth = 0
              ELSE \E j \in DOMAIN found : /\ found[j].depth = Picked.depth - 1
                                           /\ LinksTo(found[j], Picked.url)
           /\ \A j \in DOMAIN found :
                 LinksTo(found[j], Picked.url) /\ found[j].depth < MaxDepth =>
                    Picked.depth <= found[j].depth + 1
<1>1. /\ Picked = frontier[1] /\ Picked \in Entries /\ 1 \in DOMAIN frontier
      /\ \A k \in DOMAIN frontier : k \in Nat /\ 1 <= k
      /\ \A k \in DOMAIN frontier : frontier[k].depth \in Nat
      /\ \A k \in DOMAIN found : found[k].depth \in Nat
  <2>1. Picked = frontier[1] /\ Picked \in Entries
    BY PickedFacts
  <2>2. frontier \in Seq(Entries) /\ found \in Seq(Entries) /\ frontier # <<>>
    BY DEF WalkInv, CrawlTyped, Walking
  <2>3. \A e \in Entries : e.depth \in Nat
    BY CrawlAssumption DEF Entries
  <2>4. /\ \A k \in DOMAIN frontier : frontier[k] \in Entries
        /\ \A k \in DOMAIN found : found[k] \in Entries
    BY <2>2
  <2>5. 1 \in DOMAIN frontier /\ \A k \in DOMAIN frontier : k \in Nat /\ 1 <= k
    BY <2>2
  <2> QED BY <2>1, <2>3, <2>4, <2>5
<1>2. \A i \in DOMAIN found : found[i].url # Picked.url /\ found[i].depth <= Picked.depth
  BY <1>1 DEF WalkInv, Below
<1>3. IF Picked.url = Seed THEN Picked.depth = 0
      ELSE \E j \in DOMAIN found : /\ found[j].depth = Picked.depth - 1
                                   /\ LinksTo(found[j], Picked.url)
  <2>1. CASE Picked.url = Seed
    <3>1. frontier = <<At(Seed, 0)>>
      BY <2>1 DEF WalkInv
    <3>2. Picked = At(Seed, 0)
      BY <1>1, <3>1
    <3> QED BY <2>1, <3>2 DEF At
  <2>2. CASE Picked.url # Seed
    <3>1. Picked # At(Seed, 0)
      BY <2>2 DEF At
    <3> QED BY <1>1, <2>2, <3>1 DEF WalkInv, Grounded
  <2> QED BY <2>1, <2>2
<1>4. ASSUME NEW j \in DOMAIN found, LinksTo(found[j], Picked.url), found[j].depth < MaxDepth
      PROVE  Picked.depth <= found[j].depth + 1
  <2>1. PICK k \in DOMAIN frontier : frontier[k].depth <= found[j].depth + 1
    BY <1>4 DEF WalkInv, Covered, Waits
  <2>2. frontier[1].depth <= frontier[k].depth
    BY <1>1 DEF WalkInv, InOrder
  <2>3. frontier[1].depth \in Nat /\ frontier[k].depth \in Nat /\ found[j].depth \in Nat
    BY <1>1
  <2> QED BY <1>1, <2>1, <2>2, <2>3
<1> QED BY <1>2, <1>3, <1>4

LEMMA SamePages ==
    ASSUME web' = web
    PROVE  \A p, url : LinksTo(p, url)' <=> LinksTo(p, url)
BY DEF LinksTo, Followed

(* Nothing is found: only the first entry goes.                              *)
LEMMA WalkSkips ==
    ASSUME WalkInv, Walking, UNCHANGED <<web, found, session>>, frontier' = Rest,
           visited' = visited \cup {Picked.url}
    PROVE  WalkInv'
<1>1. Picked \in Entries /\ Rest \in Seq(Entries)
  BY PickedFacts
<1>2. CrawlTyped'
  BY <1>1 DEF WalkInv, CrawlTyped, Entries
<1>3. Seed \in visited'
  <2>1. CASE Seed \notin visited
    <3>1. frontier = <<At(Seed, 0)>> /\ Picked = frontier[1]
      BY <2>1, PickedFacts DEF WalkInv
    <3>2. Picked.url = Seed
      BY <3>1 DEF At
    <3> QED BY <3>2
  <2> QED BY <2>1
<1>4. session' = "running"
  BY DEF Walking
<1>5. /\ InOrder(Rest) /\ Below(found, Rest) /\ Grounded(found, Rest)
      /\ Covered(found, Rest, visited \cup {Picked.url}) /\ Walked(found)
  BY RestKeeps DEF WalkInv
<1>6. /\ InOrder(frontier)' /\ Below(found, frontier)' /\ Grounded(found, frontier)'
      /\ Covered(found, frontier, visited)' /\ Walked(found)'
  BY <1>5, SamePages DEF InOrder, Below, Grounded, Covered, Walked, Waits
<1> QED BY <1>2, <1>3, <1>4, <1>6 DEF WalkInv

LEMMA WalkFinds ==
    ASSUME WalkInv, PageFound
    PROVE  WalkInv'
<1> DEFINE p == Picked
           c == Children(Picked)
           n == Len(found)
<1>1. /\ Walking /\ p.url \notin visited /\ p \in Entries /\ Rest \in Seq(Entries)
      /\ c \in Seq(Entries) /\ found \in Seq(Entries) /\ n \in Nat
      /\ found' = Append(found, p) /\ frontier' = Rest \o c /\ visited' = visited \cup {p.url}
      /\ UNCHANGED <<web, session>>
  BY PickedFacts, ChildrenFacts DEF PageFound, Visit, WalkInv, CrawlTyped
<1>2. /\ frontier' \in Seq(Entries) /\ Len(frontier') = Len(Rest) + Len(c)
      /\ \A k \in 1..Len(Rest) : frontier'[k] = Rest[k]
      /\ \A k \in 1..Len(c) : frontier'[Len(Rest) + k] = c[k]
  BY <1>1, ConcatFacts
<1>3. /\ found' \in Seq(Entries) /\ Len(found') = n + 1 /\ found'[n + 1] = p
      /\ \A i \in 1..n : found'[i] = found[i]
  BY <1>1, AppendFacts
<1>4. /\ DOMAIN found = 1..n /\ DOMAIN found' = 1..n + 1
      /\ \A i : i \in 1..n + 1 <=> i \in 1..n \/ i = n + 1
  BY <1>1, <1>3
<1>5. /\ DOMAIN Rest = 1..Len(Rest) /\ Len(Rest) \in Nat /\ Len(c) \in Nat
      /\ DOMAIN frontier' = 1..Len(Rest) + Len(c)
      /\ \A k \in DOMAIN frontier' : \/ k \in 1..Len(Rest) /\ frontier'[k] = Rest[k]
                                     \/ /\ k > Len(Rest) /\ k - Len(Rest) \in 1..Len(c)
                                        /\ frontier'[k] = c[k - Len(Rest)]
  <2>1. DOMAIN Rest = 1..Len(Rest) /\ Len(Rest) \in Nat /\ Len(c) \in Nat
        /\ DOMAIN frontier' = 1..Len(Rest) + Len(c)
    BY <1>1, <1>2
  <2>2. ASSUME NEW k \in 1..Len(Rest) + Len(c), k \notin 1..Len(Rest)
        PROVE  k > Len(Rest) /\ k - Len(Rest) \in 1..Len(c) /\ frontier'[k] = c[k - Len(Rest)]
    <3>1. k > Len(Rest) /\ k - Len(Rest) \in 1..Len(c) /\ Len(Rest) + (k - Len(Rest)) = k
      BY <2>1, <2>2
    <3> QED BY <1>2, <3>1
  <2> QED BY <1>2, <2>1, <2>2
<1>6. /\ p.depth \in 0..MaxDepth /\ p.url \in Pages /\ MaxDepth \in Nat
      /\ \A i \in 1..n : found[i].depth \in Nat
      /\ \A k \in 1..Len(Rest) : Rest[k].depth \in Nat
  <2>1. \A e \in Entries : e.depth \in 0..MaxDepth /\ e.url \in Pages
    BY DEF Entries
  <2>2. MaxDepth \in Nat
    BY CrawlAssumption
  <2>3. \A e \in Entries : e.depth \in Nat
    BY <2>1, <2>2
  <2>4. \A i \in 1..n : found[i] \in Entries
    BY <1>1, <1>4
  <2>5. \A k \in 1..Len(Rest) : Rest[k] \in Entries
    BY <1>1
  <2> QED BY <1>1, <2>1, <2>2, <2>3, <2>4, <2>5
<1>7. /\ \A k \in 1..Len(c) : c[k].depth = p.depth + 1 /\ LinksTo(p, c[k].url)
      /\ p.depth < MaxDepth => \A url : LinksTo(p, url) =>
            url \in visited' \/ \E k \in 1..Len(c) : c[k].url = url
  BY <1>1, ChildrenFacts
<1>8. /\ InOrder(Rest) /\ Below(found, Rest) /\ Grounded(found, Rest)
      /\ Covered(found, Rest, visited') /\ Walked(found)
      /\ \A k \in 1..Len(Rest) : p.depth <= Rest[k].depth /\ Rest[k].depth <= p.depth + 1
  BY <1>1, RestKeeps DEF WalkInv
<1>9. /\ \A i \in 1..n : found[i].url # p.url /\ found[i].depth <= p.depth
      /\ IF p.url = Seed THEN p.depth = 0
         ELSE \E j \in 1..n : found[j].depth = p.depth - 1 /\ LinksTo(found[j], p.url)
      /\ \A j \in 1..n : LinksTo(found[j], p.url) /\ found[j].depth < MaxDepth =>
            p.depth <= found[j].depth + 1
  BY <1>1, <1>4, PickedIsNearest
<1>10. \A k \in DOMAIN frontier' : /\ frontier'[k].depth \in Nat /\ p.depth <= frontier'[k].depth
                                   /\ frontier'[k].depth <= p.depth + 1
  BY <1>5, <1>6, <1>7, <1>8
<1> HIDE DEF p, c, n
<1>11. CrawlTyped' /\ Seed \in visited' /\ session' = "running" /\ Len(found') <= MaxPages
  <2>1. Seed \in visited'
    <3>1. CASE Seed \notin visited
      <4>1. frontier = <<At(Seed, 0)>> /\ p = frontier[1]
        BY <1>1, <3>1, PickedFacts DEF WalkInv, p
      <4>2. p.url = Seed
        BY <4>1 DEF At
      <4> QED BY <1>1, <4>2
    <3> QED BY <1>1, <3>1
  <2>2. Len(found') <= MaxPages
    BY <1>1, <1>3, CrawlAssumption DEF Walking, n
  <2> QED BY <1>1, <1>2, <1>3, <1>6, <2>1, <2>2 DEF WalkInv, CrawlTyped, Walking
<1>12. \A i \in DOMAIN found' : found'[i].url \in visited'
  BY <1>1, <1>3, <1>4 DEF WalkInv
<1>13. InOrder(frontier')
  <2> SUFFICES ASSUME NEW i \in DOMAIN frontier', NEW j \in DOMAIN frontier', i <= j
               PROVE  /\ frontier'[i].depth <= frontier'[j].depth
                      /\ frontier'[j].depth <= frontier'[i].depth + 1
    BY DEF InOrder
  <2>1. CASE j \in 1..Len(Rest)
    <3>1. i \in 1..Len(Rest)
      BY <1>5, <2>1
    <3> QED BY <1>2, <1>5, <1>8, <2>1, <3>1 DEF InOrder
  <2>2. CASE j \notin 1..Len(Rest)
    <3>1. frontier'[j].depth = p.depth + 1
      BY <1>5, <1>7, <2>2
    <3> QED BY <1>6, <1>10, <3>1
  <2> QED BY <2>1, <2>2
<1>14. Below(found', frontier')
  <2> SUFFICES ASSUME NEW i \in 1..n + 1, NEW k \in DOMAIN frontier'
               PROVE  found'[i].depth <= frontier'[k].depth
    BY <1>4 DEF Below
  <2>1. found'[i].depth \in Nat /\ found'[i].depth <= p.depth
    BY <1>3, <1>4, <1>6, <1>9
  <2> QED BY <1>6, <1>10, <2>1
<1>15. Grounded(found', frontier')
  <2> SUFFICES ASSUME NEW k \in DOMAIN frontier', frontier'[k] # At(Seed, 0)
               PROVE  \E j \in 1..n + 1 : /\ found'[j].depth = frontier'[k].depth - 1
                                          /\ LinksTo(found'[j], frontier'[k].url)
    BY <1>4 DEF Grounded
  <2>1. CASE k \in 1..Len(Rest)
    <3>1. frontier'[k] = Rest[k]
      BY <1>2, <2>1
    <3>2. PICK j \in 1..n : found[j].depth = Rest[k].depth - 1 /\ LinksTo(found[j], Rest[k].url)
      BY <1>4, <1>5, <1>8, <2>1, <3>1 DEF Grounded
    <3> QED BY <1>3, <1>4, <3>1, <3>2
  <2>2. CASE k \notin 1..Len(Rest)
    <3>1. frontier'[k].depth = p.depth + 1 /\ LinksTo(p, frontier'[k].url)
      BY <1>5, <1>7, <2>2
    <3>2. p.depth = frontier'[k].depth - 1
      BY <1>6, <3>1
    <3> QED BY <1>3, <1>4, <3>1, <3>2
  <2> QED BY <2>1, <2>2
<1>16. Covered(found', frontier', visited')
  <2> SUFFICES ASSUME NEW i \in 1..n + 1, found'[i].depth < MaxDepth,
                      NEW url, LinksTo(found'[i], url), url \notin visited'
               PROVE  \E k \in DOMAIN frontier' : /\ frontier'[k].url = url
                                                  /\ frontier'[k].depth <= found'[i].depth + 1
    BY <1>4 DEF Covered, Waits
  <2>1. CASE i \in 1..n
    <3>1. PICK k \in 1..Len(Rest) : Rest[k].url = url /\ Rest[k].depth <= found[i].depth + 1
      BY <1>3, <1>4, <1>5, <1>8, <2>1 DEF Covered, Waits
    <3>2. k \in DOMAIN frontier' /\ frontier'[k] = Rest[k]
      BY <1>2, <1>5
    <3> QED BY <1>3, <2>1, <3>1, <3>2
  <2>2. CASE i = n + 1
    <3>1. PICK k \in 1..Len(c) : c[k].url = url
      BY <1>3, <1>7, <2>2
    <3>2. Len(Rest) + k \in DOMAIN frontier' /\ frontier'[Len(Rest) + k] = c[k]
      BY <1>2, <1>5
    <3>3. frontier'[Len(Rest) + k].depth <= found'[i].depth + 1
      BY <1>3, <1>10, <2>2, <3>2
    <3> QED BY <3>1, <3>2, <3>3
  <2> QED BY <1>4, <2>1, <2>2
<1>17. Walked(found')
  <2>1. ASSUME NEW i \in 1..n + 1
        PROVE  IF found'[i].url = Seed THEN found'[i].depth = 0
               ELSE \E j \in 1 .. i - 1 : /\ found'[j].depth = found'[i].depth - 1
                                          /\ LinksTo(found'[j], found'[i].url)
    <3>1. CASE i \in 1..n
      <4>1. \A j \in 1 .. i - 1 : j \in 1..n
        BY <1>1, <3>1
      <4>2. IF found[i].url = Seed THEN found[i].depth = 0
            ELSE \E j \in 1 .. i - 1 : found[j].depth = found[i].depth - 1 /\ LinksTo(found[j], found[i].url)
        BY <1>4, <1>8, <3>1 DEF Walked
      <4> QED BY <1>3, <3>1, <4>1, <4>2
    <3>2. CASE i = n + 1
      <4>1. i - 1 = n
        BY <1>1, <3>2 DEF n
      <4> QED BY <1>3, <1>9, <3>2, <4>1
    <3> QED BY <1>4, <3>1, <3>2
  <2>2. ASSUME NEW i \in 1..n + 1, NEW j \in 1..n + 1, found'[i].url = found'[j].url PROVE i = j
    BY <1>3, <1>4, <1>8, <1>9, <2>2 DEF Walked
  <2>3. ASSUME NEW i \in 1..n + 1, NEW j \in 1..n + 1,
               LinksTo(found'[j], found'[i].url), found'[j].depth < MaxDepth
        PROVE  found'[i].depth <= found'[j].depth + 1
    <3>1. CASE i \in 1..n /\ j \in 1..n
      <4>1. found'[i] = found[i] /\ found'[j] = found[j]
        BY <1>3, <3>1
      <4> QED BY <1>4, <1>8, <2>3, <3>1, <4>1 DEF Walked
    <3>2. CASE j = n + 1
      <4>1. found'[j] = p /\ found'[i].depth <= p.depth /\ found'[i].depth \in Nat
        BY <1>3, <1>4, <1>6, <1>9, <3>2
      <4> QED BY <1>6, <4>1
    <3>3. CASE i = n + 1 /\ j \in 1..n
      <4>1. found'[i] = p /\ found'[j] = found[j]
        BY <1>3, <3>3
      <4> QED BY <1>9, <2>3, <3>3, <4>1
    <3> QED BY <1>4, <3>1, <3>2, <3>3
  <2> QED BY <1>4, <2>1, <2>2, <2>3 DEF Walked
<1>18. InOrder(frontier)' /\ Below(found, frontier)' /\ Grounded(found, frontier)'
       /\ Covered(found, frontier, visited)' /\ Walked(found)'
  <2>1. \A q, url : LinksTo(q, url)' <=> LinksTo(q, url)
    BY <1>1, SamePages
  <2>2. InOrder(frontier)' /\ Below(found, frontier)'
    BY <1>13, <1>14 DEF InOrder, Below
  <2>3. Grounded(found, frontier)'
    BY <1>15, <2>1 DEF Grounded
  <2>4. Covered(found, frontier, visited)'
    BY <1>16, <2>1 DEF Covered, Waits
  <2>5. Walked(found)'
    BY <1>17, <2>1 DEF Walked
  <2> QED BY <2>2, <2>3, <2>4, <2>5
<1> QED BY <1>11, <1>12, <1>18 DEF WalkInv

LEMMA WalkStart == CrawlInit => WalkInv
<1> SUFFICES ASSUME CrawlInit PROVE WalkInv
  OBVIOUS
<1>1. /\ web \in [Pages -> Seq(Pages)] /\ frontier = <<At(Seed, 0)>>
      /\ visited = {} /\ found = <<>> /\ session = "running"
  BY CrawlAssumption DEF CrawlInit
<1>2. At(Seed, 0) \in Entries /\ At(Seed, 0).depth = 0
  BY CrawlAssumption DEF At, Entries
<1> PICK e : e = At(Seed, 0)
  OBVIOUS
<1>3. /\ e \in Entries /\ e.depth = 0 /\ frontier = <<e>> /\ DOMAIN frontier = {1}
      /\ frontier[1] = e /\ DOMAIN found = {} /\ Len(found) = 0
  BY <1>1, <1>2
<1>4. CrawlTyped
  BY <1>1, <1>3 DEF CrawlTyped
<1>5. InOrder(frontier)
  BY <1>3 DEF InOrder
<1>6. /\ Below(found, frontier) /\ Grounded(found, frontier)
      /\ Covered(found, frontier, visited) /\ Walked(found)
  BY <1>3 DEF Below, Grounded, Covered, Walked
<1> QED BY <1>1, <1>3, <1>4, <1>5, <1>6, CrawlAssumption DEF WalkInv

LEMMA WalkStep == WalkInv /\ [CrawlNext]_crawl => WalkInv'
<1> SUFFICES ASSUME WalkInv, [CrawlNext]_crawl PROVE WalkInv'
  OBVIOUS
<1>1. CASE SkipVisited
  <2>1. /\ Walking /\ UNCHANGED <<web, found, session>> /\ frontier' = Rest
        /\ visited' = visited \cup {Picked.url}
    BY <1>1 DEF SkipVisited
  <2> QED BY <2>1, WalkSkips
<1>2. CASE PageFails
  <2>1. /\ Walking /\ UNCHANGED <<web, found, session>> /\ frontier' = Rest
        /\ visited' = visited \cup {Picked.url}
    BY <1>2 DEF PageFails, Visit
  <2> QED BY <2>1, WalkSkips
<1>3. CASE PageFound
  BY <1>3, WalkFinds
<1>4. CASE CrawlDone
  <2>1. /\ web' = web /\ frontier' = frontier /\ visited' = visited /\ found' = found
        /\ session' = "done" /\ ~Walking /\ session = "running"
    BY <1>4 DEF CrawlDone
  <2>2. Len(found) \in Nat /\ MaxPages \in Nat /\ Len(found) <= MaxPages
    BY CrawlAssumption DEF WalkInv, CrawlTyped
  <2>3. frontier = <<>> \/ Len(found) = MaxPages
    BY <2>1, <2>2 DEF Walking
  <2>4. CrawlTyped'
    BY <2>1 DEF WalkInv, CrawlTyped
  <2>5. /\ InOrder(frontier)' /\ Below(found, frontier)' /\ Grounded(found, frontier)'
        /\ Covered(found, frontier, visited)' /\ Walked(found)'
    BY <2>1, SamePages DEF WalkInv, InOrder, Below, Grounded, Covered, Walked, Waits
  <2> QED BY <2>1, <2>3, <2>4, <2>5 DEF WalkInv
<1>5. CASE UNCHANGED crawl
  <2>1. web' = web /\ frontier' = frontier /\ visited' = visited /\ found' = found /\ session' = session
    BY <1>5 DEF crawl
  <2>2. CrawlTyped'
    BY <2>1 DEF WalkInv, CrawlTyped
  <2>3. /\ InOrder(frontier)' /\ Below(found, frontier)' /\ Grounded(found, frontier)'
        /\ Covered(found, frontier, visited)' /\ Walked(found)'
    BY <2>1, SamePages DEF WalkInv, InOrder, Below, Grounded, Covered, Walked, Waits
  <2> QED BY <2>1, <2>2, <2>3 DEF WalkInv
<1> QED BY <1>1, <1>2, <1>3, <1>4, <1>5 DEF CrawlNext

(* startCrawl: the results are those of a breadth-first walk, each page once *)
(* and at its least depth, and a crawl that ends below maxPages tried every  *)
(* link it was to follow.                                                    *)
THEOREM CrawlsAreBreadthFirst == ServicesSpec => []BreadthFirst
<1>1. ServicesInit => WalkInv
  BY WalkStart DEF ServicesInit
<1>2. WalkInv /\ [ServicesNext]_ServicesVars => WalkInv'
  BY StepsOfServices, WalkStep
<1>3. WalkInv => BreadthFirst
  <2> SUFFICES ASSUME WalkInv PROVE BreadthFirst
    OBVIOUS
  <2>1. /\ found \in Seq(Entries) /\ Len(found) <= MaxPages /\ Walked(found)
        /\ Covered(found, frontier, visited) /\ MaxDepth \in Nat /\ MaxPages \in Nat
        /\ session = "done" => frontier = <<>> \/ Len(found) = MaxPages
    BY CrawlAssumption DEF WalkInv, CrawlTyped
  <2>2. ASSUME NEW url, NEW i \in ResultsOf(url), NEW j \in ResultsOf(url) PROVE i = j
    BY <2>1, <2>2 DEF ResultsOf, Walked
  <2>3. ASSUME NEW i \in DOMAIN found PROVE found[i].depth <= MaxDepth
    <3>1. found[i] \in Entries
      BY <2>1
    <3> QED BY <2>1, <3>1 DEF Entries
  <2>4. ASSUME NEW i \in DOMAIN found
        PROVE  /\ IF found[i].url = Seed THEN found[i].depth = 0
                  ELSE \E j \in 1 .. i - 1 :
                          /\ found[j].depth = found[i].depth - 1
                          /\ found[i].url \in Range(Followed(found[j].url))
               /\ \A j \in DOMAIN found :
                     found[i].url \in Range(Followed(found[j].url)) /\ found[j].depth < MaxDepth =>
                        found[i].depth <= found[j].depth + 1
    BY <2>1 DEF Walked, LinksTo
  <2>5. ASSUME session = "done", Len(found) < MaxPages, NEW i \in DOMAIN found,
               found[i].depth < MaxDepth
        PROVE  Range(Followed(found[i].url)) \subseteq visited
    <3>1. frontier = <<>>
      BY <2>1, <2>5
    <3>2. \A url : ~Waits(frontier, url, found[i].depth + 1)
      BY <3>1 DEF Waits
    <3> QED BY <2>1, <2>5, <3>2 DEF Covered, LinksTo
  <2> QED BY <2>1, <2>2, <2>3, <2>4, <2>5 DEF BreadthFirst
<1> QED BY <1>1, <1>2, <1>3, PTL DEF ServicesSpec
==============================================================================
