------------------------------ MODULE DualKeys ------------------------------
(***************************************************************************)
(* The governance engine (src/microfixd/backend/core/governance/engine.ts):  *)
(* a high-risk action is allowed by an approved request, by the operator's   *)
(* bypass, or by two keys, a system check and a human approval that ends     *)
(* after a while.  Nothing happens when it ends: whoever asks for the keys   *)
(* finds out.                                                                *)
(***************************************************************************)
EXTENDS Naturals, Sequences

CONSTANTS Deeds,        \* high-risk actions of agents
          Seeded,       \* the one the engine starts with an approved request for
          Listed        \* approval requests that are kept (30)

VARIABLES keys,         \* dualKeyStatus: check passed, approved, authorized, expiresAt
          bypass,       \* autoApproveBypass
          asked,        \* approvalRequests, the newest first
          ruling,      \* the last decision, and how things stood when it was made
          stands        \* is the last human approval neither revoked nor past its end?
governance == <<keys, bypass, asked, ruling, stands>>

KeysInit ==
    /\ keys = [checked |-> FALSE, approved |-> FALSE, authorized |-> FALSE, ends |-> "never"]
    /\ bypass = FALSE
    /\ asked = <<[deed |-> Seeded, status |-> "APPROVED"]>>
    /\ ruling = [decision |-> "none", grounds |-> {}]
    /\ stands = FALSE

(* getDualKeyStatus: keys that were authorized and have run out are dropped  *)
(* when they are looked at; the check stays passed for the next approval.    *)
AsStored(k) == k
Looked(k) ==
    IF k.authorized /\ k.ends = "past"
      THEN [k EXCEPT !.authorized = FALSE, !.approved = FALSE]
      ELSE k

-----------------------------------------------------------------------------
(* The keys *)

RunSystemCheck(passed) ==
    /\ keys' = Looked([keys EXCEPT !.checked = passed,
                                   !.authorized = passed /\ keys.approved])
    /\ UNCHANGED <<bypass, asked, ruling, stands>>

GrantHumanApproval ==
    /\ keys' = [keys EXCEPT !.approved = TRUE, !.ends = "ahead", !.authorized = keys.checked]
    /\ stands' = TRUE
    /\ UNCHANGED <<bypass, asked, ruling>>

RevokeDualKey ==
    /\ keys' = [checked |-> FALSE, approved |-> FALSE, authorized |-> FALSE, ends |-> "never"]
    /\ stands' = FALSE
    /\ UNCHANGED <<bypass, asked, ruling>>

TimePasses ==
    /\ keys.ends = "ahead"
    /\ keys' = [keys EXCEPT !.ends = "past"]
    /\ stands' = FALSE
    /\ UNCHANGED <<bypass, asked, ruling>>

SetBypassMode ==
    /\ bypass' = ~bypass
    /\ UNCHANGED <<keys, asked, ruling, stands>>

-----------------------------------------------------------------------------
(* Decisions *)

HasRequest(deed, status) == \E i \in DOMAIN asked : asked[i] = [deed |-> deed, status |-> status]

(* createApprovalRequest: at most one is pending for an action, and the      *)
(* oldest falls off the end of the list.                                     *)
WithRequest(deed) ==
    IF HasRequest(deed, "PENDING") THEN asked
    ELSE LET longer == <<[deed |-> deed, status |-> "PENDING"]>> \o asked
         IN SubSeq(longer, 1, IF Len(longer) > Listed THEN Listed ELSE Len(longer))

(* What really speaks for a high-risk action at this moment.                 *)
Grounds(deed) ==
    (IF HasRequest(deed, "APPROVED") THEN {"request"} ELSE {}) \cup
    (IF bypass THEN {"bypass"} ELSE {}) \cup
    (IF keys.checked /\ stands THEN {"keys"} ELSE {})

AllowRequested(deed) ==
    /\ HasRequest(deed, "APPROVED")
    /\ ruling' = [decision |-> "ALLOW", grounds |-> Grounds(deed)]
    /\ UNCHANGED <<keys, bypass, asked, stands>>

(* The dissector finds too low a compliance score.                           *)
BlockDeed(deed) ==
    /\ ~HasRequest(deed, "APPROVED")
    /\ ruling' = [decision |-> "BLOCK", grounds |-> Grounds(deed)]
    /\ UNCHANGED <<keys, bypass, asked, stands>>

WeighDeed(deed) ==
    /\ ~HasRequest(deed, "APPROVED")
    /\ keys' = Looked(keys)
    /\ \/ /\ keys'.authorized \/ bypass
          /\ ruling' = [decision |-> "ALLOW", grounds |-> Grounds(deed)]
          /\ UNCHANGED asked
       \/ /\ ~keys'.authorized /\ ~bypass
          /\ ruling' = [decision |-> "PENDING_APPROVAL", grounds |-> Grounds(deed)]
          /\ asked' = WithRequest(deed)
    /\ UNCHANGED <<bypass, stands>>

(* resolveApprovalRequest, also of a request that was decided before.        *)
ResolveRequest(i, status) ==
    /\ asked' = [asked EXCEPT ![i].status = status]
    /\ UNCHANGED <<keys, bypass, ruling, stands>>

KeysNext ==
    \/ \E passed \in BOOLEAN : RunSystemCheck(passed)
    \/ GrantHumanApproval \/ RevokeDualKey \/ TimePasses \/ SetBypassMode
    \/ \E deed \in Deeds : AllowRequested(deed) \/ BlockDeed(deed) \/ WeighDeed(deed)
    \/ \E i \in DOMAIN asked, status \in {"APPROVED", "REJECTED"} : ResolveRequest(i, status)

-----------------------------------------------------------------------------
(* Properties *)

(* The authorization is a stored flag, but no order of checks, approvals,    *)
(* revocations and waiting makes it outlive what it stands for: an action is *)
(* allowed on an approved request, the bypass, or a passed check with a      *)
(* human approval that still stands, and waits for approval only without     *)
(* any of these (engine.ts 320: "requires Dual-Key Authorization").          *)
DecisionsGrounded ==
    /\ ruling.decision = "ALLOW" => ruling.grounds # {}
    /\ ruling.decision = "PENDING_APPROVAL" => ruling.grounds = {}
=============================================================================
