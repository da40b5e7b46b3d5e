---------------------------- MODULE GovernedAction ----------------------------
(***************************************************************************)
(* What the governed tools of the execution spine promise about the action *)
(* of each plan step, without leases, workers or lost answers: a guarded   *)
(* action is granted before it starts, a grant is spent by starting, and   *)
(* whatever was started takes place at most once.                          *)
(***************************************************************************)
EXTENDS Naturals

CONSTANTS
    Steps,          \* the steps of the plan that can act
    Guarded         \* those of them that need a grant

VARIABLES
    permit,         \* permit[s]: what the approval ledger says
    ledger,         \* ledger[s]: what the run ledger says
    applied         \* applied[s]: times the action took place

Init ==
    /\ permit = [s \in Steps |-> "none"]
    /\ ledger = [s \in Steps |-> "absent"]
    /\ applied = [s \in Steps |-> 0]

Move(s, p) == permit' = [permit EXCEPT ![s] = p]

(* A receipt is recorded; policy may grant it at once. *)
Ask(s) ==
    /\ permit[s] = "none"
    /\ Move(s, "pending") \/ Move(s, "granted")
    /\ UNCHANGED <<ledger, applied>>

Answer(s) ==
    /\ permit[s] = "pending"
    /\ Move(s, "granted") \/ Move(s, "denied")
    /\ UNCHANGED <<ledger, applied>>

(* Starting spends the grant. *)
Start(s) ==
    /\ ledger[s] = "absent"
    /\ ledger' = [ledger EXCEPT ![s] = "running"]
    /\ IF s \in Guarded THEN permit[s] = "granted" /\ Move(s, "spent") ELSE UNCHANGED permit
    /\ UNCHANGED applied

(* A started action may take place after its outcome was settled by hand. *)
Apply(s) ==
    /\ ledger[s] # "absent" /\ applied[s] = 0
    /\ applied' = [applied EXCEPT ![s] = 1]
    /\ UNCHANGED <<permit, ledger>>

Settle(s) ==
    /\ ledger[s] = "running"
    /\ ledger' = [ledger EXCEPT ![s] = "succeeded"]
    /\ UNCHANGED <<permit, applied>>

Next == \E s \in Steps : Ask(s) \/ Answer(s) \/ Start(s) \/ Apply(s) \/ Settle(s)

Spec == Init /\ [][Next]_<<permit, ledger, applied>>
=============================================================================
