----------------------------- MODULE TokenBudget ------------------------------
(***************************************************************************)
(* The token ledger of one mission: spine_budgets, spine_model_runs and the *)
(* two functions that write them (execution_spine_hardening.sql).  A        *)
(* function is one transaction, so it is one step.  A run is named by a     *)
(* random uuid; here runs are numbered in the order they are reserved.      *)
(***************************************************************************)
EXTENDS Integers

CONSTANTS
    Callers,    \* the worker processes that call models for the mission
    Nobody,     \* no caller
    Maxima,     \* the values max_tokens may have
    MaxRuns     \* bound: rows of spine_model_runs (every run keeps a charge of
                \* at least 1, so no more than the largest maximum are granted)

ASSUME BudgetAssumption ==
    /\ Nobody \notin Callers
    /\ Maxima \subseteq Nat \ {0}
    /\ MaxRuns \in Nat
    /\ \A m \in Maxima : m <= MaxRuns

VARIABLES
    holder,     \* spine_leases: who may write
    maximum,    \* constraints.max_tokens of the mission
    spent,      \* spine_budgets.reserved_tokens
    runs,       \* spine_model_runs
    used        \* how many rows spine_model_runs has

budgetVars == <<holder, maximum, spent, runs, used>>

Providers == {"openrouter", "groq", "gemini", "cloudflare"}

RunIds == 1..MaxRuns

Run == [status : {"none", "reserved", "settled"},
        provider : Providers,
        tokens : Nat,
        actual : Nat]

NoRun == [status |-> "none", provider |-> "groq", tokens |-> 0, actual |-> 0]

BudgetInit ==
    /\ holder = Nobody
    /\ maximum \in Maxima
    /\ spent = 0
    /\ runs = [r \in RunIds |-> NoRun]
    /\ used = 0

----------------------------------------------------------------------------
(* spine_reserve_call *)

LeaseLost(c) == holder # c

Exhausted(n) == spent + n > maximum

ReserveRun(p, n) ==
    /\ used < MaxRuns
    /\ used' = used + 1
    /\ spent' = spent + n
    /\ runs' = [runs EXCEPT ![used + 1] =
                    [status |-> "reserved", provider |-> p, tokens |-> n, actual |-> 0]]
    /\ UNCHANGED <<holder, maximum>>

(* Mutant: the reservation is not given back. *)
SettleRunFull(r, n) ==
    /\ runs[r].status = "reserved"
    /\ runs' = [runs EXCEPT ![r] = [@ EXCEPT !.status = "settled", !.actual = n]]
    /\ spent' = spent + n
    /\ UNCHANGED <<holder, maximum, used>>

(* spine_settle_call *)
SettleRun(r, n) ==
    /\ runs[r].status = "reserved"
    /\ runs' = [runs EXCEPT ![r] = [@ EXCEPT !.status = "settled", !.actual = n]]
    /\ spent' = spent - runs[r].tokens + n
    /\ UNCHANGED <<holder, maximum, used>>

----------------------------------------------------------------------------
(* The lease, as far as the ledger sees it: it is free, taken, taken back by *)
(* a heartbeat, released, or it ends (SpineStore has the details).           *)
TakeLease(c) ==
    /\ holder = Nobody
    /\ holder' = c
    /\ UNCHANGED <<maximum, spent, runs, used>>

EndLease ==
    /\ holder # Nobody
    /\ holder' = Nobody
    /\ UNCHANGED <<maximum, spent, runs, used>>

(* spine_resume: nobody holds the mission, and the administrator gives it    *)
(* another maximum, which may be smaller than what is spent.                 *)
Resume(m) ==
    /\ holder = Nobody
    /\ maximum' = m
    /\ UNCHANGED <<holder, spent, runs, used>>
===============================================================================
