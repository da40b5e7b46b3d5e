------------------------------ MODULE ModelCalls ------------------------------
(***************************************************************************)
(* modelCall (supabaseRuntime.ts) over completeTextWithFallback             *)
(* (llmFallback.ts) and executeGroqWithRetry (groqRetry.ts): one call tries *)
(* the configured providers in order, Groq several times with several       *)
(* models, and reserves tokens before every dispatch.  The callers share    *)
(* the ledger of TokenBudget.                                               *)
(***************************************************************************)
EXTENDS TokenBudget

CONSTANTS
    Configured,   \* the providers with a key
    NModels,      \* VERIFIED_GROQ_MODELS, numbered in their order
    FirstModel,   \* groqConfiguration().model; 0 when it is not in that list
    MaxRetries,   \* maxRetries of llmFallback.ts
    Overhead,     \* the prompt's share of a reservation
    Outputs       \* the values maxTokens of a call may have

ASSUME CallAssumption ==
    /\ Configured \subseteq Providers
    /\ NModels \in Nat
    /\ FirstModel \in 0..NModels
    /\ MaxRetries \in Nat \ {0}
    /\ Overhead \in Nat
    /\ Outputs \subseteq Nat \ {0}

VARIABLES
    call,       \* call[c]: the local variables of the call c is making
    sent,       \* sent[r]: how many dispatches were made under run r
    answered,   \* the runs whose dispatch was answered
    refused     \* the callers whose last call had a reservation refused
                \* (no code reads these three)

ghosts == <<sent, answered, refused>>

vars == <<budgetVars, call, ghosts>>

Order == <<"openrouter", "groq", "gemini", "cloudflare">>

Models == 0..NModels

Preferences == Providers \cup {"any"}

Call == [pc : {"idle", "try", "sent", "settle"},
         prefer : Preferences,       \* preferredProvider
         at : 1..5,                  \* the provider tried now; 5: none left
         maxTokens : Nat,
         limit : Nat \ {0},          \* currentMaxTokens
         model : Models,             \* currentModel
         tried : SUBSET Models,      \* attemptedModels
         attempt : 1..MaxRetries,
         run : 0..MaxRuns,           \* reservation
         wire : 0..MaxRuns,          \* the run of the dispatch made last
         tokensUsed : Nat,
         dead : SUBSET Models,       \* models found missing or too small
         asked : [Providers -> Nat]] \* dispatches of the call
                                     \* (no code reads dead, wire and asked)

TypeOK ==
    /\ holder \in Callers \cup {Nobody}
    /\ maximum \in Maxima
    /\ spent \in Int
    /\ runs \in [RunIds -> Run]
    /\ used \in 0..MaxRuns
    /\ call \in [Callers -> Call]
    /\ sent \in [RunIds -> Nat]
    /\ answered \subseteq RunIds
    /\ refused \subseteq Callers

NoCall == [pc |-> "idle", prefer |-> "any", at |-> 1, maxTokens |-> 0, limit |-> 1,
           model |-> FirstModel, tried |-> {FirstModel}, attempt |-> 1, run |-> 0, wire |-> 0,
           tokensUsed |-> 0, dead |-> {}, asked |-> [p \in Providers |-> 0]]

Init ==
    /\ BudgetInit
    /\ call = [c \in Callers |-> NoCall]
    /\ sent = [r \in RunIds |-> 0]
    /\ answered = {}
    /\ refused = {}

----------------------------------------------------------------------------
Provider(c) == Order[call[c].at]

Reservation(c) == Overhead + call[c].maxTokens

(* The next provider, if the one tried now has no key or is not preferred.   *)
Usable(c) ==
    /\ Provider(c) \in Configured
    /\ call[c].prefer \in {"any", Provider(c)}

(* completeTextWithFallback is called; its caller may or may not hold the lease. *)
Begin(c, n, p) ==
    /\ call[c].pc = "idle"
    /\ call' = [call EXCEPT ![c] = [NoCall EXCEPT !.pc = "try", !.prefer = p,
                    !.maxTokens = n, !.limit = n]]
    /\ refused' = refused \ {c}
    /\ UNCHANGED <<budgetVars, sent, answered>>

(* The call returns or throws; modelCall is over. *)
End(c) == call' = [call EXCEPT ![c] = NoCall]

(* The failure is noted and the next provider is tried. *)
MovedOn(k) == [k EXCEPT !.pc = "try", !.at = @ + 1]

NextProvider(c) == call' = [call EXCEPT ![c] = MovedOn(call[c])]

Skip(c) ==
    /\ call[c].pc = "try"
    /\ call[c].at <= 4
    /\ ~Usable(c)
    /\ NextProvider(c)
    /\ UNCHANGED <<budgetVars, ghosts>>

(* PROVIDERS_EXHAUSTED, the error of Groq, or no provider at all. *)
Exhaust(c) ==
    /\ call[c].pc = "try"
    /\ call[c].at = 5
    /\ End(c)
    /\ UNCHANGED <<budgetVars, ghosts>>

Attempting(c) == call[c].pc = "try" /\ call[c].at <= 4 /\ Usable(c)

(* throwIfAborted before the reservation, or the function is not reached. *)
Abort(c) ==
    /\ Attempting(c)
    /\ End(c)
    /\ UNCHANGED <<budgetVars, ghosts>>

(* beforeAttempt throws LEASE_LOST or TOKEN_BUDGET_EXHAUSTED; it is called    *)
(* outside of the provider's error handler.                                  *)
Refuse(c) ==
    /\ Attempting(c)
    /\ \/ LeaseLost(c)
       \/ Exhausted(Reservation(c))
    /\ End(c)
    /\ refused' = refused \cup {c}
    /\ UNCHANGED <<budgetVars, sent, answered>>

(* The reservation is granted and the request is sent under it. *)
SentUnder(k, r) ==
    [k EXCEPT !.pc = "sent", !.run = r, !.wire = r, !.asked[Order[k.at]] = @ + 1]

(* Mutant: one reservation serves every attempt of the call. *)
DispatchOnce(c) ==
    /\ Attempting(c)
    /\ ~LeaseLost(c)
    /\ call[c].run # 0 \/ ~Exhausted(Reservation(c))
    /\ LET r == IF call[c].run = 0 THEN used + 1 ELSE call[c].run
       IN /\ IF call[c].run = 0 THEN ReserveRun(Provider(c), Reservation(c))
             ELSE UNCHANGED budgetVars
          /\ call' = [call EXCEPT ![c] = SentUnder(call[c], r)]
          /\ sent' = [sent EXCEPT ![r] = @ + 1]
    /\ UNCHANGED <<answered, refused>>

Dispatch(c) ==
    /\ Attempting(c)
    /\ ~LeaseLost(c)
    /\ ~Exhausted(Reservation(c))
    /\ ReserveRun(Provider(c), Reservation(c))
    /\ call' = [call EXCEPT ![c] = SentUnder(call[c], used + 1)]
    /\ sent' = [sent EXCEPT ![used + 1] = @ + 1]
    /\ UNCHANGED <<answered, refused>>

(* The reservation is granted, but the answer does not arrive. *)
LoseGrant(c) ==
    /\ Attempting(c)
    /\ ~LeaseLost(c)
    /\ ~Exhausted(Reservation(c))
    /\ ReserveRun(Provider(c), Reservation(c))
    /\ End(c)
    /\ refused' = refused \cup {c}
    /\ UNCHANGED <<sent, answered>>

----------------------------------------------------------------------------
(* Answers *)

(* Usage is at most the prompt and the output asked for; a provider that     *)
(* does not report it, as Cloudflare, reports 0.                             *)
Usages(c) ==
    IF Provider(c) = "cloudflare" THEN {0} ELSE 0..(Overhead + call[c].limit)

Answered(k, n) == [k EXCEPT !.pc = "settle", !.tokensUsed = n]

Answer(c, n) ==
    /\ call[c].pc = "sent"
    /\ n \in Usages(c)
    /\ answered' = answered \cup {call[c].wire}
    /\ call' = [call EXCEPT ![c] = Answered(call[c], n)]
    /\ UNCHANGED <<budgetVars, sent, refused>>

(* OpenRouter, Gemini and Cloudflare are tried once. *)
FailOnce(c) ==
    /\ call[c].pc = "sent"
    /\ Provider(c) # "groq"
    /\ NextProvider(c)
    /\ UNCHANGED <<budgetVars, ghosts>>

(* What Groq may answer instead: credentials refused (401, 403) or the       *)
(* signal aborted; a missing model (404); a prompt too large for the model   *)
(* (413); a rate limit (429); a limit of output tokens; an error of the      *)
(* server or the network; another status, of a malformed request.            *)
Errors == {"credential", "missing", "too_large", "busy", "output", "server", "invalid"}

(* completeTextWithFallback rethrows what its list of statuses lacks. *)
Fatal == {"credential", "missing", "invalid"}

GiveUp(c, e) == IF e \in Fatal THEN End(c) ELSE NextProvider(c)

(* fallbackModels.find(m => !attemptedModels.has(m)) *)
Untried(c) == (1..NModels) \ call[c].tried

NextModel(c, m) ==
    /\ m \in Untried(c)
    /\ \A n \in Untried(c) : m <= n

(* The next iteration of the loop, if one is left. *)
Repeated(k, e, m, limit) ==
    [k EXCEPT !.pc = "try", !.attempt = @ + 1, !.model = m, !.tried = @ \cup {m},
              !.limit = limit,
              !.dead = IF e \in {"missing", "too_large"} THEN @ \cup {k.model} ELSE @]

(* Mutant: switching the model is not an attempt. *)
AgainUncounted(c, e, m, limit) ==
    IF call[c].attempt = MaxRetries
    THEN GiveUp(c, e)
    ELSE call' = [call EXCEPT ![c] =
             [Repeated(@, e, m, limit) EXCEPT
                 !.attempt = IF m # call[c].model THEN call[c].attempt ELSE @]]

Again(c, e, m, limit) ==
    IF call[c].attempt = MaxRetries
    THEN GiveUp(c, e)
    ELSE call' = [call EXCEPT ![c] = Repeated(call[c], e, m, limit)]

Failing(c) ==
    /\ call[c].pc = "sent"
    /\ Provider(c) = "groq"
    /\ UNCHANGED <<budgetVars, ghosts>>

Reject(c) ==
    /\ Failing(c)
    /\ End(c)

(* Another model for a missing one, a prompt too large or a rate limit. *)
SwitchModel(c, e) ==
    /\ e \in {"missing", "too_large", "busy"}
    /\ Failing(c)
    /\ \E m \in Untried(c) : NextModel(c, m) /\ Again(c, e, m, call[c].limit)

OutOfModels(c, e) ==
    /\ e \in {"missing", "too_large", "busy"}
    /\ Untried(c) = {}
    /\ Failing(c)
    /\ GiveUp(c, e)

(* Mutant: without Math.max(1, ...). *)
ClampedBare(x) == {(x * 13) \div 20}

(* Math.max(1, Math.min(floor(x * 0.65), limits the answer reports)) *)
Clamped(x) ==
    LET most == (x * 13) \div 20
    IN IF most < 1 THEN {1} ELSE 1..most

(* A short cooldown is waited for, with less output asked for; the same      *)
(* model is tried again.                                                     *)
Wait(c, e) ==
    /\ \/ e = "busy" /\ Untried(c) = {}
       \/ e = "output"
    /\ Failing(c)
    /\ \E l \in Clamped(call[c].limit) : Again(c, e, call[c].model, l)

(* A cooldown above maxDelayMs is not waited for. *)
LongWait(c) ==
    /\ Failing(c)
    /\ \E l \in Clamped(call[c].limit) :
          \/ \E m \in Untried(c) : NextModel(c, m) /\ Again(c, "output", m, l)
          \/ Untried(c) = {} /\ GiveUp(c, "output")

RetrySame(c, e) ==
    /\ e \in {"server", "invalid"}
    /\ Failing(c)
    /\ Again(c, e, call[c].model, call[c].limit)

----------------------------------------------------------------------------
(* tokensUsed || tokens *)
Charge(c) == IF call[c].tokensUsed = 0 THEN Reservation(c) ELSE call[c].tokensUsed

(* spine_settle_call; its answer may be lost, which ends the call as well.   *)
Settle(c) ==
    /\ call[c].pc = "settle"
    /\ ~LeaseLost(c)
    /\ SettleRun(call[c].run, Charge(c))
    /\ End(c)
    /\ UNCHANGED ghosts

(* LEASE_LOST, or the function cannot be reached: the run stays reserved. *)
FailSettle(c) ==
    /\ call[c].pc = "settle"
    /\ End(c)
    /\ UNCHANGED <<budgetVars, ghosts>>

(* The process dies. *)
Crash(c) ==
    /\ call[c].pc # "idle"
    /\ End(c)
    /\ UNCHANGED <<budgetVars, ghosts>>

----------------------------------------------------------------------------
CallerNext(c) ==
    \/ \E n \in Outputs, p \in Configured \cup {"any"} : Begin(c, n, p)
    \/ Skip(c)
    \/ Exhaust(c)
    \/ Abort(c)
    \/ Refuse(c)
    \/ Dispatch(c)
    \/ LoseGrant(c)
    \/ \E n \in 0..(Overhead + call[c].limit) : Answer(c, n)
    \/ FailOnce(c)
    \/ Reject(c)
    \/ \E e \in Errors : SwitchModel(c, e) \/ OutOfModels(c, e) \/ Wait(c, e) \/ RetrySame(c, e)
    \/ LongWait(c)
    \/ Settle(c)
    \/ FailSettle(c)
    \/ Crash(c)

LeaseNext ==
    \/ \E c \in Callers : TakeLease(c)
    \/ EndLease
    \/ \E m \in Maxima : Resume(m)

Next ==
    \/ \E c \in Callers : CallerNext(c)
    \/ LeaseNext /\ UNCHANGED <<call, ghosts>>

Spec == Init /\ [][Next]_vars

----------------------------------------------------------------------------
(* What a run counts for in the budget, and what all of them do.             *)
Charged(r) == IF runs[r].status = "settled" THEN runs[r].actual ELSE runs[r].tokens

SumOf(charges) ==
    LET total[n \in 0..MaxRuns] == IF n = 0 THEN 0 ELSE total[n - 1] + charges[n]
    IN total[MaxRuns]

(* The ledger and the rows agree: what is spent is the sum of what the       *)
(* settled runs used and what the others reserved.                           *)
LedgerAgrees == spent = SumOf([r \in RunIds |-> Charged(r)])

(* Every run costs a token, so a call that may still reserve finds a number  *)
(* for its run: the bound MaxRuns forbids no dispatch the database grants.   *)
RowsSuffice ==
    /\ used <= spent
    /\ \A c \in Callers : Attempting(c) /\ ~Exhausted(Reservation(c)) => used < MaxRuns

(* Whatever is reserved, settled and resumed in which order, the budget      *)
(* grows only up to the maximum of the moment.                               *)
GrowsWithinMaximum == [][spent' > spent => spent' <= maximum]_spent

(* "Every actual dispatch reserves its own durable token allowance":         *)
(* no two dispatches share a run, and a dispatched run is in the table.      *)
DispatchesReserved ==
    \A r \in RunIds :
        /\ sent[r] <= 1
        /\ sent[r] = 1 => r <= used /\ runs[r].status # "none"

(* "Failed attempts remain conservatively charged": only a run whose         *)
(* dispatch was answered is settled, so every other one keeps its full       *)
(* reservation.                                                              *)
FailuresStayCharged ==
    \A r \in RunIds : runs[r].status = "settled" => r \in answered

(* "budget or lease failures stop before dispatch": a call one of whose      *)
(* reservations was refused dispatches nothing more.                         *)
RefusalStops == \A c \in refused : call[c].pc = "idle"

(* Within a call, a Groq model that is missing or too small for the prompt   *)
(* is not asked again, whatever errors come between.                         *)
DeadModelsSkipped ==
    \A c \in Callers :
        call[c].pc = "sent" /\ Provider(c) = "groq" => call[c].model \notin call[c].dead

(* Switching models, waiting and retrying spend one allowance: a call makes  *)
(* at most MaxRetries dispatches to Groq and one to any other provider.      *)
DispatchesBounded ==
    \A c \in Callers, p \in Providers :
        call[c].asked[p] <= IF p = "groq" THEN MaxRetries ELSE 1
===============================================================================
