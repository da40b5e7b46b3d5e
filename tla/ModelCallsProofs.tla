--------------------------- MODULE ModelCallsProofs ---------------------------
(***************************************************************************)
(* The properties of ModelCalls, for every number of callers, providers,    *)
(* models and retries.  A call changes its own record and at most one run,  *)
(* its own; so the invariant has a part about one record (Local), one about *)
(* the rows (RowInv), one about a call and its run (RunInv), and the fact   *)
(* that no two calls share a run.                                           *)
(***************************************************************************)
EXTENDS ModelCalls, WellFoundedInduction, TLAPS

Place(p) == CASE p = "openrouter" -> 1
              [] p = "groq" -> 2
              [] p = "gemini" -> 3
              [] p = "cloudflare" -> 4

(* How many dispatches to provider p a call may have made. *)
Allowance(k, p) ==
    IF Place(p) > k.at \/ (Place(p) = k.at /\ k.pc = "try" /\ p # "groq") THEN 0
    ELSE IF p # "groq" THEN 1
    ELSE IF k.at > 2 THEN MaxRetries
    ELSE IF k.pc = "try" THEN k.attempt - 1 ELSE k.attempt

Local(k) ==
    /\ k.pc # "idle" => k.limit <= k.maxTokens
    /\ k.pc \in {"sent", "settle"} => k.at <= 4
    /\ k.pc = "settle" => k.tokensUsed <= Overhead + k.maxTokens
    /\ k.model \in k.tried
    /\ k.dead \subseteq k.tried
    /\ k.model \notin k.dead
    /\ \A p \in Providers : k.asked[p] <= Allowance(k, p)

RowInv ==
    \A r \in RunIds :
        /\ (runs[r].status = "none") <=> (r > used)
        /\ sent[r] <= (IF r > used THEN 0 ELSE 1)
        /\ runs[r].status = "settled" => r \in answered

(* A call that waits for an answer holds a run of its own, still reserved.   *)
RunInv(c) ==
    call[c].pc \in {"sent", "settle"} =>
        /\ call[c].run \in 1..used
        /\ runs[call[c].run].status = "reserved"
        /\ runs[call[c].run].tokens = Reservation(c)
        /\ call[c].wire = call[c].run
        /\ call[c].pc = "settle" => call[c].run \in answered

Holding(c) == call[c].pc \in {"sent", "settle"}

OwnRuns ==
    \A c, d \in Callers :
        Holding(c) /\ Holding(d) /\ c # d => call[c].run # call[d].run

CallsInv ==
    /\ TypeOK
    /\ RowInv
    /\ \A c \in Callers : Local(call[c])
    /\ \A c \in Callers : RunInv(c)
    /\ OwnRuns
    /\ RefusalStops

----------------------------------------------------------------------------
(* Records *)

LEMMA NoCallLocal == NoCall \in Call /\ Local(NoCall)
<1>1. FirstModel \in Models /\ 1 \in 1..MaxRetries /\ 0 \in 0..MaxRuns
  BY CallAssumption, BudgetAssumption DEF Models
<1>2. [p \in Providers |-> 0] \in [Providers -> Nat]
  OBVIOUS
<1>3. NoCall \in Call
  BY <1>1, <1>2 DEF NoCall, Call, Preferences
<1>4. \A p \in Providers : NoCall.asked[p] <= Allowance(NoCall, p)
  BY CallAssumption DEF NoCall, Allowance, Place, Providers
<1> QED BY <1>3, <1>4 DEF NoCall, Local

LEMMA BeginLocal ==
    ASSUME NEW n \in Outputs, NEW p \in Preferences
    PROVE  LET k == [NoCall EXCEPT !.pc = "try", !.prefer = p, !.maxTokens = n, !.limit = n]
           IN k \in Call /\ Local(k)
<1> DEFINE k == [NoCall EXCEPT !.pc = "try", !.prefer = p, !.maxTokens = n, !.limit = n]
<1>1. n \in Nat /\ n \in Nat \ {0}
  BY CallAssumption
<1>2. k \in Call
  BY <1>1, NoCallLocal DEF Call
<1>3. /\ k.pc = "try" /\ k.at = 1 /\ k.attempt = 1 /\ k.asked = [q \in Providers |-> 0]
      /\ k.model = FirstModel /\ k.tried = {FirstModel} /\ k.dead = {}
      /\ k.limit = n /\ k.maxTokens = n
  BY DEF NoCall
<1>4. \A q \in Providers : k.asked[q] <= Allowance(k, q)
  BY <1>3, CallAssumption DEF Allowance, Place, Providers
<1>5. Local(k)
  BY <1>1, <1>3, <1>4 DEF Local
<1> QED BY <1>2, <1>5

(* The next provider has not been asked, and the one before keeps its bound. *)
LEMMA NextLocal ==
    ASSUME NEW k \in Call, Local(k), k.at <= 4, k.pc \in {"try", "sent"}
    PROVE  MovedOn(k) \in Call /\ Local(MovedOn(k))
<1> DEFINE n == [k EXCEPT !.pc = "try", !.at = k.at + 1]
<1>1. MovedOn(k) = n
  BY DEF MovedOn
<1>2. k.at + 1 \in 1..5
  BY DEF Call
<1>3. n \in Call
  BY <1>2 DEF Call
<1>4. /\ n.pc = "try" /\ n.at = k.at + 1 /\ n.attempt = k.attempt /\ n.asked = k.asked
      /\ n.model = k.model /\ n.tried = k.tried /\ n.dead = k.dead
      /\ n.limit = k.limit /\ n.maxTokens = k.maxTokens
  BY DEF Call
<1>5. \A p \in Providers : n.asked[p] <= Allowance(n, p)
  <2> TAKE p \in Providers
  <2>1. /\ k.asked[p] <= Allowance(k, p) /\ k.asked[p] \in Nat /\ Place(p) \in 1..4
        /\ k.at \in 1..4 /\ k.attempt \in 1..MaxRetries
        /\ p = "groq" <=> Place(p) = 2
    BY DEF Local, Call, Place, Providers
  <2> QED BY <1>4, <2>1, CallAssumption DEF Allowance
<1>6. Local(n)
  BY <1>4, <1>5 DEF Local
<1> QED BY <1>1, <1>3, <1>6

(* Another attempt at Groq, with a model not known to be dead. *)
LEMMA AgainLocal ==
    ASSUME NEW k \in Call, Local(k), k.at = 2, k.pc = "sent", k.attempt # MaxRetries,
           NEW m \in Models, NEW l \in Nat \ {0}, l <= k.limit,
           NEW e,
           IF e \in {"missing", "too_large"} THEN m \notin k.tried
           ELSE m = k.model \/ m \notin k.tried
    PROVE  Repeated(k, e, m, l) \in Call /\ Local(Repeated(k, e, m, l))
<1> DEFINE D == IF e \in {"missing", "too_large"} THEN k.dead \cup {k.model} ELSE k.dead
           n == [k EXCEPT !.pc = "try", !.attempt = k.attempt + 1, !.model = m,
                        !.tried = k.tried \cup {m}, !.limit = l, !.dead = D]
<1>1. Repeated(k, e, m, l) = n
  BY DEF Repeated
<1>2. k.attempt + 1 \in 1..MaxRetries
  BY CallAssumption DEF Call
<1>3. k.tried \cup {m} \in SUBSET Models /\ D \in SUBSET Models
  BY DEF Call
<1>0. (D = k.dead /\ m = k.model) \/ (D \subseteq k.tried /\ m \notin k.tried)
  BY DEF Local
<1>4. n \in Call
  BY <1>2, <1>3 DEF Call
<1>5. /\ n.pc = "try" /\ n.at = 2 /\ n.attempt = k.attempt + 1 /\ n.asked = k.asked
      /\ n.model = m /\ n.tried = k.tried \cup {m} /\ n.dead = D
      /\ n.limit = l /\ n.maxTokens = k.maxTokens
  BY DEF Call
<1>6. \A p \in Providers : n.asked[p] <= Allowance(n, p)
  <2> TAKE p \in Providers
  <2>1. /\ k.asked[p] <= Allowance(k, p) /\ k.asked[p] \in Nat /\ Place(p) \in 1..4
        /\ k.attempt \in 1..MaxRetries
        /\ p = "groq" <=> Place(p) = 2
    BY DEF Local, Call, Place, Providers
  <2> QED BY <1>5, <2>1, CallAssumption DEF Allowance
<1>7. n.model \in n.tried /\ n.dead \subseteq n.tried /\ n.model \notin n.dead
  BY <1>0, <1>5 DEF Local
<1>8. k.limit <= k.maxTokens /\ k.limit \in Nat /\ k.maxTokens \in Nat
  BY DEF Local, Call
<1>9. Local(n)
  BY <1>5, <1>6, <1>7, <1>8 DEF Local
<1> QED BY <1>1, <1>4, <1>9

LEMMA SentLocal ==
    ASSUME NEW k \in Call, Local(k), k.at <= 4, k.pc = "try", NEW r \in 0..MaxRuns
    PROVE  SentUnder(k, r) \in Call /\ Local(SentUnder(k, r))
<1> DEFINE A == [k.asked EXCEPT ![Order[k.at]] = k.asked[Order[k.at]] + 1]
           n == [k EXCEPT !.pc = "sent", !.run = r, !.wire = r, !.asked = A]
<1>1. SentUnder(k, r) = n
  BY DEF SentUnder, Call
<1>2. k.at \in 1..4 /\ Order[k.at] \in Providers /\ Place(Order[k.at]) = k.at
  BY DEF Call, Order, Providers, Place
<1>3. k.asked \in [Providers -> Nat]
  BY DEF Call
<1>4. A \in [Providers -> Nat]
  BY <1>2, <1>3
<1>5. n \in Call
  BY <1>4 DEF Call
<1>6. /\ n.pc = "sent" /\ n.at = k.at /\ n.attempt = k.attempt /\ n.asked = A
      /\ n.model = k.model /\ n.tried = k.tried /\ n.dead = k.dead
      /\ n.limit = k.limit /\ n.maxTokens = k.maxTokens
  BY DEF Call
<1>7. \A p \in Providers : n.asked[p] <= Allowance(n, p)
  <2> TAKE p \in Providers
  <2>1. /\ k.asked[p] <= Allowance(k, p) /\ k.asked[p] \in Nat /\ Place(p) \in 1..4
        /\ k.attempt \in 1..MaxRetries
        /\ p = "groq" <=> Place(p) = 2
        /\ Place(p) = k.at <=> p = Order[k.at]
    BY <1>2 DEF Local, Call, Place, Providers, Order
  <2>2. n.asked[p] = IF p = Order[k.at] THEN k.asked[p] + 1 ELSE k.asked[p]
    BY <1>2, <1>3, <1>6
  <2> QED BY <1>2, <1>6, <2>1, <2>2, CallAssumption DEF Allowance
<1>8. Local(n)
  BY <1>2, <1>6, <1>7 DEF Local
<1> QED BY <1>1, <1>5, <1>8

LEMMA AnswerLocal ==
    ASSUME NEW k \in Call, Local(k), k.pc = "sent", NEW u \in 0..(Overhead + k.limit)
    PROVE  Answered(k, u) \in Call /\ Local(Answered(k, u))
<1> DEFINE n == Answered(k, u)
<1>1. u \in Nat /\ u <= Overhead + k.maxTokens
  BY CallAssumption DEF Call, Local
<1>2. n \in Call
  BY <1>1 DEF Answered, Call
<1>3. /\ n.pc = "settle" /\ n.at = k.at /\ n.attempt = k.attempt /\ n.asked = k.asked
      /\ n.model = k.model /\ n.tried = k.tried /\ n.dead = k.dead
      /\ n.limit = k.limit /\ n.maxTokens = k.maxTokens /\ n.tokensUsed = u
  BY DEF Answered, Call
<1>4. \A p \in Providers : n.asked[p] <= Allowance(n, p)
  BY <1>3 DEF Local, Allowance
<1>5. Local(n)
  BY <1>1, <1>3, <1>4 DEF Local
<1> QED BY <1>2, <1>5

LEMMA ClampBounds ==
    ASSUME NEW x \in Nat \ {0}
    PROVE  \A l \in Clamped(x) : l \in Nat \ {0} /\ l <= x
  BY DEF Clamped

----------------------------------------------------------------------------
(* Steps *)

LEMMA CallTyped ==
    ASSUME TypeOK, NEW c \in Callers
    PROVE  call[c] \in Call
  BY DEF TypeOK

LEMMA CallReplaced ==
    ASSUME TypeOK, NEW c \in Callers, NEW K \in Call, call' = [call EXCEPT ![c] = K]
    PROVE  /\ call' \in [Callers -> Call]
           /\ call'[c] = K
           /\ \A d \in Callers : d # c => call'[d] = call[d]
  BY DEF TypeOK

(* A step of one call that leaves the ledger alone: it keeps its run or      *)
(* gives it up, and whoever is refused is idle.                              *)
LEMMA OwnStep ==
    ASSUME CallsInv, NEW c \in Callers, NEW K \in Call, Local(K),
           call' = [call EXCEPT ![c] = K],
           UNCHANGED <<budgetVars, sent>>,
           answered \subseteq answered', answered' \subseteq RunIds,
           refused' \subseteq Callers,
           \A d \in refused' : IF d = c THEN K.pc = "idle" ELSE d \in refused,
           K.pc \in {"sent", "settle"} =>
               /\ Holding(c)
               /\ K.run = call[c].run /\ K.wire = call[c].wire
               /\ K.maxTokens = call[c].maxTokens
               /\ K.pc = "settle" => K.run \in answered'
    PROVE  CallsInv'
<1>1. /\ call' \in [Callers -> Call]
      /\ call'[c] = K
      /\ \A d \in Callers : d # c => call'[d] = call[d]
  BY CallReplaced DEF CallsInv
<1>2. TypeOK'
  BY <1>1 DEF CallsInv, TypeOK, budgetVars
<1>3. RowInv'
  BY DEF CallsInv, RowInv, budgetVars
<1>4. \A d \in Callers : Local(call'[d])
  BY <1>1 DEF CallsInv
<1>5. \A d \in Callers : RunInv(d)'
  <2> TAKE d \in Callers
  <2>1. CASE d = c
    BY <1>1, <2>1 DEF CallsInv, RunInv, Holding, Reservation, budgetVars
  <2>2. CASE d # c
    BY <1>1, <2>2 DEF CallsInv, RunInv, Reservation, budgetVars
  <2> QED BY <2>1, <2>2
<1>6. OwnRuns'
  BY <1>1 DEF CallsInv, OwnRuns, Holding
<1>7. RefusalStops'
  BY <1>1 DEF CallsInv, RefusalStops
<1> QED BY <1>2, <1>3, <1>4, <1>5, <1>6, <1>7 DEF CallsInv

(* The call is over. *)
LEMMA EndStep ==
    ASSUME CallsInv, NEW c \in Callers, End(c), UNCHANGED <<budgetVars, sent, answered>>,
           refused' \in {refused, refused \cup {c}}
    PROVE  CallsInv'
<1>1. NoCall \in Call /\ Local(NoCall) /\ NoCall.pc = "idle"
  BY NoCallLocal DEF NoCall
<1>2. call' = [call EXCEPT ![c] = NoCall]
  BY DEF End
<1>3. answered' \subseteq RunIds /\ answered \subseteq answered' /\ refused' \subseteq Callers
  BY DEF CallsInv, TypeOK
<1>4. \A d \in refused' : IF d = c THEN NoCall.pc = "idle" ELSE d \in refused
  BY <1>1
<1>5. UNCHANGED <<budgetVars, sent>>
  OBVIOUS
<1>6. NoCall.pc \in {"sent", "settle"} =>
               /\ Holding(c)
               /\ NoCall.run = call[c].run /\ NoCall.wire = call[c].wire
               /\ NoCall.maxTokens = call[c].maxTokens
               /\ NoCall.pc = "settle" => NoCall.run \in answered'
  BY <1>1
<1> QED BY <1>1, <1>2, <1>3, <1>4, <1>5, <1>6, OwnStep

(* The call goes on with the record K, holding no run. *)
LEMMA MoveStep ==
    ASSUME CallsInv, NEW c \in Callers, NEW K \in Call, Local(K), K.pc = "try",
           call[c].pc # "idle",
           call' = [call EXCEPT ![c] = K], UNCHANGED <<budgetVars, ghosts>>
    PROVE  CallsInv'
<1>1. \A d \in refused : d # c
  BY DEF CallsInv, RefusalStops
<1>2. answered' \subseteq RunIds /\ answered \subseteq answered' /\ refused' \subseteq Callers
  BY DEF CallsInv, TypeOK, ghosts
<1>3. UNCHANGED <<budgetVars, sent>>
  BY DEF ghosts
<1>4. \A d \in refused' : IF d = c THEN K.pc = "idle" ELSE d \in refused
  BY <1>1 DEF ghosts
<1>5. ~(K.pc \in {"sent", "settle"})
  OBVIOUS
<1> QED BY <1>2, <1>3, <1>4, <1>5, OwnStep

LEMMA NextProviderStep ==
    ASSUME CallsInv, NEW c \in Callers, call[c].pc \in {"try", "sent"}, call[c].at <= 4,
           NextProvider(c), UNCHANGED <<budgetVars, ghosts>>
    PROVE  CallsInv'
<1> DEFINE K == MovedOn(call[c])
<1>1. call[c] \in Call /\ Local(call[c])
  BY CallTyped DEF CallsInv
<1>2. K \in Call /\ Local(K)
  BY <1>1, NextLocal
<1>3. K.pc = "try"
  BY <1>1 DEF Call, MovedOn
<1>4. call' = [call EXCEPT ![c] = K]
  BY DEF NextProvider
<1>5. call[c].pc # "idle"
  OBVIOUS
<1> QED BY <1>2, <1>3, <1>4, <1>5, MoveStep

(* A Groq error that ends the loop, and one that does not. *)
LEMMA GiveUpStep ==
    ASSUME CallsInv, NEW c \in Callers, NEW e, Failing(c), GiveUp(c, e)
    PROVE  CallsInv'
<1>1. call[c].pc = "sent" /\ call[c].at <= 4 /\ UNCHANGED <<budgetVars, ghosts>>
  BY DEF Failing, CallsInv, Local
<1>2. CASE End(c)
  BY <1>1, <1>2, EndStep DEF ghosts
<1>3. CASE NextProvider(c)
  BY <1>1, <1>3, NextProviderStep
<1> QED BY <1>2, <1>3 DEF GiveUp

LEMMA AgainStep ==
    ASSUME CallsInv, NEW c \in Callers, NEW e, NEW m \in Models, NEW l \in Nat \ {0},
           Failing(c), l <= call[c].limit,
           IF e \in {"missing", "too_large"} THEN m \notin call[c].tried
           ELSE m = call[c].model \/ m \notin call[c].tried,
           Again(c, e, m, l)
    PROVE  CallsInv'
<1>1. CASE call[c].attempt = MaxRetries
  BY <1>1, GiveUpStep DEF Again
<1>2. CASE call[c].attempt # MaxRetries
  <2> DEFINE K == Repeated(call[c], e, m, l)
  <2>1. /\ call[c] \in Call /\ Local(call[c]) /\ call[c].pc = "sent" /\ call[c].at \in 1..4
        /\ Order[call[c].at] = "groq" /\ UNCHANGED <<budgetVars, ghosts>>
    BY CallTyped DEF CallsInv, Failing, Provider, Local, Call
  <2>2. call[c].at = 2
    BY <2>1 DEF Order
  <2>3. call' = [call EXCEPT ![c] = K]
    BY <1>2 DEF Again
  <2>4. K \in Call /\ Local(K)
    BY <1>2, <2>1, <2>2, AgainLocal
  <2>5. K.pc = "try"
    BY <2>1 DEF Call, Repeated
  <2>6. call[c].pc # "idle" /\ UNCHANGED <<budgetVars, ghosts>>
    BY <2>1
  <2> HIDE DEF K
  <2> QED BY <2>3, <2>4, <2>5, <2>6, MoveStep
<1> QED BY <1>1, <1>2

(* A new run is reserved.  Nobody holds it yet, so the other calls keep theirs. *)
LEMMA ReserveStep ==
    ASSUME CallsInv, NEW c \in Callers, NEW p \in Providers, NEW n \in Nat, ReserveRun(p, n),
           NEW K \in Call, Local(K), call' = [call EXCEPT ![c] = K],
           answered' = answered,
           sent' = sent \/ sent' = [sent EXCEPT ![used + 1] = @ + 1],
           refused' \subseteq Callers,
           \A d \in refused' : IF d = c THEN K.pc = "idle" ELSE d \in refused,
           K.pc \in {"idle", "sent"},
           K.pc = "sent" => K.run = used + 1 /\ K.wire = used + 1 /\ n = Overhead + K.maxTokens
    PROVE  CallsInv'
<1> DEFINE new == [status |-> "reserved", provider |-> p, tokens |-> n, actual |-> 0]
<1>1. /\ call' \in [Callers -> Call]
      /\ call'[c] = K
      /\ \A d \in Callers : d # c => call'[d] = call[d]
  BY CallReplaced DEF CallsInv
<1>2. /\ used \in 0..MaxRuns /\ used < MaxRuns /\ used' = used + 1
      /\ used + 1 \in RunIds /\ MaxRuns \in Nat
  BY BudgetAssumption DEF CallsInv, TypeOK, ReserveRun, RunIds
<1>3. new \in Run
  BY DEF Run
<1>4. /\ runs' = [runs EXCEPT ![used + 1] = new]
      /\ runs' \in [RunIds -> Run]
      /\ runs'[used + 1] = new
      /\ \A r \in RunIds : r # used + 1 => runs'[r] = runs[r]
  BY <1>2, <1>3 DEF CallsInv, TypeOK, ReserveRun
<1>5. /\ sent' \in [RunIds -> Nat]
      /\ sent'[used + 1] \in {sent[used + 1], sent[used + 1] + 1}
      /\ \A r \in RunIds : r # used + 1 => sent'[r] = sent[r]
  <2>1. sent \in [RunIds -> Nat]
    BY DEF CallsInv, TypeOK
  <2>2. CASE sent' = sent
    BY <1>2, <2>1, <2>2
  <2>3. CASE sent' = [sent EXCEPT ![used + 1] = @ + 1]
    BY <1>2, <2>1, <2>3
  <2> QED BY <2>2, <2>3
<1>6. spent' \in Int /\ UNCHANGED <<holder, maximum>>
  BY DEF CallsInv, TypeOK, ReserveRun
<1>7. TypeOK'
  <2>1. used' \in 0..MaxRuns /\ answered' \subseteq RunIds
    BY <1>2 DEF CallsInv, TypeOK
  <2>2. holder' \in Callers \cup {Nobody} /\ maximum' \in Maxima
    BY <1>6 DEF CallsInv, TypeOK
  <2>3. runs' \in [RunIds -> Run] /\ sent' \in [RunIds -> Nat] /\ call' \in [Callers -> Call]
    BY <1>1, <1>4, <1>5
  <2> QED BY <1>6, <2>1, <2>2, <2>3 DEF TypeOK
<1>8. RowInv'
  <2> SUFFICES ASSUME NEW r \in RunIds
               PROVE  /\ (runs'[r].status = "none") <=> (r > used')
                      /\ sent'[r] <= (IF r > used' THEN 0 ELSE 1)
                      /\ runs'[r].status = "settled" => r \in answered'
    BY DEF RowInv
  <2>1. r \in Nat /\ sent[r] \in Nat
    BY DEF RunIds, CallsInv, TypeOK
  <2>2. /\ (runs[r].status = "none") <=> (r > used)
        /\ sent[r] <= (IF r > used THEN 0 ELSE 1)
        /\ runs[r].status = "settled" => r \in answered
    BY DEF CallsInv, RowInv
  <2>3. CASE r = used + 1
    BY <1>2, <1>4, <1>5, <2>1, <2>2, <2>3
  <2>4. CASE r # used + 1
    BY <1>2, <1>4, <1>5, <2>1, <2>2, <2>4
  <2> QED BY <2>3, <2>4
<1>9. \A d \in Callers : Local(call'[d])
  BY <1>1 DEF CallsInv
<1>10. \A d \in Callers : Holding(d) => call[d].run \in 1..used /\ call[d].run \in RunIds
                                         /\ call[d].run # used + 1
  BY <1>2 DEF CallsInv, RunInv, Holding, RunIds
<1>11. \A d \in Callers : RunInv(d)'
  <2> TAKE d \in Callers
  <2>1. CASE d = c
    <3>1. new.status = "reserved" /\ new.tokens = n
      OBVIOUS
    <3> QED BY <1>1, <1>2, <1>4, <2>1, <3>1 DEF RunInv, Reservation
  <2>2. CASE d # c
    <3>1. call'[d] = call[d]
      BY <1>1, <2>2
    <3>2. CASE Holding(d)
      <4>1. runs'[call[d].run] = runs[call[d].run] /\ call[d].run \in 1..used'
        BY <1>2, <1>4, <1>10, <3>2
      <4> QED BY <3>1, <3>2, <4>1 DEF CallsInv, RunInv, Reservation, Holding
    <3>3. CASE ~Holding(d)
      BY <3>1, <3>3 DEF RunInv, Holding
    <3> QED BY <3>2, <3>3
  <2> QED BY <2>1, <2>2
<1>12. OwnRuns'
  BY <1>1, <1>10 DEF CallsInv, OwnRuns, Holding
<1>13. RefusalStops'
  BY <1>1 DEF CallsInv, RefusalStops
<1> QED BY <1>7, <1>8, <1>9, <1>11, <1>12, <1>13 DEF CallsInv

LEMMA DispatchStep ==
    ASSUME CallsInv, NEW c \in Callers, Dispatch(c)
    PROVE  CallsInv'
<1> DEFINE K == SentUnder(call[c], used + 1)
<1>1. /\ call[c] \in Call /\ Local(call[c]) /\ call[c].pc = "try" /\ call[c].at <= 4
      /\ call[c].at \in 1..4 /\ used + 1 \in 0..MaxRuns
  BY CallTyped, BudgetAssumption DEF CallsInv, Dispatch, Attempting, Call, TypeOK, ReserveRun
<1>2. K \in Call /\ Local(K)
  BY <1>1, SentLocal
<1>3. K.pc = "sent" /\ K.run = used + 1 /\ K.wire = used + 1 /\ K.maxTokens = call[c].maxTokens
  BY <1>1 DEF SentUnder, Call
<1>4. Provider(c) \in Providers /\ Reservation(c) \in Nat
  BY <1>1, CallAssumption DEF Provider, Order, Providers, Reservation, Call
<1>5. /\ ReserveRun(Provider(c), Reservation(c)) /\ call' = [call EXCEPT ![c] = K]
      /\ answered' = answered /\ sent' = [sent EXCEPT ![used + 1] = @ + 1]
      /\ refused' = refused
  BY DEF Dispatch
<1>6. refused \subseteq Callers /\ \A d \in refused : d # c
  BY <1>1 DEF CallsInv, TypeOK, RefusalStops
<1>7. Reservation(c) = Overhead + K.maxTokens
  BY <1>3 DEF Reservation
<1> HIDE DEF K
<1> QED BY <1>2, <1>3, <1>4, <1>5, <1>6, <1>7, ReserveStep

LEMMA LoseGrantStep ==
    ASSUME CallsInv, NEW c \in Callers, LoseGrant(c)
    PROVE  CallsInv'
<1>1. call[c] \in Call /\ call[c].at \in 1..4
  BY CallTyped DEF CallsInv, LoseGrant, Attempting, Call
<1>2. Provider(c) \in Providers /\ Reservation(c) \in Nat
  BY <1>1, CallAssumption DEF Provider, Order, Providers, Reservation, Call
<1>3. NoCall \in Call /\ Local(NoCall) /\ NoCall.pc = "idle"
  BY NoCallLocal DEF NoCall
<1>4. /\ ReserveRun(Provider(c), Reservation(c)) /\ call' = [call EXCEPT ![c] = NoCall]
      /\ answered' = answered /\ sent' = sent /\ refused' = refused \cup {c}
  BY DEF LoseGrant, End
<1>5. refused' \subseteq Callers /\ \A d \in refused' : IF d = c THEN NoCall.pc = "idle" ELSE d \in refused
  BY <1>3, <1>4 DEF CallsInv, TypeOK
<1> QED BY <1>2, <1>3, <1>4, <1>5, ReserveStep

(* The charge is at most what was reserved, so settling only gives back. *)
LEMMA ChargeBounds ==
    ASSUME CallsInv, NEW c \in Callers, call[c].pc = "settle"
    PROVE  /\ Charge(c) \in Nat /\ Charge(c) <= Reservation(c)
           /\ call[c].run \in RunIds
           /\ runs[call[c].run].tokens = Reservation(c) /\ Reservation(c) \in Nat
<1>1. call[c] \in Call /\ Local(call[c]) /\ RunInv(c) /\ used \in 0..MaxRuns
  BY CallTyped DEF CallsInv, TypeOK
<1>2. call[c].tokensUsed \in Nat /\ call[c].maxTokens \in Nat /\ Overhead \in Nat /\ MaxRuns \in Nat
  BY <1>1, CallAssumption, BudgetAssumption DEF Call
<1> QED BY <1>1, <1>2 DEF Local, RunInv, Charge, Reservation, RunIds

LEMMA SettleStep ==
    ASSUME CallsInv, NEW c \in Callers, Settle(c)
    PROVE  CallsInv' /\ spent' <= spent
<1> DEFINE q == call[c].run
           m == Charge(c)
           old == runs[q]
           new == [old EXCEPT !.status = "settled", !.actual = m]
<1>1. /\ m \in Nat /\ m <= Reservation(c) /\ q \in RunIds
      /\ old.tokens = Reservation(c) /\ Reservation(c) \in Nat
  BY ChargeBounds DEF Settle
<1>2. /\ call' = [call EXCEPT ![c] = NoCall] /\ UNCHANGED <<sent, answered, refused>>
      /\ UNCHANGED <<holder, maximum, used>>
      /\ old.status = "reserved" /\ runs' = [runs EXCEPT ![q] = new]
      /\ spent' = spent - old.tokens + m
  BY DEF Settle, SettleRun, End, ghosts
<1>3. NoCall \in Call /\ Local(NoCall) /\ NoCall.pc = "idle"
  BY NoCallLocal DEF NoCall
<1>4. /\ call' \in [Callers -> Call]
      /\ call'[c] = NoCall
      /\ \A d \in Callers : d # c => call'[d] = call[d]
  BY <1>2, <1>3, CallReplaced DEF CallsInv
<1>5. old \in Run /\ spent \in Int
  BY <1>1 DEF CallsInv, TypeOK
<1>6. new \in Run /\ new.status = "settled"
  BY <1>1, <1>5 DEF Run
<1>7. /\ runs' \in [RunIds -> Run] /\ runs'[q] = new
      /\ \A r \in RunIds : r # q => runs'[r] = runs[r]
  BY <1>1, <1>2, <1>6 DEF CallsInv, TypeOK
<1>8. spent' \in Int /\ spent' <= spent
  BY <1>1, <1>2, <1>5
<1>9. TypeOK'
  BY <1>2, <1>4, <1>7, <1>8 DEF CallsInv, TypeOK
<1>10. q \in answered
  BY DEF CallsInv, RunInv, Settle
<1>11. RowInv'
  BY <1>2, <1>6, <1>7, <1>10 DEF CallsInv, RowInv
<1>12. \A d \in Callers : Local(call'[d])
  BY <1>3, <1>4 DEF CallsInv
<1>13. \A d \in Callers : RunInv(d)'
  <2> TAKE d \in Callers
  <2>1. CASE d = c \/ ~Holding(d)
    BY <1>3, <1>4, <2>1 DEF RunInv, Holding
  <2>2. CASE d # c /\ Holding(d)
    <3>1. call'[d] = call[d] /\ call[d].run # q /\ call[d].run \in RunIds
      BY <1>4, <2>2, BudgetAssumption DEF CallsInv, OwnRuns, Holding, Settle, RunInv, TypeOK, RunIds
    <3>2. runs'[call[d].run] = runs[call[d].run]
      BY <1>7, <3>1
    <3> QED BY <1>2, <3>1, <3>2 DEF CallsInv, RunInv, Reservation
  <2> QED BY <2>1, <2>2
<1>14. OwnRuns'
  BY <1>3, <1>4 DEF CallsInv, OwnRuns, Holding
<1>15. RefusalStops'
  BY <1>2, <1>3, <1>4 DEF CallsInv, RefusalStops
<1> QED BY <1>8, <1>9, <1>11, <1>12, <1>13, <1>14, <1>15 DEF CallsInv

LEMMA BeginStep ==
    ASSUME CallsInv, NEW c \in Callers, NEW n \in Outputs, NEW p \in Preferences, Begin(c, n, p)
    PROVE  CallsInv'
<1> DEFINE K == [NoCall EXCEPT !.pc = "try", !.prefer = p, !.maxTokens = n, !.limit = n]
<1>1. K \in Call /\ Local(K)
  BY BeginLocal
<1>2. K.pc = "try"
  BY DEF NoCall
<1>3. call' = [call EXCEPT ![c] = K]
  BY DEF Begin
<1>4. /\ UNCHANGED <<budgetVars, sent>> /\ answered' = answered /\ answered' \subseteq RunIds
      /\ refused' = refused \ {c} /\ refused' \subseteq Callers
  BY DEF Begin, CallsInv, TypeOK
<1>5. \A d \in refused' : IF d = c THEN K.pc = "idle" ELSE d \in refused
  BY <1>4
<1>6. answered \subseteq answered' /\ ~(K.pc \in {"sent", "settle"})
  BY <1>2, <1>4
<1> HIDE DEF K
<1> QED BY <1>1, <1>3, <1>4, <1>5, <1>6, OwnStep

LEMMA AnswerStep ==
    ASSUME CallsInv, NEW c \in Callers, NEW n \in 0..(Overhead + call[c].limit), Answer(c, n)
    PROVE  CallsInv'
<1> DEFINE K == Answered(call[c], n)
<1>1. call[c] \in Call /\ Local(call[c]) /\ call[c].pc = "sent"
  BY CallTyped DEF CallsInv, Answer
<1>2. K \in Call /\ Local(K)
  BY <1>1, AnswerLocal
<1>3. K.pc = "settle" /\ K.run = call[c].run /\ K.wire = call[c].wire /\ K.maxTokens = call[c].maxTokens
  BY <1>1 DEF Answered, Call
<1>4. /\ call' = [call EXCEPT ![c] = K] /\ UNCHANGED <<budgetVars, sent>>
      /\ answered' = answered \cup {call[c].wire} /\ refused' = refused
  BY DEF Answer
<1>5. Holding(c) /\ call[c].run \in RunIds /\ call[c].wire = call[c].run
  BY <1>1, BudgetAssumption DEF Holding, CallsInv, RunInv, TypeOK, RunIds
<1>6. answered' \subseteq RunIds /\ answered \subseteq answered' /\ refused' \subseteq Callers
  BY <1>4, <1>5 DEF CallsInv, TypeOK
<1>7. \A d \in refused' : IF d = c THEN K.pc = "idle" ELSE d \in refused
  BY <1>1, <1>4 DEF CallsInv, RefusalStops
<1>8. K.pc \in {"sent", "settle"} =>
               /\ Holding(c)
               /\ K.run = call[c].run /\ K.wire = call[c].wire
               /\ K.maxTokens = call[c].maxTokens
               /\ K.pc = "settle" => K.run \in answered'
  BY <1>3, <1>4, <1>5
<1> HIDE DEF K
<1> QED BY <1>2, <1>4, <1>6, <1>7, <1>8, OwnStep

LEMMA CallerStep ==
    ASSUME CallsInv, NEW c \in Callers, CallerNext(c)
    PROVE  CallsInv' /\ (spent' > spent => spent' <= maximum)
<1>1. /\ call[c] \in Call /\ Local(call[c]) /\ spent \in Int
      /\ call[c].limit \in Nat \ {0} /\ call[c].model \in Models /\ call[c].at \in 1..5
  BY CallTyped DEF CallsInv, Call, TypeOK
<1>2. \A m \in Untried(c) : m \in Models /\ m \notin call[c].tried
  BY DEF Untried, Models
<1>3. \A l \in Clamped(call[c].limit) : l \in Nat \ {0} /\ l <= call[c].limit
  BY <1>1, ClampBounds
<1>4. CASE \E n \in Outputs, p \in Configured \cup {"any"} : Begin(c, n, p)
  <2>1. PICK n \in Outputs, p \in Configured \cup {"any"} : Begin(c, n, p)
    BY <1>4
  <2>2. p \in Preferences
    BY CallAssumption DEF Preferences
  <2>3. CallsInv'
    BY <2>1, <2>2, BeginStep
  <2> QED BY <1>1, <2>1, <2>3 DEF Begin, budgetVars
<1>5. CASE Skip(c)
  BY <1>1, <1>5, NextProviderStep DEF Skip, budgetVars
<1>6. CASE Exhaust(c) \/ Abort(c) \/ FailSettle(c) \/ Crash(c) \/ Reject(c)
  <2>1. End(c) /\ UNCHANGED <<budgetVars, sent, answered>> /\ refused' = refused
    BY <1>6 DEF Exhaust, Abort, FailSettle, Crash, Reject, Failing, ghosts
  <2> QED BY <1>1, <2>1, EndStep DEF budgetVars
<1>7. CASE Refuse(c)
  BY <1>1, <1>7, EndStep DEF Refuse, budgetVars
<1>8. CASE Dispatch(c)
  <2>1. spent' <= maximum
    BY <1>1, <1>8, CallAssumption, BudgetAssumption
       DEF Dispatch, Exhausted, ReserveRun, Reservation, Call, CallsInv, TypeOK
  <2> QED BY <1>8, <2>1, DispatchStep
<1>9. CASE LoseGrant(c)
  <2>1. spent' <= maximum
    BY <1>1, <1>9, CallAssumption, BudgetAssumption
       DEF LoseGrant, Exhausted, ReserveRun, Reservation, Call, CallsInv, TypeOK
  <2> QED BY <1>9, <2>1, LoseGrantStep
<1>10. CASE \E n \in 0..(Overhead + call[c].limit) : Answer(c, n)
  <2>1. PICK n \in 0..(Overhead + call[c].limit) : Answer(c, n)
    BY <1>10
  <2>2. CallsInv'
    BY <2>1, AnswerStep
  <2>3. UNCHANGED spent
    BY <2>1 DEF Answer, budgetVars
  <2> QED BY <1>1, <2>2, <2>3
<1>11. CASE FailOnce(c)
  <2>1. call[c].at <= 4 /\ call[c].pc \in {"try", "sent"}
    BY <1>1, <1>11 DEF FailOnce, Local
  <2> QED BY <1>1, <1>11, <2>1, NextProviderStep DEF FailOnce, budgetVars
<1>12. CASE Failing(c) /\ \E e \in Errors : GiveUp(c, e)
  BY <1>1, <1>12, GiveUpStep DEF Failing, budgetVars
<1>13. ASSUME NEW e \in Errors, SwitchModel(c, e) \/ OutOfModels(c, e) \/ Wait(c, e) \/ RetrySame(c, e)
       PROVE  CallsInv' /\ (spent' > spent => spent' <= maximum)
  <2>1. CASE SwitchModel(c, e)
    <3>1. PICK m \in Untried(c) : Again(c, e, m, call[c].limit)
      BY <2>1 DEF SwitchModel
    <3>2. Failing(c)
      BY <2>1 DEF SwitchModel
    <3>3. CallsInv'
      BY <1>1, <1>2, <3>1, <3>2, AgainStep
    <3> QED BY <1>1, <3>2, <3>3 DEF Failing, budgetVars
  <2>2. CASE OutOfModels(c, e)
    BY <1>12, <2>2 DEF OutOfModels
  <2>3. CASE Wait(c, e)
    <3>1. PICK l \in Clamped(call[c].limit) : Again(c, e, call[c].model, l)
      BY <2>3 DEF Wait
    <3>2. Failing(c) /\ e \notin {"missing", "too_large"}
      BY <2>3 DEF Wait
    <3>3. CallsInv'
      BY <1>1, <1>3, <3>1, <3>2, AgainStep
    <3> QED BY <1>1, <3>2, <3>3 DEF Failing, budgetVars
  <2>4. CASE RetrySame(c, e)
    <3>1. Again(c, e, call[c].model, call[c].limit) /\ Failing(c) /\ e \notin {"missing", "too_large"}
      BY <2>4 DEF RetrySame
    <3>2. CallsInv'
      BY <1>1, <3>1, AgainStep
    <3> QED BY <1>1, <3>1, <3>2 DEF Failing, budgetVars
  <2> QED BY <1>13, <2>1, <2>2, <2>3, <2>4
<1>14. CASE LongWait(c)
  <2>1. Failing(c)
    BY <1>14 DEF LongWait
  <2>2. PICK l \in Clamped(call[c].limit) :
          \/ \E m \in Untried(c) : NextModel(c, m) /\ Again(c, "output", m, l)
          \/ Untried(c) = {} /\ GiveUp(c, "output")
    BY <1>14 DEF LongWait
  <2>3. CASE \E m \in Untried(c) : NextModel(c, m) /\ Again(c, "output", m, l)
    <3>1. PICK m \in Untried(c) : Again(c, "output", m, l)
      BY <2>3
    <3>2. CallsInv'
      BY <1>1, <1>2, <1>3, <2>1, <3>1, AgainStep
    <3> QED BY <1>1, <2>1, <3>2 DEF Failing, budgetVars
  <2>4. CASE Untried(c) = {} /\ GiveUp(c, "output")
    BY <1>12, <2>1, <2>4 DEF Errors
  <2> QED BY <2>2, <2>3, <2>4
<1>15. CASE Settle(c)
  BY <1>1, <1>15, SettleStep DEF CallsInv, TypeOK
<1> QED BY <1>4, <1>5, <1>6, <1>7, <1>8, <1>9, <1>10, <1>11, <1>13, <1>14, <1>15 DEF CallerNext

(* The lease and the administrator touch no call and no row. *)
LEMMA LeaseStep ==
    ASSUME CallsInv, LeaseNext, UNCHANGED <<call, ghosts>>
    PROVE  CallsInv' /\ UNCHANGED spent
<1>1. /\ UNCHANGED <<spent, runs, used, call, sent, answered, refused>>
      /\ holder' \in Callers \cup {Nobody} /\ maximum' \in Maxima
  BY DEF LeaseNext, TakeLease, EndLease, Resume, ghosts, CallsInv, TypeOK
<1>2. TypeOK'
  BY <1>1 DEF CallsInv, TypeOK
<1>3. RowInv' /\ OwnRuns' /\ RefusalStops'
  BY <1>1 DEF CallsInv, RowInv, OwnRuns, Holding, RefusalStops
<1>4. (\A c \in Callers : Local(call[c]))' /\ (\A c \in Callers : RunInv(c))'
  BY <1>1 DEF CallsInv, RunInv, Reservation
<1> QED BY <1>1, <1>2, <1>3, <1>4 DEF CallsInv

LEMMA CallsInit == Init => CallsInv
<1> SUFFICES ASSUME Init PROVE CallsInv
  OBVIOUS
<1>1. /\ holder = Nobody /\ maximum \in Maxima /\ spent = 0 /\ used = 0
      /\ runs = [r \in RunIds |-> NoRun] /\ call = [c \in Callers |-> NoCall]
      /\ sent = [r \in RunIds |-> 0] /\ answered = {} /\ refused = {}
  BY DEF Init, BudgetInit
<1>2. NoRun \in Run /\ NoRun.status = "none"
  BY DEF NoRun, Run, Providers
<1>3. NoCall \in Call /\ Local(NoCall) /\ NoCall.pc = "idle"
  BY NoCallLocal DEF NoCall
<1>4. TypeOK
  BY <1>1, <1>2, <1>3, BudgetAssumption DEF TypeOK
<1>5. RowInv
  BY <1>1, <1>2, BudgetAssumption DEF RowInv, RunIds
<1>6. /\ \A c \in Callers : Local(call[c])
      /\ \A c \in Callers : RunInv(c)
      /\ OwnRuns /\ RefusalStops
  BY <1>1, <1>3 DEF RunInv, OwnRuns, Holding, RefusalStops
<1> QED BY <1>4, <1>5, <1>6 DEF CallsInv

LEMMA CallsNext ==
    ASSUME CallsInv, [Next]_vars
    PROVE  CallsInv' /\ (spent' > spent => spent' <= maximum)
<1>1. spent \in Int
  BY DEF CallsInv, TypeOK
<1>2. CASE \E c \in Callers : CallerNext(c)
  BY <1>2, CallerStep
<1>3. CASE LeaseNext /\ UNCHANGED <<call, ghosts>>
  BY <1>1, <1>3, LeaseStep
<1>4. CASE UNCHANGED vars
  <2>1. UNCHANGED <<holder, maximum, spent, runs, used, call, sent, answered, refused>>
    BY <1>4 DEF vars, budgetVars, ghosts
  <2>2. TypeOK' /\ RowInv' /\ OwnRuns' /\ RefusalStops'
    BY <2>1 DEF CallsInv, TypeOK, RowInv, OwnRuns, Holding, RefusalStops
  <2>3. (\A c \in Callers : Local(call[c]))' /\ (\A c \in Callers : RunInv(c))'
    BY <2>1 DEF CallsInv, RunInv, Reservation
  <2> QED BY <1>1, <2>1, <2>2, <2>3 DEF CallsInv
<1> QED BY <1>2, <1>3, <1>4 DEF Next

THEOREM CallsInvHolds == Spec => []CallsInv
<1>1. CallsInv /\ [Next]_vars => CallsInv'
  BY CallsNext
<1> QED BY <1>1, CallsInit, PTL DEF Spec

----------------------------------------------------------------------------
(* The variables of a call and the rows of the ledger keep their types; in   *)
(* particular a clamped output limit stays positive.                         *)
THEOREM CallsTyped == Spec => []TypeOK
<1>1. CallsInv => TypeOK
  BY DEF CallsInv
<1> QED BY <1>1, CallsInvHolds, PTL

(* "Every actual dispatch reserves its own durable token allowance"          *)
(* (completeTextWithFallback, executeGroqWithRetry, spine_reserve_call).     *)
THEOREM EveryDispatchReserved == Spec => []DispatchesReserved
<1>1. CallsInv => DispatchesReserved
  <2> SUFFICES ASSUME CallsInv, NEW r \in RunIds
               PROVE  sent[r] <= 1 /\ (sent[r] = 1 => r <= used /\ runs[r].status # "none")
    BY DEF DispatchesReserved
  <2>1. r \in Nat /\ sent[r] \in Nat /\ used \in Int
    BY DEF CallsInv, TypeOK, RunIds
  <2> QED BY <2>1 DEF CallsInv, RowInv
<1> QED BY <1>1, CallsInvHolds, PTL

(* "Failed attempts remain conservatively charged": spine_settle_call is     *)
(* only reached for the reservation whose dispatch was answered.             *)
THEOREM FailedAttemptsCharged == Spec => []FailuresStayCharged
<1>1. CallsInv => FailuresStayCharged
  BY DEF CallsInv, RowInv, FailuresStayCharged
<1> QED BY <1>1, CallsInvHolds, PTL

(* "budget or lease failures stop before dispatch" (beforeAttempt is called  *)
(* outside of the error handlers of the providers).                          *)
THEOREM RefusedCallsStop == Spec => []RefusalStops
<1>1. CallsInv => RefusalStops
  BY DEF CallsInv
<1> QED BY <1>1, CallsInvHolds, PTL

(* attemptedModels: a model that is missing or too small is not asked again. *)
THEOREM DeadModelsNotAsked == Spec => []DeadModelsSkipped
<1>1. CallsInv => DeadModelsSkipped
  BY DEF CallsInv, Local, DeadModelsSkipped
<1> QED BY <1>1, CallsInvHolds, PTL

(* maxRetries bounds all the ways of trying Groq again together.             *)
THEOREM DispatchesAreBounded == Spec => []DispatchesBounded
<1>1. CallsInv => DispatchesBounded
  <2> SUFFICES ASSUME CallsInv, NEW c \in Callers, NEW p \in Providers
               PROVE  call[c].asked[p] <= IF p = "groq" THEN MaxRetries ELSE 1
    BY DEF DispatchesBounded
  <2>1. /\ call[c].asked[p] \in Nat /\ call[c].asked[p] <= Allowance(call[c], p)
        /\ call[c].attempt \in 1..MaxRetries /\ Place(p) \in 1..4 /\ call[c].at \in 1..5
    BY CallTyped DEF CallsInv, Local, Call, Place, Providers
  <2> QED BY <2>1, CallAssumption DEF Allowance
<1> QED BY <1>1, CallsInvHolds, PTL

(* spine_reserve_call and spine_settle_call together: whatever the calls,    *)
(* their losses and the resumes, the budget grows within the maximum.        *)
THEOREM BudgetGrowsWithinMaximum == Spec => GrowsWithinMaximum
<1>1. CallsInv /\ [Next]_vars => [spent' > spent => spent' <= maximum]_spent
  BY CallsNext
<1> QED BY <1>1, CallsInvHolds, PTL DEF Spec, GrowsWithinMaximum

----------------------------------------------------------------------------
(* Sums of charges *)

(* Induction over the naturals, as the search for a smallest counterexample. *)
LEMMA LeastNat ==
    ASSUME NEW T, T \subseteq Nat, T # {}
    PROVE  \E n \in T : \A m \in T : n <= m
<1>1. IsWellFoundedOn(OpToRel(<, Nat), Nat)
  BY NatLessThanWellFounded
<1>2. PICK n \in T : \A m \in T : ~(<<m, n>> \in OpToRel(<, Nat))
  BY <1>1, WFMin, Zenon
<1>3. ASSUME NEW m \in T PROVE n <= m
  <2>1. <<m, n>> \notin OpToRel(<, Nat)
    BY <1>2
  <2>2. ~(m < n)
    BY <2>1 DEF OpToRel
  <2> QED BY <2>2
<1> QED BY <1>3

(* f holds the running totals of the first n charges.                        *)
Adds(f, charges, n) ==
    /\ f \in [0..n -> Int]
    /\ f[0] = 0
    /\ \A i \in 1..n : f[i] = f[i - 1] + charges[i]

LEMMA TotalsExist ==
    ASSUME NEW charges \in [RunIds -> Int]
    PROVE  \E f : Adds(f, charges, MaxRuns)
<1> DEFINE T == {n \in 0..MaxRuns : ~(\E f : Adds(f, charges, n))}
<1>1. MaxRuns \in Nat
  BY BudgetAssumption
<1>2. ASSUME T # {} PROVE FALSE
  <2>0. T \subseteq Nat
    BY <1>1
  <2> HIDE DEF T
  <2>1. PICK n \in T : \A m \in T : n <= m
    BY <1>2, <2>0, LeastNat
  <2> USE DEF T
  <2>2. n \in 0..MaxRuns /\ ~(\E f : Adds(f, charges, n))
    BY <2>1
  <2>3. CASE n = 0
    <3> DEFINE f == [i \in 0..0 |-> 0]
    <3>1. f \in [0..0 -> Int] /\ f[0] = 0
      OBVIOUS
    <3> HIDE DEF f
    <3>2. Adds(f, charges, 0)
      BY <3>1 DEF Adds
    <3> QED BY <2>2, <2>3, <3>2
  <2>4. CASE n # 0
    <3>1. n - 1 \in 0..MaxRuns /\ n - 1 \notin T
      BY <1>1, <2>1, <2>2, <2>4
    <3>2. PICK f : Adds(f, charges, n - 1)
      BY <3>1
    <3> DEFINE g == [i \in 0..n |-> IF i = n THEN f[n - 1] + charges[n] ELSE f[i]]
    <3>3. n \in Nat \ {0} /\ n \in RunIds /\ charges[n] \in Int
      BY <1>1, <2>2, <2>4 DEF RunIds
    <3>4. f \in [0..n - 1 -> Int] /\ f[0] = 0 /\ \A i \in 1..n - 1 : f[i] = f[i - 1] + charges[i]
      BY <3>2 DEF Adds
    <3>5. g \in [0..n -> Int]
      BY <3>3, <3>4
    <3>6. g[0] = 0
      BY <3>3, <3>4
    <3>7. ASSUME NEW i \in 1..n PROVE g[i] = g[i - 1] + charges[i]
      <4>1. CASE i = n
        BY <3>3, <3>4, <4>1
      <4>2. CASE i # n
        BY <3>3, <3>4, <4>2
      <4> QED BY <4>1, <4>2
    <3> HIDE DEF g
    <3>8. Adds(g, charges, n)
      BY <3>5, <3>6, <3>7 DEF Adds
    <3> QED BY <2>2, <3>8
  <2> QED BY <2>3, <2>4
<1>3. MaxRuns \notin T
  BY <1>2
<1> QED BY <1>1, <1>3

LEMMA SumIsLastTotal ==
    ASSUME NEW charges \in [RunIds -> Int], NEW f, Adds(f, charges, MaxRuns)
    PROVE  SumOf(charges) = f[MaxRuns]
<1>1. MaxRuns \in Nat
  BY BudgetAssumption
<1> DEFINE Eq(g) == g = [n \in 0..MaxRuns |-> IF n = 0 THEN 0 ELSE g[n - 1] + charges[n]]
           total == CHOOSE g : Eq(g)
<1>2. SumOf(charges) = total[MaxRuns]
  BY DEF SumOf
<1>3. Eq(f)
  <2>1. f \in [0..MaxRuns -> Int] /\ f[0] = 0
        /\ \A i \in 1..MaxRuns : f[i] = f[i - 1] + charges[i]
    BY DEF Adds
  <2>2. \A n \in 0..MaxRuns : f[n] = IF n = 0 THEN 0 ELSE f[n - 1] + charges[n]
    BY <1>1, <2>1
  <2> QED BY <2>1, <2>2
<1>4. Eq(total)
  BY <1>3
<1> HIDE DEF total
<1> DEFINE T == {n \in 0..MaxRuns : total[n] # f[n]}
<1>5. ASSUME T # {} PROVE FALSE
  <2>0. T \subseteq Nat
    BY <1>1
  <2> HIDE DEF T
  <2>1. PICK n \in T : \A m \in T : n <= m
    BY <1>5, <2>0, LeastNat
  <2> USE DEF T
  <2>2. n \in 0..MaxRuns /\ total[n] # f[n]
    BY <2>1
  <2>3. /\ total[n] = IF n = 0 THEN 0 ELSE total[n - 1] + charges[n]
        /\ f[n] = IF n = 0 THEN 0 ELSE f[n - 1] + charges[n]
    BY <1>3, <1>4, <2>2
  <2>4. n # 0 /\ n - 1 \in 0..MaxRuns /\ n - 1 \notin T
    BY <1>1, <2>1, <2>2, <2>3
  <2> QED BY <2>2, <2>3, <2>4
<1> QED BY <1>1, <1>2, <1>5

(* A charge that changes by d changes the sum by d.                          *)
LEMMA SumChanges ==
    ASSUME NEW c \in [RunIds -> Int], NEW e \in [RunIds -> Int], NEW r \in RunIds,
           \A i \in RunIds : i # r => e[i] = c[i]
    PROVE  SumOf(e) = SumOf(c) + (e[r] - c[r])
<1>1. MaxRuns \in Nat /\ r \in 1..MaxRuns /\ RunIds = 1..MaxRuns
  BY BudgetAssumption DEF RunIds
<1>2. PICK f : Adds(f, c, MaxRuns)
  BY TotalsExist
<1>3. f \in [0..MaxRuns -> Int] /\ f[0] = 0 /\ \A i \in 1..MaxRuns : f[i] = f[i - 1] + c[i]
  BY <1>2 DEF Adds
<1> DEFINE d == e[r] - c[r]
           g == [n \in 0..MaxRuns |-> IF n < r THEN f[n] ELSE f[n] + d]
<1>4. d \in Int /\ e[r] = c[r] + d
  BY <1>1
<1> HIDE DEF d
<1>5. g \in [0..MaxRuns -> Int] /\ g[0] = 0
  <2>1. \A n \in 0..MaxRuns : f[n] \in Int /\ f[n] + d \in Int
    BY <1>3, <1>4
  <2>2. g \in [0..MaxRuns -> Int]
    BY <2>1
  <2>3. 0 \in 0..MaxRuns /\ 0 < r
    BY <1>1
  <2> QED BY <1>3, <2>2, <2>3
<1>6. ASSUME NEW i \in 1..MaxRuns PROVE g[i] = g[i - 1] + e[i]
  <2>1. /\ f[i] = f[i - 1] + c[i] /\ f[i - 1] \in Int /\ c[i] \in Int /\ e[i] \in Int
        /\ i - 1 \in 0..MaxRuns /\ i \in 0..MaxRuns
    BY <1>1, <1>3
  <2>2. g[i] = (IF i < r THEN f[i] ELSE f[i] + d) /\ g[i - 1] = IF i - 1 < r THEN f[i - 1] ELSE f[i - 1] + d
    BY <2>1
  <2> HIDE DEF g
  <2>3. CASE i = r
    BY <1>1, <1>4, <2>1, <2>2, <2>3
  <2>4. CASE i # r
    BY <1>1, <1>4, <2>1, <2>2, <2>4
  <2> QED BY <2>3, <2>4
<1>7. g[MaxRuns] = f[MaxRuns] + d
  BY <1>1
<1> HIDE DEF g
<1>8. Adds(g, e, MaxRuns)
  BY <1>5, <1>6 DEF Adds
<1> QED BY <1>2, <1>7, <1>8, SumIsLastTotal DEF d

(* The rows that are not used yet charge nothing.                            *)
LedgerInv ==
    /\ LedgerAgrees
    /\ \A r \in RunIds : r > used => Charged(r) = 0

Charges == [r \in RunIds |-> Charged(r)]

ChargesOK == Charges \in [RunIds -> Int]

LEMMA ChargesTyped == TypeOK => ChargesOK
<1> SUFFICES ASSUME TypeOK, NEW r \in RunIds PROVE Charged(r) \in Int
  BY DEF ChargesOK, Charges
<1>1. runs[r] \in Run
  BY DEF TypeOK
<1> QED BY <1>1 DEF Run, Charged

LEMMA ChargesStayTyped == TypeOK' => ChargesOK'
BY ChargesTyped, PTL

(* One row changes, and the budget with it.                                  *)
LEMMA OneRowChanges ==
    ASSUME TypeOK, TypeOK', LedgerAgrees, NEW r \in RunIds,
           \A i \in RunIds : i # r => runs'[i] = runs[i],
           spent' = spent + (Charged(r)' - Charged(r))
    PROVE  LedgerAgrees'
<1> DEFINE c == Charges
           e == Charges'
<1>1. c \in [RunIds -> Int] /\ e \in [RunIds -> Int]
  BY ChargesTyped, ChargesStayTyped DEF ChargesOK
<1>2. \A i \in RunIds : i # r => e[i] = c[i]
  BY DEF Charges, Charged
<1>3. e[r] = Charged(r)' /\ c[r] = Charged(r)
  BY DEF Charges
<1>4. spent = SumOf(c)
  BY DEF LedgerAgrees, Charges
<1> HIDE DEF c, e
<1>5. SumOf(e) = SumOf(c) + (e[r] - c[r])
  BY <1>1, <1>2, SumChanges
<1>6. spent' = SumOf(e)
  BY <1>3, <1>4, <1>5
<1> QED BY <1>6 DEF e, LedgerAgrees, Charges

LEMMA AttemptsAskForSomething ==
    ASSUME CallsInv, NEW c \in Callers, call[c].pc # "idle"
    PROVE  Reservation(c) \in Nat /\ Reservation(c) >= 1
<1>1. call[c] \in Call /\ Local(call[c])
  BY CallTyped DEF CallsInv
<1>2. /\ call[c].limit \in Nat \ {0} /\ call[c].limit <= call[c].maxTokens
      /\ call[c].maxTokens \in Nat /\ Overhead \in Nat
  BY <1>1, CallAssumption DEF Call, Local
<1> QED BY <1>2 DEF Reservation

(* A step reserves a run of one token at least, settles one that is reserved *)
(* with one at least, or leaves the ledger alone.                            *)
LEMMA ChargingSteps ==
    ASSUME CallsInv, [Next]_vars
    PROVE  \/ UNCHANGED <<spent, runs, used>>
           \/ \E p \in Providers, n \in Nat \ {0} : ReserveRun(p, n)
           \/ \E r \in RunIds, n \in Nat \ {0} : SettleRun(r, n)
<1>1. ASSUME NEW c \in Callers, Dispatch(c) \/ LoseGrant(c)
      PROVE  \E p \in Providers, n \in Nat \ {0} : ReserveRun(p, n)
  <2>1. /\ call[c] \in Call /\ call[c].at \in 1..4 /\ ReserveRun(Provider(c), Reservation(c))
        /\ call[c].pc # "idle"
    BY <1>1, CallTyped DEF CallsInv, Dispatch, LoseGrant, Attempting, Call
  <2>2. Provider(c) \in Providers
    BY <2>1 DEF Provider, Order, Providers
  <2>3. Reservation(c) \in Nat \ {0}
    BY <2>1, AttemptsAskForSomething
  <2> QED BY <2>1, <2>2, <2>3
<1>2. ASSUME NEW c \in Callers, Settle(c)
      PROVE  \E r \in RunIds, n \in Nat \ {0} : SettleRun(r, n)
  <2>1. call[c].pc = "settle" /\ SettleRun(call[c].run, Charge(c))
    BY <1>2 DEF Settle
  <2>2. Charge(c) \in Nat /\ call[c].run \in RunIds
    BY <2>1, ChargeBounds
  <2>3. Reservation(c) \in Nat /\ Reservation(c) >= 1
    BY <2>1, AttemptsAskForSomething
  <2>4. Charge(c) # 0
    BY <2>3 DEF Charge
  <2> QED BY <2>1, <2>2, <2>4
<1>3. ASSUME NEW c \in Callers, CallerNext(c), ~Dispatch(c), ~LoseGrant(c), ~Settle(c)
      PROVE  UNCHANGED <<spent, runs, used>>
  BY <1>3 DEF CallerNext, Begin, Skip, Exhaust, Abort, Refuse, Answer, FailOnce, Reject,
              SwitchModel, OutOfModels, Wait, RetrySame, LongWait, FailSettle, Crash, Failing,
              budgetVars
<1>4. LeaseNext => UNCHANGED <<spent, runs, used>>
  BY DEF LeaseNext, TakeLease, EndLease, Resume
<1> QED BY <1>1, <1>2, <1>3, <1>4 DEF Next, vars, budgetVars

LEMMA LedgerStep ==
    ASSUME CallsInv, CallsInv', LedgerInv, [Next]_vars
    PROVE  LedgerInv'
<1>1. TypeOK /\ TypeOK' /\ LedgerAgrees /\ \A r \in RunIds : r > used => Charged(r) = 0
  BY DEF CallsInv, LedgerInv
<1>2. CASE UNCHANGED <<spent, runs, used>>
  <2>1. LedgerAgrees'
    BY <1>1, <1>2 DEF LedgerAgrees, Charged
  <2> QED BY <1>1, <1>2, <2>1 DEF LedgerInv, Charged
<1>3. ASSUME NEW p \in Providers, NEW n \in Nat, ReserveRun(p, n) PROVE LedgerInv'
  <2>0. PICK r : r = used + 1
    OBVIOUS
  <2> DEFINE new == [status |-> "reserved", provider |-> p, tokens |-> n, actual |-> 0]
  <2>1. /\ used \in 0..MaxRuns /\ MaxRuns \in Nat /\ used < MaxRuns /\ used' = r
        /\ spent' = spent + n /\ runs' = [runs EXCEPT ![r] = new] /\ runs \in [RunIds -> Run]
        /\ spent \in Int
    BY <1>1, <1>3, <2>0, BudgetAssumption DEF ReserveRun, TypeOK
  <2>2. r \in RunIds /\ r > used /\ r \in Nat
    BY <2>0, <2>1 DEF RunIds
  <2>3. /\ runs'[r] = new
        /\ \A i \in RunIds : i # r => runs'[i] = runs[i]
    BY <2>1, <2>2
  <2>4. Charged(r)' = n /\ Charged(r) = 0
    BY <1>1, <2>2, <2>3 DEF Charged
  <2>5. spent' = spent + (Charged(r)' - Charged(r))
    BY <2>1, <2>4
  <2>6. LedgerAgrees'
    BY <1>1, <2>2, <2>3, <2>5, OneRowChanges
  <2>7. ASSUME NEW i \in RunIds, i > used' PROVE Charged(i)' = 0
    <3>1. i > used /\ i # r
      BY <2>0, <2>1, <2>2, <2>7 DEF RunIds
    <3>2. Charged(i) = 0 /\ runs'[i] = runs[i]
      BY <1>1, <2>3, <3>1
    <3> QED BY <3>2 DEF Charged
  <2> QED BY <2>6, <2>7 DEF LedgerInv
<1>4. ASSUME NEW r \in RunIds, NEW n \in Nat, SettleRun(r, n) PROVE LedgerInv'
  <2> DEFINE old == runs[r]
             new == [old EXCEPT !.status = "settled", !.actual = n]
  <2>1. /\ old.status = "reserved" /\ runs' = [runs EXCEPT ![r] = new] /\ used' = used
        /\ spent' = spent - old.tokens + n /\ runs \in [RunIds -> Run] /\ old \in Run
        /\ spent \in Int
    BY <1>1, <1>4 DEF SettleRun, TypeOK
  <2>2. new.status = "settled" /\ new.actual = n /\ old.tokens \in Nat
    BY <2>1 DEF Run
  <2>3. /\ runs'[r] = new
        /\ \A i \in RunIds : i # r => runs'[i] = runs[i]
    BY <2>1
  <2>4. Charged(r)' = n /\ Charged(r) = old.tokens
    BY <2>1, <2>2, <2>3 DEF Charged
  <2>5. spent' = spent + (Charged(r)' - Charged(r))
    BY <2>1, <2>2, <2>4
  <2>6. LedgerAgrees'
    BY <1>1, <2>3, <2>5, OneRowChanges
  <2>7. ASSUME NEW i \in RunIds, i > used' PROVE Charged(i)' = 0
    <3>1. i # r
      BY <1>1, <2>1, <2>7 DEF CallsInv, RowInv
    <3>2. Charged(i) = 0 /\ runs'[i] = runs[i]
      BY <1>1, <2>1, <2>3, <2>7, <3>1
    <3> QED BY <3>2 DEF Charged
  <2> QED BY <2>6, <2>7 DEF LedgerInv
<1> QED BY <1>2, <1>3, <1>4, ChargingSteps

LEMMA LedgerStart == Init => LedgerInv
<1> SUFFICES ASSUME Init PROVE LedgerInv
  OBVIOUS
<1>1. spent = 0 /\ \A r \in RunIds : runs[r] = NoRun
  BY DEF Init, BudgetInit
<1>2. \A r \in RunIds : Charged(r) = 0
  BY <1>1 DEF Charged, NoRun
<1> DEFINE c == [r \in RunIds |-> Charged(r)]
           f == [n \in 0..MaxRuns |-> 0]
<1>3. MaxRuns \in Nat /\ c \in [RunIds -> Int] /\ \A r \in RunIds : c[r] = 0
  BY <1>2, BudgetAssumption
<1> HIDE DEF c
<1>4. Adds(f, c, MaxRuns) /\ f[MaxRuns] = 0
  BY <1>3 DEF Adds, RunIds
<1> HIDE DEF f
<1>5. SumOf(c) = 0
  BY <1>3, <1>4, SumIsLastTotal
<1> QED BY <1>1, <1>2, <1>5 DEF LedgerInv, LedgerAgrees, c

(* The mission's spent tokens are at every moment the sum over its runs: the *)
(* reservation of one that is not settled, the usage of one that is - for    *)
(* any number of workers, runs and lost answers, although no code ever adds  *)
(* the rows up (spine_reserve_call, spine_settle_call).                      *)
THEOREM LedgerIsTheSumOfRuns == Spec => []LedgerAgrees
<1>1. LedgerInv /\ CallsInv /\ CallsInv' /\ [Next]_vars => LedgerInv'
  BY LedgerStep
<1>2. LedgerInv => LedgerAgrees
  BY DEF LedgerInv
<1> QED BY <1>1, <1>2, LedgerStart, CallsInvHolds, PTL DEF Spec

(* What the first u runs charge, at least one each, adds up to u at least.   *)
LEMMA SumAtLeast ==
    ASSUME NEW charges \in [RunIds -> Int], NEW u \in 0..MaxRuns,
           \A r \in RunIds : charges[r] >= IF r <= u THEN 1 ELSE 0
    PROVE  SumOf(charges) >= u
<1>1. MaxRuns \in Nat /\ u \in Nat /\ u <= MaxRuns
  BY BudgetAssumption
<1>2. PICK f : Adds(f, charges, MaxRuns)
  BY TotalsExist
<1>3. f \in [0..MaxRuns -> Int] /\ f[0] = 0 /\ \A i \in 1..MaxRuns : f[i] = f[i - 1] + charges[i]
  BY <1>2 DEF Adds
<1> DEFINE Low(n) == IF n <= u THEN n ELSE u
           T == {n \in 0..MaxRuns : ~(f[n] >= Low(n))}
<1>4. ASSUME T # {} PROVE FALSE
  <2>0. T \subseteq Nat
    BY <1>1
  <2> HIDE DEF T
  <2>1. PICK n \in T : \A m \in T : n <= m
    BY <1>4, <2>0, LeastNat
  <2> USE DEF T
  <2>2. n \in 0..MaxRuns /\ ~(f[n] >= Low(n)) /\ n \in Nat /\ f[n] \in Int
    BY <1>1, <1>3, <2>1
  <2>3. n # 0
    BY <1>1, <1>3, <2>2
  <2>4. n - 1 \in 0..MaxRuns /\ n \in 1..MaxRuns /\ n - 1 \notin T
    BY <1>1, <2>1, <2>2, <2>3
  <2>5. f[n - 1] >= Low(n - 1) /\ f[n - 1] \in Int
    BY <1>3, <2>4
  <2>6. f[n] = f[n - 1] + charges[n]
    BY <1>3, <2>4
  <2>7. charges[n] \in Int /\ charges[n] >= IF n <= u THEN 1 ELSE 0
    BY <2>4 DEF RunIds
  <2> HIDE DEF T
  <2> QED BY <1>1, <2>2, <2>3, <2>5, <2>6, <2>7
<1>5. MaxRuns \notin T
  BY <1>4
<1>6. f[MaxRuns] >= u
  BY <1>1, <1>3, <1>5
<1> QED BY <1>2, <1>6, SumIsLastTotal

(* Every run of the ledger charges something, settled or not.                *)
FloorInv == \A r \in 1..used : Charged(r) >= 1

LEMMA FloorStep ==
    ASSUME CallsInv, FloorInv, [Next]_vars
    PROVE  FloorInv'
<1>1. runs \in [RunIds -> Run] /\ used \in 0..MaxRuns /\ MaxRuns \in Nat
  BY BudgetAssumption DEF CallsInv, TypeOK
<1>2. CASE UNCHANGED <<spent, runs, used>>
  BY <1>2 DEF FloorInv, Charged
<1>3. ASSUME NEW p \in Providers, NEW n \in Nat \ {0}, ReserveRun(p, n) PROVE FloorInv'
  <2>1. /\ used + 1 \in RunIds /\ used' = used + 1
        /\ runs'[used + 1] = [status |-> "reserved", provider |-> p, tokens |-> n, actual |-> 0]
        /\ \A i \in RunIds : i # used + 1 => runs'[i] = runs[i]
    BY <1>1, <1>3 DEF ReserveRun, RunIds
  <2>2. \A i \in 1..used' : i = used + 1 \/ (i \in 1..used /\ i \in RunIds /\ i # used + 1)
    BY <1>1, <2>1 DEF RunIds
  <2> QED BY <2>1, <2>2 DEF FloorInv, Charged
<1>4. ASSUME NEW r \in RunIds, NEW n \in Nat \ {0}, SettleRun(r, n) PROVE FloorInv'
  <2>1. /\ used' = used /\ runs'[r].status = "settled" /\ runs'[r].actual = n
        /\ \A i \in RunIds : i # r => runs'[i] = runs[i]
    BY <1>1, <1>4 DEF SettleRun, Run
  <2>2. \A i \in 1..used : i \in RunIds
    BY <1>1 DEF RunIds
  <2> QED BY <2>1, <2>2 DEF FloorInv, Charged
<1> QED BY <1>2, <1>3, <1>4, ChargingSteps

(* Every run of the ledger costs a token at least, so there are never more   *)
(* runs than tokens spent, which therefore stay positive; and a call that    *)
(* may still reserve finds a number left for its run: MaxRuns, the bound of  *)
(* the model, keeps no caller from a dispatch the database would grant       *)
(* (spine_reserve_call).                                                     *)
THEOREM RunsNeverRunOut == Spec => []RowsSuffice
<1>1. Init => FloorInv
  BY DEF Init, BudgetInit, FloorInv
<1>2. CallsInv /\ FloorInv /\ [Next]_vars => FloorInv'
  BY FloorStep
<1>3. CallsInv /\ LedgerInv /\ FloorInv => RowsSuffice
  <2> SUFFICES ASSUME CallsInv, LedgerInv, FloorInv PROVE RowsSuffice
    OBVIOUS
  <2>1. TypeOK /\ used \in 0..MaxRuns /\ MaxRuns \in Nat /\ spent \in Int /\ maximum \in Maxima
    BY BudgetAssumption DEF CallsInv, TypeOK
  <2>2. maximum \in Nat /\ maximum <= MaxRuns
    BY <2>1, BudgetAssumption
  <2>3. Charges \in [RunIds -> Int] /\ spent = SumOf(Charges)
    BY <2>1, ChargesTyped DEF LedgerInv, LedgerAgrees, Charges, ChargesOK
  <2>4. ASSUME NEW r \in RunIds PROVE Charges[r] >= IF r <= used THEN 1 ELSE 0
    <3>1. r \in Nat \ {0} /\ Charges[r] = Charged(r)
      BY <2>1 DEF RunIds, Charges
    <3>2. CASE r <= used
      BY <2>1, <3>1, <3>2 DEF FloorInv
    <3>3. CASE ~(r <= used)
      BY <2>1, <3>1, <3>3 DEF LedgerInv
    <3> QED BY <3>2, <3>3
  <2>5. used <= spent
    BY <2>1, <2>3, <2>4, SumAtLeast
  <2>6. ASSUME NEW c \in Callers, Attempting(c), ~Exhausted(Reservation(c))
        PROVE  used < MaxRuns
    <3>1. Reservation(c) \in Nat /\ Reservation(c) >= 1
      BY <2>6, AttemptsAskForSomething DEF Attempting
    <3>2. spent + Reservation(c) <= maximum
      BY <2>1, <2>2, <2>6, <3>1 DEF Exhausted
    <3> QED BY <2>1, <2>2, <2>5, <3>1, <3>2
  <2> QED BY <2>5, <2>6 DEF RowsSuffice
<1>4. LedgerInv /\ CallsInv /\ CallsInv' /\ [Next]_vars => LedgerInv'
  BY LedgerStep
<1> QED BY <1>1, <1>2, <1>3, <1>4, LedgerStart, CallsInvHolds, PTL DEF Spec
===============================================================================
