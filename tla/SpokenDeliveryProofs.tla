------------------------- MODULE SpokenDeliveryProofs --------------------------
(* Proofs about SpokenDelivery: its type invariant, and that a command is    *)
(* announced complete only after its answer was heard to the end.           *)
EXTENDS SpokenDelivery, TLAPS

(* What is queued or plays was delivered at least once; a chunk sounds only  *)
(* while one is left; nothing but an utterance is unsaid; and an             *)
(* acknowledgment says "played" only of what was heard to the end.          *)
Served == {q \in Requests : deliveries[q] >= 1}

Heard == \A a \in acks : a.status = "played" => a.request \in listened

SpokenInv ==
    /\ TypeOK
    /\ queue \in Seq(Served \cup {Notice})
    /\ playing.task \in Served \cup {None, Notice}
    /\ playing.chunk = "sounding" => playing.ended < Chunks
    /\ playing.task = None => playing = Idle
    /\ \A q \in Requests : request[q] = "unsaid" => q \in Voice
    /\ Heard
    /\ CompletionAfterPlayback

------------------------------------------------------------------------------
(* The parts of the invariant, and what leaves each alone *)

VoiceOK ==
    /\ talk \in {"idle", "human", "waiting"} \cup Busy
    /\ heard \subseteq Voice /\ pause \subseteq Voice
    /\ silence \in BOOLEAN /\ resets \in BOOLEAN /\ toggles \in 0..MaxToggles

States == {"unsaid", "said", "asked", "answered", "failed"}

Ways == {"none", "waiting", "speaking", "acking", "settled"}

RequestsOK ==
    /\ request \in [Requests -> States]
    /\ \A q \in Requests : request[q] = "unsaid" => q \in Voice

ClientOK == delivery \in [Requests -> Ways] /\ deliveries \in [Requests -> Nat]

Playings == [task : Requests \cup {None, Notice}, ended : 0..Chunks,
             chunk : {"none", "sounding", "ended", "failed"}, cut : BOOLEAN]

QueueOK == queue \in Seq(Served \cup {Notice})

PlayingOK ==
    /\ playing \in Playings
    /\ playing.task \in Served \cup {None, Notice}
    /\ playing.chunk = "sounding" => playing.ended < Chunks
    /\ playing.task = None => playing = Idle

AcksOK == acks \subseteq Acks /\ Heard

RecordOK ==
    /\ record \subseteq Requests /\ completed \subseteq Requests
    /\ listened \subseteq Requests
    /\ CompletionAfterPlayback

SpokenParts == VoiceOK /\ RequestsOK /\ ClientOK /\ QueueOK /\ PlayingOK /\ AcksOK /\ RecordOK

LEMMA WiderQueue ==
    ASSUME NEW S, NEW T, S \subseteq T, NEW s \in Seq(S)
    PROVE  s \in Seq(T)
OBVIOUS

LEMMA PartsOfSpokenInv == SpokenInv <=> SpokenParts
<1>1. SpokenInv => SpokenParts
  BY DEF SpokenInv, TypeOK, SpokenParts, VoiceOK, RequestsOK, ClientOK, QueueOK, PlayingOK,
         AcksOK, RecordOK, States, Ways, Playings, CompletionAfterPlayback
<1>2. ASSUME SpokenParts PROVE SpokenInv
  <2>1. queue \in Seq(Requests \cup {Notice})
    BY <1>2, WiderQueue DEF SpokenParts, QueueOK, Served
  <2> QED
    BY <1>2, <2>1
       DEF SpokenInv, TypeOK, SpokenParts, VoiceOK, RequestsOK, ClientOK, QueueOK, PlayingOK,
           AcksOK, RecordOK, States, Ways, Playings, CompletionAfterPlayback
<1> QED BY <1>1, <1>2

LEMMA VoiceKept == VoiceOK /\ UNCHANGED voice => VoiceOK'
BY DEF VoiceOK, voice, Busy

LEMMA RequestsKept == RequestsOK /\ UNCHANGED request => RequestsOK'
BY DEF RequestsOK

LEMMA ClientKept == ClientOK /\ UNCHANGED <<delivery, deliveries>> => ClientOK'
BY DEF ClientOK

LEMMA RecordKept == RecordOK /\ UNCHANGED <<record, completed, listened>> => RecordOK'
BY DEF RecordOK, CompletionAfterPlayback

LEMMA AcksKept == AcksOK /\ UNCHANGED <<acks, listened>> => AcksOK'
BY DEF AcksOK, Heard

LEMMA ServedKept == UNCHANGED deliveries => Served' = Served
BY DEF Served

LEMMA PlayingKept ==
    ASSUME PlayingOK, playing' = playing, Served \subseteq Served'
    PROVE  PlayingOK'
BY DEF PlayingOK, Idle

LEMMA QueueKept ==
    ASSUME QueueOK, queue' = queue \/ queue' = <<>>, Served \subseteq Served'
    PROVE  QueueOK'
<1>1. queue' \in Seq(Served \cup {Notice})
  <2>1. queue \in Seq(Served \cup {Notice})
    BY DEF QueueOK
  <2>2. CASE queue' = queue
    BY <2>1, <2>2
  <2>3. CASE queue' = <<>>
    BY <2>3
  <2> QED BY <2>2, <2>3
<1>2. Served \cup {Notice} \subseteq Served' \cup {Notice}
  OBVIOUS
<1> QED BY <1>1, <1>2, WiderQueue DEF QueueOK

LEMMA QueueGrows ==
    ASSUME QueueOK, NEW q \in Served' \cup {Notice}, queue' = Append(queue, q),
           Served \subseteq Served'
    PROVE  QueueOK'
<1>1. queue \in Seq(Served' \cup {Notice})
  BY WiderQueue DEF QueueOK
<1> QED BY <1>1 DEF QueueOK

LEMMA AcksGrow ==
    ASSUME AcksOK, NEW A, A \subseteq Acks, acks' = acks \cup A, listened \subseteq listened',
           \A a \in A : a.status = "played" => a.request \in listened'
    PROVE  AcksOK'
BY DEF AcksOK, Heard

(* What is acknowledged was delivered.                                       *)
LEMMA AckTyped ==
    ASSUME ClientOK, NEW q \in Served, NEW s \in {"played", "failed"}
    PROVE  Ack(q, s) \in Acks
<1>1. q \in Requests /\ deliveries[q] \in Nat \ {0}
  BY DEF ClientOK, Served
<1> QED BY <1>1 DEF Ack, Acks

(* A failure says so and may reset the conversation.                         *)
LEMMA FailsFacts ==
    ASSUME VoiceOK, NEW q, Fails(q), UNCHANGED <<heard, silence, toggles>>
    PROVE  /\ VoiceOK'
           /\ queue' = queue \/ queue' = Append(queue, Notice)
<1>1. /\ queue' = queue \/ queue' = Append(queue, Notice)
      /\ pause' = pause \/ pause' = {}
      /\ talk' = talk \/ talk' = "idle"
      /\ resets' = resets \/ resets' = TRUE
  BY DEF Fails
<1> QED BY <1>1 DEF VoiceOK, Busy

LEMMA FailsQueue ==
    ASSUME QueueOK, UNCHANGED deliveries, queue' = queue \/ queue' = Append(queue, Notice)
    PROVE  QueueOK'
<1>1. CASE queue' = queue
  BY <1>1, ServedKept, QueueKept
<1>2. CASE queue' = Append(queue, Notice)
  BY <1>2, ServedKept, QueueGrows
<1> QED BY <1>1, <1>2

(* interrupt()                                                               *)
LEMMA InterruptedFacts ==
    ASSUME SpokenParts, Interrupted, UNCHANGED <<deliveries, listened>>
    PROVE  ClientOK' /\ QueueOK' /\ PlayingOK' /\ AcksOK'
<1>1. ClientOK /\ QueueOK /\ PlayingOK /\ AcksOK
  BY DEF SpokenParts
<1>2. /\ CutPlayback /\ queue' = <<>> /\ deliveries' = deliveries /\ listened' = listened
      /\ delivery' = [q \in Requests |-> IF q \in Queued THEN "acking" ELSE delivery[q]]
      /\ acks' = acks \cup {Ack(q, "failed") : q \in Queued}
  BY DEF Interrupted
<1>3. ClientOK'
  BY <1>1, <1>2 DEF ClientOK, Ways
<1>4. QueueOK'
  BY <1>1, <1>2, ServedKept, QueueKept
<1>5. Queued \subseteq Served
  <2> SUFFICES ASSUME NEW q \in Requests, NEW i \in DOMAIN queue, queue[i] = q
               PROVE  q \in Served
    BY DEF Queued
  <2>1. queue[i] \in Served \cup {Notice}
    BY <1>1 DEF QueueOK
  <2> QED BY <2>1, SpokenAssumption
<1>6. AcksOK'
  <2> DEFINE A == {Ack(q, "failed") : q \in Queued}
  <2>1. A \subseteq Acks
    BY <1>1, <1>5, AckTyped
  <2>2. \A a \in A : a.status = "failed"
    BY DEF Ack
  <2> HIDE DEF A
  <2> QED BY <1>1, <1>2, <2>1, <2>2, AcksGrow DEF A
<1>7. PlayingOK'
  <2>1. CASE playing.task = None
    BY <1>1, <1>2, <2>1, ServedKept, PlayingKept DEF CutPlayback
  <2>2. CASE playing.task # None
    <3> DEFINE e == IF playing.chunk = "sounding" THEN "failed" ELSE playing.chunk
    <3>1. playing \in Playings /\ e \in {"none", "ended", "failed"}
      BY <1>1 DEF PlayingOK, Playings
    <3>2. playing' = [playing EXCEPT !.cut = TRUE, !.chunk = e]
      BY <1>2, <2>2 DEF CutPlayback
    <3> HIDE DEF e
    <3>3. LET p == [playing EXCEPT !.cut = TRUE, !.chunk = e]
          IN  p \in Playings /\ p.task = playing.task /\ p.chunk = e
      BY <3>1 DEF Playings
    <3>4. playing' \in Playings /\ playing'.task = playing.task /\ playing'.chunk # "sounding"
      BY <3>1, <3>2, <3>3
    <3> QED BY <1>1, <1>2, <2>2, <3>4, ServedKept DEF PlayingOK
  <2> QED BY <2>1, <2>2
<1> QED BY <1>3, <1>4, <1>6, <1>7

LEMMA SpokenStart == Init => SpokenInv
<1> SUFFICES ASSUME Init PROVE SpokenParts
  BY PartsOfSpokenInv
<1>1. VoiceOK
  <2>1. toggles \in 0 .. MaxToggles
    BY SpokenAssumption DEF Init
  <2> QED BY <2>1, Zenon DEF Init, VoiceOK
<1>2. RequestsOK
  BY DEF Init, RequestsOK, States
<1>3. ClientOK
  BY DEF Init, ClientOK, Ways
<1>4. QueueOK
  BY DEF Init, QueueOK
<1>5. PlayingOK
  BY SpokenAssumption DEF Init, PlayingOK, Playings, Idle
<1>6. AcksOK /\ RecordOK
  BY DEF Init, AcksOK, RecordOK, Heard, CompletionAfterPlayback
<1> QED BY <1>1, <1>2, <1>3, <1>4, <1>5, <1>6 DEF SpokenParts

------------------------------------------------------------------------------
(* Playback *)

LEMMA PlaySteps ==
    ASSUME SpokenParts, Play \/ NextChunk \/ \E e \in {"ended", "failed"} : ChunkEnds(e)
    PROVE  SpokenParts'
<1>1. /\ VoiceOK /\ RequestsOK /\ ClientOK /\ QueueOK /\ PlayingOK /\ AcksOK /\ RecordOK
  BY DEF SpokenParts
<1>2. UNCHANGED <<voice, request, delivery, deliveries, acks, record, completed, listened>>
  BY DEF Play, NextChunk, ChunkEnds, voice, server, client
<1>3. VoiceOK' /\ RequestsOK' /\ ClientOK' /\ AcksOK' /\ RecordOK'
  BY <1>1, <1>2, VoiceKept, RequestsKept, ClientKept, AcksKept, RecordKept
<1>4. Served' = Served
  BY <1>2, ServedKept
<1>5. playing \in Playings
  BY <1>1 DEF PlayingOK
<1>6. CASE Play
  <2> DEFINE q == Head(queue)
  <2>1. /\ queue \in Seq(Served \cup {Notice}) /\ queue # <<>> /\ queue' = Tail(queue)
        /\ playing' = [task |-> q, ended |-> 0, chunk |-> "sounding", cut |-> FALSE]
    BY <1>1, <1>6 DEF QueueOK, Play
  <2>2. q \in Served \cup {Notice} /\ Tail(queue) \in Seq(Served \cup {Notice})
    BY <2>1
  <2> HIDE DEF q
  <2>3. q \in Requests \cup {None, Notice} /\ q # None
    BY <2>2, SpokenAssumption DEF Served
  <2>4. PlayingOK'
    BY <1>4, <2>1, <2>2, <2>3, SpokenAssumption DEF PlayingOK, Playings
  <2>5. QueueOK'
    BY <1>4, <2>1, <2>2 DEF QueueOK
  <2> QED BY <1>3, <2>4, <2>5 DEF SpokenParts
<1>7. CASE NextChunk
  <2>1. playing' = [playing EXCEPT !.chunk = "sounding"] /\ queue' = queue
        /\ playing.ended < Chunks /\ playing.chunk = "ended"
    BY <1>7 DEF NextChunk
  <2>2. LET p == [playing EXCEPT !.chunk = "sounding"]
        IN  p \in Playings /\ p.task = playing.task /\ p.ended = playing.ended
    BY <1>5 DEF Playings
  <2>3. playing.task # None
    BY <1>1, <2>1 DEF PlayingOK, Idle
  <2>4. PlayingOK'
    BY <1>1, <1>4, <2>1, <2>2, <2>3 DEF PlayingOK
  <2> QED BY <1>1, <1>3, <1>4, <2>1, <2>4, QueueKept DEF SpokenParts
<1>8. ASSUME NEW e \in {"ended", "failed"}, ChunkEnds(e) PROVE SpokenParts'
  <2> DEFINE n == IF e = "ended" THEN playing.ended + 1 ELSE playing.ended
  <2>1. playing' = [playing EXCEPT !.chunk = e, !.ended = n] /\ queue' = queue
        /\ playing.chunk = "sounding"
    BY <1>8 DEF ChunkEnds
  <2>2. playing.ended \in 0 .. Chunks /\ playing.ended < Chunks
    BY <1>1, <1>5, <2>1 DEF PlayingOK, Playings
  <2>3. n \in 0 .. Chunks
    BY <2>2, SpokenAssumption
  <2> HIDE DEF n
  <2>4. LET p == [playing EXCEPT !.chunk = e, !.ended = n]
        IN  p \in Playings /\ p.task = playing.task /\ p.chunk = e
    BY <1>5, <2>3 DEF Playings
  <2>5. playing.task # None
    BY <1>1, <2>1 DEF PlayingOK, Idle
  <2>6. PlayingOK'
    BY <1>1, <1>4, <2>1, <2>4, <2>5 DEF PlayingOK
  <2> QED BY <1>1, <1>3, <1>4, <2>1, <2>6, QueueKept DEF SpokenParts
<1> QED BY <1>6, <1>7, <1>8

LEMMA TaskEndsStep ==
    ASSUME SpokenParts, TaskEnds
    PROVE  SpokenParts'
<1> DEFINE q == playing.task
<1>1. /\ VoiceOK /\ RequestsOK /\ ClientOK /\ QueueOK /\ PlayingOK /\ AcksOK /\ RecordOK
  BY DEF SpokenParts
<1>2. /\ playing' = Idle
      /\ UNCHANGED <<heard, pause, silence, resets, toggles, queue, request, record,
                     completed, deliveries>>
  BY DEF TaskEnds
<1>3. RequestsOK' /\ Served' = Served
  BY <1>1, <1>2, RequestsKept, ServedKept
<1>4. QueueOK'
  BY <1>1, <1>2, <1>3, QueueKept
<1>5. PlayingOK'
  BY <1>2, SpokenAssumption DEF PlayingOK, Playings, Idle
<1>6. CASE q = Notice
  <2>1. UNCHANGED <<talk, delivery, acks, listened>>
    BY <1>6 DEF TaskEnds
  <2>2. VoiceOK' /\ ClientOK' /\ AcksOK' /\ RecordOK'
    BY <1>1, <1>2, <2>1, VoiceKept, ClientKept, AcksKept, RecordKept DEF voice
  <2> QED BY <1>3, <1>4, <1>5, <2>2 DEF SpokenParts
<1>7. CASE q # Notice
  <2> DEFINE a == Ack(q, IF Whole THEN "played" ELSE "failed")
  <2>1. /\ talk' = IF q \in Voice THEN "idle" ELSE talk
        /\ delivery' = [delivery EXCEPT ![q] = "acking"]
        /\ acks' = acks \cup {a}
        /\ listened' = IF playing.ended = Chunks /\ ~playing.cut
                         THEN listened \cup {q} ELSE listened
        /\ Whole \/ playing.cut \/ playing.chunk = "failed"
    BY <1>7 DEF TaskEnds, Delivery
  <2>2. q # None
    BY <1>1, <2>1 DEF PlayingOK, Idle, Whole
  <2>3. q \in Served /\ q \in Requests
    BY <1>1, <1>7, <2>2 DEF PlayingOK, Served
  <2>4. VoiceOK'
    BY <1>1, <1>2, <2>1 DEF VoiceOK, Busy
  <2>5. ClientOK'
    BY <1>1, <1>2, <2>1 DEF ClientOK, Ways
  <2>6. a \in Acks
    BY <1>1, <2>3, AckTyped
  <2>7. a.status = "played" => q \in listened'
    BY <2>1 DEF Ack, Whole
  <2>8. a.request = q
    BY DEF Ack
  <2>9. listened \subseteq listened' /\ listened' \subseteq listened \cup {q}
    BY <2>1
  <2> HIDE DEF a, q
  <2>10. AcksOK'
    <3> DEFINE A == {a}
    <3>1. A \subseteq Acks /\ \A b \in A : b.status = "played" => b.request \in listened'
      BY <2>6, <2>7, <2>8
    <3>2. acks' = acks \cup A /\ listened \subseteq listened'
      BY <2>1, <2>9
    <3> HIDE DEF A
    <3> QED BY <1>1, <3>1, <3>2, AcksGrow
  <2>11. RecordOK'
    BY <1>1, <1>2, <2>3, <2>9 DEF RecordOK, CompletionAfterPlayback
  <2> QED BY <1>3, <1>4, <1>5, <2>4, <2>5, <2>10, <2>11 DEF SpokenParts
<1> QED BY <1>6, <1>7

LEMMA InterruptSteps ==
    ASSUME SpokenParts, StopPlayback \/ ResetPlayback \/ SwitchOff
    PROVE  SpokenParts'
<1>1. VoiceOK /\ RequestsOK /\ RecordOK
  BY DEF SpokenParts
<1>2. Interrupted /\ UNCHANGED <<deliveries, listened, request, record, completed>>
  BY DEF StopPlayback, ResetPlayback, SwitchOff, Interrupt
<1>3. ClientOK' /\ QueueOK' /\ PlayingOK' /\ AcksOK'
  BY <1>2, InterruptedFacts
<1>4. RequestsOK' /\ RecordOK'
  BY <1>1, <1>2, RequestsKept, RecordKept
<1>5. CASE StopPlayback \/ ResetPlayback
  <2>1. /\ UNCHANGED <<heard, pause, silence, toggles>>
        /\ talk' = talk \/ talk' = "idle"
        /\ resets' = resets \/ resets' = FALSE
    BY <1>5 DEF StopPlayback, ResetPlayback, Interrupt
  <2> QED BY <1>1, <1>3, <1>4, <2>1 DEF SpokenParts, VoiceOK, Busy
<1>6. CASE SwitchOff
  <2>1. /\ heard' = heard /\ silence' = FALSE /\ pause' = {} /\ talk' = "idle"
        /\ resets' = TRUE /\ toggles < MaxToggles /\ toggles' = toggles + 1
    BY <1>6 DEF SwitchOff
  <2>2. toggles' \in 0 .. MaxToggles
    BY <1>1, <2>1, SpokenAssumption DEF VoiceOK
  <2>3. VoiceOK'
    BY <1>1, <2>1, <2>2 DEF VoiceOK, Busy
  <2> QED BY <1>3, <1>4, <2>3 DEF SpokenParts
<1> QED BY <1>5, <1>6

------------------------------------------------------------------------------
(* Listening *)

LEMMA ListenSteps ==
    ASSUME SpokenParts,
           Silence \/ SwitchOn \/ \E q \in Requests : Hear(q) \/ Submit(q) \/ Type(q)
    PROVE  SpokenParts'
<1>1. /\ VoiceOK /\ RequestsOK /\ ClientOK /\ QueueOK /\ PlayingOK /\ AcksOK /\ RecordOK
  BY DEF SpokenParts
<1>2. UNCHANGED <<playing, deliveries, acks, record, completed, listened>>
  BY DEF Silence, SwitchOn, Hear, Submit, Type, player, server, client
<1>3. Served' = Served
  BY <1>2, ServedKept
<1>4. PlayingOK' /\ AcksOK' /\ RecordOK'
  BY <1>1, <1>2, <1>3, PlayingKept, AcksKept, RecordKept
<1>5. CASE Silence
  <2>1. /\ silence' = FALSE /\ heard' = {} /\ UNCHANGED <<resets, toggles, request, delivery>>
        /\ queue' = queue \/ queue' = Append(queue, Notice)
        /\ talk' = talk \/ talk' = "waiting"
        /\ pause' = pause \/ pause' = heard
    BY <1>5 DEF Silence, server, client
  <2>2. VoiceOK'
    BY <1>1, <2>1 DEF VoiceOK, Busy
  <2>3. QueueOK' /\ RequestsOK' /\ ClientOK'
    BY <1>1, <1>2, <2>1, FailsQueue, RequestsKept, ClientKept
  <2> QED BY <1>4, <2>2, <2>3 DEF SpokenParts
<1>6. CASE SwitchOn
  <2>1. /\ heard' = {} /\ UNCHANGED <<talk, pause, silence, resets, queue, request, delivery>>
        /\ toggles < MaxToggles /\ toggles' = toggles + 1
    BY <1>6 DEF SwitchOn, player, server, client
  <2>2. toggles' \in 0 .. MaxToggles
    BY <1>1, <2>1, SpokenAssumption DEF VoiceOK
  <2>3. VoiceOK'
    BY <1>1, <2>1, <2>2 DEF VoiceOK, Busy
  <2>4. QueueOK' /\ RequestsOK' /\ ClientOK'
    BY <1>1, <1>2, <1>3, <2>1, QueueKept, RequestsKept, ClientKept
  <2> QED BY <1>4, <2>3, <2>4 DEF SpokenParts
<1>7. ASSUME NEW q \in Requests, Hear(q) PROVE SpokenParts'
  <2>1. /\ request[q] = "unsaid" /\ request' = [request EXCEPT ![q] = "said"]
        /\ heard' = heard \cup {q} /\ silence' = TRUE /\ pause' = {}
        /\ talk' = talk \/ talk' = "human"
        /\ UNCHANGED <<resets, toggles, queue, delivery>>
    BY <1>7 DEF Hear, Requested, player, client
  <2>2. VoiceOK' /\ RequestsOK'
    BY <1>1, <2>1 DEF VoiceOK, RequestsOK, States, Busy
  <2>3. QueueOK' /\ ClientOK'
    BY <1>1, <1>2, <1>3, <2>1, QueueKept, ClientKept
  <2> QED BY <1>4, <2>2, <2>3 DEF SpokenParts
<1>8. ASSUME NEW q \in Requests, Submit(q) PROVE SpokenParts'
  <2>1. /\ pause' = {} /\ talk' = "processing"
        /\ request' = [request EXCEPT ![q] = "asked"]
        /\ delivery' = [delivery EXCEPT ![q] = "waiting"]
        /\ UNCHANGED <<heard, silence, resets, toggles, queue>>
    BY <1>8 DEF Submit, Requested, Delivery, player
  <2>2. VoiceOK' /\ RequestsOK' /\ ClientOK'
    BY <1>1, <1>2, <2>1 DEF VoiceOK, RequestsOK, ClientOK, States, Ways, Busy
  <2>3. QueueOK'
    BY <1>1, <1>3, <2>1, QueueKept
  <2> QED BY <1>4, <2>2, <2>3 DEF SpokenParts
<1>9. ASSUME NEW q \in Requests, Type(q) PROVE SpokenParts'
  <2>1. /\ request' = [request EXCEPT ![q] = "asked"]
        /\ delivery' = [delivery EXCEPT ![q] = "waiting"]
        /\ UNCHANGED <<voice, queue>>
    BY <1>9 DEF Type, Requested, Delivery, player
  <2>2. VoiceOK' /\ RequestsOK' /\ ClientOK'
    BY <1>1, <1>2, <2>1, VoiceKept DEF RequestsOK, ClientOK, States, Ways
  <2>3. QueueOK'
    BY <1>1, <1>3, <2>1, QueueKept
  <2> QED BY <1>4, <2>2, <2>3 DEF SpokenParts
<1> QED BY <1>5, <1>6, <1>7, <1>8, <1>9

------------------------------------------------------------------------------
(* Answers and acknowledgments *)

LEMMA AnswerSteps ==
    ASSUME SpokenParts, NEW q \in Requests, Answer(q) \/ Refuse(q) \/ AckLost(q)
    PROVE  SpokenParts'
<1>1. /\ VoiceOK /\ RequestsOK /\ ClientOK /\ QueueOK /\ PlayingOK /\ AcksOK /\ RecordOK
  BY DEF SpokenParts
<1>2. UNCHANGED <<playing, deliveries, acks, record, completed, listened>>
  BY DEF Answer, Refuse, AckLost, player, client, server
<1>3. Served' = Served
  BY <1>2, ServedKept
<1>4. PlayingOK' /\ AcksOK' /\ RecordOK'
  BY <1>1, <1>2, <1>3, PlayingKept, AcksKept, RecordKept
<1>5. RequestsOK'
  <2>1. \/ request' = request
        \/ request' = [request EXCEPT ![q] = "answered"]
        \/ request' = [request EXCEPT ![q] = "failed"]
    BY DEF Answer, Refuse, AckLost, Requested, server
  <2> QED BY <1>1, <2>1 DEF RequestsOK, States
<1>6. ClientOK'
  <2>1. delivery' = delivery \/ delivery' = [delivery EXCEPT ![q] = "settled"]
    BY DEF Answer, Refuse, AckLost, Delivery, client
  <2> QED BY <1>1, <1>2, <2>1 DEF ClientOK, Ways
<1>7. CASE Answer(q)
  <2>1. UNCHANGED <<voice, queue>>
    BY <1>7 DEF Answer, player
  <2> QED BY <1>1, <1>3, <1>4, <1>5, <1>6, <2>1, VoiceKept, QueueKept DEF SpokenParts
<1>8. CASE Refuse(q) \/ AckLost(q)
  <2>1. Fails(q) /\ UNCHANGED <<heard, silence, toggles>>
    BY <1>8 DEF Refuse, AckLost
  <2>2. VoiceOK' /\ QueueOK'
    BY <1>1, <1>2, <2>1, FailsFacts, FailsQueue
  <2> QED BY <1>4, <1>5, <1>6, <2>2 DEF SpokenParts
<1> QED BY <1>7, <1>8

LEMMA EnqueuedStep ==
    ASSUME SpokenParts, NEW q \in Requests, Enqueued(q)
    PROVE  SpokenParts'
<1>1. /\ VoiceOK /\ RequestsOK /\ ClientOK /\ QueueOK /\ PlayingOK /\ AcksOK /\ RecordOK
  BY DEF SpokenParts
<1>2. /\ deliveries' = [deliveries EXCEPT ![q] = @ + 1]
      /\ delivery' = [delivery EXCEPT ![q] = "speaking"]
      /\ queue' = Append(queue, q)
      /\ talk' = talk \/ talk' = "speaking"
      /\ UNCHANGED <<heard, pause, silence, resets, toggles, playing, request, acks, record,
                     completed, listened>>
  BY DEF Enqueued, Delivery, server
<1>3. ClientOK'
  BY <1>1, <1>2 DEF ClientOK, Ways
<1>4. Served \subseteq Served' /\ q \in Served'
  <2> SUFFICES ASSUME NEW p \in Requests, p \in Served \/ p = q PROVE deliveries'[p] >= 1
    BY DEF Served
  <2>1. deliveries[p] \in Nat
    BY <1>1 DEF ClientOK
  <2>2. deliveries'[p] = IF p = q THEN deliveries[p] + 1 ELSE deliveries[p]
    BY <1>1, <1>2 DEF ClientOK
  <2> QED BY <2>1, <2>2 DEF Served
<1>5. VoiceOK'
  BY <1>1, <1>2 DEF VoiceOK, Busy
<1> QED
  BY <1>1, <1>2, <1>3, <1>4, <1>5, RequestsKept, QueueGrows, PlayingKept, AcksKept, RecordKept
     DEF SpokenParts

(* The server moves an acknowledgment on.                                    *)
LEMMA MoveFacts ==
    ASSUME AcksOK, NEW a \in acks, NEW at \in {"sent", "new", "done"}, Move(a, at),
           UNCHANGED listened
    PROVE  AcksOK'
<1> DEFINE b == [a EXCEPT !.at = at]
<1>1. a \in Acks /\ acks' = (acks \ {a}) \cup {b}
  BY DEF AcksOK, Move
<1>2. b \in Acks /\ b.request = a.request /\ b.status = a.status
  BY <1>1 DEF Acks
<1> HIDE DEF b
<1> QED BY <1>1, <1>2 DEF AcksOK, Heard

LEMMA AckSteps ==
    ASSUME SpokenParts, NEW a \in acks, Lookup(a) \/ Store(a) \/ Acked(a)
    PROVE  SpokenParts'
<1>1. /\ VoiceOK /\ RequestsOK /\ ClientOK /\ QueueOK /\ PlayingOK /\ AcksOK /\ RecordOK
  BY DEF SpokenParts
<1>2. a \in Acks /\ a.request \in Requests
  BY <1>1 DEF AcksOK, Acks
<1>3. UNCHANGED <<request, playing, deliveries, listened>>
  BY DEF Lookup, Store, Acked, player, client, server
<1>4. Served' = Served
  BY <1>3, ServedKept
<1>5. RequestsOK' /\ PlayingOK'
  BY <1>1, <1>3, <1>4, RequestsKept, PlayingKept
<1>6. CASE Lookup(a)
  <2>1. UNCHANGED <<voice, queue, delivery, record, completed>>
    BY <1>6 DEF Lookup, player, client
  <2>2. PICK at \in {"sent", "new", "done"} : Move(a, at)
    BY <1>6 DEF Lookup
  <2>3. AcksOK'
    BY <1>1, <1>3, <2>2, MoveFacts
  <2> QED
    BY <1>1, <1>3, <1>4, <1>5, <2>1, <2>3, VoiceKept, ClientKept, QueueKept, RecordKept
       DEF SpokenParts
<1>7. CASE Store(a)
  <2>1. UNCHANGED <<voice, queue, delivery>> /\ Move(a, "done")
    BY <1>7 DEF Store, player, client
  <2>2. AcksOK'
    BY <1>1, <1>3, <2>1, MoveFacts
  <2>3. \/ UNCHANGED <<record, completed>>
        \/ /\ a.status = "played"
           /\ record' = record \cup {a.request} /\ completed' = completed \cup {a.request}
    BY <1>7 DEF Store
  <2>4. a.status = "played" => a.request \in listened
    BY <1>1 DEF AcksOK, Heard
  <2>5. RecordOK'
    BY <1>1, <1>2, <1>3, <2>3, <2>4 DEF RecordOK, CompletionAfterPlayback
  <2> QED
    BY <1>1, <1>3, <1>4, <1>5, <2>1, <2>2, <2>5, VoiceKept, ClientKept, QueueKept
       DEF SpokenParts
<1>8. CASE Acked(a)
  <2>1. /\ UNCHANGED <<heard, silence, toggles, acks, record, completed>>
        /\ delivery' = [delivery EXCEPT ![a.request] = "settled"]
        /\ UNCHANGED <<queue, pause, talk, resets>> \/ Fails(a.request)
    BY <1>8 DEF Acked, Delivery, server
  <2>2. VoiceOK' /\ QueueOK'
    <3>1. CASE UNCHANGED <<queue, pause, talk, resets>>
      BY <1>1, <1>4, <2>1, <3>1, VoiceKept, QueueKept DEF voice
    <3>2. CASE Fails(a.request)
      BY <1>1, <1>3, <2>1, <3>2, FailsFacts, FailsQueue
    <3> QED BY <2>1, <3>1, <3>2
  <2>3. ClientOK'
    BY <1>1, <1>3, <2>1 DEF ClientOK, Ways
  <2> QED BY <1>1, <1>3, <1>5, <2>1, <2>2, <2>3, AcksKept, RecordKept DEF SpokenParts
<1> QED BY <1>6, <1>7, <1>8

------------------------------------------------------------------------------
LEMMA SpokenStep == SpokenInv /\ [Next]_vars => SpokenInv'
<1>0. SpokenInv' <=> SpokenParts'
  BY PartsOfSpokenInv, PTL
<1> SUFFICES ASSUME SpokenParts, [Next]_vars PROVE SpokenParts'
  BY <1>0, PartsOfSpokenInv
<1>1. CASE Play \/ NextChunk \/ \E e \in {"ended", "failed"} : ChunkEnds(e)
  BY <1>1, PlaySteps
<1>2. CASE TaskEnds
  BY <1>2, TaskEndsStep
<1>3. CASE StopPlayback \/ ResetPlayback \/ SwitchOff
  BY <1>3, InterruptSteps
<1>4. CASE Silence \/ SwitchOn \/ \E q \in Requests : Hear(q) \/ Submit(q) \/ Type(q)
  BY <1>4, ListenSteps
<1>5. ASSUME NEW q \in Requests, Answer(q) \/ Refuse(q) \/ AckLost(q) PROVE SpokenParts'
  BY <1>5, AnswerSteps
<1>6. ASSUME NEW q \in Requests, Speak(q) \/ Retry(q) PROVE SpokenParts'
  BY <1>6, EnqueuedStep DEF Speak, Retry
<1>7. ASSUME NEW a \in acks, Lookup(a) \/ Store(a) \/ Acked(a) PROVE SpokenParts'
  BY <1>7, AckSteps
<1>8. CASE UNCHANGED vars
  <2>1. /\ VoiceOK /\ RequestsOK /\ ClientOK /\ QueueOK /\ PlayingOK /\ AcksOK /\ RecordOK
    BY DEF SpokenParts
  <2>2. UNCHANGED <<voice, queue, playing, request, acks, record, completed, delivery,
                    deliveries, listened>>
    BY <1>8 DEF vars, player, server, client
  <2> QED
    BY <2>1, <2>2, VoiceKept, RequestsKept, ClientKept, ServedKept, QueueKept, PlayingKept,
       AcksKept, RecordKept
       DEF SpokenParts
<1> QED BY <1>1, <1>2, <1>3, <1>4, <1>5, <1>6, <1>7, <1>8 DEF Next

(* Every variable keeps its type, and an acknowledgment is only ever made of *)
(* an answer that was delivered (its number is at least 1).                  *)
THEOREM SpokenTyped == Spec => []TypeOK
<1>1. SpokenInv => TypeOK
  BY DEF SpokenInv
<1> QED BY <1>1, SpokenStart, SpokenStep, PTL DEF Spec

(* A spoken command is announced complete only after every chunk of its      *)
(* answer ended in one uninterrupted playback, whatever was interrupted,     *)
(* retried, lost or acknowledged twice (ttsEngine.ts, playback queue;        *)
(* outputDelivery.ts, ack_output).                                           *)
THEOREM CompletedWasHeard == Spec => []CompletionAfterPlayback
<1>1. SpokenInv => CompletionAfterPlayback
  BY DEF SpokenInv
<1> QED BY <1>1, SpokenStart, SpokenStep, PTL DEF Spec
==============================================================================
