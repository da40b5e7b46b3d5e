---------------------------- MODULE SpokenDelivery -----------------------------
(***************************************************************************)
(* Spoken answers, from the microphone to the record that they were heard. *)
(* A browser's recogniser and conversation timer turn an utterance into a   *)
(* command; the command palette sends commands too.  The server answers and *)
(* stores the answer; the answers of both go through one playback queue,    *)
(* chunk by chunk; the client acknowledges what it played and the server     *)
(* then announces the command complete.                                      *)
(*                                                                           *)
(* A request is an utterance (Voice) or a typed command; a notice is a      *)
(* sentence the voice loop speaks by itself and nobody acknowledges.        *)
(***************************************************************************)
EXTENDS Naturals, Sequences, FiniteSets

CONSTANTS
    Requests, Voice,    \* all requests, those spoken into the microphone
    None, Notice,
    Chunks,             \* pieces an answer is played in
    MaxDeliveries,      \* of each request: times its answer is spoken and acknowledged
    MaxToggles          \* times the voice loop is switched off or on

ASSUME SpokenAssumption ==
    /\ Voice \subseteq Requests
    /\ None \notin Requests /\ Notice \notin Requests /\ None # Notice
    /\ Chunks \in Nat \ {0}
    /\ MaxDeliveries \in [Requests -> Nat]
    /\ MaxToggles \in Nat

VARIABLES
    talk,       \* the conversation timer's state
    heard,      \* utterances in the recogniser's transcript
    pause,      \* utterances the conversation timer is armed with, {}: not armed
    silence,    \* is the recogniser's silence timer armed
    resets,     \* has a reset still to interrupt the playback
    toggles,    \* how often the voice loop was switched; even: it is on
    request,    \* where each request is: with the human, the server, answered
    delivery,   \* how far the client is with each answer
    deliveries, \* how often it was delivered
    queue,      \* the playback queue
    playing,    \* its current task: what it plays, chunks ended, chunk, interrupted or not
    acks,       \* acknowledgments: of which delivery, status, how far the server is
    record,     \* responses with a stored acknowledgment "played"
    completed,  \* responses announced complete
    listened    \* history: responses whose every chunk ended in one go

voice == <<talk, heard, pause, silence, resets, toggles>>
player == <<queue, playing>>
server == <<request, acks, record, completed>>
client == <<delivery, deliveries, listened>>
vars == <<voice, player, server, client>>

Idle == [task |-> None, ended |-> 0, chunk |-> "none", cut |-> FALSE]
Busy == {"processing", "speaking"}
On == toggles % 2 = 0

Acks == [request : Requests, nth : Nat \ {0}, status : {"played", "failed"},
         at : {"sent", "new", "done"}]

TypeOK ==
    /\ talk \in {"idle", "human", "waiting"} \cup Busy
    /\ heard \subseteq Voice /\ pause \subseteq Voice
    /\ silence \in BOOLEAN /\ resets \in BOOLEAN /\ toggles \in 0..MaxToggles
    /\ request \in [Requests -> {"unsaid", "said", "asked", "answered", "failed"}]
    /\ delivery \in [Requests -> {"none", "waiting", "speaking", "acking", "settled"}]
    /\ deliveries \in [Requests -> Nat]
    /\ queue \in Seq(Requests \cup {Notice})
    /\ playing \in [task : Requests \cup {None, Notice}, ended : 0..Chunks,
                    chunk : {"none", "sounding", "ended", "failed"}, cut : BOOLEAN]
    /\ acks \subseteq Acks
    /\ record \subseteq Requests /\ completed \subseteq Requests
    /\ listened \subseteq Requests

Init ==
    /\ talk = "idle" /\ heard = {} /\ pause = {}
    /\ silence = FALSE /\ resets = FALSE /\ toggles = 0
    /\ request = [q \in Requests |-> IF q \in Voice THEN "unsaid" ELSE "said"]
    /\ delivery = [q \in Requests |-> "none"]
    /\ deliveries = [q \in Requests |-> 0]
    /\ queue = <<>> /\ playing = Idle
    /\ acks = {} /\ record = {} /\ completed = {} /\ listened = {}

Requested(q, r) == request' = [request EXCEPT ![q] = r]
Delivery(q, d) == delivery' = [delivery EXCEPT ![q] = d]
Ack(q, s) == [request |-> q, nth |-> deliveries[q], status |-> s, at |-> "sent"]

-------------------------------------------------------------------------------
(* Playback: one task at a time, chunk after chunk. *)

Play ==
    /\ playing.task = None /\ queue # <<>>
    /\ playing' = [task |-> Head(queue), ended |-> 0, chunk |-> "sounding", cut |-> FALSE]
    /\ queue' = Tail(queue)
    /\ UNCHANGED <<voice, server, client>>

(* The end event of a chunk; or its error, or the 120 seconds it may take. *)
ChunkEnds(e) ==
    /\ playing.chunk = "sounding"
    /\ playing' = [playing EXCEPT !.chunk = e, !.ended = IF e = "ended" THEN @ + 1 ELSE @]
    /\ UNCHANGED <<voice, queue, server, client>>

NextChunk ==
    /\ playing.chunk = "ended" /\ ~playing.cut /\ playing.ended < Chunks
    /\ playing' = [playing EXCEPT !.chunk = "sounding"]
    /\ UNCHANGED <<voice, queue, server, client>>

(* The task is played if every chunk ended and nothing interrupted it; its  *)
(* end frees the conversation and is acknowledged.                          *)
WholeUnlessFailed == playing.chunk = "ended" /\ playing.ended = Chunks
Whole == playing.chunk = "ended" /\ playing.ended = Chunks /\ ~playing.cut

TaskEnds ==
    LET q == playing.task IN
    /\ Whole \/ playing.cut \/ playing.chunk = "failed"
    /\ playing' = Idle
    /\ IF q = Notice
         THEN UNCHANGED <<talk, delivery, acks, listened>>
         ELSE /\ talk' = IF q \in Voice THEN "idle" ELSE talk
              /\ Delivery(q, "acking")
              /\ acks' = acks \cup {Ack(q, IF Whole THEN "played" ELSE "failed")}
              /\ listened' = IF playing.ended = Chunks /\ ~playing.cut
                               THEN listened \cup {q} ELSE listened
    /\ UNCHANGED <<heard, pause, silence, resets, toggles, queue, request, record,
                   completed, deliveries>>

(* interrupt(): the queued tasks are rejected, the current one is cut. *)
CutPlayback ==
    playing' = IF playing.task = None THEN playing
               ELSE [playing EXCEPT !.cut = TRUE,
                                    !.chunk = IF @ = "sounding" THEN "failed" ELSE @]
Queued == {q \in Requests : \E i \in DOMAIN queue : queue[i] = q}

InterruptedSilently ==
    CutPlayback /\ queue' = <<>> /\ UNCHANGED <<delivery, acks>>
Interrupted ==
    /\ CutPlayback /\ queue' = <<>>
    /\ delivery' = [q \in Requests |-> IF q \in Queued THEN "acking" ELSE delivery[q]]
    /\ acks' = acks \cup {Ack(q, "failed") : q \in Queued}

Interrupt ==
    /\ Interrupted
    /\ talk' = IF Queued \cap Voice # {} THEN "idle" ELSE talk
    /\ UNCHANGED <<heard, pause, silence, toggles, request, record, completed,
                   deliveries, listened>>

(* Stop, or an announcement with priority; and what a reset left behind. *)
StopPlayback == playing.task # None /\ UNCHANGED resets /\ Interrupt
ResetPlayback == resets /\ resets' = FALSE /\ Interrupt

-------------------------------------------------------------------------------
(* Listening. *)

(* A final piece of speech, possibly after the recogniser was stopped: it   *)
(* joins the transcript; the human is talking, unless an answer is being    *)
(* made or spoken, and both timers start anew.                              *)
Hear(q) ==
    /\ request[q] = "unsaid" /\ Requested(q, "said")
    /\ heard' = heard \cup {q} /\ silence' = TRUE /\ pause' = {}
    /\ talk' = IF talk \in Busy THEN talk ELSE "human"
    /\ UNCHANGED <<resets, toggles, player, acks, record, completed, client>>

(* The recogniser's silence timer: the transcript is handed on - or answered *)
(* by itself when it has the wake word - and cleared in any case.            *)
Silence ==
    /\ silence /\ silence' = FALSE
    /\ heard' = {}
    /\ \/ /\ IF On /\ talk = "human" /\ heard # {}
               THEN talk' = "waiting" /\ pause' = heard
               ELSE UNCHANGED <<talk, pause>>
          /\ UNCHANGED queue
       \/ /\ On /\ talk \notin Busy /\ heard # {}
          /\ queue' = Append(queue, Notice)
          /\ UNCHANGED <<talk, pause>>
    /\ UNCHANGED <<resets, toggles, playing, server, client>>

(* The conversation timer: what it is armed with becomes one command, known *)
(* by one of its utterances.                                                *)
Submit(q) ==
    /\ q \in pause /\ pause' = {} /\ talk' = "processing"
    /\ Requested(q, "asked") /\ Delivery(q, "waiting")
    /\ UNCHANGED <<heard, silence, resets, toggles, player, acks, record,
                   completed, deliveries, listened>>

(* A command typed into the palette. *)
Type(q) ==
    /\ q \notin Voice /\ request[q] = "said"
    /\ Requested(q, "asked") /\ Delivery(q, "waiting")
    /\ UNCHANGED <<voice, player, acks, record, completed, deliveries, listened>>

(* The voice loop is switched off: recogniser, playback and conversation are *)
(* stopped, not a command under way.  Switched on, it forgets the transcript. *)
SwitchOff ==
    /\ On /\ toggles < MaxToggles /\ toggles' = toggles + 1
    /\ silence' = FALSE /\ pause' = {} /\ talk' = "idle" /\ resets' = TRUE
    /\ Interrupted
    /\ UNCHANGED <<heard, request, record, completed, deliveries, listened>>

SwitchOn ==
    /\ ~On /\ toggles < MaxToggles /\ toggles' = toggles + 1
    /\ heard' = {}
    /\ UNCHANGED <<talk, pause, silence, resets, player, server, client>>

-------------------------------------------------------------------------------
(* The server's answer, and the end of a delivery. *)

(* runCommand in spoken mode: the answer is stored and awaits its playback. *)
Answer(q) ==
    /\ request[q] = "asked" /\ Requested(q, "answered")
    /\ UNCHANGED <<voice, player, acks, record, completed, client>>

(* A failed command of the voice loop says so and resets the conversation,  *)
(* whose interruption of the playback comes a moment later.                 *)
Fails(q) ==
    IF q \in Voice
      THEN /\ queue' = Append(queue, Notice)
           /\ pause' = {} /\ talk' = "idle" /\ resets' = TRUE
      ELSE UNCHANGED <<queue, pause, talk, resets>>

Refuse(q) ==
    /\ request[q] = "asked" /\ Requested(q, "failed")
    /\ Delivery(q, "settled") /\ Fails(q)
    /\ UNCHANGED <<heard, silence, toggles, playing, acks, record, completed,
                   deliveries, listened>>

(* The answer is put into the queue. *)
Enqueued(q) ==
    /\ deliveries[q] < MaxDeliveries[q]
    /\ deliveries' = [deliveries EXCEPT ![q] = @ + 1]
    /\ Delivery(q, "speaking")
    /\ queue' = Append(queue, q)
    /\ talk' = IF q \in Voice THEN "speaking" ELSE talk
    /\ UNCHANGED <<heard, pause, silence, resets, toggles, playing, server, listened>>

Speak(q) == request[q] = "answered" /\ delivery[q] = "waiting" /\ Enqueued(q)

(* A caller speaks the retained answer once more. *)
Retry(q) == request[q] = "answered" /\ delivery[q] = "settled" /\ Enqueued(q)

-------------------------------------------------------------------------------
(* Acknowledgment: POST /api/command/output/ack and ack_output. *)

Move(a, at) == acks' = (acks \ {a}) \cup {[a EXCEPT !.at = at]}

(* A "played" that is recorded already is a duplicate, and only answered. *)
Lookup(a) ==
    /\ a.at = "sent"
    /\ Move(a, IF a.status = "played" /\ a.request \in record THEN "done" ELSE "new")
    /\ UNCHANGED <<voice, player, request, record, completed, client>>

(* The insert ignores a duplicate; a failure has a row of its own. *)
Store(a) ==
    /\ a.at = "new"
    /\ Move(a, "done")
    /\ IF a.status = "played"
         THEN record' = record \cup {a.request} /\ completed' = completed \cup {a.request}
         ELSE UNCHANGED <<record, completed>>
    /\ UNCHANGED <<voice, player, request, client>>

(* The client has the answer; a playback that failed ends as a failure. *)
Acked(a) ==
    /\ a.at = "done" /\ delivery[a.request] = "acking" /\ a.nth = deliveries[a.request]
    /\ Delivery(a.request, "settled")
    /\ IF a.status = "played" THEN UNCHANGED <<queue, pause, talk, resets>>
                              ELSE Fails(a.request)
    /\ UNCHANGED <<heard, silence, toggles, playing, server, deliveries, listened>>

(* The acknowledgment or its answer is lost: it may still arrive and count. *)
AckLost(q) ==
    /\ delivery[q] = "acking" /\ Delivery(q, "settled") /\ Fails(q)
    /\ UNCHANGED <<heard, silence, toggles, playing, server, deliveries, listened>>

-------------------------------------------------------------------------------
Next ==
    \/ \E q \in Requests :
          \/ Hear(q) \/ Submit(q) \/ Type(q) \/ Answer(q) \/ Refuse(q)
          \/ Speak(q) \/ Retry(q) \/ AckLost(q)
    \/ Silence \/ SwitchOff \/ SwitchOn
    \/ Play \/ NextChunk \/ TaskEnds \/ StopPlayback \/ ResetPlayback
    \/ \E e \in {"ended", "failed"} : ChunkEnds(e)
    \/ \E a \in acks : Lookup(a) \/ Store(a) \/ Acked(a)

Spec == Init /\ [][Next]_vars

(* Timers fire, the playback goes on, and a request to the server is        *)
(* answered or fails; nothing makes anybody speak, type, stop or switch.    *)
Fairness ==
    /\ WF_vars(Silence) /\ WF_vars(\E q \in Voice : Submit(q))
    /\ WF_vars(Play) /\ WF_vars(NextChunk) /\ WF_vars(TaskEnds)
    /\ WF_vars(\E e \in {"ended", "failed"} : ChunkEnds(e))
    /\ \A q \in Requests :
         /\ WF_vars(Answer(q) \/ Refuse(q)) /\ WF_vars(Speak(q))
         /\ WF_vars(AckLost(q) \/ \E a \in acks : a.request = q /\ (Lookup(a) \/ Store(a) \/ Acked(a)))
FairSpec == Spec /\ Fairness

-------------------------------------------------------------------------------
(* A spoken command is announced complete only after every chunk of its     *)
(* answer ended in one uninterrupted playback, whatever was interrupted,    *)
(* retried or acknowledged twice in between                                  *)
(* (ttsEngine.ts:42-61, outputDelivery.ts:4-15, orchestratorRouter.ts:22-29, *)
(* docs/output-delivery.md:7).                                               *)
CompletionAfterPlayback == completed \subseteq listened /\ record \subseteq listened

(* Every delivery comes to an end, and the conversation with it: no answer  *)
(* leaves the queue, an acknowledgment or the microphone waiting for ever   *)
(* (ttsEngine.ts:35-41, 62-86, conversationTimer.ts:68-75).                  *)
DeliveriesSettle ==
    /\ \A q \in Requests : delivery[q] \notin {"none", "settled"} ~> delivery[q] = "settled"
    /\ talk \in Busy ~> talk \notin Busy

===============================================================================
