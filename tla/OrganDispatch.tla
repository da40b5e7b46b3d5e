---------------------------- MODULE OrganDispatch ----------------------------
(***************************************************************************)
(* The organ registry and the two who drive it: dispatchOrgan, which counts   *)
(* its calls of an organ, and the command pipeline, which sets the status of  *)
(* memory and brain itself.  Operators isolate and reset organs while calls  *)
(* are under way.                                                           *)
(***************************************************************************)
EXTENDS Naturals, FiniteSets

CONSTANTS
    Dispatched,     \* organs only dispatchOrgan drives
    Calls,          \* calls of dispatchOrgan
    Commands,       \* conversational commands
    Spoken,         \* those whose answer is spoken
    NoOrgan

ASSUME OrgansAssumption ==
    /\ NoOrgan \notin Dispatched
    /\ Dispatched \cap {"memory", "brain"} = {}

Organs == Dispatched \cup {"memory", "brain"}

VARIABLES
    status, isolated,   \* of each organ
    inflight,           \* active: calls of dispatchOrgan under way
    call,               \* the organ each call is executing
    command,            \* the stage of each command
    stored,             \* history: <<command, row>> in durable memory
    events              \* history: <<command, event>> broadcast

registry == <<status, isolated, inflight, call>>
pipeline == <<command, stored, events>>
organs == <<registry, pipeline>>

OrgansInit ==
    /\ status = [o \in Organs |-> "idle"]
    /\ isolated = [o \in Organs |-> FALSE]
    /\ inflight = [o \in Organs |-> 0]
    /\ call = [c \in Calls |-> NoOrgan]
    /\ command = [c \in Commands |-> "intake"]
    /\ stored = {} /\ events = {}

(* dispatchOrgan, up to its await.                                         *)
BeginCall(c, o) ==
    /\ call[c] = NoOrgan /\ ~isolated[o]
    /\ call' = [call EXCEPT ![c] = o]
    /\ inflight' = [inflight EXCEPT ![o] = @ + 1]
    /\ status' = [status EXCEPT ![o] = "busy"]
    /\ UNCHANGED <<isolated, pipeline>>

(* Mutant: the end of a call does not look whether the organ was isolated. *)
StatusAfterBlind(o, remaining, succeeded) ==
    IF remaining > 0 THEN "busy" ELSE IF succeeded THEN "active" ELSE "error"

(* What the finally block shows, with the calls that remain.               *)
StatusAfter(o, remaining, succeeded) ==
    CASE isolated[o] -> "disabled"
      [] ~isolated[o] /\ remaining > 0 -> "busy"
      [] OTHER -> IF succeeded THEN "active" ELSE "error"

EndCall(c, succeeded) ==
    /\ call[c] # NoOrgan
    /\ LET o == call[c]
           remaining == inflight[o] - 1 IN
        /\ inflight' = [inflight EXCEPT ![o] = remaining]
        /\ status' = [status EXCEPT ![o] = StatusAfter(o, remaining, succeeded)]
    /\ call' = [call EXCEPT ![c] = NoOrgan]
    /\ UNCHANGED <<isolated, pipeline>>

Isolate(o) ==
    /\ isolated' = [isolated EXCEPT ![o] = TRUE]
    /\ status' = [status EXCEPT ![o] = "disabled"]
    /\ UNCHANGED <<inflight, call, pipeline>>

(* reset clears the isolation; calls under way go on.                      *)
Reset(S) ==
    /\ isolated' = [o \in Organs |-> isolated[o] /\ o \notin S]
    /\ status' = [o \in Organs |-> IF o \in S THEN "idle" ELSE status[o]]
    /\ UNCHANGED <<inflight, call, pipeline>>

ResetOrgan(o) == Reset({o})

(* meta/heal resets the organs whose status is error.                      *)
Heal == Reset({o \in Organs : status[o] = "error"})

--------------------------------------------------------------------------------
(* runCommand.  An error of any stage ends in recordCommandFailure, which    *)
(* stores a record if it can, and command:error.                            *)

Proceed(c, step) == command' = [command EXCEPT ![c] = step]
Emit(S) == events' = events \cup S
Show(o, value) == status' = [status EXCEPT ![o] = value]

FailCommand(c) ==
    /\ Proceed(c, "failed")
    /\ Emit({<<c, "command:error">>})
    /\ \E saved \in BOOLEAN :
        stored' = IF saved THEN stored \cup {<<c, "failure">>} ELSE stored

(* Reflex, security and preflight may block the command: answered without  *)
(* an event.                                                               *)
Block(c) ==
    /\ command[c] = "intake"
    /\ Proceed(c, "blocked")
    /\ UNCHANGED <<registry, stored, events>>

(* Routing; of its failures only refused credentials end the command.      *)
Route(c) ==
    /\ command[c] = "intake"
    /\ \/ Proceed(c, "memory") /\ UNCHANGED <<stored, events>>
       \/ FailCommand(c)
    /\ UNCHANGED registry

Running == [memory |-> "memory:busy", brain |-> "brain:busy"]
After == [memory |-> "brain", brain |-> "synthesis"]

RunStage(c, o) ==
    /\ command[c] = o
    /\ IF isolated[o]
       THEN FailCommand(c) /\ UNCHANGED status
       ELSE /\ Proceed(c, Running[o]) /\ Show(o, "busy")
            /\ UNCHANGED <<stored, events>>
    /\ UNCHANGED <<isolated, inflight, call>>

EndStage(c, o) ==
    /\ command[c] = Running[o]
    /\ \/ /\ Proceed(c, After[o]) /\ Show(o, "active")
          /\ UNCHANGED <<stored, events>>
       \/ FailCommand(c) /\ Show(o, "error")
    /\ UNCHANGED <<isolated, inflight, call>>

(* A direct answer, or a synthesis by a provider that may fail; then the   *)
(* deterministic checks.                                                   *)
Synthesize(c) ==
    /\ command[c] = "synthesis"
    /\ \/ Proceed(c, "persistence") /\ UNCHANGED <<stored, events>>
       \/ FailCommand(c)
    /\ UNCHANGED registry

(* The answer is stored; an error may come after the row was written.      *)
PersistAnswer(c) ==
    /\ command[c] = "persistence"
    /\ Proceed(c, "feedback")
    /\ stored' = stored \cup {<<c, "answer">>}
    /\ UNCHANGED <<registry, events>>

LosePersist(c, row) ==
    /\ command[c] = IF row = "answer" THEN "persistence" ELSE "feedback"
    /\ Proceed(c, "failed")
    /\ Emit({<<c, "command:error">>})
    /\ \E rows \in SUBSET {row, "failure"} : stored' = stored \cup ({c} \X rows)
    /\ UNCHANGED registry

(* Mutant: a spoken answer is announced complete with the text ones.       *)
AnnouncementsAll(c) == {<<c, "response_complete">>, <<c, "command:complete">>}

Announcements(c) ==
    {<<c, "response_complete">>} \cup
    IF c \in Spoken THEN {} ELSE {<<c, "command:complete">>}

CollectFeedback(c) ==
    /\ command[c] = "feedback"
    /\ Proceed(c, "succeeded")
    /\ stored' = stored \cup {<<c, "feedback">>}
    /\ Emit(Announcements(c))
    /\ UNCHANGED registry

OrgansNext ==
    \/ \E c \in Calls, o \in Dispatched : BeginCall(c, o)
    \/ \E c \in Calls, succeeded \in BOOLEAN : EndCall(c, succeeded)
    \/ \E o \in Organs : Isolate(o) \/ ResetOrgan(o)
    \/ Heal
    \/ \E c \in Commands :
        \/ Block(c) \/ Route(c)
        \/ \E o \in {"memory", "brain"} : RunStage(c, o) \/ EndStage(c, o)
        \/ Synthesize(c) \/ PersistAnswer(c)
        \/ \E row \in {"answer", "feedback"} : LosePersist(c, row)
        \/ CollectFeedback(c)

(* An organ only dispatchOrgan drives shows the truth to the operator: while *)
(* it is isolated it shows disabled, also after calls that were under way    *)
(* end, it shows busy only while a call runs, and the counter behind it is    *)
(* the number of those calls.  (dispatchOrgan, isolate, reset, meta/heal.)   *)
IsolationShown ==
    \A o \in Dispatched :
        /\ isolated[o] => status[o] = "disabled"
        /\ status[o] = "busy" => inflight[o] > 0
        /\ inflight[o] = Cardinality({c \in Calls : call[c] = o})

(* A command is announced complete only if it is a text command whose answer *)
(* and feedback are stored and which did not fail; a command that failed, at  *)
(* whatever stage and with whatever was stored by then, announces that and    *)
(* nothing else.  (runCommand, recordCommandFailure.)                       *)
CommandsTold ==
    \A c \in Commands :
        /\ <<c, "command:complete">> \in events =>
              /\ c \notin Spoken /\ command[c] = "succeeded"
              /\ {<<c, "answer">>, <<c, "feedback">>} \subseteq stored
        /\ <<c, "command:error">> \in events =>
              \A e \in events : e[1] = c => e = <<c, "command:error">>
        /\ command[c] = "failed" => <<c, "command:error">> \in events
==============================================================================
