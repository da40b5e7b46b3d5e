------------------------------ MODULE ObdUplink ------------------------------
(***************************************************************************)
(* The bridge beside the car sends numbered samples to the server            *)
(* (src/integrations/obd-bridge/bridge.py), which keeps the latest one and a  *)
(* short history (src/server/automotive/obd/obdRouter.ts, repository.ts).    *)
(* An upload without an answer is sent again, up to three times, while       *)
(* earlier copies may still be under way at the server.                      *)
(***************************************************************************)
EXTENDS Naturals, Sequences

CONSTANTS Attempts,     \* times an upload is sent (3)
          Kept,         \* length of the history (120)
          MaxSamples    \* bound on the samples the bridge makes

ASSUME UplinkAssumption == Attempts \in Nat /\ Kept \in Nat

VARIABLES bridge,       \* what the bridge does, the sample it sends, how often it did
          recorded,     \* the session row: sequence, latest sample, history
          requests,     \* copies of uploads at the server, with the row they read
          confirmed     \* the samples whose upload the server confirmed, in order
uplink == <<bridge, recorded, requests, confirmed>>

LastUpTo(n, list) == SubSeq(list, IF Len(list) > n THEN Len(list) - n + 1 ELSE 1, Len(list))

NoSample == [sequence |-> 0, body |-> 0]

UplinkInit ==
    /\ bridge = [doing |-> "scanning", sequence |-> 0, bodies |-> 0,
                 sample |-> NoSample, tried |-> 0]
    /\ recorded = [sequence |-> 0, latest |-> NoSample, history |-> <<>>]
    /\ requests = {}
    /\ confirmed = <<>>

-----------------------------------------------------------------------------
(* The bridge.  Each sample has a body of its own, as it carries the time.   *)

Sending == bridge.sample # NoSample

(* publish: the next sequence number, kept until the server confirms it.     *)
Publish(doing) ==
    /\ ~Sending /\ bridge.bodies < MaxSamples
    /\ bridge' = [bridge EXCEPT !.doing = doing, !.bodies = @ + 1, !.tried = 0,
                                !.sample = [sequence |-> bridge.sequence + 1,
                                            body |-> bridge.bodies + 1]]
    /\ UNCHANGED <<recorded, requests, confirmed>>

(* A sweep of the car, or the last word after --once.                        *)
Sweep == bridge.doing = "scanning" /\ \E doing \in {"scanning", "closing"} : Publish(doing)

(* The last word after a failure or an interrupt; its own failure is ignored.*)
Report == bridge.doing = "failed" /\ Publish("reporting")

Send ==
    /\ Sending /\ bridge.tried < Attempts
    /\ bridge' = [bridge EXCEPT !.tried = @ + 1]
    /\ requests' = requests \cup
         {[sample |-> bridge.sample, copy |-> bridge.tried + 1, seen |-> {}]}
    /\ UNCHANGED <<recorded, confirmed>>

BreakOff ==
    bridge' = [bridge EXCEPT !.sample = NoSample,
                             !.doing = IF @ \in {"scanning", "closing"} THEN "failed" ELSE "ended"]

(* The last attempt timed out, the car is silent or the adapter gone, or the *)
(* keyboard interrupts whatever is under way.                                *)
Fail ==
    /\ bridge.doing # "ended"
    /\ BreakOff
    /\ UNCHANGED <<recorded, requests, confirmed>>

-----------------------------------------------------------------------------
(* The server *)

(* The copy whose answer the bridge waits for: an answer to an earlier one   *)
(* finds its connection closed, and any answer may be lost.                  *)
Awaited(q) == q.sample = bridge.sample /\ q.copy = bridge.tried

Confirm(q) ==
    \/ /\ Awaited(q)
       /\ bridge' = [bridge EXCEPT !.sequence = q.sample.sequence, !.sample = NoSample,
                                   !.doing = IF @ = "scanning" THEN @ ELSE "ended"]
       /\ confirmed' = Append(confirmed, q.sample)
    \/ UNCHANGED <<bridge, confirmed>>

Refuse(q) == (Awaited(q) /\ BreakOff) \/ UNCHANGED bridge

Load(q) ==
    /\ q.seen = {}
    /\ requests' = (requests \ {q}) \cup {[q EXCEPT !.seen = {recorded}]}
    /\ UNCHANGED <<bridge, recorded, confirmed>>

RepeatsNumber(q, row) == q.sample.sequence = row.sequence
Repeats(q, row) == q.sample = row.latest

(* The same sample once more is answered without being stored again.         *)
AnswerRepeat(q, row) ==
    /\ Repeats(q, row)
    /\ Confirm(q)
    /\ requests' = requests \ {q}
    /\ UNCHANGED recorded

(* A number out of order, another sample of the same number, a clock that is *)
(* off by more than a minute, or a row written since it was read.            *)
RefuseSample(q, row) ==
    /\ ~Repeats(q, row)
    /\ Refuse(q)
    /\ requests' = requests \ {q}
    /\ UNCHANGED <<recorded, confirmed>>

(* save: only over the sequence that was read.                               *)
StillRead(row) == row.sequence = recorded.sequence

StoreSample(q, row) ==
    /\ ~Repeats(q, row) /\ q.sample.sequence = row.sequence + 1 /\ StillRead(row)
    /\ recorded' = [sequence |-> q.sample.sequence, latest |-> q.sample,
                   history |-> LastUpTo(Kept, Append(row.history, q.sample))]
    /\ Confirm(q)
    /\ requests' = requests \ {q}

UplinkNext ==
    \/ Sweep \/ Report \/ Send \/ Fail
    \/ \E q \in requests :
         \/ Load(q)
         \/ \E row \in q.seen : AnswerRepeat(q, row) \/ RefuseSample(q, row) \/ StoreSample(q, row)

-----------------------------------------------------------------------------
(* Properties *)

(* Whatever copies of an upload arrive late, twice or side by side, the      *)
(* history is the confirmed samples in order, each once, followed at most by *)
(* one that was stored and never confirmed (obdRouter.ts 26-36: a repeat is   *)
(* answered, a number out of order is a conflict).                           *)
SamplesStored ==
    \E all \in {confirmed, Append(confirmed, recorded.latest)} :
        /\ recorded.sequence = Len(all)
        /\ recorded.history = LastUpTo(Kept, all)
=============================================================================
