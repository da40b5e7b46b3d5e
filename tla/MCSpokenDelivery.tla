--------------------------- MODULE MCSpokenDelivery ----------------------------
(* Utterances and a typed command. *)
EXTENDS SpokenDelivery, TLC
CONSTANTS u1, u2, t1
MCRequests == {u1, t1}
MCVoice == {u1}
MCMaxDeliveries == (u1 :> 2) @@ (t1 :> 1)
===============================================================================
