---------------------------- MODULE StateLending -----------------------------
(***************************************************************************)
(* What engine::ModelPool promises its callers, without the queue: a       *)
(* whisper_state is lent to one stream at a time, to a stream that has     *)
(* none, and comes back from the stream that has it.  whisper_full writes  *)
(* through the state it is given, so two borrowers would be a data race.   *)
(***************************************************************************)
CONSTANTS States, Streams, None

VARIABLE lent   \* the state each stream has borrowed, or None

Init == lent = [s \in Streams |-> None]

Lend(s, x) ==
    /\ lent[s] = None
    /\ \A t \in Streams : lent[t] # x
    /\ lent' = [lent EXCEPT ![s] = x]

Return(s) ==
    /\ lent[s] # None
    /\ lent' = [lent EXCEPT ![s] = None]

Next == \E s \in Streams : Return(s) \/ \E x \in States : Lend(s, x)

Spec == Init /\ [][Next]_lent
=============================================================================
