---------------------------- MODULE EventStream ----------------------------
(***************************************************************************)
(* What a client of Transcribe may rely on: the response events of one     *)
(* call in the order they reach the wire (asr_service.proto,               *)
(* TranscribeResponse).  MediaInfo comes first, final segments and         *)
(* keyframes follow in any interleaving, and the stream ends with the      *)
(* trailer.  The Document, when one is emitted, immediately precedes the   *)
(* trailer.  The trailer's counts are the events that were sent.  A call   *)
(* that fails simply stops sending.                                        *)
(***************************************************************************)
EXTENDS Naturals, Sequences, FiniteSets

VARIABLES
    wire       \* the events written so far

Event(kind) == [kind |-> kind]

Trailer(segments, keyframes) ==
    [kind |-> "complete", segments |-> segments, keyframes |-> keyframes]

\* How many events of a kind a stream holds.
Sent(kind) == Cardinality({i \in DOMAIN wire : wire[i].kind = kind})

Ended == wire # <<>> /\ wire[Len(wire)].kind \in {"document", "complete"}

Init == wire = <<>>

SendInfo ==
    /\ wire = <<>>
    /\ wire' = <<Event("info")>>

SendBody ==
    /\ wire # <<>> /\ ~Ended
    /\ \E kind \in {"final", "keyframe"} : wire' = Append(wire, Event(kind))

(* The Document and the trailer leave together; a client that goes away    *)
(* between the two sees the Document alone.                                *)
SendEnd ==
    /\ wire # <<>> /\ ~Ended
    /\ LET trailer == Trailer(Sent("final"), Sent("keyframe"))
       IN  \/ wire' = Append(wire, trailer)
           \/ wire' = wire \o <<Event("document"), trailer>>
           \/ wire' = Append(wire, Event("document"))

Next == SendInfo \/ SendBody \/ SendEnd

Spec == Init /\ [][Next]_wire
=============================================================================
