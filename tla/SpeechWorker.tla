---------------------------- MODULE SpeechWorker ----------------------------
(* The server side of SpeechWorkerService.Transcribe (worker.cpp): one handler *)
(* thread per RPC, its read watchdog, the stream counter and the inference     *)
(* slot they share.  The wire of an RPC is what gRPC guarantees: messages of   *)
(* each direction arrive in order, the status after them, and once either side *)
(* cancels, anything still in flight may or may not arrive.                    *)
EXTENDS Integers, Sequences, FiniteSets

CONSTANTS Streams,      \* the Transcribe RPCs that may be made
          MaxStreams,   \* max_streams
          MaxHeld,      \* bound: places taken by RPCs outside the model
          None          \* no RPC, no message, no status yet

VARIABLES wire,         \* wire[s]: messages in flight, cancelled, final status
          hand,         \* hand[s]: the handler: pc, message read, count
          dog,          \* dog[s]: the ReadDeadline thread
          held,         \* places taken by RPCs outside the model, which stay
          streams,      \* streams_
          busy          \* busy_: None or the RPC that holds the inference slot

workerVars == <<wire, hand, dog, held, streams, busy>>

ASSUME WorkerAssumption ==
    /\ MaxStreams \in Nat \ {0} /\ MaxHeld \in 0..MaxStreams
    /\ IsFiniteSet(Streams) /\ None \notin Streams
    /\ None \notin {"OK", "FAILED", "CANCELLED"}

\* A message: its kind and the window number or count it carries.
End == [kind |-> "end", n |-> 0]
Open == [kind |-> "open", n |-> 0]
Window(n) == [kind |-> "window", n |-> n]
Finish(n) == [kind |-> "finish", n |-> n]
Opened == [kind |-> "opened", n |-> 0]
Hypothesis(n) == [kind |-> "hypothesis", n |-> n]
Closed(n) == [kind |-> "closed", n |-> n]

Idle == [pc |-> "none", msg |-> End, count |-> 0]
NoWire == [req |-> << >>, resp |-> << >>, cut |-> FALSE, status |-> None]

WorkerInit ==
    /\ wire = [s \in Streams |-> NoWire]
    /\ hand = [s \in Streams |-> Idle]
    /\ dog = [s \in Streams |-> "none"]
    /\ held \in 0..MaxHeld
    /\ streams = held
    /\ busy = None

\* The handler has run to its end and its status is on the wire.
Ended(s) == wire[s].status # None

-----------------------------------------------------------------------------
(* Admission and release.  fetch_add and the fetch_sub of a refused RPC are    *)
(* two steps: in between the counter is above the limit.                       *)

Admit(s) ==
    /\ hand[s].pc = "start"
    /\ streams' = streams + 1
    /\ hand' = [hand EXCEPT ![s].pc = IF streams >= MaxStreams THEN "refused" ELSE "read"]
    /\ dog' = [dog EXCEPT ![s] = IF streams >= MaxStreams THEN "none" ELSE "armed"]
    /\ UNCHANGED <<wire, busy>>

\* The handler returns: Release, then the status.
Return(s, status) ==
    /\ streams' = streams - 1
    /\ hand' = [hand EXCEPT ![s] = [Idle EXCEPT !.pc = "ended"]]
    /\ wire' = [wire EXCEPT ![s].status = status, ![s].req = << >>]

Refuse(s) ==
    /\ hand[s].pc = "refused"
    /\ Return(s, "FAILED")
    /\ UNCHANGED <<dog, busy>>

-----------------------------------------------------------------------------
(* A read with its deadline.                                                   *)

\* The timeout passes before the read is over, and the thread cancels the RPC
\* holding the lock that ~ReadDeadline needs.
Expires(s) ==
    /\ dog[s] = "armed"
    /\ dog' = [dog EXCEPT ![s] = "fired"]
    /\ UNCHANGED <<wire, hand, held, streams, busy>>

TryCancel(s) ==
    /\ dog[s] = "fired"
    /\ dog' = [dog EXCEPT ![s] = "over"]
    /\ wire' = [wire EXCEPT ![s].cut = TRUE]
    /\ UNCHANGED <<hand, streams, busy>>

\* wire->Read: the next message, or none once the RPC is cancelled.
Read(s) ==
    /\ hand[s].pc = "read"
    /\ \/ /\ wire[s].req # << >>
          /\ hand' = [hand EXCEPT ![s].pc = "join", ![s].msg = Head(wire[s].req)]
          /\ wire' = [wire EXCEPT ![s].req = Tail(@)]
       \/ /\ wire[s].cut
          /\ hand' = [hand EXCEPT ![s].pc = "join", ![s].msg = End]
          /\ UNCHANGED wire
    /\ UNCHANGED <<dog, streams, busy>>

\* Faulty: the destructor does not wait for the thread.
BadJoined(s) == hand[s].pc = "join"

\* ~ReadDeadline: done_, notify, and join, which waits for a TryCancel under way.
Joined(s) == hand[s].pc = "join" /\ dog[s] # "fired"

-----------------------------------------------------------------------------
(* What the handler does with a message, from ~ReadDeadline to its next read,  *)
(* its end, or the inference.                                                  *)

NoDog(s) == dog' = [dog EXCEPT ![s] = IF @ = "fired" THEN @ ELSE "none"]

\* Faulty: only the first read has a deadline.
BadAnswer(s, response, count) ==
    \/ /\ wire' = [wire EXCEPT ![s].resp = Append(@, response)]
       /\ hand' = [hand EXCEPT ![s].pc = "read", ![s].msg = End, ![s].count = count]
       /\ dog' = [dog EXCEPT ![s] = "none"]
       /\ UNCHANGED streams
    \/ wire[s].cut /\ Return(s, "CANCELLED") /\ NoDog(s)

\* wire->Write and the next read; a cancelled RPC may fail the Write.
Answer(s, response, count) ==
    \/ /\ wire' = [wire EXCEPT ![s].resp = Append(@, response)]
       /\ hand' = [hand EXCEPT ![s].pc = "read", ![s].msg = End, ![s].count = count]
       /\ dog' = [dog EXCEPT ![s] = "armed"]
       /\ UNCHANGED streams
    \/ wire[s].cut /\ Return(s, "CANCELLED") /\ NoDog(s)

\* The first message opens the track, if the model takes its options.
OpenTrack(s) ==
    /\ Joined(s) /\ hand[s].msg.kind = "open"
    /\ \/ Answer(s, Opened, 0)
       \/ Return(s, "FAILED") /\ NoDog(s)
    /\ UNCHANGED busy

\* The read failed: input ended without a finish.  (What the handler returns when
\* its first read fails, INVALID_ARGUMENT, no longer reaches the peer of an RPC
\* that was cut off.)
InputEnded(s) ==
    /\ Joined(s) /\ hand[s].msg.kind = "end"
    /\ Return(s, "CANCELLED") /\ NoDog(s)
    /\ UNCHANGED busy

\* A finish that counts the windows right is confirmed.
Close(s) ==
    /\ Joined(s) /\ hand[s].msg.kind = "finish"
    /\ IF hand[s].msg.n # hand[s].count THEN Return(s, "FAILED")
       ELSE \/ /\ streams' = streams - 1
               /\ hand' = [hand EXCEPT ![s].pc = "ended", ![s].msg = End]
               /\ wire' = [wire EXCEPT ![s].resp = Append(@, Closed(hand[s].count)),
                                       ![s].status = "OK", ![s].req = << >>]
            \/ wire[s].cut /\ Return(s, "CANCELLED")
    /\ NoDog(s)
    /\ UNCHANGED busy

\* A window in sequence takes the inference slot, if it is free.
TakeSlot(s) ==
    /\ Joined(s) /\ hand[s].msg.kind = "window"
    /\ IF hand[s].msg.n # hand[s].count + 1 \/ busy # None
       THEN Return(s, "FAILED") /\ UNCHANGED busy
       ELSE /\ busy' = s
            /\ hand' = [hand EXCEPT ![s].pc = "infer"]
            /\ UNCHANGED <<wire, streams>>
    /\ NoDog(s)

\* Faulty: the slot is given back with a hypothesis only.
BadInfer(s) ==
    /\ hand[s].pc = "infer"
    /\ \/ Answer(s, Hypothesis(hand[s].msg.n), hand[s].count + 1) /\ busy' = None
       \/ Return(s, "FAILED") /\ UNCHANGED <<dog, busy>>

\* infer() returns segments, which are sent; or it fails, notices a cancellation,
\* or returns more than a response may hold.  InferenceRelease frees the slot
\* whichever it is.
Infer(s) ==
    /\ hand[s].pc = "infer"
    /\ busy' = None
    /\ \/ Answer(s, Hypothesis(hand[s].msg.n), hand[s].count + 1)
       \/ Return(s, "FAILED") /\ NoDog(s)

\* The steps that need nothing but processor time.
Handler(s) ==
    /\ \/ Admit(s) \/ Refuse(s) \/ TryCancel(s) \/ Read(s)
       \/ OpenTrack(s) \/ InputEnded(s) \/ Close(s) \/ TakeSlot(s) \/ Infer(s)
    /\ UNCHANGED held

-----------------------------------------------------------------------------
(* Properties of the worker, whoever calls it.                                 *)

Admitted == {s \in Streams : hand[s].pc \in {"read", "join", "infer"}}
Refused == {s \in Streams : hand[s].pc = "refused"}

\* streams_ counts the handlers inside Transcribe, never more than MaxStreams of
\* them admitted, and busy_ is set exactly while its holder is inside infer():
\* whatever ends an RPC (refusal, failure, cancellation, deadline, finish), its
\* place and its slot come back.
SlotsComeBack ==
    /\ streams = held + Cardinality(Admitted \cup Refused)
    /\ held + Cardinality(Admitted) <= MaxStreams
    /\ \A s \in Streams : busy = s <=> hand[s].pc = "infer"
    /\ busy \in Streams \cup {None}

\* The watchdog exists only during a read: it is gone before the message that was
\* read is looked at, so no inference or write is cancelled by a deadline that
\* was meant for the read before it.
WatchdogOnlyReads ==
    \A s \in Streams : dog[s] # "none" => hand[s].pc \in {"read", "join"}
=============================================================================
