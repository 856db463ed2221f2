---------------------------- MODULE IngestProofs ----------------------------
(* The speech worker's places, its inference slot and its read watchdogs, and  *)
(* what an ingest call publishes: one terminal event, and OK only for a whole  *)
(* stream.  Proved for any number of calls, tracks, rivals and places.         *)
EXTENDS Ingest, TLAPS

\* What the counting of handlers and events takes from the theory of finite sets.
\* The library that proves it is taken in where the theorems are, at the end.
FiniteCounting ==
    /\ IsFiniteSet({}) /\ Cardinality({}) = 0
    /\ \A S : IsFiniteSet(S) => Cardinality(S) \in Nat /\ (Cardinality(S) = 0 => S = {})
    /\ \A S : IsFiniteSet(S) =>
          \A T \in SUBSET S : IsFiniteSet(T) /\ Cardinality(T) <= Cardinality(S)
    /\ \A S, x : IsFiniteSet(S) /\ x \notin S => Cardinality(S \cup {x}) = Cardinality(S) + 1
    /\ \A S, x : IsFiniteSet(S) /\ x \in S => Cardinality(S \ {x}) = Cardinality(S) - 1
    /\ \A n \in Nat : IsFiniteSet(1..n)

\* The variables are functions over the streams, and their records have the
\* fields that the steps change.
Shape ==
    /\ DOMAIN hand = Streams /\ DOMAIN dog = Streams /\ DOMAIN track = Streams
    /\ \A s \in Streams : "pc" \in DOMAIN hand[s] /\ "state" \in DOMAIN track[s]
    /\ held \in Nat
    /\ FiniteCounting

\* The handlers that streams_ counts.
Inside == Admitted \cup Refused

-----------------------------------------------------------------------------
(* Counting.                                                                   *)

\* The sets of handlers are finite.
LEMMA InsideFinite ==
    ASSUME FiniteCounting
    PROVE  /\ IsFiniteSet(Inside) /\ Cardinality(Inside) \in Nat
           /\ IsFiniteSet(Admitted) /\ Cardinality(Admitted) \in Nat
           /\ Cardinality(Admitted) <= Cardinality(Inside)
<1>1. Inside \in SUBSET Streams /\ Admitted \in SUBSET Streams /\ Admitted \in SUBSET Inside
  BY DEF Inside, Admitted, Refused
<1>2. IsFiniteSet(Streams)
  BY WorkerAssumption
<1>3. IsFiniteSet(Inside) /\ IsFiniteSet(Admitted)
  BY <1>1, <1>2, Zenon DEF FiniteCounting
<1> QED
  BY <1>1, <1>3, Zenon DEF FiniteCounting

\* What changes when one handler moves and its place stays taken: nothing.
LEMMA StaysInside ==
    ASSUME NEW s \in Streams,
           hand[s].pc \in {"read", "join", "infer"}, hand'[s].pc \in {"read", "join", "infer"},
           \A t \in Streams \ {s} : hand'[t] = hand[t]
    PROVE  Inside' = Inside /\ Admitted' = Admitted
BY DEF Inside, Admitted, Refused

\* A handler that returns leaves the places of the others.
LEMMA LeavesInside ==
    ASSUME FiniteCounting, NEW s \in Streams,
           hand[s].pc \in {"read", "join", "infer", "refused"}, hand'[s].pc = "ended",
           \A t \in Streams \ {s} : hand'[t] = hand[t]
    PROVE  /\ Cardinality(Inside') = Cardinality(Inside) - 1
           /\ Cardinality(Admitted') <= Cardinality(Admitted)
           /\ Cardinality(Admitted') \in Nat
<1>1. s \in Inside /\ Inside' = Inside \ {s}
  BY DEF Inside, Admitted, Refused
<1>2. Admitted' \in SUBSET Admitted
  BY DEF Admitted
<1>3. Cardinality(Inside \ {s}) = Cardinality(Inside) - 1
  BY <1>1, InsideFinite, Zenon DEF FiniteCounting
<1>4. IsFiniteSet(Admitted') /\ Cardinality(Admitted') <= Cardinality(Admitted)
  BY <1>2, InsideFinite, Zenon DEF FiniteCounting
<1>5. Cardinality(Admitted') \in Nat
  BY <1>4, Zenon DEF FiniteCounting
<1> QED
  BY <1>1, <1>3, <1>4, <1>5, Zenon

\* A handler that is admitted takes a place of its own; so does one about to be
\* refused, for as long as the counter is above the limit.
LEMMA EntersInside ==
    ASSUME FiniteCounting, NEW s \in Streams,
           hand[s].pc = "start", hand'[s].pc \in {"read", "refused"},
           \A t \in Streams \ {s} : hand'[t] = hand[t]
    PROVE  /\ Cardinality(Inside') = Cardinality(Inside) + 1
           /\ hand'[s].pc = "read" => Cardinality(Admitted') = Cardinality(Admitted) + 1
           /\ hand'[s].pc = "refused" => Admitted' = Admitted
<1>1. s \notin Inside /\ Inside' = Inside \cup {s}
  BY DEF Inside, Admitted, Refused
<1>2. Cardinality(Inside') = Cardinality(Inside) + 1
  BY <1>1, InsideFinite, Zenon DEF FiniteCounting
<1>3. CASE hand'[s].pc = "read"
  <2>1. s \notin Admitted /\ Admitted' = Admitted \cup {s}
    BY <1>3 DEF Admitted
  <2> QED
    BY <1>2, <1>3, <2>1, InsideFinite, Zenon DEF FiniteCounting
<1>4. CASE hand'[s].pc = "refused"
  BY <1>2, <1>4 DEF Admitted
<1> QED
  BY <1>3, <1>4

-----------------------------------------------------------------------------
(* The worker's own steps.  Each moves one handler, which enters Transcribe,   *)
(* stays inside it, or returns.                                                *)

\* What the worker keeps by itself.
Safe == Shape /\ SlotsComeBack /\ WatchdogOnlyReads

LEMMA Counting == ASSUME Safe PROVE FiniteCounting
BY DEF Safe, Shape

\* What a step of handler s leaves alone.
Alone(s) ==
    /\ DOMAIN hand' = Streams /\ "pc" \in DOMAIN hand'[s]
    /\ DOMAIN dog' = Streams
    /\ \A t \in Streams \ {s} : hand'[t] = hand[t] /\ dog'[t] = dog[t]
    /\ UNCHANGED <<held, track>>

\* A handler that returns gives back its place, and the slot if it holds it.
LEMMA Returning ==
    ASSUME Safe, NEW s \in Streams, Alone(s),
           hand[s].pc \in {"read", "join", "infer", "refused"}, hand'[s].pc = "ended",
           streams' = streams - 1, dog'[s] = "none",
           busy' = IF hand[s].pc = "infer" THEN None ELSE busy
    PROVE  Safe'
<1>1. Shape'
  BY DEF Safe, Shape, Alone
<1>2. WatchdogOnlyReads'
  BY DEF Safe, Alone, WatchdogOnlyReads
<1>3. /\ Cardinality(Inside') = Cardinality(Inside) - 1
      /\ Cardinality(Admitted') <= Cardinality(Admitted) /\ Cardinality(Admitted') \in Nat
  BY Counting, LeavesInside DEF Alone
<1>4. /\ streams' = held' + Cardinality(Inside')
      /\ held' + Cardinality(Admitted') <= MaxStreams
  BY <1>3, Counting, InsideFinite, WorkerAssumption DEF Safe, Shape, SlotsComeBack, Inside, Alone
<1>5. (\A t \in Streams : busy' = t <=> hand'[t].pc = "infer") /\ busy' \in Streams \cup {None}
  BY WorkerAssumption DEF Safe, SlotsComeBack, Alone
<1> QED
  BY <1>1, <1>2, <1>4, <1>5 DEF Safe, SlotsComeBack, Inside

\* A handler that goes on keeps its place, and has the slot during infer() only.
LEMMA Staying ==
    ASSUME Safe, NEW s \in Streams, Alone(s),
           hand[s].pc \in {"read", "join", "infer"}, hand'[s].pc \in {"read", "join", "infer"},
           streams' = streams, hand'[s].pc = "infer" => dog'[s] = "none",
           busy' = IF hand'[s].pc = "infer" THEN s ELSE IF hand[s].pc = "infer" THEN None ELSE busy,
           hand'[s].pc = "infer" => busy = None
    PROVE  Safe'
<1>1. Shape'
  BY DEF Safe, Shape, Alone
<1>2. WatchdogOnlyReads'
  BY DEF Safe, Alone, WatchdogOnlyReads
<1>3. Inside' = Inside /\ Admitted' = Admitted
  BY StaysInside DEF Alone
<1>4. (\A t \in Streams : busy' = t <=> hand'[t].pc = "infer") /\ busy' \in Streams \cup {None}
  BY WorkerAssumption DEF Safe, SlotsComeBack, Alone
<1> QED
  BY <1>1, <1>2, <1>3, <1>4, Zenon DEF Safe, SlotsComeBack, Inside, Alone

\* fetch_add: the handler is admitted below the limit, and about to be refused
\* at it.
LEMMA Entering ==
    ASSUME Safe, NEW s \in Streams, Admit(s), UNCHANGED <<held, track>>
    PROVE  Safe'
<1>1. /\ Alone(s) /\ hand[s].pc = "start"
      /\ hand'[s].pc = IF streams >= MaxStreams THEN "refused" ELSE "read"
      /\ dog'[s] = IF streams >= MaxStreams THEN "none" ELSE "armed"
  BY DEF Admit, Safe, Shape, Alone
<1>2. Shape' /\ WatchdogOnlyReads'
  BY <1>1 DEF Safe, Shape, Alone, WatchdogOnlyReads
<1>3. /\ Cardinality(Inside') = Cardinality(Inside) + 1
      /\ hand'[s].pc = "read" => Cardinality(Admitted') = Cardinality(Admitted) + 1
      /\ hand'[s].pc = "refused" => Admitted' = Admitted
  BY <1>1, Counting, EntersInside DEF Alone
<1>4. streams' = streams + 1 /\ busy' = busy
  BY DEF Admit
<1>5. /\ streams' = held' + Cardinality(Inside')
      /\ held' + Cardinality(Admitted') <= MaxStreams
  BY <1>1, <1>3, <1>4, Counting, InsideFinite, WorkerAssumption
     DEF Safe, Shape, SlotsComeBack, Inside, Alone
<1>6. (\A t \in Streams : busy' = t <=> hand'[t].pc = "infer") /\ busy' \in Streams \cup {None}
  BY <1>1, <1>4 DEF Safe, SlotsComeBack, Alone
<1> QED
  BY <1>2, <1>5, <1>6 DEF Safe, SlotsComeBack, Inside

\* Return, for the handlers that have no watchdog any more.
LEMMA ReturnStep ==
    ASSUME Safe, NEW s \in Streams, NEW status, Return(s, status), NoDog(s), dog[s] # "fired",
           UNCHANGED <<held, track>>,
           hand[s].pc \in {"read", "join", "infer", "refused"},
           busy' = IF hand[s].pc = "infer" THEN None ELSE busy
    PROVE  Safe'
<1>1. Alone(s) /\ hand'[s].pc = "ended" /\ dog'[s] = "none" /\ streams' = streams - 1
  BY DEF Return, NoDog, Safe, Shape, Idle, Alone
<1> QED
  BY <1>1, Returning

\* A Write and the next read, or the return of a handler whose Write failed.
LEMMA AnswerStep ==
    ASSUME Safe, NEW s \in Streams, NEW response, NEW count, Answer(s, response, count),
           UNCHANGED <<held, track>>, dog[s] # "fired", hand[s].pc \in {"join", "infer"},
           busy' = IF hand[s].pc = "infer" THEN None ELSE busy
    PROVE  Safe'
<1>1. CASE Return(s, "CANCELLED") /\ NoDog(s)
  BY <1>1, ReturnStep
<1>2. CASE /\ hand' = [hand EXCEPT ![s].pc = "read", ![s].msg = End, ![s].count = count]
           /\ dog' = [dog EXCEPT ![s] = "armed"]
           /\ UNCHANGED streams
  <2>1. Alone(s) /\ hand'[s].pc = "read"
    BY <1>2 DEF Safe, Shape, Alone
  <2> QED
    BY <1>2, <2>1, Staying, Zenon
<1> QED
  BY <1>1, <1>2 DEF Answer

\* Every step of a handler keeps the places, the slot and the watchdogs right.
LEMMA HandlerStep ==
    ASSUME Safe, NEW s \in Streams, Handler(s), UNCHANGED track
    PROVE  Safe'
<1>0. UNCHANGED <<held, track>>
  BY DEF Handler
<1> USE <1>0
<1>1. CASE Admit(s)
  BY <1>1, Entering
<1>2. CASE Refuse(s)
  <2>1. dog[s] = "none"
    BY <1>2 DEF Refuse, Safe, WatchdogOnlyReads
  <2>2. Alone(s) /\ hand'[s].pc = "ended" /\ dog'[s] = "none" /\ streams' = streams - 1
    BY <1>2, <2>1 DEF Refuse, Return, Safe, Shape, Idle, Alone
  <2> QED
    BY <1>2, <2>2, Returning DEF Refuse
<1>3. CASE TryCancel(s)
  <2>1. Shape' /\ WatchdogOnlyReads'
    BY <1>3 DEF TryCancel, Safe, Shape, WatchdogOnlyReads
  <2>2. Admitted' = Admitted /\ Refused' = Refused
    BY <1>3 DEF TryCancel, Admitted, Refused
  <2> QED
    BY <1>3, <2>1, <2>2 DEF TryCancel, Safe, SlotsComeBack
<1>4. CASE Read(s)
  <2>1. Alone(s) /\ hand[s].pc = "read" /\ hand'[s].pc = "join"
    BY <1>4 DEF Read, Safe, Shape, Alone
  <2> QED
    BY <1>4, <2>1, Staying DEF Read
<1>5. CASE OpenTrack(s)
  BY <1>5, AnswerStep, ReturnStep DEF OpenTrack, Joined
<1>6. CASE InputEnded(s)
  BY <1>6, ReturnStep DEF InputEnded, Joined
<1>7. CASE Close(s)
  <2>1. CASE \E status : Return(s, status)
    BY <1>7, <2>1, ReturnStep DEF Close, Joined
  <2>2. CASE streams' = streams - 1 /\ hand' = [hand EXCEPT ![s].pc = "ended", ![s].msg = End]
    <3>1. Alone(s) /\ hand'[s].pc = "ended" /\ dog'[s] = "none"
      BY <1>7, <2>2 DEF Close, Joined, NoDog, Safe, Shape, Alone
    <3> QED
      BY <1>7, <2>2, <3>1, Returning, Zenon DEF Close, Joined
  <2> QED
    BY <1>7, <2>1, <2>2 DEF Close
<1>8. CASE TakeSlot(s)
  <2>1. CASE Return(s, "FAILED") /\ UNCHANGED busy
    BY <1>8, <2>1, ReturnStep DEF TakeSlot, Joined
  <2>2. CASE /\ busy = None /\ busy' = s /\ UNCHANGED streams
             /\ hand' = [hand EXCEPT ![s].pc = "infer"]
    <3>1. Alone(s) /\ hand'[s].pc = "infer" /\ dog'[s] = "none"
      BY <1>8, <2>2 DEF TakeSlot, Joined, NoDog, Safe, Shape, Alone
    <3> QED
      BY <1>8, <2>2, <3>1, Staying DEF TakeSlot, Joined
  <2> QED
    BY <1>8, <2>1, <2>2 DEF TakeSlot
<1>9. CASE Infer(s)
  <2>1. dog[s] = "none" /\ busy = s
    BY <1>9 DEF Infer, Safe, WatchdogOnlyReads, SlotsComeBack
  <2> QED
    BY <1>9, <2>1, AnswerStep, ReturnStep DEF Infer
<1> QED
  BY <1>1, <1>2, <1>3, <1>4, <1>5, <1>6, <1>7, <1>8, <1>9 DEF Handler

-----------------------------------------------------------------------------
(* The calls.  They touch a handler only by dialling it, so it is enough that   *)
(* a call dials a track once.                                                  *)

\* A Track that is not there has no handler, and only such a Track is dialled.
Undialled ==
    /\ DOMAIN call = Calls
    /\ \A c \in Calls :
          /\ {"pc", "task", "tasks"} \subseteq DOMAIN call[c]
          /\ call[c].tasks \in Tasks /\ call[c].task \in 1..call[c].tasks
          /\ call[c].pc = "dial" => track[Current(c)].state = "none"
    /\ \A s \in Streams \ Rivals : track[s].state = "none" => hand[s].pc = "none"

\* The inductive invariant.
IInv == Safe /\ Undialled

LEMMA Counted == ASSUME IInv PROVE FiniteCounting
BY Counting DEF IInv

\* Steps that leave the worker's handlers alone.
LEMMA HandlersAlone ==
    ASSUME Safe, UNCHANGED <<hand, dog, held, streams, busy>>,
           DOMAIN track' = Streams, \A s \in Streams : "state" \in DOMAIN track'[s]
    PROVE  Safe'
<1>1. Shape' /\ WatchdogOnlyReads'
  BY DEF Safe, Shape, WatchdogOnlyReads
<1>2. Admitted' = Admitted /\ Refused' = Refused
  BY DEF Admitted, Refused
<1> QED
  BY <1>1, <1>2 DEF Safe, SlotsComeBack

\* The thread of c goes on, but not to a dial.
CallMoves(c) ==
    /\ DOMAIN call' = Calls
    /\ \A d \in Calls \ {c} : call'[d] = call[d]
    /\ {"pc", "task", "tasks"} \subseteq DOMAIN call'[c]
    /\ call'[c].tasks = call[c].tasks
    /\ call'[c].task \in 1..call[c].tasks
    /\ call'[c].pc # "dial"

\* No Track of c is undone, and no other is touched.
TracksMove(c) ==
    /\ DOMAIN track' = Streams
    /\ \A s \in Streams : "state" \in DOMAIN track'[s]
    /\ \A s \in Streams : track'[s].state # track[s].state =>
          track'[s].state # "none" /\ \E i \in 1..call[c].tasks : s = Track(c, i)

\* A call's step that dials nobody: the thread goes anywhere but to a dial, and
\* its tracks get no younger.
LEMMA CallGoesOn ==
    ASSUME IInv, NEW c \in Calls, UNCHANGED <<hand, dog, held, streams, busy>>,
           CallMoves(c), TracksMove(c)
    PROVE  IInv'
<1> USE DEF CallMoves, TracksMove
<1>1. Safe'
  BY HandlersAlone DEF IInv
<1>2. \A s \in Streams \ Rivals : track'[s].state = "none" => hand'[s].pc = "none"
  BY DEF IInv, Undialled
<1>3. ASSUME NEW d \in Calls, d # c, call'[d].pc = "dial"
      PROVE  track'[Track(d, call'[d].task)].state = "none"
  <2>1. /\ call'[d] = call[d] /\ Track(d, call[d].task) \in Streams
        /\ track[Track(d, call[d].task)].state = "none"
    BY <1>3, IngestAssumption, Zenon DEF IInv, Undialled, Current
  <2>2. \A i \in 1..call[c].tasks : Track(d, call[d].task) # Track(c, i)
    BY <1>3 DEF Track
  <2> QED
    BY <2>1, <2>2
<1>4. ASSUME NEW d \in Calls
      PROVE  /\ {"pc", "task", "tasks"} \subseteq DOMAIN call'[d]
             /\ call'[d].tasks \in Tasks /\ call'[d].task \in 1..call'[d].tasks
  BY DEF IInv, Undialled
<1> QED
  BY <1>1, <1>2, <1>3, <1>4 DEF IInv, Undialled, Current

\* GoTrack dials only a Track that is not there yet.
LEMMA GoesToTrack ==
    ASSUME IInv, NEW c \in Calls, NEW i \in 1..call[c].tasks, GoTrack(c, i),
           UNCHANGED <<workerVars, track>>
    PROVE  IInv'
<1>1. Safe'
  BY HandlersAlone DEF IInv, Safe, Shape, workerVars
<1>2. /\ DOMAIN call' = Calls
      /\ \A d \in Calls \ {c} : call'[d] = call[d]
      /\ {"pc", "task", "tasks"} \subseteq DOMAIN call'[c]
      /\ call'[c].tasks = call[c].tasks /\ call'[c].task = i
      /\ call'[c].pc = "dial" => track[Track(c, i)].state = "none"
  BY DEF IInv, Undialled, GoTrack
<1>3. \A s \in Streams \ Rivals : track'[s].state = "none" => hand'[s].pc = "none"
  BY DEF IInv, Undialled, workerVars
<1> QED
  BY <1>1, <1>2, <1>3 DEF IInv, Undialled, Current

\* A dial starts the handler of a track or of a rival that had none.
LEMMA Starting ==
    ASSUME Safe, NEW s \in Streams, hand[s].pc = "none",
           DOMAIN hand' = Streams, "pc" \in DOMAIN hand'[s], hand'[s].pc = "start",
           \A t \in Streams \ {s} : hand'[t] = hand[t],
           UNCHANGED <<dog, held, streams, busy>>,
           DOMAIN track' = Streams, \A t \in Streams : "state" \in DOMAIN track'[t]
    PROVE  Safe'
<1>1. Shape' /\ WatchdogOnlyReads'
  BY DEF Safe, Shape, WatchdogOnlyReads
<1>2. Admitted' = Admitted /\ Refused' = Refused
  BY DEF Admitted, Refused
<1>3. \A t \in Streams : busy' = t <=> hand'[t].pc = "infer"
  BY DEF Safe, SlotsComeBack
<1> QED
  BY <1>1, <1>2, <1>3 DEF Safe, SlotsComeBack

-----------------------------------------------------------------------------
(* The ways in which the calls' actions move on.                               *)

\* The thread's current task is one of its tasks, and its Track is no rival.
LEMMA CurrentTrack ==
    ASSUME IInv, NEW c \in Calls
    PROVE  Current(c) \in Streams \ Rivals /\ call[c].task \in 1..call[c].tasks
           /\ 1 \in 1..call[c].tasks /\ call[c].tasks \in Nat
<1>1. call[c].tasks \in Tasks /\ call[c].task \in 1..call[c].tasks
  BY DEF IInv, Undialled
<1>2. Track(c, call[c].task) \in Streams \ Rivals
  BY <1>1, IngestAssumption, Zenon
<1>3. call[c].tasks \in Nat \ {0}
  BY <1>1, IngestAssumption
<1> QED
  BY <1>1, <1>2, <1>3 DEF Current

\* Go changes the program counter only.
LEMMA GoMoves ==
    ASSUME IInv, NEW c \in Calls, NEW pc, pc # "dial", Go(c, pc)
    PROVE  CallMoves(c)
BY DEF IInv, Undialled, Go, CallMoves

\* An exception goes to the unwinding of the Pipeline.
LEMMA FailMoves ==
    ASSUME IInv, NEW c \in Calls, NEW status, Fail(c, status)
    PROVE  CallMoves(c)
<1>1. 1 \in 1..call[c].tasks
  BY CurrentTrack
<1>2. /\ DOMAIN Thrown(c, status) = DOMAIN call[c]
      /\ Thrown(c, status).tasks = call[c].tasks
      /\ Thrown(c, status).task = 1 /\ Thrown(c, status).pc = "unwind"
  BY DEF Thrown, IInv, Undialled
<1> QED
  BY <1>1, <1>2 DEF IInv, Undialled, Fail, CallMoves

\* send() goes on, or unwinds when the client is gone.
LEMMA SendMoves ==
    ASSUME IInv, NEW c \in Calls, NEW event, NEW next, Send(c, event, next),
           {"pc", "task", "tasks"} \subseteq DOMAIN next, next.pc # "dial",
           next.task = call[c].task, next.tasks = call[c].tasks
    PROVE  CallMoves(c)
<1>1. 1 \in 1..call[c].tasks /\ call[c].task \in 1..call[c].tasks
  BY CurrentTrack
<1> DEFINE gave == [Thrown(c, "CANCELLED") EXCEPT !.chunks = next.chunks]
<1>2. /\ {"pc", "task", "tasks"} \subseteq DOMAIN gave
      /\ gave.tasks = call[c].tasks /\ gave.task = 1 /\ gave.pc = "unwind"
  BY DEF Thrown, IInv, Undialled
<1>3. call' = [call EXCEPT ![c] = IF gone[c] THEN gave ELSE next]
  BY DEF Send
<1> QED
  BY <1>1, <1>2, <1>3 DEF IInv, Undialled, CallMoves

\* No Track changes.
LEMMA TrackStays ==
    ASSUME IInv, NEW c \in Calls, UNCHANGED track
    PROVE  TracksMove(c)
BY DEF IInv, Safe, Shape, TracksMove

\* The current Track is done.
LEMMA TrackDone ==
    ASSUME IInv, NEW c \in Calls, track' = [track EXCEPT ![Current(c)].state = "done"]
    PROVE  TracksMove(c)
BY CurrentTrack DEF IInv, Safe, Shape, TracksMove, Current

\* The current Track cuts a window or counts a hypothesis.
LEMMA TrackCounts ==
    ASSUME IInv, NEW c \in Calls, NEW n,
           \/ track' = [track EXCEPT ![Current(c)].cut = n]
           \/ track' = [track EXCEPT ![Current(c)].count = n]
    PROVE  TracksMove(c)
BY CurrentTrack DEF IInv, Safe, Shape, TracksMove

\* failed() ends the Track and throws.
LEMMA FailedMoves ==
    ASSUME IInv, NEW c \in Calls, Failed(c, Current(c))
    PROVE  CallMoves(c) /\ TracksMove(c)
BY FailMoves, TrackDone, Zenon DEF Failed

\* The expected response, or failed().
LEMMA ExpectMoves ==
    ASSUME IInv, NEW c \in Calls, NEW kind, NEW next, next # "dial", Expect(c, kind, next)
    PROVE  CallMoves(c) /\ TracksMove(c)
BY FailedMoves, FailMoves, GoMoves, TrackStays DEF Expect

-----------------------------------------------------------------------------
(* One step per action.                                                        *)

\* The client's steps dial nobody.
LEMMA ClientStep ==
    ASSUME IInv, NEW c \in Calls, Client(c)
    PROVE  IInv'
<1>0. {"pc", "task", "tasks"} \subseteq DOMAIN call[c] /\ DOMAIN call = Calls
  BY DEF IInv, Undialled
<1>1. CASE ClientGone(c)
  <2>1. Safe'
    BY <1>1, HandlersAlone DEF ClientGone, IInv, Safe, Shape
  <2> QED
    BY <1>1, <2>1 DEF ClientGone, IInv, Undialled, Current
<1>2. CASE OpenRefused(c)
  <2>1. CallMoves(c)
    BY <1>0, <1>2, CurrentTrack DEF OpenRefused, CallMoves
  <2> QED
    BY <1>2, <2>1, TrackStays, CallGoesOn DEF OpenRefused, workerVars
<1>3. CASE OpenStream(c)
  <2>1. CallMoves(c)
    BY <1>0, <1>3, SendMoves DEF OpenStream
  <2> QED
    BY <1>3, <2>1, TrackStays, CallGoesOn DEF OpenStream, workerVars
<1>4. CASE ReadChunk(c)
  <2> DEFINE next == [call[c] EXCEPT !.chunks = @ + 1,
                                     !.pc = IF call[c].decoding THEN "decode" ELSE "next"]
  <2>1. /\ {"pc", "task", "tasks"} \subseteq DOMAIN next /\ next.pc # "dial"
        /\ next.task = call[c].task /\ next.tasks = call[c].tasks
    BY <1>0
  <2>2. Send(c, Event("source", call[c].chunks + 1), next)
    BY <1>4 DEF ReadChunk
  <2>3. CallMoves(c)
    BY <2>1, <2>2, SendMoves, Zenon
  <2> QED
    BY <1>4, <2>3, TrackStays, CallGoesOn DEF ReadChunk, workerVars
<1>5. CASE ReadFinish(c)
  <2>1. CallMoves(c)
    BY <1>0, <1>5, CurrentTrack DEF ReadFinish, CallMoves
  <2> QED
    BY <1>5, <2>1, TrackStays, CallGoesOn DEF ReadFinish, workerVars
<1>6. CASE ReadBad(c)
  <2>1. CallMoves(c)
    BY <1>6, FailMoves DEF ReadBad
  <2> QED
    BY <1>6, <2>1, TrackStays, CallGoesOn DEF ReadBad, workerVars
<1> QED
  BY <1>1, <1>2, <1>3, <1>4, <1>5, <1>6 DEF Client

\* A dial finds its Track's handler not started, and starts it.
LEMMA DialStep ==
    ASSUME IInv, NEW c \in Calls, Dial(c)
    PROVE  IInv'
<1> DEFINE s == Current(c)
<1>0. s \in Streams \ Rivals /\ hand[s].pc = "none"
  BY CurrentTrack DEF Dial, Now, IInv, Undialled
<1>1. CASE Fail(c, "FAILED") /\ UNCHANGED <<wire, hand, track>>
  <2>1. CallMoves(c)
    BY <1>1, FailMoves
  <2> QED
    BY <1>1, <2>1, TrackStays, CallGoesOn DEF Dial
<1>2. CASE /\ track' = [track EXCEPT ![s].state = "live"]
           /\ hand' = [hand EXCEPT ![s].pc = "start"]
           /\ Go(c, "handshake")
  <2>1. CallMoves(c)
    BY <1>2, GoMoves
  <2>2. /\ DOMAIN hand' = Streams /\ "pc" \in DOMAIN hand'[s] /\ hand'[s].pc = "start"
        /\ \A t \in Streams \ {s} : hand'[t] = hand[t]
        /\ DOMAIN track' = Streams /\ \A t \in Streams : "state" \in DOMAIN track'[t]
        /\ track'[s].state = "live" /\ \A t \in Streams \ {s} : track'[t] = track[t]
    BY <1>0, <1>2 DEF IInv, Safe, Shape
  <2>3. Safe'
    BY <1>0, <2>2, Starting DEF Dial, IInv
  <2>4. \A t \in Streams \ Rivals : track'[t].state = "none" => hand'[t].pc = "none"
    BY <1>0, <2>2 DEF IInv, Undialled
  <2>5. ASSUME NEW d \in Calls, call'[d].pc = "dial"
        PROVE  track'[Track(d, call'[d].task)].state = "none"
    <3>1. d # c /\ call'[d] = call[d]
      BY <2>1, <2>5 DEF CallMoves
    <3>2. Current(d) \in Streams /\ track[Current(d)].state = "none"
      BY <2>5, <3>1, CurrentTrack DEF IInv, Undialled
    <3>3. Current(d) # s
      BY <3>1 DEF Current, Track
    <3> QED
      BY <2>2, <3>1, <3>2, <3>3 DEF Current
  <2> QED
    BY <2>1, <2>3, <2>4, <2>5 DEF IInv, Undialled, CallMoves, Current
<1> QED
  BY <1>1, <1>2 DEF Dial

\* The steps of the RPC thread.
LEMMA ThreadStep ==
    ASSUME IInv, NEW c \in Calls, Thread(c)
    PROVE  IInv'
<1>0. /\ {"pc", "task", "tasks"} \subseteq DOMAIN call[c] /\ DOMAIN call = Calls
      /\ call[c].task \in 1..call[c].tasks /\ 1 \in 1..call[c].tasks /\ call[c].tasks \in Nat
  BY CurrentTrack DEF IInv, Undialled
<1>1. CASE ReadEnds(c)
  <2>1. CallMoves(c)
    BY <1>0, <1>1, FailMoves DEF ReadEnds, CallMoves
  <2> QED
    BY <1>1, <2>1, TrackStays, CallGoesOn DEF ReadEnds, workerVars
<1>2. CASE DecodeMore(c)
  <2>1. CallMoves(c)
    BY <1>0, <1>2 DEF DecodeMore, AfterDecode, CallMoves
  <2> QED
    BY <1>2, <2>1, TrackStays, CallGoesOn DEF DecodeMore, workerVars
<1>3. CASE DecodeFails(c)
  <2>1. CallMoves(c)
    BY <1>3, FailMoves DEF DecodeFails
  <2> QED
    BY <1>3, <2>1, TrackStays, CallGoesOn DEF DecodeFails, workerVars
<1>4. CASE DecodeAudio(c)
  BY <1>0, <1>4, GoesToTrack DEF DecodeAudio
<1>5. CASE Dial(c)
  BY <1>5, DialStep
<1>6. CASE Handshake(c)
  <2>1. CallMoves(c) /\ TracksMove(c)
    BY <1>6, ExpectMoves DEF Handshake
  <2> QED
    BY <1>6, <2>1, CallGoesOn DEF Handshake
<1>7. CASE Cut(c)
  <2>1. CallMoves(c) /\ TracksMove(c)
    BY <1>7, GoMoves, TrackCounts, FailedMoves DEF Cut
  <2> QED
    BY <1>7, <2>1, CallGoesOn DEF Cut
<1>8. CASE Infers(c)
  <2>1. CallMoves(c)
    <3> DEFINE next == [call[c] EXCEPT !.pc = "feed"]
    <3>1. /\ {"pc", "task", "tasks"} \subseteq DOMAIN next /\ next.pc # "dial"
          /\ next.task = call[c].task /\ next.tasks = call[c].tasks
      BY <1>0
    <3>2. Send(c, Event("hypothesis", call[c].task), next) => CallMoves(c)
      BY <3>1, SendMoves
    <3> QED
      BY <1>8, <3>2, FailMoves, FailedMoves DEF Infers
  <2>2. TracksMove(c)
    BY <1>8, TrackCounts, TrackStays, FailedMoves, Zenon DEF Infers
  <2> QED
    BY <1>8, <2>1, <2>2, CallGoesOn DEF Infers
<1>9. CASE Fed(c)
  <2>1. CASE call[c].task < call[c].tasks
    BY <1>0, <1>9, <2>1, GoesToTrack DEF Fed
  <2>2. CASE ~(call[c].task < call[c].tasks)
    <3>1. CallMoves(c)
      BY <1>0, <1>9, <2>2 DEF Fed, CallMoves
    <3> QED
      BY <1>9, <3>1, TrackStays, CallGoesOn DEF Fed, workerVars
  <2> QED
    BY <2>1, <2>2
<1>17. CASE FeedFails(c)
  <2>1. CallMoves(c)
    BY <1>17, FailMoves DEF FeedFails
  <2> QED
    BY <1>17, <2>1, TrackStays, CallGoesOn DEF FeedFails, workerVars
<1>10. CASE FinishSource(c)
  <2>1. CallMoves(c)
    <3>1. CASE Fail(c, "FAILED")
      BY <3>1, FailMoves
    <3>2. CASE call' = [call EXCEPT ![c].pc = "feed", ![c].task = 1, ![c].closing = TRUE,
                                    ![c].decoding = FALSE]
      BY <1>0, <3>2 DEF CallMoves
    <3> QED
      BY <1>10, <3>1, <3>2 DEF FinishSource
  <2> QED
    BY <1>10, <2>1, TrackStays, CallGoesOn DEF FinishSource, workerVars
<1>11. CASE SendFinish(c)
  <2>1. CallMoves(c) /\ TracksMove(c)
    BY <1>11, GoMoves, TrackStays, FailedMoves DEF SendFinish
  <2> QED
    BY <1>11, <2>1, CallGoesOn DEF SendFinish
<1>12. CASE AwaitClosed(c)
  <2>1. CallMoves(c) /\ TracksMove(c)
    BY <1>12, ExpectMoves DEF AwaitClosed
  <2> QED
    BY <1>12, <2>1, CallGoesOn DEF AwaitClosed
<1>13. CASE CheckStatus(c)
  <2>1. CallMoves(c)
    <3>1. CASE \E status : Fail(c, status)
      BY <3>1, FailMoves
    <3>2. CASE call' = [call EXCEPT ![c].pc = IF call[c].task < call[c].tasks THEN "feed" ELSE "judge",
                                    ![c].task = IF @ < call[c].tasks THEN @ + 1 ELSE @]
      BY <1>0, <3>2 DEF CallMoves
    <3> QED
      BY <1>13, <3>1, <3>2 DEF CheckStatus
  <2>2. TracksMove(c)
    BY <1>13, TrackDone, Zenon DEF CheckStatus
  <2> QED
    BY <1>13, <2>1, <2>2, CallGoesOn DEF CheckStatus, workerVars
<1>14. CASE Unwind(c)
  <2>1. CallMoves(c)
    BY <1>14, GoMoves, Zenon DEF Unwind
  <2>2. TracksMove(c)
    BY <1>14, Zenon DEF Unwind, TracksMove, TracksOf, NoTrack, IInv, Safe, Shape
  <2> QED
    BY <1>14, <2>1, <2>2, CallGoesOn, Zenon DEF Unwind
<1>15. CASE Judge(c)
  <2>1. CallMoves(c)
    BY <1>0, <1>15 DEF Judge, CallMoves
  <2> QED
    BY <1>15, <2>1, TrackStays, CallGoesOn DEF Judge, workerVars
<1>16. CASE Terminal(c)
  <2>1. CallMoves(c)
    BY <1>0, <1>16 DEF Terminal, CallMoves
  <2> QED
    BY <1>16, <2>1, TrackStays, CallGoesOn DEF Terminal, workerVars
<1> QED
  BY <1>1, <1>2, <1>3, <1>4, <1>5, <1>6, <1>7, <1>8, <1>9, <1>10, <1>11, <1>12, <1>13,
     <1>14, <1>15, <1>16, <1>17 DEF Thread

\* The worker's steps and the deadlines.
LEMMA WorkerKeeps ==
    ASSUME IInv, WorkerStep
    PROVE  IInv'
<1>0. UNCHANGED <<call, track>>
  BY DEF WorkerStep, callVars
<1>1. ASSUME NEW s \in Streams, Handler(s)
      PROVE  IInv'
  <2>1. Safe'
    BY <1>0, <1>1, HandlerStep DEF IInv
  <2>2. hand' = hand \/ (hand[s].pc # "none" /\ \A t \in Streams \ {s} : hand'[t] = hand[t])
    BY <1>1, Zenon DEF Handler, Admit, Refuse, TryCancel, Read, OpenTrack, InputEnded, Close,
                TakeSlot, Infer, Joined, Answer, Return, IInv, Safe, Shape
  <2> QED
    BY <1>0, <2>1, <2>2 DEF IInv, Undialled, Current
<1>2. ASSUME NEW s \in Streams, Expires(s)
      PROVE  IInv'
  <2>1. Shape' /\ WatchdogOnlyReads'
    BY <1>0, <1>2 DEF Expires, IInv, Safe, Shape, WatchdogOnlyReads
  <2>2. Admitted' = Admitted /\ Refused' = Refused
    BY <1>2 DEF Expires, Admitted, Refused
  <2> QED
    BY <1>0, <1>2, <2>1, <2>2, ZenonT(60) DEF Expires, IInv, Safe, SlotsComeBack, Undialled, Current
<1> QED
  BY <1>1, <1>2 DEF WorkerStep

\* A rival starts a handler of its own.
LEMMA RivalStep ==
    ASSUME IInv, NEW r \in Rivals, RivalDials(r)
    PROVE  IInv'
<1>1. r \in Streams
  BY IngestAssumption
<1>2. /\ DOMAIN hand' = Streams /\ "pc" \in DOMAIN hand'[r] /\ hand'[r].pc = "start"
      /\ \A t \in Streams \ {r} : hand'[t] = hand[t]
      /\ hand[r].pc = "none" /\ UNCHANGED <<dog, held, streams, busy, call, track>>
  BY <1>1 DEF RivalDials, callVars, IInv, Safe, Shape
<1>3. Safe'
  BY <1>1, <1>2, Starting DEF IInv, Safe, Shape
<1> QED
  BY <1>1, <1>2, <1>3 DEF IInv, Undialled, Current

\* Every step of calls, worker and rivals keeps the inductive invariant.
LEMMA NextIInv == IInv /\ [Next]_vars => IInv'
<1> SUFFICES ASSUME IInv, [Next]_vars PROVE IInv'
  OBVIOUS
<1>1. CASE UNCHANGED vars
  <2>1. Safe'
    BY <1>1, HandlersAlone DEF vars, workerVars, callVars, IInv, Safe, Shape
  <2> QED
    BY <1>1, <2>1 DEF vars, workerVars, callVars, IInv, Undialled, Current
<1>2. CASE \E c \in Calls : Client(c) \/ Thread(c)
  BY <1>2, ClientStep, ThreadStep
<1>3. CASE WorkerStep
  BY <1>3, WorkerKeeps
<1>4. CASE \E r \in Rivals : RivalDials(r)
  BY <1>4, RivalStep
<1> QED
  BY <1>1, <1>2, <1>3, <1>4 DEF Next, AllReturned

-----------------------------------------------------------------------------
(* The log of a call and the whole of its speech.  What a call's records, its  *)
(* events, its Tracks and the worker's ends of them have to do with each other *)
(* while it runs.                                                              *)

Statuses == {"OK", "FAILED", "CANCELLED"}
Events == [kind : {"opened", "source", "hypothesis", "closed"}, n : Nat, status : Statuses]
Requests == [kind : {"open", "window", "finish"}, n : Nat]
Responses == [kind : {"opened", "hypothesis", "closed"}, n : Nat]
Callers == [pc : {"open", "next", "decode", "finish", "dial", "handshake", "feed", "answer",
                  "closed", "status", "unwind", "judge", "terminal", "returned"},
            status : Statuses, chunks : 0..MaxChunks, tasks : Tasks, task : Nat,
            decoding : BOOLEAN, finish : BOOLEAN, closing : BOOLEAN]
Wires == [req : Seq(Requests), resp : Seq(Responses), cut : BOOLEAN, status : Statuses \cup {None}]
Handlers == [pc : {"none", "start", "refused", "read", "join", "infer", "ended"}, msg : Requests \cup {End}, count : Nat]
TrackRecords == [state : {"none", "live", "done"}, cut : 0..MaxWindows, count : Nat]

\* Every variable has its type.
Types ==
    /\ call \in [Calls -> Callers] /\ gone \in [Calls -> BOOLEAN] /\ log \in [Calls -> Seq(Events)]
    /\ wire \in [Streams -> Wires] /\ hand \in [Streams -> Handlers]
    /\ track \in [Streams -> TrackRecords]
    /\ dog \in [Streams -> {"none", "armed", "fired", "over"}]

\* The elements of a sequence, and how many of its places hold one of a set.
Elems(q) == {q[k] : k \in DOMAIN q}
Tally(q, S) == Cardinality({k \in DOMAIN q : q[k] \in S})
OfKind(kind) == {e \in Events : e.kind = kind}

\* The log l of a call r: opened first, a source event per chunk, and the terminal
\* event, once, when the call is at its end.
Ledger(r, away, l) ==
    /\ r.pc = "open" => l = << >>
    /\ l = << >> => r.pc = "open" \/ (r.pc = "returned" /\ r.status # "OK")
    /\ l # << >> => l[1].kind = "opened"
    /\ Tally(l, OfKind("source")) = r.chunks
    /\ Tally(l, OfKind("closed")) = IF r.pc \in {"terminal", "returned"} /\ l # << >> THEN 1 ELSE 0
    /\ r.pc \in {"terminal", "returned"} /\ l # << >> =>
          /\ l[Len(l)].kind = "closed" /\ l[Len(l)].n = r.chunks
          /\ l[Len(l)].status = "OK" => r.closing
          /\ r.status = l[Len(l)].status \/ (away /\ r.status = "CANCELLED")

\* Where a call may be: it ends with OK only through the closing of every Track.
AtEnd(r) == r.pc \in {"judge", "terminal", "returned"}
Progress(r) ==
    /\ r.status = "OK" /\ AtEnd(r) => r.closing
    /\ r.pc = "unwind" => r.status # "OK" /\ ~r.closing
    /\ r.status # "OK" => AtEnd(r) \/ r.pc = "unwind"
    /\ r.closing \/ r.pc = "finish" => r.finish
    /\ r.closing => AtEnd(r) \/ r.pc \in {"feed", "answer", "closed", "status"}
    /\ r.pc \in {"closed", "status"} => r.closing
    /\ r.closing /\ AtEnd(r) => r.task = r.tasks

\* No exception was thrown; the finish of Track i was sent; its RPC ended OK.
Good(r) == r.status = "OK" \/ r.closing
Sent(r, i) == r.closing /\ (i < r.task \/ (i = r.task /\ (AtEnd(r) \/ r.pc \in {"closed", "status"})))
Over(r, i) == r.closing /\ (i < r.task \/ (i = r.task /\ AtEnd(r)))

\* Track i of a call r that goes well: t, its RPC w, its handler h and the log l
\* agree on the windows, and the finish says how many there were.
Whole(r, i, t, w, h, l) ==
    Good(r) =>
        /\ Tally(l, {Event("hypothesis", i)}) = t.count
        /\ t.cut = IF r.pc = "answer" /\ r.task = i THEN t.count + 1 ELSE t.count
        /\ \A m \in Elems(w.req) \cup {h.msg} : m.kind = "finish" => m.n = t.count /\ Sent(r, i)
        /\ w.status = "OK" => h.count = t.count /\ Sent(r, i)
        /\ Over(r, i) => w.status = "OK"

\* The two ends of every RPC, and every Track's count.
Ends ==
    \A s \in Streams : /\ Ended(s) <=> hand[s].pc = "ended"
                       /\ track[s].count <= track[s].cut

\* A window that is not answered is not counted.
Answering(c) == Now(c, "answer") => track[Current(c)].count < track[Current(c)].cut

CallInv(c) ==
    /\ Ledger(call[c], gone[c], log[c]) /\ Progress(call[c]) /\ Answering(c)
    /\ \A i \in 1..call[c].tasks :
          Whole(call[c], i, track[Track(c, i)], wire[Track(c, i)], hand[Track(c, i)], log[c])

JInv == Types /\ Ends /\ \A c \in Calls : CallInv(c)

-----------------------------------------------------------------------------
(* Sequences.                                                                  *)

\* The elements of a sequence as messages are written and read.
LEMMA ElemsOf ==
    ASSUME NEW S, NEW q \in Seq(S)
    PROVE  /\ \A e \in S : Append(q, e) \in Seq(S) /\ Elems(Append(q, e)) = Elems(q) \cup {e}
           /\ q # << >> => /\ Head(q) \in Elems(q) /\ Head(q) \in S
                           /\ Tail(q) \in Seq(S) /\ Elems(Tail(q)) \subseteq Elems(q)
<1>1. ASSUME NEW e \in S
      PROVE  Append(q, e) \in Seq(S) /\ Elems(Append(q, e)) = Elems(q) \cup {e}
  <2>1. /\ Append(q, e) \in Seq(S) /\ DOMAIN Append(q, e) = 1..(Len(q) + 1)
        /\ DOMAIN q = 1..Len(q) /\ Len(q) \in Nat
        /\ \A k \in 1..Len(q) : Append(q, e)[k] = q[k]
        /\ Append(q, e)[Len(q) + 1] = e
    OBVIOUS
  <2>2. 1..(Len(q) + 1) = 1..Len(q) \cup {Len(q) + 1}
    BY <2>1
  <2> QED
    BY <2>1, <2>2 DEF Elems
<1>2. ASSUME q # << >>
      PROVE  /\ Head(q) \in Elems(q) /\ Head(q) \in S
             /\ Tail(q) \in Seq(S) /\ Elems(Tail(q)) \subseteq Elems(q)
  <2>1. /\ Len(q) \in Nat \ {0} /\ DOMAIN q = 1..Len(q) /\ Head(q) = q[1] /\ q[1] \in S
        /\ Tail(q) \in Seq(S) /\ DOMAIN Tail(q) = 1..(Len(q) - 1)
        /\ \A k \in 1..(Len(q) - 1) : Tail(q)[k] = q[k + 1]
    BY <1>2
  <2>2. 1 \in 1..Len(q) /\ \A k \in 1..(Len(q) - 1) : k + 1 \in 1..Len(q)
    BY <2>1
  <2> QED
    BY <2>1, <2>2 DEF Elems
<1> QED
  BY <1>1, <1>2

\* A written event counts once, in the sets it belongs to.
LEMMA TallyAppend ==
    ASSUME FiniteCounting, NEW S, NEW q \in Seq(S), NEW e \in S, NEW M
    PROVE  /\ Tally(q, M) \in Nat
           /\ Tally(Append(q, e), M) = Tally(q, M) + IF e \in M THEN 1 ELSE 0
<1> DEFINE K == {k \in DOMAIN q : q[k] \in M}
           A == {k \in DOMAIN Append(q, e) : Append(q, e)[k] \in M}
<1>1. /\ DOMAIN Append(q, e) = 1..(Len(q) + 1)
      /\ DOMAIN q = 1..Len(q) /\ Len(q) \in Nat
      /\ \A k \in 1..Len(q) : Append(q, e)[k] = q[k]
      /\ Append(q, e)[Len(q) + 1] = e
  OBVIOUS
<1>2. 1..(Len(q) + 1) = 1..Len(q) \cup {Len(q) + 1} /\ Len(q) + 1 \notin 1..Len(q)
  BY <1>1
<1>3. IsFiniteSet(K) /\ Cardinality(K) \in Nat
  <2>1. IsFiniteSet(1..Len(q)) /\ K \in SUBSET (1..Len(q))
    BY <1>1, Zenon DEF FiniteCounting
  <2> HIDE DEF K
  <2> QED
    BY <2>1, Zenon DEF FiniteCounting
<1>4. Len(q) + 1 \notin K /\ A = IF e \in M THEN K \cup {Len(q) + 1} ELSE K
  BY <1>1, <1>2
<1> HIDE DEF K, A
<1>5. Cardinality(A) = Cardinality(K) + IF e \in M THEN 1 ELSE 0
  <2>1. CASE e \in M
    BY <1>3, <1>4, <2>1, Zenon DEF FiniteCounting
  <2>2. CASE e \notin M
    <3>1. A = K
      BY <1>4, <2>2
    <3> QED
      BY <1>3, <2>2, <3>1
  <2> QED
    BY <2>1, <2>2
<1> QED
  BY <1>3, <1>5, Zenon DEF Tally, K, A

\* Nothing is in an empty log.
LEMMA TallyEmpty == ASSUME FiniteCounting, NEW M PROVE Tally(<< >>, M) = 0
<1>1. {k \in DOMAIN << >> : << >>[k] \in M} = {}
  OBVIOUS
<1> QED
  BY <1>1, Zenon DEF Tally, FiniteCounting

-----------------------------------------------------------------------------
(* The first states, and what the invariant says of the last.                  *)

\* At the start nobody is inside the worker.
LEMMA InitIInv == ASSUME FiniteCounting, Init PROVE IInv
<1>1. Shape
  BY WorkerAssumption DEF Init, WorkerInit, Shape, Idle, NoTrack
<1>2. Admitted \cup Refused = {} /\ Admitted = {}
  BY DEF Init, WorkerInit, Idle, Admitted, Refused
<1>3. SlotsComeBack
  <2>1. Cardinality(Admitted \cup Refused) = 0 /\ Cardinality(Admitted) = 0
    BY <1>2, Zenon DEF FiniteCounting
  <2>2. held \in Nat /\ held <= MaxStreams /\ streams = held
    BY WorkerAssumption DEF Init, WorkerInit
  <2>3. busy = None /\ \A s \in Streams : hand[s].pc = "none"
    BY DEF Init, WorkerInit, Idle
  <2> QED
    BY <2>1, <2>2, <2>3, WorkerAssumption DEF SlotsComeBack
<1>4. WatchdogOnlyReads
  BY DEF Init, WorkerInit, WatchdogOnlyReads
<1>5. Undialled
  <2>1. ASSUME NEW c \in Calls
        PROVE  /\ {"pc", "task", "tasks"} \subseteq DOMAIN call[c]
               /\ call[c].tasks \in Tasks /\ call[c].task = 1 /\ call[c].pc = "open"
    <3>1. call[c] \in [pc : {"open"}, status : {"OK"}, chunks : {0}, tasks : Tasks, task : {1},
                       decoding : {TRUE}, finish : {FALSE}, closing : {FALSE}]
      BY Zenon DEF Init
    <3> QED
      BY <3>1, Zenon
  <2>2. \A n \in Tasks : 1 \in 1..n
    BY IngestAssumption
  <2>3. DOMAIN call = Calls
    BY DEF Init
  <2>4. \A s \in Streams : hand[s].pc = "none"
    BY DEF Init, WorkerInit, Idle
  <2> QED
    BY <2>1, <2>2, <2>3, <2>4 DEF Undialled
<1> QED
  BY <1>1, <1>3, <1>4, <1>5 DEF IInv, Safe

\* Before the first message nothing is published, asked or cut.
LEMMA InitJInv == ASSUME FiniteCounting, Init PROVE JInv
<1>0. NoTrack \in TrackRecords /\ NoTrack.count = 0 /\ NoTrack.cut = 0
      /\ NoWire \in Wires /\ NoWire.status = None /\ Elems(NoWire.req) = {}
      /\ Idle \in Handlers /\ Idle.pc = "none" /\ Idle.msg.kind = "end"
  BY IngestAssumption DEF NoTrack, TrackRecords, NoWire, Wires, Idle, Handlers, Elems, End
<1>1. ASSUME NEW c \in Calls
      PROVE  /\ call[c] \in Callers /\ call[c].pc = "open" /\ call[c].status = "OK"
             /\ call[c].chunks = 0 /\ ~call[c].closing
  <2>1. call[c] \in [pc : {"open"}, status : {"OK"}, chunks : {0}, tasks : Tasks, task : {1},
                     decoding : {TRUE}, finish : {FALSE}, closing : {FALSE}]
    BY Zenon DEF Init
  <2>2. /\ call[c].pc = "open" /\ call[c].status = "OK" /\ call[c].chunks = 0 /\ ~call[c].closing
    BY <2>1, Zenon
  <2>3. 0 \in 0..MaxChunks /\ 1 \in Nat
    BY IngestAssumption
  <2>4. call[c] \in Callers
    BY <2>1, <2>3, Zenon DEF Callers, Statuses
  <2> QED
    BY <2>2, <2>4
<1>2. /\ wire = [s \in Streams |-> NoWire] /\ hand = [s \in Streams |-> Idle]
      /\ dog = [s \in Streams |-> "none"] /\ track = [s \in Streams |-> NoTrack]
      /\ log = [c \in Calls |-> << >>] /\ gone = [c \in Calls |-> FALSE] /\ DOMAIN call = Calls
  BY DEF Init, WorkerInit
<1>3. call \in [Calls -> Callers]
  BY <1>1 DEF Init
<1>4. Types
  BY <1>0, <1>2, <1>3 DEF Types
<1>5. Ends
  BY <1>0, <1>2 DEF Ends, Ended
<1>6. ASSUME NEW c \in Calls
      PROVE  CallInv(c)
  <2>1. log[c] = << >>
    BY <1>2
  <2>2. Ledger(call[c], gone[c], log[c])
    BY <1>1, <2>1, TallyEmpty DEF Ledger
  <2>3. Progress(call[c]) /\ Answering(c)
    BY <1>1, Zenon DEF Progress, AtEnd, Answering, Now
  <2>4. ASSUME NEW i \in 1..call[c].tasks
        PROVE  Whole(call[c], i, track[Track(c, i)], wire[Track(c, i)], hand[Track(c, i)], log[c])
    <3>1. Track(c, i) \in Streams
      BY InitIInv, IngestAssumption, Zenon DEF IInv, Undialled
    <3>2. /\ track[Track(c, i)] = NoTrack /\ wire[Track(c, i)] = NoWire /\ hand[Track(c, i)] = Idle
      BY <1>2, <3>1
    <3>3. None # "OK"
      BY WorkerAssumption
    <3> QED
      BY <1>0, <1>1, <2>1, <3>2, <3>3, TallyEmpty, Zenon DEF Whole, Over
  <2> QED
    BY <2>2, <2>3, <2>4, Zenon DEF CallInv
<1> QED
  BY <1>4, <1>5, <1>6 DEF JInv

\* A call that returned has one terminal event.
LEMMA TerminalFollows == ASSUME IInv, JInv PROVE OneTerminalEvent
<1>1. TypeOK
  <2>1. ASSUME NEW s \in Streams
        PROVE  /\ wire[s].req \in Seq([kind : {"open", "window", "finish"}, n : Nat])
               /\ wire[s].resp \in Seq([kind : {"opened", "hypothesis", "closed"}, n : Nat])
               /\ dog[s] \in {"none", "armed", "fired", "over"}
               /\ track[s].cut \in 0..MaxWindows /\ track[s].count \in 0..track[s].cut
    <3>1. /\ wire[s] \in Wires /\ track[s] \in TrackRecords /\ track[s].count <= track[s].cut
          /\ dog[s] \in {"none", "armed", "fired", "over"}
      BY DEF JInv, Types, Ends
    <3>2. track[s].cut \in 0..MaxWindows /\ track[s].count \in 0..track[s].cut
      BY <3>1, IngestAssumption DEF TrackRecords
    <3> QED
      BY <3>1, <3>2 DEF Wires, Requests, Responses
  <2>2. streams \in Nat
    BY Counted, InsideFinite DEF IInv, Safe, Shape, SlotsComeBack, Inside
  <2>3. \A c \in Calls : call[c].task \in 1..call[c].tasks /\ call[c].chunks \in 0..MaxChunks
    BY Zenon DEF IInv, Undialled, JInv, Types, Callers
  <2> QED
    BY <2>1, <2>2, <2>3 DEF TypeOK
<1>2. ASSUME NEW c \in Calls, Now(c, "returned"), log[c] # << >>
      PROVE  /\ Head(log[c]).kind = "opened"
             /\ Count(c, "closed") = 1 /\ Newest(c).kind = "closed"
             /\ Newest(c).n = Count(c, "source")
             /\ call[c].status = Newest(c).status \/ (gone[c] /\ call[c].status = "CANCELLED")
  <2>1. Ledger(call[c], gone[c], log[c]) /\ log[c] \in Seq(Events)
    BY DEF JInv, Types, CallInv
  <2>2. ASSUME NEW kind
        PROVE  Tally(log[c], OfKind(kind)) = Count(c, kind)
    <3>1. \A k \in DOMAIN log[c] : log[c][k] \in OfKind(kind) <=> log[c][k].kind = kind
      BY <2>1 DEF OfKind
    <3>2. {k \in DOMAIN log[c] : log[c][k] \in OfKind(kind)} = {k \in DOMAIN log[c] : log[c][k].kind = kind}
      BY <3>1
    <3> QED
      BY <3>2 DEF Tally, Count
  <2>3. Head(log[c]) = log[c][1]
    BY <1>2, <2>1
  <2> QED
    BY <1>2, <2>1, <2>2, <2>3, Zenon DEF Ledger, Newest, Now
<1>3. ASSUME NEW c \in Calls, Now(c, "returned"), log[c] = << >>
      PROVE  call[c].status # "OK"
  BY <1>3, Zenon DEF JInv, CallInv, Ledger, Now
<1> QED
  BY <1>1, <1>2, <1>3, ZenonT(60) DEF OneTerminalEvent

\* A call that closed its stream with OK has it whole.
LEMMA WholeFollows == ASSUME IInv, JInv PROVE OkMeansWhole
<1> SUFFICES ASSUME NEW c \in Calls, log[c] # << >>,
                    Newest(c) = Event("closed", call[c].chunks)
             PROVE  /\ call[c].finish
                    /\ \A i \in 1..call[c].tasks :
                          LET s == Track(c, i) IN
                          /\ wire[s].status = "OK"
                          /\ track[s].cut = hand[s].count
                          /\ track[s].cut = Cardinality({k \in DOMAIN log[c] : log[c][k] = Event("hypothesis", i)})
  BY Zenon DEF OkMeansWhole
<1>1. /\ Ledger(call[c], gone[c], log[c]) /\ log[c] \in Seq(Events) /\ Progress(call[c])
      /\ call[c] \in Callers
  BY DEF JInv, Types, CallInv
<1>2. Newest(c).kind = "closed" /\ Newest(c).status = "OK"
  <2>1. Newest(c) = [kind |-> "closed", n |-> call[c].chunks, status |-> "OK"]
    BY Zenon DEF Event
  <2> QED
    BY <2>1
<1>3. call[c].pc \in {"terminal", "returned"}
  <2>1. Len(log[c]) \in DOMAIN log[c] /\ Newest(c) \in OfKind("closed")
    BY <1>1, <1>2 DEF Newest, OfKind
  <2>2. {k \in DOMAIN log[c] : log[c][k] \in OfKind("closed")} # {}
    BY <2>1 DEF Newest
  <2>3. IsFiniteSet({k \in DOMAIN log[c] : log[c][k] \in OfKind("closed")})
    <3>1. DOMAIN log[c] = 1..Len(log[c]) /\ Len(log[c]) \in Nat
      BY <1>1
    <3>2. IsFiniteSet(1..Len(log[c]))
      BY <3>1, Counted, Zenon DEF FiniteCounting
    <3>3. {k \in DOMAIN log[c] : log[c][k] \in OfKind("closed")} \in SUBSET (1..Len(log[c]))
      BY <3>1, Zenon
    <3> QED
      BY <3>2, <3>3, Counted, Zenon DEF FiniteCounting
  <2>4. Tally(log[c], OfKind("closed")) # 0
    BY <2>2, <2>3, Counted, Zenon DEF Tally, FiniteCounting
  <2> QED
    BY <1>1, <2>4, Zenon DEF Ledger
<1>4. call[c].closing /\ AtEnd(call[c])
  BY <1>1, <1>2, <1>3, Zenon DEF Ledger, Newest, AtEnd
<1>5. call[c].finish /\ call[c].task = call[c].tasks
  BY <1>1, <1>4, Zenon DEF Progress
<1>6. ASSUME NEW i \in 1..call[c].tasks
      PROVE  LET s == Track(c, i) IN
             /\ wire[s].status = "OK"
             /\ track[s].cut = hand[s].count
             /\ track[s].cut = Cardinality({k \in DOMAIN log[c] : log[c][k] = Event("hypothesis", i)})
  <2>1. Whole(call[c], i, track[Track(c, i)], wire[Track(c, i)], hand[Track(c, i)], log[c])
    BY Zenon DEF JInv, CallInv
  <2>2. Good(call[c]) /\ Over(call[c], i) /\ call[c].pc # "answer"
    <3>1. i < call[c].tasks \/ i = call[c].tasks
      BY CurrentTrack
    <3> QED
      BY <1>3, <1>4, <1>5, <3>1 DEF Good, Over
  <2>3. {k \in DOMAIN log[c] : log[c][k] \in {Event("hypothesis", i)}}
           = {k \in DOMAIN log[c] : log[c][k] = Event("hypothesis", i)}
    OBVIOUS
  <2> QED
    BY <2>1, <2>2, <2>3, Zenon DEF Whole, Tally
<1> QED
  BY <1>5, <1>6, Zenon

-----------------------------------------------------------------------------
(* The log.                                                                    *)

\* A call that goes on without an event.
LEMMA LedgerStays ==
    ASSUME NEW r \in Callers, NEW q \in Callers, NEW away, NEW l \in Seq(Events),
           Ledger(r, away, l), q.chunks = r.chunks,
           r.pc \notin {"open", "terminal", "returned"}, q.pc \notin {"open", "terminal", "returned"}
    PROVE  Ledger(q, away, l)
BY DEF Ledger

\* An event that is neither the first nor the last.
LEMMA LedgerGrows ==
    ASSUME FiniteCounting, NEW r \in Callers, NEW q \in Callers, NEW away, NEW l \in Seq(Events), NEW e \in Events,
           Ledger(r, away, l), e.kind # "closed", r.pc = "open" => e.kind = "opened",
           q.chunks = r.chunks + IF e.kind = "source" THEN 1 ELSE 0,
           r.pc \notin {"terminal", "returned"}, q.pc \notin {"open", "terminal", "returned"}
    PROVE  Ledger(q, away, Append(l, e))
<1>1. /\ Append(l, e) # << >>
      /\ l # << >> => Append(l, e)[1] = l[1]
      /\ l = << >> => Append(l, e)[1] = e
  <2>1. /\ Len(l) \in Nat /\ Len(Append(l, e)) = Len(l) + 1 /\ Append(l, e)[Len(l) + 1] = e
        /\ \A k \in 1..Len(l) : Append(l, e)[k] = l[k]
        /\ l = << >> <=> Len(l) = 0
    OBVIOUS
  <2>2. l # << >> => 1 \in 1..Len(l)
    BY <2>1
  <2>3. Append(l, e) # << >>
    <3>1. Len(Append(l, e)) # 0 /\ Len(<< >>) = 0
      BY <2>1
    <3> QED
      BY <3>1
  <2> QED
    BY <2>1, <2>2, <2>3
<1>2. Append(l, e)[1].kind = "opened"
  BY <1>1 DEF Ledger
<1>3. Tally(l, OfKind("source")) = r.chunks /\ Tally(l, OfKind("closed")) = 0
  BY DEF Ledger
<1>4. /\ e \in OfKind("source") <=> e.kind = "source"
      /\ e \notin OfKind("closed")
  BY DEF OfKind
<1>t. ASSUME NEW M
      PROVE  Tally(Append(l, e), M) = Tally(l, M) + IF e \in M THEN 1 ELSE 0
  BY TallyAppend
<1>5. Tally(Append(l, e), OfKind("source")) = q.chunks
  BY <1>t, <1>3, <1>4
<1>6. Tally(Append(l, e), OfKind("closed")) = 0
  <2>1. Tally(Append(l, e), OfKind("closed")) = 0 + 0
    BY <1>t, <1>3, <1>4
  <2> QED
    BY <2>1
<1> QED
  BY <1>1, <1>2, <1>5, <1>6 DEF Ledger

\* The terminal event.
LEMMA LedgerCloses ==
    ASSUME FiniteCounting, NEW r \in Callers, NEW q \in Callers, NEW away, NEW l \in Seq(Events), NEW e \in Events,
           Ledger(r, away, l), e.kind = "closed", e.n = r.chunks, e.status = q.status,
           r.pc = "judge", q.pc = "terminal", q.chunks = r.chunks, q.status = "OK" => q.closing
    PROVE  Ledger(q, away, Append(l, e))
<1>1. l # << >> /\ l[1].kind = "opened"
  BY DEF Ledger
<1>2. /\ Append(l, e) # << >> /\ Append(l, e)[1] = l[1]
      /\ Append(l, e)[Len(Append(l, e))] = e
  BY <1>1
<1>3. Tally(l, OfKind("source")) = r.chunks /\ Tally(l, OfKind("closed")) = 0
  BY DEF Ledger
<1>4. e \notin OfKind("source") /\ e \in OfKind("closed")
  BY DEF OfKind
<1>5. /\ Tally(Append(l, e), OfKind("source")) = r.chunks
      /\ Tally(Append(l, e), OfKind("closed")) = 1
  <2>1. /\ Tally(Append(l, e), OfKind("source")) = r.chunks + 0
        /\ Tally(Append(l, e), OfKind("closed")) = 0 + 1
    <3>1. ASSUME NEW M
          PROVE  Tally(Append(l, e), M) = Tally(l, M) + IF e \in M THEN 1 ELSE 0
      BY TallyAppend
    <3> QED
      BY <1>3, <1>4, <3>1
  <2>2. r.chunks \in Int
    BY IngestAssumption DEF Callers
  <2> QED
    BY <2>1, <2>2
<1> QED
  BY <1>1, <1>2, <1>5 DEF Ledger

-----------------------------------------------------------------------------
(* A Track.                                                                    *)

\* The call goes on, and Track i stays as it is.
LEMMA WholeStays ==
    ASSUME NEW r, NEW q, NEW i, NEW t, NEW w, NEW h, NEW l, Whole(r, i, t, w, h, l),
           Good(q) => Good(r), Sent(r, i) => Sent(q, i), Over(q, i) => Over(r, i) \/ w.status = "OK",
           (q.pc = "answer" /\ q.task = i) <=> (r.pc = "answer" /\ r.task = i)
    PROVE  Whole(q, i, t, w, h, l)
BY DEF Whole

\* An event that is no hypothesis of Track i.
LEMMA WholeLogs ==
    ASSUME FiniteCounting, NEW r, NEW i, NEW t, NEW w, NEW h, NEW l \in Seq(Events), NEW e \in Events,
           Whole(r, i, t, w, h, l), e # Event("hypothesis", i)
    PROVE  Whole(r, i, t, w, h, Append(l, e))
<1>1. Tally(Append(l, e), {Event("hypothesis", i)}) = Tally(l, {Event("hypothesis", i)})
  <2>1. /\ Tally(l, {Event("hypothesis", i)}) \in Nat
        /\ Tally(Append(l, e), {Event("hypothesis", i)}) = Tally(l, {Event("hypothesis", i)}) + 0
    BY TallyAppend
  <2> QED
    BY <2>1
<1> QED
  BY <1>1 DEF Whole

-----------------------------------------------------------------------------
(* The frame of a call's step.                                                 *)

\* The thread of c goes on as q, with the log l.
Moves(c, q, l) ==
    /\ q \in Callers /\ q.tasks = call[c].tasks /\ call' = [call EXCEPT ![c] = q]
    /\ l \in Seq(Events) /\ log' = [log EXCEPT ![c] = l]
    /\ gone' = gone

\* It touches no other call's Tracks, ends no RPC, and keeps the types.
Local(c) ==
    /\ track' \in [Streams -> TrackRecords] /\ wire' \in [Streams -> Wires]
    /\ hand' \in [Streams -> Handlers] /\ dog' = dog
    /\ \A s \in Streams : /\ wire'[s].status = wire[s].status
                          /\ hand'[s].pc = "ended" <=> hand[s].pc = "ended"
                          /\ track'[s].count <= track'[s].cut
    /\ \A s \in Streams \ TracksOf(c) : track'[s] = track[s] /\ wire'[s] = wire[s] /\ hand'[s] = hand[s]

\* What is left to show of a step of c.
LEMMA OnlyCall ==
    ASSUME IInv, JInv, NEW c \in Calls, NEW q, NEW l, Moves(c, q, l), Local(c),
           Ledger(q, gone[c], l), Progress(q),
           q.pc = "answer" => track'[Track(c, q.task)].count < track'[Track(c, q.task)].cut,
           \A i \in 1..call[c].tasks :
              Whole(q, i, track'[Track(c, i)], wire'[Track(c, i)], hand'[Track(c, i)], l)
    PROVE  JInv'
<1>1. /\ call'[c] = q /\ log'[c] = l /\ gone' = gone
      /\ \A d \in Calls \ {c} : call'[d] = call[d] /\ log'[d] = log[d]
      /\ call' \in [Calls -> Callers] /\ log' \in [Calls -> Seq(Events)]
  BY ZenonT(60) DEF Moves, JInv, Types
<1>2. Types'
  BY <1>1 DEF Local, JInv, Types
<1>3. Ends'
  BY Zenon DEF Local, JInv, Ends, Ended
<1>4. CallInv(c)'
  <2>1. call[c].tasks = q.tasks
    BY ZenonT(60) DEF Moves
  <2> QED
    BY <1>1, <2>1, Zenon DEF CallInv, Answering, Now, Current
<1>5. ASSUME NEW d \in Calls \ {c}
      PROVE  CallInv(d)'
  <2>1. \A i \in 1..call[d].tasks : Track(d, i) \in Streams \ TracksOf(c)
    <3>1. \A i \in 1..call[d].tasks : Track(d, i) \in Streams
      BY IngestAssumption, Zenon DEF IInv, Undialled
    <3>2. \A i \in 1..call[d].tasks : Track(d, i) \notin TracksOf(c)
      BY Zenon DEF TracksOf, Track
    <3> QED
      BY <3>1, <3>2, Zenon
  <2>2. \A i \in 1..call[d].tasks : /\ track'[Track(d, i)] = track[Track(d, i)]
                                    /\ wire'[Track(d, i)] = wire[Track(d, i)]
                                    /\ hand'[Track(d, i)] = hand[Track(d, i)]
    BY <2>1, Zenon DEF Local
  <2>3. call'[d] = call[d] /\ log'[d] = log[d] /\ gone'[d] = gone[d]
    BY <1>1
  <2>4. CallInv(d) /\ call[d].task \in 1..call[d].tasks
    BY Zenon DEF JInv, IInv, Undialled
  <2>5. Ledger(call'[d], gone'[d], log'[d]) /\ Progress(call'[d])
    BY <2>3, <2>4, Zenon DEF CallInv
  <2>6. Answering(d)'
    BY <2>2, <2>3, <2>4, Zenon DEF CallInv, Answering, Now, Current
  <2>7. \A i \in 1..call'[d].tasks :
           Whole(call'[d], i, track'[Track(d, i)], wire'[Track(d, i)], hand'[Track(d, i)], log'[d])
    BY <2>2, <2>3, <2>4, Zenon DEF CallInv
  <2> QED
    BY <2>5, <2>6, <2>7, ZenonT(60) DEF CallInv
<1> QED
  BY <1>2, <1>3, <1>4, <1>5, ZenonT(60) DEF JInv

\* Nothing moves but the thread.
LEMMA NothingMoves ==
    ASSUME JInv, NEW c \in Calls, UNCHANGED <<wire, hand, dog, track>>
    PROVE  Local(c)
BY DEF JInv, Types, Ends, Local

\* The current Track and the wire of its RPC move.
LEMMA CurrentMoves ==
    ASSUME IInv, JInv, NEW c \in Calls,
           NEW t \in TrackRecords, t.count <= t.cut, track' = [track EXCEPT ![Current(c)] = t],
           NEW w \in Wires, w.status = wire[Current(c)].status, wire' = [wire EXCEPT ![Current(c)] = w],
           UNCHANGED <<hand, dog>>
    PROVE  Local(c)
<1>1. Current(c) \in Streams /\ Current(c) \in TracksOf(c)
  BY CurrentTrack DEF TracksOf, Current
<1> QED
  BY <1>1 DEF JInv, Types, Ends, Local

-----------------------------------------------------------------------------
(* Exceptions.                                                                 *)

\* After an exception nothing is claimed of the Tracks.
LEMMA Throws ==
    ASSUME IInv, JInv, NEW c \in Calls, NEW q, NEW l, Moves(c, q, l), Local(c), Ledger(q, gone[c], l),
           q.pc = "unwind", q.status # "OK", ~q.closing
    PROVE  JInv'
<1>1. Progress(q) /\ ~Good(q)
  BY DEF Progress, AtEnd, Good
<1> QED
  BY <1>1, OnlyCall, ZenonT(60) DEF Whole

\* The record of a call that threw.
LEMMA ThrownIs ==
    ASSUME JInv, NEW c \in Calls, NEW status \in Statuses
    PROVE  /\ Thrown(c, status) \in Callers
           /\ Thrown(c, status).pc = "unwind" /\ Thrown(c, status).status = status
           /\ ~Thrown(c, status).closing /\ Thrown(c, status).chunks = call[c].chunks
           /\ Thrown(c, status).tasks = call[c].tasks
<1>1. call[c] \in Callers
  BY DEF JInv, Types
<1> QED
  BY <1>1, Zenon DEF Callers, Thrown

\* Where a call can throw.
Inner(c) == call[c].pc \notin {"open", "terminal", "returned"}

\* It throws with its log as it is, or after the event of a hypothesis.
LEMMA FailKeeps ==
    ASSUME IInv, JInv, NEW c \in Calls, NEW status \in Statuses \ {"OK"}, Fail(c, status),
           Inner(c), Local(c), gone' = gone,
           \/ log' = log
           \/ log' = [log EXCEPT ![c] = Append(@, Event("hypothesis", call[c].task))]
    PROVE  JInv'
<1> DEFINE q == Thrown(c, status)
<1>1. /\ q \in Callers /\ q.pc = "unwind" /\ q.status # "OK" /\ ~q.closing
      /\ q.chunks = call[c].chunks /\ q.tasks = call[c].tasks
  BY ThrownIs
<1>2. /\ call[c] \in Callers /\ log[c] \in Seq(Events) /\ Ledger(call[c], gone[c], log[c])
      /\ log = [log EXCEPT ![c] = log[c]]
  BY DEF JInv, Types, CallInv
<1>3. call' = [call EXCEPT ![c] = q]
  BY DEF Fail
<1> HIDE DEF q
<1>4. CASE log' = log
  <2>1. Ledger(q, gone[c], log[c])
    BY <1>1, <1>2, LedgerStays DEF Inner
  <2>2. Moves(c, q, log[c])
    BY <1>1, <1>2, <1>3, <1>4 DEF Moves
  <2> QED
    BY <1>1, <2>1, <2>2, Throws
<1>5. CASE log' = [log EXCEPT ![c] = Append(@, Event("hypothesis", call[c].task))]
  <2> DEFINE e == Event("hypothesis", call[c].task)
  <2>1. e \in Events /\ e.kind = "hypothesis"
    BY CurrentTrack DEF Event, Events, Statuses
  <2> HIDE DEF e
  <2>2. Append(log[c], e) \in Seq(Events)
    BY <1>2, <2>1
  <2>3. q.chunks = call[c].chunks + 0
    BY <1>1, <1>2 DEF Callers
  <2>4. Ledger(q, gone[c], Append(log[c], e))
    BY <1>1, <1>2, <2>1, <2>3, Counted, LedgerGrows DEF Inner
  <2>5. Moves(c, q, Append(log[c], e))
    BY <1>1, <1>2, <1>3, <1>5, <2>2 DEF Moves, e
  <2> QED
    BY <1>1, <2>4, <2>5, Throws
<1> QED
  BY <1>4, <1>5

\* failed(): the status of the RPC, which is never taken for a success.
LEMMA FailedKeeps ==
    ASSUME IInv, JInv, NEW c \in Calls, Failed(c, Current(c)), Inner(c),
           UNCHANGED <<wire, hand, dog, gone, log>>
    PROVE  JInv'
<1> DEFINE s == Current(c)
<1>1. s \in Streams /\ wire[s] \in Wires /\ track[s] \in TrackRecords /\ track[s].count <= track[s].cut
  BY CurrentTrack DEF JInv, Types, Ends
<1>2. FinalStatus(s) \subseteq Statuses
  BY <1>1 DEF FinalStatus, Ended, Wires, Statuses
<1>3. PICK status \in FinalStatus(s) : Fail(c, IF status = "OK" THEN "FAILED" ELSE status)
  BY DEF Failed
<1>4. (IF status = "OK" THEN "FAILED" ELSE status) \in Statuses \ {"OK"}
  BY <1>2, <1>3 DEF Statuses
<1> DEFINE t == [track[s] EXCEPT !.state = "done"]
<1>5. /\ t \in TrackRecords /\ t.count <= t.cut /\ track' = [track EXCEPT ![s] = t]
      /\ wire' = [wire EXCEPT ![s] = wire[s]]
  BY <1>1, Zenon DEF Failed, TrackRecords, JInv, Types
<1> HIDE DEF t
<1>6. Local(c)
  BY <1>1, <1>5, CurrentMoves, Zenon
<1> QED
  BY <1>3, <1>4, <1>6, FailKeeps

-----------------------------------------------------------------------------
(* The steps of a call.                                                        *)

\* A Track keeps its windows, and its RPC what was asked and how it ended.
SameTrack(s) ==
    /\ track'[s].cut = track[s].cut /\ track'[s].count = track[s].count
    /\ wire'[s].req = wire[s].req /\ wire'[s].status = wire[s].status
    /\ hand'[s].msg = hand[s].msg /\ hand'[s].count = hand[s].count

\* A step within the inner try block that publishes and asks nothing.
LEMMA QuietKeeps ==
    ASSUME IInv, JInv, NEW c \in Calls, NEW q \in Callers, call' = [call EXCEPT ![c] = q],
           UNCHANGED <<gone, log>>, Local(c), \A s \in TracksOf(c) : SameTrack(s),
           Inner(c), ~Now(c, "answer"), q.pc \notin {"open", "answer", "terminal", "returned"},
           q.tasks = call[c].tasks, q.chunks = call[c].chunks, Progress(q),
           Good(q) => Good(call[c]),
           \A i \in 1..call[c].tasks :
              /\ Sent(call[c], i) => Sent(q, i)
              /\ Over(q, i) => Over(call[c], i) \/ wire[Track(c, i)].status = "OK"
    PROVE  JInv'
<1>1. /\ call[c] \in Callers /\ log[c] \in Seq(Events) /\ CallInv(c)
      /\ log' = [log EXCEPT ![c] = log[c]]
  BY DEF JInv, Types
<1>2. Ledger(q, gone[c], log[c])
  BY <1>1, LedgerStays DEF CallInv, Inner
<1>3. Moves(c, q, log[c])
  BY <1>1, Zenon DEF Moves
<1>4. ASSUME NEW i \in 1..call[c].tasks
      PROVE  Whole(q, i, track'[Track(c, i)], wire'[Track(c, i)], hand'[Track(c, i)], log[c])
  <2>1. Whole(call[c], i, track[Track(c, i)], wire[Track(c, i)], hand[Track(c, i)], log[c])
    BY <1>1 DEF CallInv
  <2>2. Whole(q, i, track[Track(c, i)], wire[Track(c, i)], hand[Track(c, i)], log[c])
    BY <2>1, WholeStays, Zenon DEF Now
  <2>3. SameTrack(Track(c, i))
    BY Zenon DEF TracksOf
  <2> QED
    BY <2>2, <2>3, Zenon DEF SameTrack, Whole
<1> QED
  BY <1>2, <1>3, <1>4, OnlyCall, Zenon

\* A step of the thread alone, before the Tracks are closed.
LEMMA ThreadMoves ==
    ASSUME IInv, JInv, NEW c \in Calls, NEW q \in Callers, call' = [call EXCEPT ![c] = q],
           UNCHANGED <<wire, hand, dog, track, gone, log>>,
           call[c].pc \in {"next", "decode", "feed"}, ~call[c].closing, ~q.closing,
           q.pc \in {"next", "decode", "dial", "feed", "finish"}, q.pc = "finish" => q.finish,
           q.tasks = call[c].tasks, q.chunks = call[c].chunks, q.status = call[c].status
    PROVE  JInv'
<1>1. Progress(q) /\ call[c].status = "OK"
  BY Zenon DEF JInv, CallInv, Progress, AtEnd
<1>2. Local(c) /\ \A s \in TracksOf(c) : SameTrack(s)
  BY NothingMoves DEF SameTrack
<1>3. Good(call[c]) /\ \A i \in 1..call[c].tasks : ~Sent(call[c], i) /\ ~Over(q, i)
  BY <1>1 DEF Good, Sent, Over
<1> QED
  BY <1>1, <1>2, <1>3, QuietKeeps, Zenon DEF Inner, Now

\* An event of the source: no Track is touched.
LEMMA SourceKeeps ==
    ASSUME IInv, JInv, NEW c \in Calls, NEW e \in Events, NEW next \in Callers, Send(c, e, next), ~gone[c],
           UNCHANGED <<wire, hand, dog, track, gone>>,
           call[c].pc \in {"open", "next"}, next.pc \in {"next", "decode"},
           e.kind = IF Now(c, "open") THEN "opened" ELSE "source",
           next.tasks = call[c].tasks, next.task = call[c].task, next.status = call[c].status,
           next.closing = call[c].closing, next.finish = call[c].finish,
           next.chunks = call[c].chunks + IF Now(c, "open") THEN 0 ELSE 1
    PROVE  JInv'
<1>1. /\ call[c] \in Callers /\ log[c] \in Seq(Events) /\ CallInv(c)
      /\ call' = [call EXCEPT ![c] = next] /\ log' = [log EXCEPT ![c] = Append(log[c], e)]
      /\ Append(log[c], e) \in Seq(Events)
  BY DEF JInv, Types, Send
<1>3. Ledger(next, gone[c], Append(log[c], e))
  BY <1>1, Counted, LedgerGrows, Zenon DEF CallInv, Now
<1>4. ~call[c].closing /\ call[c].status = "OK" /\ Progress(next)
  BY <1>1, Zenon DEF CallInv, Progress, AtEnd, Callers
<1>5. Moves(c, next, Append(log[c], e)) /\ Local(c)
  BY <1>1, NothingMoves DEF Moves
<1>6. ASSUME NEW i \in 1..call[c].tasks
      PROVE  Whole(next, i, track'[Track(c, i)], wire'[Track(c, i)], hand'[Track(c, i)], Append(log[c], e))
  <2>1. Whole(call[c], i, track[Track(c, i)], wire[Track(c, i)], hand[Track(c, i)], log[c])
    BY <1>1, Zenon DEF CallInv
  <2>2. Whole(next, i, track[Track(c, i)], wire[Track(c, i)], hand[Track(c, i)], log[c])
    BY <1>4, <2>1, WholeStays, Zenon DEF Good, Sent, Over
  <2>3. e # Event("hypothesis", i)
    BY DEF Event
  <2>4. Whole(next, i, track[Track(c, i)], wire[Track(c, i)], hand[Track(c, i)], Append(log[c], e))
    BY <1>1, <2>2, <2>3, Counted, WholeLogs, Zenon
  <2> QED
    BY <2>4, Zenon
<1> QED
  BY <1>3, <1>4, <1>5, <1>6, OnlyCall, Zenon

\* A call that opens no stream.
LEMMA RefusedKeeps ==
    ASSUME IInv, JInv, NEW c \in Calls, Now(c, "open"),
           call' = [call EXCEPT ![c].pc = "returned", ![c].status = "FAILED"],
           UNCHANGED <<wire, hand, dog, track, gone, log>>
    PROVE  JInv'
<1> DEFINE q == [call[c] EXCEPT !.pc = "returned", !.status = "FAILED"]
<1>1. /\ call[c] \in Callers /\ log[c] \in Seq(Events) /\ CallInv(c)
      /\ call' = [call EXCEPT ![c] = q] /\ log' = [log EXCEPT ![c] = log[c]]
  BY Zenon DEF JInv, Types
<1>2. /\ q \in Callers /\ q.pc = "returned" /\ q.status = "FAILED" /\ q.tasks = call[c].tasks
      /\ q.chunks = call[c].chunks /\ q.closing = call[c].closing
  BY <1>1, Zenon DEF Callers, Statuses
<1> HIDE DEF q
<1>3. ~q.closing /\ log[c] = << >>
  BY <1>1, <1>2 DEF CallInv, Progress, AtEnd, Ledger, Now
<1>4. Ledger(q, gone[c], log[c])
  BY <1>1, <1>2, <1>3 DEF CallInv, Ledger, Now
<1>5. Progress(q) /\ ~Good(q)
  BY <1>2, <1>3 DEF Progress, AtEnd, Good
<1>6. Moves(c, q, log[c]) /\ Local(c)
  BY <1>1, <1>2, NothingMoves, Zenon DEF Moves
<1> QED
  BY <1>2, <1>4, <1>5, <1>6, OnlyCall DEF Whole

\* The client goes: its RPCs are cut off, and the log stays as it is.
LEMMA GoneKeeps ==
    ASSUME IInv, JInv, NEW c \in Calls, ClientGone(c)
    PROVE  JInv'
<1>1. /\ UNCHANGED <<hand, dog, call, track, log>>
      /\ gone' = [gone EXCEPT ![c] = TRUE]
      /\ wire' \in [Streams -> Wires]
      /\ \A s \in Streams : wire'[s].status = wire[s].status /\ wire'[s].req = wire[s].req
  BY Zenon DEF ClientGone, JInv, Types, Wires
<1>2. Types'
  BY <1>1 DEF JInv, Types
<1>3. Ends'
  BY <1>1 DEF JInv, Ends, Ended
<1>4. ASSUME NEW d \in Calls
      PROVE  CallInv(d)'
  <2>1. CallInv(d) /\ \A i \in 1..call[d].tasks : Track(d, i) \in Streams
    BY IngestAssumption, Zenon DEF JInv, IInv, Undialled
  <2>2. Ledger(call[d], gone'[d], log[d])
    BY <1>1, <2>1, Zenon DEF CallInv, Ledger, JInv, Types
  <2>3. \A i \in 1..call[d].tasks :
           Whole(call[d], i, track[Track(d, i)], wire'[Track(d, i)], hand[Track(d, i)], log[d])
    BY <1>1, <2>1, Zenon DEF CallInv, Whole
  <2> QED
    BY <1>1, <2>1, <2>2, <2>3, Zenon DEF CallInv, Answering, Now, Current
<1> QED
  BY <1>2, <1>3, <1>4 DEF JInv

\* The steps of the client.
LEMMA ClientKeeps ==
    ASSUME IInv, JInv, NEW c \in Calls, Client(c)
    PROVE  JInv'
<1>0. call[c] \in Callers /\ CallInv(c)
  BY DEF JInv, Types
<1>1. CASE ClientGone(c)
  BY <1>1, GoneKeeps
<1>2. CASE OpenRefused(c)
  BY <1>2, RefusedKeeps, Zenon DEF OpenRefused, workerVars
<1>3. CASE OpenStream(c)
  <2> DEFINE e == Event("opened", 0)
             next == [call[c] EXCEPT !.pc = "next"]
  <2>1. e \in Events /\ e.kind = "opened"
    BY DEF Event, Events, Statuses
  <2>2. /\ next \in Callers /\ next.pc = "next" /\ next.chunks = call[c].chunks + 0
        /\ next.tasks = call[c].tasks /\ next.task = call[c].task /\ next.status = call[c].status
        /\ next.closing = call[c].closing /\ next.finish = call[c].finish
    BY <1>0 DEF Callers
  <2>3. Send(c, e, next) /\ call[c].pc = "open" /\ ~gone[c]
    BY <1>3 DEF OpenStream, Now
  <2> HIDE DEF e, next
  <2> QED
    BY <1>3, <2>1, <2>2, <2>3, SourceKeeps DEF OpenStream, workerVars, Now
<1>4. CASE ReadChunk(c)
  <2> DEFINE e == Event("source", call[c].chunks + 1)
             next == [call[c] EXCEPT !.chunks = @ + 1,
                                     !.pc = IF call[c].decoding THEN "decode" ELSE "next"]
  <2>1. e \in Events /\ e.kind = "source"
    BY <1>0 DEF Event, Events, Statuses, Callers
  <2>0. call[c].chunks + 1 \in 0..MaxChunks
    BY <1>0, <1>4, IngestAssumption DEF Callers, ReadChunk
  <2>2. /\ next \in Callers /\ next.pc \in {"next", "decode"} /\ next.chunks = call[c].chunks + 1
        /\ next.tasks = call[c].tasks /\ next.task = call[c].task /\ next.status = call[c].status
        /\ next.closing = call[c].closing /\ next.finish = call[c].finish
    BY <1>0, <2>0, Zenon DEF Callers
  <2>3. Send(c, e, next) /\ call[c].pc = "next" /\ ~gone[c]
    BY <1>4 DEF ReadChunk, Now
  <2> HIDE DEF e, next
  <2> QED
    BY <1>4, <2>1, <2>2, <2>3, SourceKeeps DEF ReadChunk, workerVars, Now
<1>5. CASE ReadFinish(c)
  <2> DEFINE q == [call[c] EXCEPT !.finish = TRUE,
                                  !.pc = IF call[c].decoding THEN "decode" ELSE "finish"]
  <2>1. /\ q \in Callers /\ q.finish /\ q.pc \in {"decode", "finish"} /\ q.tasks = call[c].tasks
        /\ q.chunks = call[c].chunks /\ q.closing = call[c].closing /\ q.status = call[c].status
        /\ call' = [call EXCEPT ![c] = q] /\ call[c].pc = "next"
    BY <1>0, <1>5, Zenon DEF Callers, ReadFinish, Now
  <2> HIDE DEF q
  <2>2. ~call[c].closing
    BY <1>0, <2>1, Zenon DEF CallInv, Progress, AtEnd
  <2> QED
    BY <1>5, <2>1, <2>2, ThreadMoves, Zenon DEF ReadFinish, workerVars
<1>6. CASE ReadBad(c)
  <2>1. Local(c) /\ Inner(c)
    BY <1>6, NothingMoves DEF ReadBad, workerVars, Inner, Now
  <2> QED
    BY <1>6, <2>1, FailKeeps DEF ReadBad, Statuses
<1> QED
  BY <1>1, <1>2, <1>3, <1>4, <1>5, <1>6 DEF Client

\* On to a Track.
LEMMA TrackNext ==
    ASSUME IInv, JInv, NEW c \in Calls, NEW i \in 1..call[c].tasks, GoTrack(c, i),
           UNCHANGED <<wire, hand, dog, track, gone, log>>,
           call[c].pc \in {"decode", "feed"}, ~call[c].closing
    PROVE  JInv'
<1>1. call[c] \in Callers
  BY DEF JInv, Types
<1> DEFINE pc == IF track[Track(c, i)].state = "none" THEN "dial" ELSE "feed"
           q == [call[c] EXCEPT !.pc = pc, !.task = i]
<1>3. i \in Nat /\ pc \in {"dial", "feed"} /\ call' = [call EXCEPT ![c] = q]
  <2>1. i \in Nat
    BY CurrentTrack
  <2>2. call' = [call EXCEPT ![c] = q]
    BY Zenon DEF GoTrack
  <2> QED
    BY <2>1, <2>2
<1> HIDE DEF pc
<1>2. /\ q \in Callers /\ q.pc \in {"dial", "feed"} /\ q.tasks = call[c].tasks /\ ~q.closing
      /\ q.chunks = call[c].chunks /\ q.status = call[c].status /\ call' = [call EXCEPT ![c] = q]
  BY <1>1, <1>3, Zenon DEF Callers
<1> HIDE DEF q
<1> QED
  BY <1>2, ThreadMoves, Zenon

\* The decoder's steps.
LEMMA DecoderKeeps ==
    ASSUME IInv, JInv, NEW c \in Calls,
           \/ ReadEnds(c) \/ DecodeMore(c) \/ DecodeFails(c) \/ DecodeAudio(c)
           \/ FeedFails(c) \/ Fed(c)
    PROVE  JInv'
<1>0. call[c] \in Callers /\ CallInv(c) /\ call[c].task \in 1..call[c].tasks
      /\ call[c].tasks \in Nat /\ 1 \in 1..call[c].tasks
  BY CurrentTrack DEF JInv, Types
<1>1. CASE ReadEnds(c)
  <2>1. CASE Now(c, "open") /\ call' = [call EXCEPT ![c].pc = "returned", ![c].status = "FAILED"]
    BY <1>1, <2>1, RefusedKeeps, Zenon DEF ReadEnds, workerVars
  <2>2. CASE Now(c, "next") /\ Fail(c, "CANCELLED")
    <3>1. Local(c) /\ Inner(c)
      BY <1>1, <2>2, NothingMoves DEF ReadEnds, workerVars, Inner, Now
    <3> QED
      BY <1>1, <2>2, <3>1, FailKeeps DEF ReadEnds, Statuses
  <2> QED
    BY <1>1, <2>1, <2>2 DEF ReadEnds
<1>2. CASE DecodeMore(c)
  <2>1. PICK decoding \in BOOLEAN : call' = [call EXCEPT ![c].pc = AfterDecode(c), ![c].decoding = decoding]
    BY <1>2, Zenon DEF DecodeMore
  <2> DEFINE q == [call[c] EXCEPT !.pc = AfterDecode(c), !.decoding = decoding]
  <2>2. /\ q \in Callers /\ q.pc = AfterDecode(c) /\ q.tasks = call[c].tasks /\ q.closing = call[c].closing
        /\ q.chunks = call[c].chunks /\ q.status = call[c].status /\ q.finish = call[c].finish
        /\ call' = [call EXCEPT ![c] = q]
    BY <1>0, <2>1, Zenon DEF Callers, AfterDecode
  <2> HIDE DEF q
  <2>3. call[c].pc = "decode" /\ ~call[c].closing
    BY <1>0, <1>2 DEF DecodeMore, Now, CallInv, Progress, AtEnd
  <2> QED
    BY <1>2, <2>2, <2>3, ThreadMoves, Zenon DEF DecodeMore, workerVars, AfterDecode
<1>3. CASE DecodeFails(c)
  <2>1. Local(c) /\ Inner(c)
    BY <1>3, NothingMoves, ZenonT(60) DEF DecodeFails, workerVars, Inner, Now
  <2> QED
    BY <1>3, <2>1, FailKeeps DEF DecodeFails, Statuses
<1>6. CASE FeedFails(c)
  <2>1. Local(c) /\ Inner(c)
    BY <1>6, NothingMoves, ZenonT(60) DEF FeedFails, workerVars, Inner, Now
  <2> QED
    BY <1>6, <2>1, FailKeeps DEF FeedFails, Statuses
<1>4. CASE DecodeAudio(c)
  <2>1. call[c].pc = "decode" /\ ~call[c].closing
    BY <1>0, <1>4, Zenon DEF DecodeAudio, Now, CallInv, Progress, AtEnd
  <2> QED
    BY <1>0, <1>4, <2>1, TrackNext, Zenon DEF DecodeAudio, workerVars
<1>5. CASE Fed(c)
  <2>1. call[c].pc = "feed" /\ ~call[c].closing
    BY <1>5 DEF Fed, Now
  <2>2. CASE call[c].task < call[c].tasks
    BY <1>0, <1>5, <2>1, <2>2, TrackNext DEF Fed, workerVars
  <2>3. CASE ~(call[c].task < call[c].tasks)
    <3> DEFINE q == [call[c] EXCEPT !.pc = "decode", !.task = 1]
    <3>1. /\ q \in Callers /\ q.pc = "decode" /\ q.tasks = call[c].tasks /\ q.closing = call[c].closing
          /\ q.chunks = call[c].chunks /\ q.status = call[c].status /\ call' = [call EXCEPT ![c] = q]
      BY <1>0, <1>5, <2>3, Zenon DEF Callers, Fed
    <3> HIDE DEF q
    <3> QED
      BY <1>5, <2>1, <3>1, ThreadMoves, Zenon DEF Fed, workerVars
  <2> QED
    BY <2>2, <2>3
<1> QED
  BY <1>1, <1>2, <1>3, <1>4, <1>5, <1>6

-----------------------------------------------------------------------------
(* The steps of a Track.                                                       *)

\* The other Tracks of the call while one is busy.
LEMMA OtherTracks ==
    ASSUME IInv, JInv, NEW c \in Calls, NEW q, NEW i \in 1..call[c].tasks, i # call[c].task,
           \A s \in Streams \ {Current(c)} :
              track'[s] = track[s] /\ wire'[s] = wire[s] /\ hand'[s] = hand[s],
           Good(q) => Good(call[c]), q.task = call[c].task, q.closing = call[c].closing
    PROVE  Whole(q, i, track'[Track(c, i)], wire'[Track(c, i)], hand'[Track(c, i)], log[c])
<1>1. Track(c, i) \in Streams \ {Current(c)}
  <2>1. Track(c, i) \in Streams
    BY IngestAssumption, Zenon DEF IInv, Undialled
  <2>2. Track(c, i) # Current(c)
    BY Zenon DEF Current, Track
  <2> QED
    BY <2>1, <2>2
<1>2. Whole(call[c], i, track[Track(c, i)], wire[Track(c, i)], hand[Track(c, i)], log[c])
  BY Zenon DEF JInv, CallInv
<1>3. Whole(q, i, track[Track(c, i)], wire[Track(c, i)], hand[Track(c, i)], log[c])
  BY <1>2, WholeStays, Zenon DEF Sent, Over
<1> QED
  BY <1>1, <1>3, Zenon

\* What is known of the current Track and its RPC.
LEMMA CurrentIs ==
    ASSUME IInv, JInv, NEW c \in Calls
    PROVE  /\ call[c] \in Callers /\ log[c] \in Seq(Events) /\ CallInv(c)
           /\ log = [log EXCEPT ![c] = log[c]]
           /\ call[c].task \in 1..call[c].tasks /\ Current(c) = Track(c, call[c].task)
           /\ Current(c) \in Streams /\ wire[Current(c)] \in Wires /\ hand[Current(c)] \in Handlers
           /\ track[Current(c)] \in TrackRecords /\ track[Current(c)].count <= track[Current(c)].cut
           /\ track = [track EXCEPT ![Current(c)] = track[Current(c)]]
           /\ wire = [wire EXCEPT ![Current(c)] = wire[Current(c)]]
           /\ Whole(call[c], call[c].task, track[Current(c)], wire[Current(c)], hand[Current(c)], log[c])
<1>1. call[c].task \in 1..call[c].tasks /\ Current(c) = Track(c, call[c].task) /\ Current(c) \in Streams
  BY CurrentTrack, Zenon DEF Current
<1> QED
  BY <1>1, ZenonT(60) DEF JInv, Types, Ends, CallInv

\* Dial: the RPC of a new Track carries its open.
LEMMA DialKeeps ==
    ASSUME IInv, JInv, NEW c \in Calls, Dial(c)
    PROVE  JInv'
<1> DEFINE s == Current(c)
<1>0. /\ call[c].pc = "dial" /\ UNCHANGED <<dog, gone, log>> /\ Inner(c)
  BY DEF Dial, Now, Inner
<1>1. CASE Fail(c, "FAILED") /\ UNCHANGED <<wire, hand, track>>
  BY <1>0, <1>1, NothingMoves, FailKeeps DEF Statuses
<1>2. CASE /\ track' = [track EXCEPT ![s].state = "live"]
           /\ hand' = [hand EXCEPT ![s].pc = "start"]
           /\ wire' = [wire EXCEPT ![s].req = <<Open>>, ![s].cut = gone[c]]
           /\ Go(c, "handshake")
  <2> DEFINE q == [call[c] EXCEPT !.pc = "handshake"]
  <2>1. /\ q \in Callers /\ q.pc = "handshake" /\ q.tasks = call[c].tasks /\ q.task = call[c].task
        /\ q.closing = call[c].closing /\ q.chunks = call[c].chunks /\ q.status = call[c].status
        /\ call' = [call EXCEPT ![c] = q]
    BY <1>2, CurrentIs DEF Callers, Go
  <2> HIDE DEF q
  <2>2. /\ s \in Streams /\ s \in TracksOf(c) /\ hand[s].pc = "none" /\ gone[c] \in BOOLEAN
        /\ <<Open>> \in Seq(Requests) /\ Elems(<<Open>>) = {Open} /\ Open.kind = "open"
    <3>1. s \in Streams \ Rivals /\ s \in TracksOf(c)
      BY CurrentTrack DEF TracksOf, Current
    <3>2. hand[s].pc = "none"
      BY <1>0, <3>1 DEF IInv, Undialled
    <3>3. Open \in Requests /\ Open.kind = "open"
      BY DEF Open, Requests
    <3>4. Elems(<<Open>>) = {Open}
      BY DEF Elems
    <3> QED
      BY <3>1, <3>2, <3>3, <3>4 DEF JInv, Types
  <2>3. /\ track'[s].cut = track[s].cut /\ track'[s].count = track[s].count
        /\ wire'[s].req = <<Open>> /\ wire'[s].status = wire[s].status
        /\ hand'[s].msg = hand[s].msg /\ hand'[s].count = hand[s].count /\ hand'[s].pc = "start"
        /\ track'[s] \in TrackRecords /\ wire'[s] \in Wires /\ hand'[s] \in Handlers
    <3>1. /\ track'[s].cut = track[s].cut /\ track'[s].count = track[s].count
          /\ track'[s] \in TrackRecords
      BY <1>2, <2>2, Zenon DEF JInv, Types, TrackRecords
    <3>2. wire'[s].req = <<Open>> /\ wire'[s].status = wire[s].status /\ wire'[s] \in Wires
      BY <1>2, <2>2, Zenon DEF JInv, Types, Wires
    <3>3. /\ hand'[s].msg = hand[s].msg /\ hand'[s].count = hand[s].count /\ hand'[s].pc = "start"
          /\ hand'[s] \in Handlers
      BY <1>2, <2>2, Zenon DEF JInv, Types, Handlers
    <3> QED
      BY <3>1, <3>2, <3>3, Zenon
  <2>4. \A t \in Streams \ {s} : track'[t] = track[t] /\ wire'[t] = wire[t] /\ hand'[t] = hand[t]
    BY <1>2 DEF JInv, Types
  <2>5. Local(c)
    <3>1. /\ track' \in [Streams -> TrackRecords] /\ wire' \in [Streams -> Wires]
          /\ hand' \in [Streams -> Handlers]
      BY <1>2, <2>2, <2>3 DEF JInv, Types
    <3>2. track'[s].count <= track'[s].cut
      BY <2>2, <2>3, Zenon DEF JInv, Ends
    <3> QED
      BY <1>0, <2>2, <2>3, <2>4, <3>1, <3>2, Zenon DEF Local, JInv, Ends
  <2>6. ~call[c].closing /\ call[c].status = "OK" /\ Progress(q) /\ Ledger(q, gone[c], log[c])
    <3>1. ~call[c].closing /\ call[c].status = "OK" /\ Progress(q)
      BY <1>0, <2>1, CurrentIs, ZenonT(60) DEF CallInv, Progress, AtEnd
    <3> QED
      BY <1>0, <2>1, <3>1, CurrentIs, LedgerStays DEF CallInv
  <2>7. Moves(c, q, log[c])
    BY <1>0, <2>1, CurrentIs DEF Moves
  <2>8. Good(call[c])
    BY <2>6 DEF Good
  <2>9. ASSUME NEW i \in 1..call[c].tasks
        PROVE  Whole(q, i, track'[Track(c, i)], wire'[Track(c, i)], hand'[Track(c, i)], log[c])
    <3>1. CASE i # call[c].task
      BY <2>1, <2>4, <2>8, <3>1, OtherTracks, Zenon
    <3>2. CASE i = call[c].task
      <4>1. Whole(call[c], i, track[s], wire[s], hand[s], log[c]) /\ s = Track(c, i)
        BY <3>2, CurrentIs
      <4>2. ~Sent(call[c], i) /\ ~Over(q, i)
        BY <2>1, <2>6, Zenon DEF Sent, Over
      <4> HIDE DEF s
      <4> QED
        BY <1>0, <2>1, <2>2, <2>3, <2>8, <4>1, <4>2, Zenon DEF Whole
    <3> QED
      BY <3>1, <3>2, Zenon
  <2> QED
    BY <2>1, <2>5, <2>6, <2>7, <2>9, OnlyCall, Zenon
<1> QED
  BY <1>1, <1>2 DEF Dial

\* A response is read.
LEMMA ResponseRead ==
    ASSUME IInv, JInv, NEW c \in Calls, wire[Current(c)].resp # << >>,
           wire' = [wire EXCEPT ![Current(c)].resp = Tail(@)], UNCHANGED <<track, hand, dog>>
    PROVE  Local(c) /\ \A s \in TracksOf(c) : SameTrack(s)
<1> DEFINE s == Current(c)
           w == [wire[s] EXCEPT !.resp = Tail(@)]
<1>1. /\ w \in Wires /\ w.status = wire[s].status /\ w.req = wire[s].req
      /\ wire' = [wire EXCEPT ![s] = w]
  <2>1. wire[s].resp \in Seq(Responses) /\ wire[s] \in Wires
    BY CurrentIs DEF Wires
  <2>2. Tail(wire[s].resp) \in Seq(Responses)
    BY <2>1, ElemsOf
  <2> QED
    BY <2>1, <2>2, Zenon DEF Wires
<1> HIDE DEF w
<1>2. Local(c)
  BY <1>1, CurrentIs, CurrentMoves, Zenon
<1>3. ASSUME NEW t \in TracksOf(c)
      PROVE  SameTrack(t)
  <2>1. t \in Streams
    BY IngestAssumption DEF IInv, Undialled, TracksOf
  <2>2. wire'[t].req = wire[t].req /\ wire'[t].status = wire[t].status
    BY <1>1, <2>1 DEF JInv, Types
  <2> QED
    BY <2>2 DEF SameTrack
<1> QED
  BY <1>2, <1>3

\* The handshake of a Track, and the answer to its finish.
LEMMA ExpectKeeps ==
    ASSUME IInv, JInv, NEW c \in Calls, NEW kind, NEW next, Expect(c, kind, next),
           UNCHANGED <<hand, dog, gone, log>>,
           \/ call[c].pc = "handshake" /\ next = "feed"
           \/ call[c].pc = "closed" /\ next = "status"
    PROVE  JInv'
<1> DEFINE s == Current(c)
<1>0. Inner(c) /\ ~Now(c, "answer")
  BY DEF Inner, Now
<1>1. CASE /\ wire[s].cut \/ (Ended(s) /\ wire[s].resp = << >>)
           /\ Failed(c, s) /\ UNCHANGED wire
  BY <1>0, <1>1, FailedKeeps
<1>2. CASE /\ wire[s].resp # << >>
           /\ wire' = [wire EXCEPT ![s].resp = Tail(@)]
           /\ UNCHANGED track
           /\ IF Head(wire[s].resp).kind = kind THEN Go(c, next) ELSE Fail(c, "FAILED")
  <2>1. Local(c) /\ \A t \in TracksOf(c) : SameTrack(t)
    BY <1>2, ResponseRead, Zenon
  <2>2. CASE Fail(c, "FAILED")
    BY <1>0, <2>1, <2>2, FailKeeps, Zenon DEF Statuses
  <2>3. CASE Go(c, next)
    <3> DEFINE q == [call[c] EXCEPT !.pc = next]
    <3>1. /\ q \in Callers /\ q.pc = next /\ q.tasks = call[c].tasks /\ q.task = call[c].task
          /\ q.closing = call[c].closing /\ q.chunks = call[c].chunks /\ q.status = call[c].status
          /\ q.finish = call[c].finish /\ call' = [call EXCEPT ![c] = q]
      BY <2>3, CurrentIs DEF Callers, Go
    <3> HIDE DEF q
    <3>2. Progress(q) /\ (call[c].pc = "handshake" => ~call[c].closing)
      BY <3>1, CurrentIs, Zenon DEF CallInv, Progress, AtEnd
    <3>3. Good(q) => Good(call[c])
      BY <3>1 DEF Good
    <3>4. \A i \in 1..call[c].tasks : /\ Sent(call[c], i) => Sent(q, i)
                                      /\ Over(q, i) => Over(call[c], i)
      BY <3>1, <3>2 DEF Sent, Over, AtEnd
    <3>5. q.pc \notin {"open", "answer", "terminal", "returned"}
      BY <3>1
    <3> QED
      BY <1>0, <2>1, <3>1, <3>2, <3>3, <3>4, <3>5, QuietKeeps, Zenon
  <2> QED
    BY <1>2, <2>2, <2>3
<1> QED
  BY <1>1, <1>2 DEF Expect

\* A message that is no finish, or the finish after the last window.
LEMMA WriteIs ==
    ASSUME IInv, JInv, NEW c \in Calls, NEW m \in Requests, WriteSent(Current(c), m)
    PROVE  \E w \in Wires :
              /\ w.status = wire[Current(c)].status /\ Elems(w.req) = Elems(wire[Current(c)].req) \cup {m}
              /\ wire' = [wire EXCEPT ![Current(c)] = w]
<1> DEFINE s == Current(c)
           w == [wire[s] EXCEPT !.req = Append(@, m)]
<1>1. wire[s] \in Wires /\ wire[s].req \in Seq(Requests)
  BY CurrentIs DEF Wires
<1>2. Append(wire[s].req, m) \in Seq(Requests) /\ Elems(Append(wire[s].req, m)) = Elems(wire[s].req) \cup {m}
  BY <1>1, ElemsOf
<1>3. w \in Wires /\ w.status = wire[s].status /\ w.req = Append(wire[s].req, m)
  BY <1>1, <1>2, Zenon DEF Wires
<1>4. wire' = [wire EXCEPT ![s] = w]
  BY DEF WriteSent
<1> QED
  BY <1>2, <1>3, <1>4, Zenon

\* A window is cut and written.
LEMMA CutKeeps ==
    ASSUME IInv, JInv, NEW c \in Calls, Cut(c)
    PROVE  JInv'
<1> DEFINE s == Current(c)
<1>0. call[c].pc = "feed" /\ Inner(c) /\ UNCHANGED <<hand, dog, gone, log>> /\ track[s].cut < MaxWindows
  BY DEF Cut, Now, Inner
<1>1. CASE Dead(s) /\ Failed(c, s) /\ UNCHANGED wire
  BY <1>0, <1>1, FailedKeeps
<1>2. CASE /\ track' = [track EXCEPT ![s].cut = @ + 1]
           /\ WriteSent(s, Window(track[s].cut + 1))
           /\ Go(c, "answer")
  <2> DEFINE q == [call[c] EXCEPT !.pc = "answer"]
             t == [track[s] EXCEPT !.cut = @ + 1]
             m == Window(track[s].cut + 1)
  <2>1. /\ q \in Callers /\ q.pc = "answer" /\ q.tasks = call[c].tasks /\ q.task = call[c].task
        /\ q.closing = call[c].closing /\ q.chunks = call[c].chunks /\ q.status = call[c].status
        /\ q.finish = call[c].finish /\ call' = [call EXCEPT ![c] = q]
    BY <1>2, CurrentIs DEF Callers, Go
  <2>2. /\ t \in TrackRecords /\ t.count = track[s].count /\ t.cut = track[s].cut + 1 /\ t.count < t.cut
        /\ track' = [track EXCEPT ![s] = t]
    <3>1. track[s] \in TrackRecords /\ track[s].count <= track[s].cut
      BY CurrentIs
    <3>2. track[s].cut + 1 \in 0..MaxWindows /\ track[s].count < track[s].cut + 1
      BY <1>0, <3>1, IngestAssumption DEF TrackRecords
    <3>3. t \in TrackRecords /\ t.count = track[s].count /\ t.cut = track[s].cut + 1
      BY <3>1, <3>2 DEF TrackRecords
    <3> QED
      BY <1>2, <3>2, <3>3
  <2>3. m \in Requests /\ m.kind = "window"
    BY CurrentIs, IngestAssumption DEF Window, Requests, TrackRecords
  <2>4. PICK w \in Wires : /\ w.status = wire[s].status /\ Elems(w.req) = Elems(wire[s].req) \cup {m}
                           /\ wire' = [wire EXCEPT ![s] = w]
    BY <1>2, <2>3, WriteIs
  <2> HIDE DEF q, t, m
  <2>5. t.count <= t.cut
    BY <2>2, CurrentIs DEF TrackRecords
  <2>6. Local(c)
    BY <1>0, <2>2, <2>4, <2>5, CurrentMoves, Zenon
  <2>7. /\ s \in Streams /\ track'[s] = t /\ wire'[s] = w /\ hand'[s] = hand[s]
        /\ \A x \in Streams \ {s} : track'[x] = track[x] /\ wire'[x] = wire[x] /\ hand'[x] = hand[x]
    BY <1>0, <2>2, <2>4, CurrentIs, ZenonT(60) DEF JInv, Types
  <2>8. Progress(q) /\ Ledger(q, gone[c], log[c])
    <3>1. Progress(q)
      BY <1>0, <2>1, CurrentIs, ZenonT(60) DEF CallInv, Progress, AtEnd
    <3> QED
      BY <1>0, <2>1, <3>1, CurrentIs, LedgerStays DEF CallInv
  <2>9. Moves(c, q, log[c])
    BY <1>0, <2>1, CurrentIs DEF Moves
  <2>10. Good(q) => Good(call[c])
    BY <2>1 DEF Good
  <2>11. ASSUME NEW i \in 1..call[c].tasks
        PROVE  Whole(q, i, track'[Track(c, i)], wire'[Track(c, i)], hand'[Track(c, i)], log[c])
    <3>1. CASE i # call[c].task
      BY <2>1, <2>7, <2>10, <3>1, OtherTracks, Zenon
    <3>2. CASE i = call[c].task
      <4>1. Whole(call[c], i, track[s], wire[s], hand[s], log[c]) /\ s = Track(c, i)
        BY <3>2, CurrentIs
      <4>2. ~Sent(call[c], i) /\ ~Over(q, i)
        BY <1>0, <2>1, <3>2, CurrentIs DEF Sent, Over, AtEnd
      <4> HIDE DEF s
      <4>3. Whole(q, i, t, w, hand[s], log[c])
        BY <1>0, <2>1, <2>2, <2>3, <2>4, <2>10, <3>2, <4>1, <4>2, Zenon DEF Whole
      <4> QED
        BY <2>7, <4>1, <4>3
    <3> QED
      BY <3>1, <3>2, Zenon
  <2>12. track'[Track(c, q.task)].count < track'[Track(c, q.task)].cut
    BY <2>1, <2>2, <2>7, Zenon DEF Current
  <2> QED
    BY <2>6, <2>8, <2>9, <2>11, <2>12, OnlyCall, ZenonT(60)
<1> QED
  BY <1>0, <1>1, <1>2 DEF Cut

\* A hypothesis is published for a client that is there, and counted.
LEMMA HypothesisKeeps ==
    ASSUME IInv, JInv, NEW c \in Calls, Now(c, "answer"), ~gone[c],
           wire[Current(c)].resp # << >>, wire' = [wire EXCEPT ![Current(c)].resp = Tail(@)],
           track' = [track EXCEPT ![Current(c)].count = @ + 1],
           log' = [log EXCEPT ![c] = Append(@, Event("hypothesis", call[c].task))],
           call' = [call EXCEPT ![c].pc = "feed"],
           UNCHANGED <<hand, dog, gone>>
    PROVE  JInv'
<1> DEFINE s == Current(c)
           q == [call[c] EXCEPT !.pc = "feed"]
           t == [track[s] EXCEPT !.count = @ + 1]
           w == [wire[s] EXCEPT !.resp = Tail(@)]
           e == Event("hypothesis", call[c].task)
           l == Append(log[c], e)
<1>1. /\ q \in Callers /\ q.pc = "feed" /\ q.tasks = call[c].tasks /\ q.task = call[c].task
      /\ q.closing = call[c].closing /\ q.chunks = call[c].chunks /\ q.status = call[c].status
      /\ q.finish = call[c].finish /\ call' = [call EXCEPT ![c] = q]
  BY CurrentIs, Zenon DEF Callers
<1>2. /\ t \in TrackRecords /\ t.count = track[s].count + 1 /\ t.cut = track[s].cut /\ t.count <= t.cut
      /\ track' = [track EXCEPT ![s] = t]
  <2>1. track[s].count < track[s].cut /\ track[s] \in TrackRecords
    BY CurrentIs DEF CallInv, Answering
  <2> QED
    BY <2>1, IngestAssumption DEF TrackRecords
<1>3. /\ w \in Wires /\ w.status = wire[s].status /\ w.req = wire[s].req
      /\ wire' = [wire EXCEPT ![s] = w]
  <2>1. wire[s].resp \in Seq(Responses) /\ wire[s] \in Wires
    BY CurrentIs DEF Wires
  <2>2. Tail(wire[s].resp) \in Seq(Responses)
    BY <2>1, ElemsOf
  <2> QED
    BY <2>1, <2>2, Zenon DEF Wires
<1>4. e \in Events /\ e.kind = "hypothesis" /\ \A i : e = Event("hypothesis", i) <=> i = call[c].task
  BY CurrentTrack DEF Event, Events, Statuses
<1> HIDE DEF q, t, w, e
<1>5. l \in Seq(Events) /\ log' = [log EXCEPT ![c] = l]
  BY <1>4, CurrentIs DEF e
<1>6. Local(c)
  BY <1>2, <1>3, CurrentMoves, Zenon
<1>7. /\ s \in Streams /\ track'[s] = t /\ wire'[s] = w /\ hand'[s] = hand[s]
      /\ \A x \in Streams \ {s} : track'[x] = track[x] /\ wire'[x] = wire[x] /\ hand'[x] = hand[x]
  BY <1>2, <1>3, CurrentIs DEF JInv, Types
<1>8. Progress(q)
  BY <1>1, CurrentIs DEF CallInv, Progress, AtEnd, Now
<1>9. Ledger(q, gone[c], l)
  <2>1. q.chunks = call[c].chunks + 0
    BY <1>1, CurrentIs DEF Callers
  <2> QED
    BY <1>1, <1>4, <2>1, CurrentIs, Counted, LedgerGrows DEF CallInv, Now
<1>10. Moves(c, q, l)
  BY <1>1, <1>5, Zenon DEF Moves
<1>11. Good(q) => Good(call[c])
  BY <1>1 DEF Good
<1>12. ASSUME NEW i \in 1..call[c].tasks
       PROVE  Whole(q, i, track'[Track(c, i)], wire'[Track(c, i)], hand'[Track(c, i)], l)
  <2>1. CASE i # call[c].task
    <3>1. Whole(q, i, track'[Track(c, i)], wire'[Track(c, i)], hand'[Track(c, i)], log[c])
      BY <1>1, <1>7, <1>11, <2>1, OtherTracks, Zenon
    <3>2. e # Event("hypothesis", i) /\ log[c] \in Seq(Events)
      BY <1>4, <2>1, CurrentIs
    <3> QED
      BY <1>4, <3>1, <3>2, Counted, WholeLogs, Zenon
  <2>2. CASE i = call[c].task
    <3>1. Whole(call[c], i, track[s], wire[s], hand[s], log[c]) /\ s = Track(c, i) /\ log[c] \in Seq(Events)
      BY <2>2, CurrentIs
    <3>2. ~Sent(call[c], i) /\ ~Over(q, i)
      BY <1>1, <2>2, CurrentIs DEF Sent, Over, AtEnd, Now
    <3>3. Tally(l, {Event("hypothesis", i)}) = Tally(log[c], {Event("hypothesis", i)}) + 1
      <4>1. e \in {Event("hypothesis", i)}
        BY <1>4, <2>2
      <4> QED
        BY <1>4, <3>1, <4>1, Counted, TallyAppend
    <3> HIDE DEF s, l
    <3>4. Whole(q, i, t, w, hand[s], l)
      <4> SUFFICES ASSUME Good(q) PROVE Whole(q, i, t, w, hand[s], l)
        BY DEF Whole
      <4>1. /\ Tally(log[c], {Event("hypothesis", i)}) = track[s].count
            /\ track[s].cut = track[s].count + 1
            /\ \A m \in Elems(wire[s].req) \cup {hand[s].msg} : m.kind # "finish"
            /\ wire[s].status # "OK"
        BY <1>11, <2>2, <3>1, <3>2 DEF Whole, Now
      <4>2. Tally(l, {Event("hypothesis", i)}) = t.count /\ t.cut = t.count /\ q.pc # "answer"
        BY <1>1, <1>2, <3>3, <4>1
      <4> QED
        BY <1>3, <3>2, <4>1, <4>2 DEF Whole
    <3> QED
      BY <1>7, <3>1, <3>4, Zenon
  <2> QED
    BY <2>1, <2>2
<1> QED
  BY <1>1, <1>6, <1>8, <1>9, <1>10, <1>12, OnlyCall, Zenon

\* infer() reads its answer.
LEMMA InfersKeeps ==
    ASSUME IInv, JInv, NEW c \in Calls, Infers(c)
    PROVE  JInv'
<1> DEFINE s == Current(c)
           event == Event("hypothesis", call[c].task)
<1>0. call[c].pc = "answer" /\ Now(c, "answer") /\ Inner(c) /\ UNCHANGED <<hand, dog, gone>>
  BY DEF Infers, Now, Inner
<1>1. CASE /\ wire[s].cut \/ (Ended(s) /\ wire[s].resp = << >>)
           /\ Failed(c, s) /\ UNCHANGED <<wire, log>>
  BY <1>0, <1>1, FailedKeeps, Zenon
<1>2. CASE /\ wire[s].resp # << >> /\ wire' = [wire EXCEPT ![s].resp = Tail(@)]
           /\ log' \in {log, [log EXCEPT ![c] = Append(@, event)]}
           /\ Fail(c, "FAILED") /\ UNCHANGED track
  BY <1>0, <1>2, ResponseRead, FailKeeps, Zenon DEF Statuses
<1>3. CASE /\ wire[s].resp # << >> /\ wire' = [wire EXCEPT ![s].resp = Tail(@)]
           /\ Send(c, event, [call[c] EXCEPT !.pc = "feed"])
           /\ track' = [track EXCEPT ![s].count = IF gone[c] THEN @ ELSE @ + 1]
  <2>1. CASE gone[c]
    <3>1. track' = track
      BY <1>3, <2>1, CurrentIs DEF JInv, Types, TrackRecords
    <3>2. [Thrown(c, "CANCELLED") EXCEPT !.chunks = [call[c] EXCEPT !.pc = "feed"].chunks]
             = Thrown(c, "CANCELLED")
      BY CurrentIs, Zenon DEF Callers, Thrown
    <3>3. Fail(c, "CANCELLED") /\ log' = [log EXCEPT ![c] = Append(@, event)]
      BY <1>3, <2>1, <3>2, Zenon DEF Send, Fail
    <3> QED
      BY <1>0, <1>3, <3>1, <3>3, ResponseRead, FailKeeps, Zenon DEF Statuses
  <2>2. CASE ~gone[c]
    BY <1>0, <1>3, <2>2, HypothesisKeeps, Zenon DEF Send
  <2> QED
    BY <2>1, <2>2
<1> QED
  BY <1>1, <1>2, <1>3 DEF Infers

-----------------------------------------------------------------------------
(* The end of a call.                                                          *)

\* Pipeline::finish turns to the first Track.
LEMMA FinishKeeps ==
    ASSUME IInv, JInv, NEW c \in Calls, FinishSource(c)
    PROVE  JInv'
<1>0. /\ call[c].pc = "finish" /\ Inner(c) /\ ~Now(c, "answer")
      /\ UNCHANGED <<wire, hand, dog, track, gone, log>>
  BY DEF FinishSource, Now, Inner, workerVars
<1>1. CASE Fail(c, "FAILED")
  BY <1>0, <1>1, NothingMoves, FailKeeps, Zenon DEF Statuses
<1>2. CASE call' = [call EXCEPT ![c].pc = "feed", ![c].task = 1, ![c].closing = TRUE,
                                ![c].decoding = FALSE]
  <2> DEFINE q == [call[c] EXCEPT !.pc = "feed", !.task = 1, !.closing = TRUE, !.decoding = FALSE]
  <2>1. /\ q \in Callers /\ q.pc = "feed" /\ q.tasks = call[c].tasks /\ q.task = 1
        /\ q.closing /\ q.chunks = call[c].chunks /\ q.status = call[c].status
        /\ q.finish = call[c].finish /\ call' = [call EXCEPT ![c] = q]
    BY <1>2, CurrentIs, Zenon DEF Callers
  <2> HIDE DEF q
  <2>2. call[c].status = "OK" /\ ~call[c].closing /\ Progress(q)
    BY <1>0, <2>1, CurrentIs, Zenon DEF CallInv, Progress, AtEnd
  <2>3. Local(c) /\ \A t \in TracksOf(c) : SameTrack(t)
    BY <1>0, NothingMoves, Zenon DEF SameTrack
  <2>4. \A i \in 1..call[c].tasks : ~Sent(call[c], i) /\ ~Over(q, i)
    <3> TAKE i \in 1..call[c].tasks
    <3>1. ~(i < 1)
      BY CurrentTrack
    <3> QED
      BY <2>1, <2>2, <3>1, ZenonT(60) DEF Sent, Over, AtEnd
  <2>5. Good(call[c])
    BY <2>2 DEF Good
  <2>6. q.pc \notin {"open", "answer", "terminal", "returned"}
    BY <2>1
  <2> QED
    BY <1>0, <2>1, <2>2, <2>3, <2>4, <2>5, <2>6, QuietKeeps, Zenon
<1> QED
  BY <1>1, <1>2 DEF FinishSource

\* The finish of a Track counts its windows.
LEMMA SendFinishKeeps ==
    ASSUME IInv, JInv, NEW c \in Calls, SendFinish(c)
    PROVE  JInv'
<1> DEFINE s == Current(c)
<1>0. call[c].pc = "feed" /\ call[c].closing /\ Inner(c) /\ UNCHANGED <<hand, dog, gone, log>>
  BY DEF SendFinish, Now, Inner
<1>1. CASE Dead(s) /\ Failed(c, s) /\ UNCHANGED wire
  BY <1>0, <1>1, FailedKeeps
<1>2. CASE WriteSent(s, Finish(track[s].count)) /\ Go(c, "closed") /\ UNCHANGED track
  <2> DEFINE q == [call[c] EXCEPT !.pc = "closed"]
             m == Finish(track[s].count)
  <2>1. /\ q \in Callers /\ q.pc = "closed" /\ q.tasks = call[c].tasks /\ q.task = call[c].task
        /\ q.closing = call[c].closing /\ q.chunks = call[c].chunks /\ q.status = call[c].status
        /\ q.finish = call[c].finish /\ call' = [call EXCEPT ![c] = q]
    BY <1>2, CurrentIs DEF Callers, Go
  <2>2. m \in Requests /\ m.n = track[s].count
    BY CurrentIs DEF Finish, Requests, TrackRecords
  <2>3. PICK w \in Wires : /\ w.status = wire[s].status /\ Elems(w.req) = Elems(wire[s].req) \cup {m}
                           /\ wire' = [wire EXCEPT ![s] = w]
    BY <1>2, <2>2, WriteIs, Zenon
  <2> HIDE DEF q, m
  <2>4. Local(c)
    <3>1. /\ track[s] \in TrackRecords /\ track[s].count <= track[s].cut
          /\ track' = [track EXCEPT ![s] = track[s]]
      BY <1>2, CurrentIs
    <3> QED
      BY <1>0, <2>3, <3>1, CurrentMoves, Zenon
  <2>5. /\ s \in Streams /\ track'[s] = track[s] /\ wire'[s] = w /\ hand'[s] = hand[s]
        /\ \A x \in Streams \ {s} : track'[x] = track[x] /\ wire'[x] = wire[x] /\ hand'[x] = hand[x]
    BY <1>0, <1>2, <2>3, CurrentIs DEF JInv, Types
  <2>6. Progress(q) /\ Ledger(q, gone[c], log[c])
    <3>1. Progress(q)
      BY <1>0, <2>1, CurrentIs, Zenon DEF CallInv, Progress, AtEnd
    <3> QED
      BY <1>0, <2>1, <3>1, CurrentIs, LedgerStays DEF CallInv
  <2>7. Moves(c, q, log[c])
    BY <1>0, <2>1, CurrentIs DEF Moves
  <2>8. Good(call[c]) /\ Good(q)
    BY <1>0, <2>1 DEF Good
  <2>9. ASSUME NEW i \in 1..call[c].tasks
        PROVE  Whole(q, i, track'[Track(c, i)], wire'[Track(c, i)], hand'[Track(c, i)], log[c])
    <3>1. CASE i # call[c].task
      BY <2>1, <2>5, <2>8, <3>1, OtherTracks, Zenon
    <3>2. CASE i = call[c].task
      <4>1. Whole(call[c], i, track[s], wire[s], hand[s], log[c]) /\ s = Track(c, i)
        BY <3>2, CurrentIs
      <4>2. ~Sent(call[c], i) /\ Sent(q, i) /\ ~Over(q, i)
        BY <1>0, <2>1, <3>2, CurrentIs DEF Sent, Over, AtEnd
      <4> HIDE DEF s
      <4>3. Whole(q, i, track[s], w, hand[s], log[c])
        BY <1>0, <2>1, <2>2, <2>3, <2>8, <3>2, <4>1, <4>2, Zenon DEF Whole
      <4> QED
        BY <2>5, <4>1, <4>3, Zenon
    <3> QED
      BY <3>1, <3>2
  <2> QED
    BY <2>1, <2>4, <2>6, <2>7, <2>9, OnlyCall, Zenon
<1> QED
  BY <1>0, <1>1, <1>2 DEF SendFinish

\* Only the worker's own OK takes the call past a Track.
LEMMA CheckStatusKeeps ==
    ASSUME IInv, JInv, NEW c \in Calls, CheckStatus(c)
    PROVE  JInv'
<1> DEFINE s == Current(c)
           t == [track[s] EXCEPT !.state = "done"]
<1>0. /\ call[c].pc = "status" /\ Inner(c) /\ ~Now(c, "answer") /\ call[c].closing
      /\ UNCHANGED <<wire, hand, dog, gone, log>>
  BY CurrentIs DEF CheckStatus, Now, Inner, workerVars, CallInv, Progress
<1>1. /\ t \in TrackRecords /\ t.count = track[s].count /\ t.cut = track[s].cut /\ t.count <= t.cut
      /\ track' = [track EXCEPT ![s] = t]
  BY CurrentIs DEF CheckStatus, TrackRecords
<1> HIDE DEF t
<1>2. Local(c)
  BY <1>0, <1>1, CurrentIs, CurrentMoves, Zenon
<1>3. PICK status \in FinalStatus(s) :
         IF status # "OK" THEN Fail(c, status)
         ELSE \/ call' = [call EXCEPT ![c].pc = IF call[c].task < call[c].tasks THEN "feed" ELSE "judge",
                                      ![c].task = IF @ < call[c].tasks THEN @ + 1 ELSE @]
              \/ Fail(c, "FAILED")
              \/ Fail(c, "CANCELLED")
  BY Zenon DEF CheckStatus
<1>4. CASE status # "OK"
  <2>1. status \in Statuses \ {"OK"}
    BY <1>4, CurrentIs DEF FinalStatus, Ended, Wires, Statuses
  <2> QED
    BY <1>0, <1>2, <1>3, <1>4, <2>1, FailKeeps
<1>6. CASE Fail(c, "FAILED") \/ Fail(c, "CANCELLED")
  BY <1>0, <1>2, <1>6, FailKeeps DEF Statuses
<1>5. CASE /\ status = "OK"
           /\ call' = [call EXCEPT ![c].pc = IF call[c].task < call[c].tasks THEN "feed" ELSE "judge",
                                     ![c].task = IF @ < call[c].tasks THEN @ + 1 ELSE @]
  <2>1. wire[s].status = "OK"
    BY <1>5 DEF FinalStatus
  <2> DEFINE pc == IF call[c].task < call[c].tasks THEN "feed" ELSE "judge"
             n == IF call[c].task < call[c].tasks THEN call[c].task + 1 ELSE call[c].task
             q == [call[c] EXCEPT !.pc = pc, !.task = n]
  <2>2. call[c].task \in Nat /\ call[c].tasks \in Nat /\ call[c].task <= call[c].tasks
    BY CurrentTrack
  <2>9. pc \in {"feed", "judge"} /\ n \in Nat /\ call[c] \in Callers /\ call' = [call EXCEPT ![c] = q]
    <3>1. pc \in {"feed", "judge"}
      OBVIOUS
    <3>2. n \in Nat
      BY <2>2
    <3>3. call[c] \in Callers
      BY CurrentIs
    <3>4. call' = [call EXCEPT ![c] = q]
      BY <1>3, <1>5, Zenon
    <3> QED
      BY <3>1, <3>2, <3>3, <3>4
  <2>3. /\ q \in Callers /\ q.tasks = call[c].tasks
        /\ q.pc = pc /\ q.task = n
        /\ q.closing = call[c].closing /\ q.chunks = call[c].chunks /\ q.status = call[c].status
        /\ q.finish = call[c].finish /\ call' = [call EXCEPT ![c] = q]
    <3> HIDE DEF pc, n
    <3> QED
      BY <2>9, Zenon DEF Callers
  <2> HIDE DEF q
  <2>4. Progress(q)
    <3>1. Progress(call[c]) /\ call[c].closing /\ call[c].pc = "status"
      BY <1>0, CurrentIs DEF CallInv
    <3>2. call[c].finish /\ call[c].status = "OK"
      BY <3>1 DEF Progress, AtEnd
    <3>3. q.closing /\ q.finish /\ q.status = "OK"
      BY <2>3, <3>1, <3>2, Zenon
    <3>4. q.pc = "feed" \/ (q.pc = "judge" /\ q.task = q.tasks)
      BY <2>2, <2>3
    <3> QED
      BY <3>3, <3>4 DEF Progress, AtEnd
  <2>5. Good(call[c])
    BY <1>0 DEF Good
  <2>6. ASSUME NEW x \in TracksOf(c)
        PROVE  SameTrack(x)
    <3>1. x \in Streams
      BY IngestAssumption, Zenon DEF IInv, Undialled, TracksOf
    <3> QED
      BY <1>0, <1>1, <3>1 DEF SameTrack, JInv, Types
  <2>7. ASSUME NEW i \in 1..call[c].tasks
        PROVE  /\ Sent(call[c], i) => Sent(q, i)
               /\ Over(q, i) => Over(call[c], i) \/ wire[Track(c, i)].status = "OK"
    <3>1. Over(q, i) => i < call[c].task \/ i = call[c].task
      BY <2>2, <2>3 DEF Over, AtEnd
    <3>2. Sent(call[c], i) => Sent(q, i)
      BY <1>0, <2>2, <2>3 DEF Sent, AtEnd
    <3>3. i = call[c].task => wire[Track(c, i)].status = "OK"
      BY <2>1 DEF Current
    <3>4. i < call[c].task => Over(call[c], i)
      BY <1>0, ZenonT(60) DEF Over
    <3> QED
      BY <3>1, <3>2, <3>3, <3>4, ZenonT(60)
  <2>8. q.pc \notin {"open", "answer", "terminal", "returned"}
    BY <2>3
  <2> QED
    BY <1>0, <1>2, <2>3, <2>4, <2>5, <2>6, <2>7, <2>8, QuietKeeps, Zenon
<1> QED
  BY <1>3, <1>4, <1>5, <1>6

\* The Tracks of a call that threw are dropped.
LEMMA UnwindKeeps ==
    ASSUME IInv, JInv, NEW c \in Calls, Unwind(c)
    PROVE  JInv'
<1> DEFINE q == [call[c] EXCEPT !.pc = "judge"]
<1>0. call[c].pc = "unwind" /\ UNCHANGED <<hand, dog, gone, log>>
  BY Zenon DEF Unwind, Now
<1>1. /\ q \in Callers /\ q.pc = "judge" /\ q.tasks = call[c].tasks /\ q.status = call[c].status
      /\ q.closing = call[c].closing /\ q.chunks = call[c].chunks /\ call' = [call EXCEPT ![c] = q]
  BY CurrentIs, Zenon DEF Callers, Unwind, Go
<1> HIDE DEF q
<1>2. Progress(q) /\ ~Good(q)
  BY <1>0, <1>1, CurrentIs, Zenon DEF CallInv, Progress, AtEnd, Good
<1>3. Ledger(q, gone[c], log[c])
  BY <1>0, <1>1, CurrentIs, LedgerStays DEF CallInv
<1>4. Moves(c, q, log[c])
  BY <1>0, <1>1, CurrentIs DEF Moves
<1>5. Local(c)
  <2> DEFINE live == {s \in TracksOf(c) : track[s].state = "live"}
  <2>1. track' = [s \in Streams |-> IF s \in live THEN [NoTrack EXCEPT !.state = "done"] ELSE track[s]]
    BY Zenon DEF Unwind
  <2>2. wire' = [s \in Streams |-> IF s \in live THEN [wire[s] EXCEPT !.cut = TRUE, !.resp = << >>]
                                   ELSE wire[s]]
    BY Zenon DEF Unwind
  <2>3. live \subseteq TracksOf(c)
    OBVIOUS
  <2>4. /\ [NoTrack EXCEPT !.state = "done"] \in TrackRecords
        /\ [NoTrack EXCEPT !.state = "done"].count <= [NoTrack EXCEPT !.state = "done"].cut
    BY IngestAssumption DEF NoTrack, TrackRecords
  <2>5. ASSUME NEW s \in Streams
        PROVE  /\ [wire[s] EXCEPT !.cut = TRUE, !.resp = << >>] \in Wires
               /\ [wire[s] EXCEPT !.cut = TRUE, !.resp = << >>].status = wire[s].status
    <3>1. wire[s] \in Wires /\ << >> \in Seq(Responses)
      BY DEF JInv, Types
    <3> QED
      BY <3>1, Zenon DEF Wires
  <2> HIDE DEF live
  <2>6. /\ track' \in [Streams -> TrackRecords] /\ \A s \in Streams : track'[s].count <= track'[s].cut
        /\ \A s \in Streams \ TracksOf(c) : track'[s] = track[s]
    BY <2>1, <2>3, <2>4 DEF JInv, Types, Ends
  <2>7. /\ wire' \in [Streams -> Wires] /\ \A s \in Streams : wire'[s].status = wire[s].status
        /\ \A s \in Streams \ TracksOf(c) : wire'[s] = wire[s]
    BY <2>2, <2>3, <2>5, Zenon DEF JInv, Types
  <2> QED
    BY <1>0, <2>6, <2>7 DEF Local, JInv, Types
<1> QED
  BY <1>1, <1>2, <1>3, <1>4, <1>5, OnlyCall, Zenon DEF Whole

\* The Tracks of a call at its end.
LEMMA WholeAtEnd ==
    ASSUME IInv, JInv, NEW c \in Calls, NEW q, NEW i \in 1..call[c].tasks,
           AtEnd(call[c]), AtEnd(q), q.task = call[c].task, q.closing = call[c].closing,
           q.status = "OK" => call[c].status = "OK"
    PROVE  Whole(q, i, track[Track(c, i)], wire[Track(c, i)], hand[Track(c, i)], log[c])
<1>1. Whole(call[c], i, track[Track(c, i)], wire[Track(c, i)], hand[Track(c, i)], log[c])
  BY Zenon DEF JInv, CallInv
<1>2. /\ Good(q) => Good(call[c])
      /\ Sent(call[c], i) => Sent(q, i)
      /\ Over(q, i) => Over(call[c], i)
      /\ q.pc # "answer" /\ call[c].pc # "answer"
  BY Zenon DEF Good, Sent, Over, AtEnd
<1> QED
  BY <1>1, <1>2, WholeStays, Zenon

\* The last word on a call's status is published as its terminal event.
LEMMA JudgeKeeps ==
    ASSUME IInv, JInv, NEW c \in Calls, Judge(c)
    PROVE  JInv'
<1>0. call[c].pc = "judge" /\ UNCHANGED <<wire, hand, dog, track, gone>>
  BY DEF Judge, Now, workerVars
<1>1. PICK hash \in IF call[c].status = "OK" THEN {"OK", "FAILED"} ELSE {call[c].status} :
         /\ call' = [call EXCEPT ![c].pc = "terminal", ![c].status = IF gone[c] THEN "CANCELLED" ELSE hash]
         /\ log' = [log EXCEPT ![c] = Append(@, [Event("closed", call[c].chunks)
                                EXCEPT !.status = IF gone[c] THEN "CANCELLED" ELSE hash])]
  BY Zenon DEF Judge
<1> DEFINE status == IF gone[c] THEN "CANCELLED" ELSE hash
           q == [call[c] EXCEPT !.pc = "terminal", !.status = status]
           e == [Event("closed", call[c].chunks) EXCEPT !.status = status]
<1>2. status \in Statuses /\ (status = "OK" => call[c].status = "OK")
  BY <1>1, CurrentIs DEF Statuses, Callers
<1>3. /\ call' = [call EXCEPT ![c] = q] /\ log' = [log EXCEPT ![c] = Append(log[c], e)]
  BY <1>1, Zenon
<1> HIDE DEF status
<1>4. /\ q \in Callers /\ q.pc = "terminal" /\ q.tasks = call[c].tasks /\ q.status = status
      /\ q.task = call[c].task /\ q.finish = call[c].finish
      /\ q.closing = call[c].closing /\ q.chunks = call[c].chunks
  BY <1>2, CurrentIs, Zenon DEF Callers
<1>5. e \in Events /\ e.kind = "closed" /\ e.n = call[c].chunks /\ e.status = status
  BY <1>2, CurrentIs DEF Event, Events, Callers
<1> HIDE DEF q, e
<1>6. Append(log[c], e) \in Seq(Events)
  BY <1>5, CurrentIs
<1>7. Progress(q) /\ (q.status = "OK" => q.closing)
  BY <1>0, <1>2, <1>4, CurrentIs, Zenon DEF CallInv, Progress, AtEnd
<1>8. Ledger(q, gone[c], Append(log[c], e))
  BY <1>0, <1>4, <1>5, <1>7, CurrentIs, Counted, LedgerCloses, ZenonT(60) DEF CallInv
<1>9. Moves(c, q, Append(log[c], e)) /\ Local(c)
  BY <1>0, <1>3, <1>4, <1>6, NothingMoves DEF Moves
<1>10. ASSUME NEW i \in 1..call[c].tasks
       PROVE  Whole(q, i, track'[Track(c, i)], wire'[Track(c, i)], hand'[Track(c, i)], Append(log[c], e))
  <2>1. Whole(q, i, track[Track(c, i)], wire[Track(c, i)], hand[Track(c, i)], log[c])
    BY <1>0, <1>2, <1>4, WholeAtEnd, Zenon DEF AtEnd
  <2>2. e # Event("hypothesis", i) /\ log[c] \in Seq(Events)
    BY <1>5, CurrentIs DEF Event
  <2>3. Whole(q, i, track[Track(c, i)], wire[Track(c, i)], hand[Track(c, i)], Append(log[c], e))
    BY <1>5, <2>1, <2>2, Counted, WholeLogs, Zenon
  <2> QED
    BY <1>0, <2>3, Zenon
<1> QED
  BY <1>4, <1>7, <1>8, <1>9, <1>10, OnlyCall, Zenon

\* The RPC returns.
LEMMA TerminalKeeps ==
    ASSUME IInv, JInv, NEW c \in Calls, Terminal(c)
    PROVE  JInv'
<1> DEFINE status == IF gone[c] /\ call[c].status = "OK" THEN "CANCELLED" ELSE call[c].status
           q == [call[c] EXCEPT !.pc = "returned", !.status = status]
<1>0. call[c].pc = "terminal" /\ UNCHANGED <<wire, hand, dog, track, gone, log>>
  BY DEF Terminal, Now, workerVars
<1>1. status \in Statuses /\ (status = "OK" => call[c].status = "OK")
      /\ (status = call[c].status \/ (gone[c] /\ status = "CANCELLED"))
  BY CurrentIs DEF Statuses, Callers
<1>2. call' = [call EXCEPT ![c] = q]
  BY Zenon DEF Terminal
<1> HIDE DEF status
<1>3. /\ q \in Callers /\ q.pc = "returned" /\ q.tasks = call[c].tasks /\ q.status = status
      /\ q.task = call[c].task /\ q.finish = call[c].finish
      /\ q.closing = call[c].closing /\ q.chunks = call[c].chunks
  BY <1>1, CurrentIs, Zenon DEF Callers
<1> HIDE DEF q
<1>4. Progress(q)
  BY <1>0, <1>1, <1>3, CurrentIs, Zenon DEF CallInv, Progress, AtEnd
<1>5. Ledger(q, gone[c], log[c])
  <2>1. Ledger(call[c], gone[c], log[c])
    BY CurrentIs DEF CallInv
  <2>2. log[c] # << >>
    BY <1>0, <2>1, Zenon DEF Ledger
  <2> QED
    BY <1>0, <1>1, <1>3, <2>1, <2>2, Zenon DEF Ledger
<1>6. Moves(c, q, log[c]) /\ Local(c)
  BY <1>0, <1>2, <1>3, CurrentIs, NothingMoves DEF Moves
<1>7. ASSUME NEW i \in 1..call[c].tasks
      PROVE  Whole(q, i, track'[Track(c, i)], wire'[Track(c, i)], hand'[Track(c, i)], log[c])
  <2>1. Whole(q, i, track[Track(c, i)], wire[Track(c, i)], hand[Track(c, i)], log[c])
    BY <1>0, <1>1, <1>3, WholeAtEnd, Zenon DEF AtEnd
  <2> QED
    BY <1>0, <2>1, Zenon
<1> QED
  BY <1>3, <1>4, <1>5, <1>6, <1>7, OnlyCall, Zenon

\* The steps of the RPC thread.
LEMMA ThreadKeeps ==
    ASSUME IInv, JInv, NEW c \in Calls, Thread(c)
    PROVE  JInv'
<1>1. CASE \/ ReadEnds(c) \/ DecodeMore(c) \/ DecodeFails(c) \/ DecodeAudio(c)
           \/ FeedFails(c) \/ Fed(c)
  BY <1>1, DecoderKeeps
<1>2. CASE Handshake(c)
  BY <1>2, ExpectKeeps, ZenonT(60) DEF Handshake, Now
<1>3. CASE AwaitClosed(c)
  BY <1>3, ExpectKeeps DEF AwaitClosed, Now
<1> QED
  BY <1>1, <1>2, <1>3, DialKeeps, CutKeeps, InfersKeeps, FinishKeeps, SendFinishKeeps,
     CheckStatusKeeps, UnwindKeeps, JudgeKeeps, TerminalKeeps DEF Thread

-----------------------------------------------------------------------------
(* The worker and the rivals.                                                  *)

\* A handler asks nothing of itself, and OK is its own count of the windows.
Honest(s, w, h) ==
    /\ w \in Wires /\ h \in Handlers /\ (w.status # None <=> h.pc = "ended")
    /\ \A m \in Elems(w.req) \cup {h.msg} :
          m.kind = "finish" => m \in Elems(wire[s].req) \cup {hand[s].msg}
    /\ wire[s].status = "OK" => w.status = "OK"
    /\ w.status = "OK" => \/ wire[s].status = "OK" /\ h.count = hand[s].count
                          \/ hand[s].msg.kind = "finish" /\ hand[s].msg.n = h.count

\* What is left to show of a step of a handler.
LEMMA OnlyHandler ==
    ASSUME IInv, JInv, NEW s \in Streams, NEW w, NEW h, Honest(s, w, h),
           wire' = [wire EXCEPT ![s] = w], hand' = [hand EXCEPT ![s] = h],
           dog' \in [Streams -> {"none", "armed", "fired", "over"}], UNCHANGED callVars
    PROVE  JInv'
<1>0. UNCHANGED <<call, track, gone, log>>
  BY DEF callVars
<1>1. /\ wire'[s] = w /\ hand'[s] = h
      /\ \A x \in Streams \ {s} : wire'[x] = wire[x] /\ hand'[x] = hand[x]
      /\ wire' \in [Streams -> Wires] /\ hand' \in [Streams -> Handlers]
  BY ZenonT(60) DEF Honest, JInv, Types
<1>2. Types'
  BY <1>0, <1>1 DEF JInv, Types
<1>3. Ends'
  BY <1>0, <1>1, Zenon DEF JInv, Ends, Ended, Honest
<1>4. ASSUME NEW c \in Calls
      PROVE  CallInv(c)'
  <2>1. CallInv(c) /\ \A i \in 1..call[c].tasks : Track(c, i) \in Streams
    BY IngestAssumption, Zenon DEF JInv, IInv, Undialled
  <2>2. ASSUME NEW i \in 1..call[c].tasks
        PROVE  Whole(call[c], i, track[Track(c, i)], wire'[Track(c, i)], hand'[Track(c, i)], log[c])
    <3>1. Whole(call[c], i, track[Track(c, i)], wire[Track(c, i)], hand[Track(c, i)], log[c])
      BY <2>1, Zenon DEF CallInv
    <3>2. CASE Track(c, i) # s
      BY <1>1, <2>1, <3>1, <3>2, Zenon
    <3>3. CASE Track(c, i) = s
      <4>1. Whole(call[c], i, track[s], w, h, log[c])
        BY <3>1, <3>3, Zenon DEF Whole, Honest
      <4> QED
        BY <1>1, <3>3, <4>1, Zenon
    <3> QED
      BY <3>2, <3>3, Zenon
  <2> QED
    BY <1>0, <2>1, <2>2, Zenon DEF CallInv, Answering, Now, Current
<1> QED
  BY <1>2, <1>3, <1>4 DEF JInv

\* A handler that returns something else than OK.
LEMMA ReturnKeeps ==
    ASSUME IInv, JInv, NEW s \in Streams, NEW status \in {"FAILED", "CANCELLED"}, Return(s, status),
           dog' \in [Streams -> {"none", "armed", "fired", "over"}], UNCHANGED callVars,
           hand[s].pc # "ended"
    PROVE  JInv'
<1> DEFINE w == [wire[s] EXCEPT !.status = status, !.req = << >>]
           h == [Idle EXCEPT !.pc = "ended"]
<1>1. wire[s] \in Wires /\ wire[s].status = None
  BY DEF JInv, Types, Ends, Ended
<1>2. /\ w \in Wires /\ w.status = status /\ w.req = << >> /\ Elems(w.req) = {}
      /\ h \in Handlers /\ h.pc = "ended" /\ h.msg = End /\ End.kind = "end"
  <2>1. << >> \in Seq(Requests) /\ Elems(<< >>) = {}
    BY DEF Elems
  <2>2. w \in Wires /\ w.status = status /\ w.req = << >>
    BY <1>1, <2>1, Zenon DEF Wires, Statuses
  <2>3. h \in Handlers /\ h.pc = "ended" /\ h.msg = End /\ End.kind = "end"
    BY DEF Idle, Handlers, End
  <2> QED
    BY <2>1, <2>2, <2>3
<1>3. wire' = [wire EXCEPT ![s] = w] /\ hand' = [hand EXCEPT ![s] = h]
  BY Zenon DEF Return
<1> HIDE DEF w, h
<1>4. status # None /\ None # "OK"
  BY WorkerAssumption
<1>5. Honest(s, w, h)
  BY <1>1, <1>2, <1>4 DEF Honest
<1> QED
  BY <1>3, <1>5, OnlyHandler, Zenon

\* A response, and the next read.
LEMMA AnswerKeeps ==
    ASSUME IInv, JInv, NEW s \in Streams, NEW response \in Responses, NEW count \in Nat,
           Answer(s, response, count), UNCHANGED callVars, hand[s].pc \in {"join", "infer"}
    PROVE  JInv'
<1>0. dog' \in [Streams -> {"none", "armed", "fired", "over"}]
  BY DEF Answer, NoDog, JInv, Types
<1>1. CASE Return(s, "CANCELLED")
  BY <1>0, <1>1, ReturnKeeps
<1>2. CASE /\ wire' = [wire EXCEPT ![s].resp = Append(@, response)]
           /\ hand' = [hand EXCEPT ![s].pc = "read", ![s].msg = End, ![s].count = count]
  <2> DEFINE w == [wire[s] EXCEPT !.resp = Append(@, response)]
             h == [hand[s] EXCEPT !.pc = "read", !.msg = End, !.count = count]
  <2>1. wire[s] \in Wires /\ wire[s].status = None /\ wire[s].resp \in Seq(Responses) /\ hand[s] \in Handlers
    BY Zenon DEF JInv, Types, Ends, Ended, Wires
  <2>2. Append(wire[s].resp, response) \in Seq(Responses)
    BY <2>1, ElemsOf, Zenon
  <2>3. /\ w \in Wires /\ w.status = None /\ w.req = wire[s].req
        /\ h \in Handlers /\ h.pc = "read" /\ h.msg = End /\ End.kind = "end"
    BY <2>1, <2>2, Zenon DEF Wires, Handlers, End
  <2>4. wire' = [wire EXCEPT ![s] = w] /\ hand' = [hand EXCEPT ![s] = h]
    BY <1>2, Zenon
  <2> HIDE DEF w, h
  <2>5. Honest(s, w, h)
    BY <2>1, <2>3, WorkerAssumption, Zenon DEF Honest
  <2> QED
    BY <1>0, <2>4, <2>5, OnlyHandler, Zenon
<1> QED
  BY <1>1, <1>2 DEF Answer

\* The handler moves within the RPC.
LEMMA HandlerMoves ==
    ASSUME IInv, JInv, NEW s \in Streams, NEW pc \in {"read", "refused", "infer"}, hand[s].pc # "ended",
           hand' = [hand EXCEPT ![s].pc = pc], UNCHANGED wire,
           dog' \in [Streams -> {"none", "armed", "fired", "over"}], UNCHANGED callVars
    PROVE  JInv'
<1> DEFINE h == [hand[s] EXCEPT !.pc = pc]
<1>1. /\ wire[s] \in Wires /\ wire[s].status = None /\ hand[s] \in Handlers
      /\ wire' = [wire EXCEPT ![s] = wire[s]]
  BY DEF JInv, Types, Ends, Ended
<1>2. h \in Handlers /\ h.pc = pc /\ h.msg = hand[s].msg /\ h.count = hand[s].count
      /\ hand' = [hand EXCEPT ![s] = h]
  BY <1>1 DEF Handlers
<1> HIDE DEF h
<1>3. Honest(s, wire[s], h)
  BY <1>1, <1>2, WorkerAssumption DEF Honest
<1> QED
  BY <1>1, <1>2, <1>3, OnlyHandler, Zenon

\* Every step of a handler.
LEMMA HandlerKeeps ==
    ASSUME IInv, JInv, NEW s \in Streams, Handler(s), UNCHANGED callVars
    PROVE  JInv'
<1>0. /\ wire[s] \in Wires /\ hand[s] \in Handlers /\ wire[s].req \in Seq(Requests)
      /\ hand[s].count \in Nat /\ hand[s].msg \in Requests \cup {End}
      /\ wire[s].status # None <=> hand[s].pc = "ended"
      /\ wire = [wire EXCEPT ![s] = wire[s]] /\ hand = [hand EXCEPT ![s] = hand[s]]
  BY Zenon DEF JInv, Types, Wires, Handlers, Ends, Ended
<1>1. dog' \in [Streams -> {"none", "armed", "fired", "over"}]
  BY Zenon DEF Handler, Admit, Refuse, TryCancel, Read, OpenTrack, InputEnded, Close, TakeSlot, Infer,
         Answer, NoDog, JInv, Types
<1>2. CASE Admit(s)
  BY <1>1, <1>2, HandlerMoves, Zenon DEF Admit
<1>3. CASE Refuse(s)
  BY <1>1, <1>3, ReturnKeeps DEF Refuse
<1>4. CASE TryCancel(s)
  <2> DEFINE w == [wire[s] EXCEPT !.cut = TRUE]
  <2>1. w \in Wires /\ w.status = wire[s].status /\ w.req = wire[s].req
    BY <1>0, Zenon DEF Wires
  <2>2. wire' = [wire EXCEPT ![s] = w] /\ hand' = [hand EXCEPT ![s] = hand[s]]
    BY <1>0, <1>4 DEF TryCancel
  <2> HIDE DEF w
  <2>3. Honest(s, w, hand[s])
    BY <1>0, <2>1 DEF Honest
  <2> QED
    BY <1>1, <2>2, <2>3, OnlyHandler, Zenon
<1>5. CASE Read(s)
  <2>0. hand[s].pc = "read" /\ wire[s].status = None
    BY <1>0, <1>5 DEF Read
  <2>1. CASE /\ wire[s].req # << >>
             /\ hand' = [hand EXCEPT ![s].pc = "join", ![s].msg = Head(wire[s].req)]
             /\ wire' = [wire EXCEPT ![s].req = Tail(@)]
    <3> DEFINE w == [wire[s] EXCEPT !.req = Tail(@)]
               h == [hand[s] EXCEPT !.pc = "join", !.msg = Head(wire[s].req)]
    <3>1. /\ Head(wire[s].req) \in Elems(wire[s].req) /\ Head(wire[s].req) \in Requests
          /\ Tail(wire[s].req) \in Seq(Requests) /\ Elems(Tail(wire[s].req)) \subseteq Elems(wire[s].req)
      BY <1>0, <2>1, ElemsOf
    <3>2. /\ w \in Wires /\ w.status = None /\ w.req = Tail(wire[s].req)
          /\ h \in Handlers /\ h.pc = "join" /\ h.msg = Head(wire[s].req)
      BY <1>0, <2>0, <3>1, Zenon DEF Wires, Handlers
    <3>3. wire' = [wire EXCEPT ![s] = w] /\ hand' = [hand EXCEPT ![s] = h]
      BY <2>1, Zenon
    <3> HIDE DEF w, h
    <3>4. Honest(s, w, h)
      BY <2>0, <3>1, <3>2, WorkerAssumption, ZenonT(60) DEF Honest
    <3> QED
      BY <1>1, <3>3, <3>4, OnlyHandler, Zenon
  <2>2. CASE hand' = [hand EXCEPT ![s].pc = "join", ![s].msg = End] /\ UNCHANGED wire
    <3> DEFINE h == [hand[s] EXCEPT !.pc = "join", !.msg = End]
    <3>1. h \in Handlers /\ h.pc = "join" /\ h.msg = End /\ End.kind = "end"
      BY <1>0, Zenon DEF Handlers, End
    <3>2. wire' = [wire EXCEPT ![s] = wire[s]] /\ hand' = [hand EXCEPT ![s] = h]
      BY <1>0, <2>2, Zenon
    <3> HIDE DEF h
    <3>3. Honest(s, wire[s], h)
      BY <1>0, <2>0, <3>1, WorkerAssumption DEF Honest
    <3> QED
      BY <1>1, <3>2, <3>3, OnlyHandler, Zenon
  <2> QED
    BY <1>5, <2>1, <2>2 DEF Read
<1>6. CASE OpenTrack(s)
  <2>1. Opened \in Responses /\ 0 \in Nat
    BY DEF Opened, Responses
  <2> QED
    BY <1>1, <1>6, <2>1, AnswerKeeps, ReturnKeeps, ZenonT(60) DEF OpenTrack, Joined
<1>7. CASE InputEnded(s)
  BY <1>1, <1>7, ReturnKeeps, ZenonT(60) DEF InputEnded, Joined
<1>8. CASE Close(s)
  <2>0. hand[s].pc = "join" /\ hand[s].msg.kind = "finish" /\ wire[s].status = None
    BY <1>0, <1>8 DEF Close, Joined
  <2>1. CASE Return(s, "FAILED") \/ Return(s, "CANCELLED")
    BY <1>1, <2>0, <2>1, ReturnKeeps
  <2>2. CASE /\ hand[s].msg.n = hand[s].count
             /\ hand' = [hand EXCEPT ![s].pc = "ended", ![s].msg = End]
             /\ wire' = [wire EXCEPT ![s].resp = Append(@, Closed(hand[s].count)),
                                     ![s].status = "OK", ![s].req = << >>]
    <3> DEFINE w == [wire[s] EXCEPT !.resp = Append(@, Closed(hand[s].count)), !.status = "OK", !.req = << >>]
               h == [hand[s] EXCEPT !.pc = "ended", !.msg = End]
    <3>1. Append(wire[s].resp, Closed(hand[s].count)) \in Seq(Responses)
      <4>1. Closed(hand[s].count) \in Responses /\ wire[s].resp \in Seq(Responses)
        BY <1>0 DEF Closed, Responses, Wires
      <4> QED
        BY <4>1, ElemsOf
    <3>2. /\ w \in Wires /\ w.status = "OK" /\ w.req = << >> /\ Elems(<< >>) = {}
          /\ h \in Handlers /\ h.pc = "ended" /\ h.msg = End /\ h.count = hand[s].count /\ End.kind = "end"
      <4>1. << >> \in Seq(Requests) /\ Elems(<< >>) = {}
        BY DEF Elems
      <4>2. w \in Wires /\ w.status = "OK" /\ w.req = << >>
        BY <1>0, <3>1, <4>1, Zenon DEF Wires, Statuses
      <4>3. h \in Handlers /\ h.pc = "ended" /\ h.msg = End /\ h.count = hand[s].count /\ End.kind = "end"
        BY <1>0, Zenon DEF Handlers, End
      <4> QED
        BY <4>1, <4>2, <4>3
    <3>3. wire' = [wire EXCEPT ![s] = w] /\ hand' = [hand EXCEPT ![s] = h]
      BY <2>2, Zenon
    <3> HIDE DEF w, h
    <3>4. Honest(s, w, h)
      BY <2>0, <2>2, <3>2, WorkerAssumption DEF Honest
    <3> QED
      BY <1>1, <3>3, <3>4, OnlyHandler, Zenon
  <2> QED
    BY <1>8, <2>1, <2>2, Zenon DEF Close
<1>9. CASE TakeSlot(s)
  <2>1. CASE Return(s, "FAILED")
    BY <1>1, <1>9, <2>1, ReturnKeeps DEF TakeSlot, Joined
  <2>2. CASE hand' = [hand EXCEPT ![s].pc = "infer"] /\ UNCHANGED wire
    BY <1>1, <1>9, <2>2, HandlerMoves, Zenon DEF TakeSlot, Joined
  <2> QED
    BY <1>9, <2>1, <2>2 DEF TakeSlot
<1>10. CASE Infer(s)
  <2>1. hand[s].msg.n \in Nat /\ hand[s].count + 1 \in Nat
    BY <1>0 DEF Requests, End
  <2>2. Hypothesis(hand[s].msg.n) \in Responses
    BY <2>1, ZenonT(60) DEF Hypothesis, Responses
  <2> QED
    BY <1>1, <1>10, <2>1, <2>2, AnswerKeeps, ReturnKeeps, ZenonT(60) DEF Infer
<1> QED
  BY <1>2, <1>3, <1>4, <1>5, <1>6, <1>7, <1>8, <1>9, <1>10 DEF Handler

\* The worker's steps and the deadlines.
LEMMA WorkerStepKeeps ==
    ASSUME IInv, JInv, WorkerStep
    PROVE  JInv'
<1>1. ASSUME NEW s \in Streams, Expires(s)
      PROVE  JInv'
  <2>1. dog' \in [Streams -> {"none", "armed", "fired", "over"}] /\ UNCHANGED <<wire, hand, callVars>>
    BY <1>1 DEF Expires, WorkerStep, JInv, Types
  <2>2. UNCHANGED <<call, track, gone, log>>
    BY <2>1 DEF callVars
  <2>3. Types' /\ Ends'
    BY <2>1, <2>2 DEF JInv, Types, Ends, Ended
  <2>4. \A c \in Calls : CallInv(c)'
    BY <2>1, <2>2, Zenon DEF JInv, CallInv, Answering, Now, Current
  <2> QED
    BY <2>3, <2>4 DEF JInv
<1> QED
  BY <1>1, HandlerKeeps DEF WorkerStep

\* A rival's RPC is none of the calls'.
LEMMA RivalKeeps ==
    ASSUME IInv, JInv, NEW r \in Rivals, RivalDials(r)
    PROVE  JInv'
<1> DEFINE windows == [k \in 1..MaxWindows |-> Window(k)]
           req == <<Open>> \o windows \o <<Finish(MaxWindows)>>
<1>0. r \in Streams /\ hand[r].pc = "none" /\ UNCHANGED <<dog, call, track, gone, log>>
      /\ hand' = [hand EXCEPT ![r].pc = "start"] /\ wire' = [wire EXCEPT ![r].req = req]
  BY IngestAssumption DEF RivalDials, callVars
<1>1. req \in Seq(Requests)
  <2>1. MaxWindows \in Nat /\ Open \in Requests /\ Finish(MaxWindows) \in Requests
        /\ \A k \in 1..MaxWindows : Window(k) \in Requests
    BY IngestAssumption DEF Open, Finish, Window, Requests
  <2>2. windows \in Seq(Requests)
    BY <2>1
  <2>3. <<Open>> \in Seq(Requests) /\ <<Finish(MaxWindows)>> \in Seq(Requests)
    BY <2>1
  <2> HIDE DEF windows
  <2> QED
    BY <2>2, <2>3
<1> HIDE DEF req
<1>2. /\ wire' \in [Streams -> Wires] /\ hand' \in [Streams -> Handlers]
      /\ wire'[r].status = wire[r].status /\ hand'[r].pc = "start"
      /\ \A s \in Streams \ {r} : wire'[s] = wire[s] /\ hand'[s] = hand[s]
  <2> DEFINE w == [wire[r] EXCEPT !.req = req]
             h == [hand[r] EXCEPT !.pc = "start"]
  <2>1. w \in Wires /\ w.status = wire[r].status
    BY <1>0, <1>1, Zenon DEF JInv, Types, Wires
  <2>2. h \in Handlers /\ h.pc = "start"
    BY <1>0, Zenon DEF JInv, Types, Handlers
  <2>3. wire' = [wire EXCEPT ![r] = w] /\ hand' = [hand EXCEPT ![r] = h]
    BY <1>0
  <2> HIDE DEF w, h
  <2>4. wire \in [Streams -> Wires] /\ hand \in [Streams -> Handlers] /\ r \in Streams
    BY <1>0, Zenon DEF JInv, Types
  <2>5. wire' \in [Streams -> Wires] /\ wire'[r] = w /\ \A s \in Streams \ {r} : wire'[s] = wire[s]
    BY <2>1, <2>3, <2>4, Zenon
  <2>6. hand' \in [Streams -> Handlers] /\ hand'[r] = h /\ \A s \in Streams \ {r} : hand'[s] = hand[s]
    BY <2>2, <2>3, <2>4, Zenon
  <2> QED
    BY <2>1, <2>2, <2>5, <2>6, Zenon
<1>3. Types' /\ Ends'
  BY <1>0, <1>2 DEF JInv, Types, Ends, Ended
<1>4. ASSUME NEW c \in Calls
      PROVE  CallInv(c)'
  <2>1. \A i \in 1..call[c].tasks : Track(c, i) \in Streams \ {r}
    BY IngestAssumption, Zenon DEF IInv, Undialled
  <2> QED
    BY <1>0, <1>2, <2>1 DEF JInv, CallInv, Answering, Now, Current
<1> QED
  BY <1>3, <1>4 DEF JInv

\* Every step keeps what the calls, their Tracks and the worker agree on.
LEMMA NextJInv == IInv /\ JInv /\ [Next]_vars => JInv'
<1> SUFFICES ASSUME IInv, JInv, [Next]_vars PROVE JInv'
  OBVIOUS
<1>1. CASE UNCHANGED vars
  <2>1. UNCHANGED <<wire, hand, dog, call, track, gone, log>>
    BY <1>1 DEF vars, workerVars, callVars
  <2>2. Types' /\ Ends'
    BY <2>1 DEF JInv, Types, Ends, Ended
  <2>3. \A c \in Calls : CallInv(c)'
    BY <2>1, Zenon DEF JInv, CallInv, Answering, Now, Current
  <2> QED
    BY <2>2, <2>3 DEF JInv
<1>2. CASE \E c \in Calls : Client(c) \/ Thread(c)
  BY <1>2, ClientKeeps, ThreadKeeps
<1>3. CASE WorkerStep
  BY <1>3, WorkerStepKeeps
<1>4. CASE \E r \in Rivals : RivalDials(r)
  BY <1>4, RivalKeeps
<1> QED
  BY <1>1, <1>2, <1>3, <1>4 DEF Next, AllReturned

-----------------------------------------------------------------------------
(* The theorems.                                                               *)

INSTANCE FiniteSetTheorems

\* The library's facts about finite sets are the ones counted with.
LEMMA FiniteSetsCount == FiniteCounting
<1>1. /\ IsFiniteSet({}) /\ Cardinality({}) = 0
      /\ \A S : IsFiniteSet(S) => Cardinality(S) \in Nat /\ (Cardinality(S) = 0 => S = {})
  BY FS_EmptySet, FS_CardinalityType, Zenon
<1>2. ASSUME NEW S, IsFiniteSet(S), NEW T \in SUBSET S
      PROVE  IsFiniteSet(T) /\ Cardinality(T) <= Cardinality(S)
  BY <1>2, FS_Subset, Zenon
<1>3. \A S, x : IsFiniteSet(S) /\ x \notin S => Cardinality(S \cup {x}) = Cardinality(S) + 1
  BY FS_AddElement, Zenon
<1>4. \A S, x : IsFiniteSet(S) /\ x \in S => Cardinality(S \ {x}) = Cardinality(S) - 1
  BY FS_RemoveElement, Zenon
<1>5. ASSUME NEW n \in Nat PROVE IsFiniteSet(1..n)
  BY FS_Interval
<1> QED
  BY <1>1, <1>2, <1>3, <1>4, <1>5, Zenon DEF FiniteCounting

\* Whatever ends an RPC, and however many calls and rivals compete, the worker's
\* counter equals the handlers inside Transcribe, no more than MaxStreams are
\* admitted, and the inference slot is taken exactly while its holder infers.
THEOREM WorkerPlaces == Spec => []SlotsComeBack
<1>1. Init => IInv
  BY FiniteSetsCount, InitIInv
<1>2. IInv => SlotsComeBack
  BY DEF IInv, Safe
<1> QED
  BY <1>1, <1>2, NextIInv, PTL DEF Spec

\* No read deadline of any RPC outlives the read it was set for.
THEOREM DeadlineEndsWithRead == Spec => []WatchdogOnlyReads
<1>1. Init => IInv
  BY FiniteSetsCount, InitIInv
<1>2. IInv => WatchdogOnlyReads
  BY DEF IInv, Safe
<1> QED
  BY <1>1, <1>2, NextIInv, PTL DEF Spec

\* In every reachable state the records, the events, the Tracks and the worker's
\* ends of their RPCs agree.
THEOREM CallsAgree == Spec => [](IInv /\ JInv)
<1>1. Init => IInv /\ JInv
  BY FiniteSetsCount, InitIInv, InitJInv
<1>2. (IInv /\ JInv) /\ [Next]_vars => (IInv /\ JInv)'
  BY NextIInv, NextJInv
<1> QED
  BY <1>1, <1>2, PTL DEF Spec

\* However many calls, Tracks and rivals there are: a call that opened a stream
\* has exactly one terminal event, the last, that counts its source chunks and
\* carries the status that the RPC returns, unless the client left meanwhile.
THEOREM CallPublishesOneTerminal == Spec => []OneTerminalEvent
BY CallsAgree, TerminalFollows, PTL

\* A stream closed with OK is whole, for every call and every one of its Tracks:
\* the windows cut, the windows the worker inferred and the hypotheses published
\* are equally many, and the worker ended the RPC with OK itself.
THEOREM CallOkMeansWhole == Spec => []OkMeansWhole
BY CallsAgree, WholeFollows, PTL
=============================================================================
