------------------------------- MODULE Ingest -------------------------------
(* Ingest calls with speech: Service::process (service.cpp) on its RPC thread, *)
(* which runs the decoder, the Pipeline and its Tracks (pipeline.cpp) inline,  *)
(* against the speech worker.  Every Track is one Transcribe RPC of the worker *)
(* and talks to it in strict turns.  The registry is here the log of the       *)
(* events published for the call's stream (Registry.tla has the rest).         *)
(*                                                                             *)
(* What a client sends, what the decoder makes of it and where windows are cut *)
(* (Windowing.tla) are choices.                                                *)
EXTENDS SpeechWorker

CONSTANTS Calls,        \* Ingest calls
          Rivals,       \* RPCs other clients of the worker make
          Tasks,        \* how many speech tasks a call may have, a Track each
          MaxTracks,    \* Pipeline's limit on tracks
          MaxChunks, MaxWindows,  \* bounds: source chunks, windows of a track
          TasksBesideRivals       \* bound: tasks of a call while rivals come

VARIABLES call,         \* call[c]: the thread of Service::process
          track,        \* track[s]: a Track: state, windows cut, count_
          gone,         \* gone[c]: the client of c cancelled or disconnected
          log           \* log[c]: events published for c's stream

callVars == <<call, track, gone, log>>
vars == <<workerVars, callVars>>

\* The key of tracks_: the audio of a call is of one audio track, so its tasks tell
\* the Tracks apart.
Track(c, i) == <<c, i>>
TracksOf(c) == {Track(c, i) : i \in 1..call[c].tasks}

ASSUME IngestAssumption ==
    /\ Tasks \subseteq Nat \ {0}
    /\ Streams = Rivals \cup {Track(c, i) : c \in Calls, i \in UNION {1..n : n \in Tasks}}
    /\ \A c \in Calls, n \in Tasks : \A i \in 1..n : Track(c, i) \in Streams \ Rivals
    /\ {MaxTracks, MaxChunks, MaxWindows, TasksBesideRivals} \subseteq Nat

NoTrack == [state |-> "none", cut |-> 0, count |-> 0]

Init ==
    /\ WorkerInit
    /\ call \in [Calls -> [pc : {"open"}, status : {"OK"}, chunks : {0},
                            tasks : Tasks, task : {1},
                            decoding : {TRUE}, finish : {FALSE}, closing : {FALSE}]]
    /\ track = [s \in Streams |-> NoTrack]
    /\ gone = [c \in Calls |-> FALSE]
    /\ log = [c \in Calls |-> << >>]

Now(c, pc) == call[c].pc = pc
Go(c, pc) == call' = [call EXCEPT ![c].pc = pc]
Current(c) == Track(c, call[c].task)

\* An exception leaves the inner try block: its locals go, the Pipeline included.
Thrown(c, status) ==
    [call[c] EXCEPT !.pc = "unwind", !.status = status, !.task = 1,
                    !.decoding = FALSE, !.finish = FALSE, !.closing = FALSE]
Fail(c, status) == call' = [call EXCEPT ![c] = Thrown(c, status)]

Event(kind, n) == [kind |-> kind, n |-> n, status |-> "OK"]

\* send(): the event is published, then written to the client.
Send(c, event, next) ==
    /\ log' = [log EXCEPT ![c] = Append(@, event)]
    /\ call' = [call EXCEPT ![c] = IF gone[c] THEN [Thrown(c, "CANCELLED") EXCEPT !.chunks = next.chunks]
                                   ELSE next]

\* The client goes away; its cancellation reaches the RPCs made for the call.
ClientGone(c) ==
    /\ ~gone[c] /\ ~Now(c, "returned")
    /\ gone' = [gone EXCEPT ![c] = TRUE]
    /\ wire' = [s \in Streams |-> IF s \in TracksOf(c) /\ track[s].state = "live"
                                  THEN [wire[s] EXCEPT !.cut = TRUE] ELSE wire[s]]
    /\ UNCHANGED <<hand, dog, held, streams, busy, call, track, log>>

-----------------------------------------------------------------------------
(* Opening and source chunks.                                                  *)

\* No open message, options that do not resolve, or a registry that refuses:
\* there is no stream and no terminal event.
OpenRefused(c) ==
    /\ Now(c, "open") /\ ~gone[c]
    /\ call' = [call EXCEPT ![c].pc = "returned", ![c].status = "FAILED"]
    /\ UNCHANGED <<workerVars, track, gone, log>>

OpenStream(c) ==
    /\ Now(c, "open")
    /\ ~gone[c]
    /\ Send(c, Event("opened", 0), [call[c] EXCEPT !.pc = "next"])
    /\ UNCHANGED <<workerVars, track, gone>>

\* next_chunk() with a chunk in sequence.
ReadChunk(c) ==
    /\ Now(c, "next") /\ ~call[c].finish /\ ~gone[c]
    /\ call[c].chunks < MaxChunks
    /\ Send(c, Event("source", call[c].chunks + 1),
            [call[c] EXCEPT !.chunks = @ + 1,
                            !.pc = IF call[c].decoding THEN "decode" ELSE "next"])
    /\ UNCHANGED <<workerVars, track, gone>>

ReadFinish(c) ==
    /\ Now(c, "next") /\ ~call[c].finish /\ ~gone[c]
    /\ call' = [call EXCEPT ![c].finish = TRUE,
                            ![c].pc = IF call[c].decoding THEN "decode" ELSE "finish"]
    /\ UNCHANGED <<workerVars, track, gone, log>>

\* Anything else than the next chunk or a finish, or the end of the input.
ReadBad(c) ==
    /\ Now(c, "next") /\ ~call[c].finish /\ ~gone[c]
    /\ \E status \in {"FAILED", "CANCELLED"} : Fail(c, status)
    /\ UNCHANGED <<workerVars, track, gone, log>>

\* The read of a client that is gone fails.
ReadEnds(c) ==
    /\ gone[c]
    /\ \/ Now(c, "open") /\ call' = [call EXCEPT ![c].pc = "returned", ![c].status = "FAILED"]
       \/ Now(c, "next") /\ Fail(c, "CANCELLED")
    /\ UNCHANGED <<workerVars, track, gone, log>>

-----------------------------------------------------------------------------
(* The decoder, up to the bytes it was given.                                  *)

\* Once the finish was read the decoder is at its end; a container may declare
\* its end before that, and the rest of the source is read without decoding.
AfterDecode(c) == IF call[c].finish THEN "finish" ELSE "next"

DecodeMore(c) ==
    /\ Now(c, "decode") /\ ~gone[c]
    /\ \E decoding \in BOOLEAN :
          call' = [call EXCEPT ![c].pc = AfterDecode(c), ![c].decoding = decoding]
    /\ UNCHANGED <<workerVars, track, gone, log>>

DecodeFails(c) ==
    /\ Now(c, "decode")
    /\ Fail(c, IF gone[c] THEN "CANCELLED" ELSE "FAILED")
    /\ UNCHANGED <<workerVars, track, gone, log>>

\* On to a task's Track, which its first audio creates.
GoTrack(c, i) ==
    call' = [call EXCEPT ![c].pc = IF track[Track(c, i)].state = "none" THEN "dial" ELSE "feed",
                         ![c].task = i]

\* An audio chunk goes to every task in turn; the bound on windows bounds it.
DecodeAudio(c) ==
    /\ Now(c, "decode") /\ ~gone[c]
    /\ \E s \in TracksOf(c) : track[s].cut < MaxWindows
    /\ GoTrack(c, 1)
    /\ UNCHANGED <<workerVars, track, gone, log>>

-----------------------------------------------------------------------------
(* Pipeline::audio and Track.                                                  *)

\* wire_->Write: lost without notice or refused once the RPC is dead.
WriteSent(s, message) == wire' = [wire EXCEPT ![s].req = Append(@, message)]
Dead(s) == wire[s].cut \/ Ended(s)

\* failed() and ~Track read the status: the worker's, or that of a cancelled RPC.
FinalStatus(s) ==
    (IF Ended(s) THEN {wire[s].status} ELSE {})
    \cup (IF wire[s].cut THEN {"CANCELLED"} ELSE {})

\* Faulty: a stream that ended with OK ended well.
BadFailed(c, s) ==
    /\ \E status \in FinalStatus(s) :
          IF status = "OK" THEN call' = [call EXCEPT ![c].pc = "feed"] ELSE Fail(c, status)
    /\ track' = [track EXCEPT ![s].state = "done"]

Failed(c, s) ==
    /\ \E status \in FinalStatus(s) : Fail(c, IF status = "OK" THEN "FAILED" ELSE status)
    /\ track' = [track EXCEPT ![s].state = "done"]

\* The first audio of a task opens its Track: stub_->Transcribe and the open.
Dial(c) ==
    LET s == Current(c) IN
    /\ Now(c, "dial")
    /\ IF Cardinality({t \in TracksOf(c) : track[t].state # "none"}) >= MaxTracks
       THEN Fail(c, "FAILED") /\ UNCHANGED <<wire, hand, track>>
       ELSE /\ track' = [track EXCEPT ![s].state = "live"]
            /\ hand' = [hand EXCEPT ![s].pc = "start"]
            /\ wire' = [wire EXCEPT ![s].req = <<Open>>, ![s].cut = gone[c]]
            /\ Go(c, "handshake")
    /\ UNCHANGED <<dog, held, streams, busy, gone, log>>

\* wire_->Read of the expected response, or failed().
Expect(c, kind, next) ==
    LET s == Current(c) IN
    \/ /\ wire[s].resp # << >>
       /\ wire' = [wire EXCEPT ![s].resp = Tail(@)]
       /\ UNCHANGED track
       /\ IF Head(wire[s].resp).kind = kind THEN Go(c, next)
          ELSE Fail(c, "FAILED")
    \/ /\ wire[s].cut \/ (Ended(s) /\ wire[s].resp = << >>)
       /\ Failed(c, s) /\ UNCHANGED wire

Handshake(c) ==
    /\ Now(c, "handshake")
    /\ Expect(c, "opened", "feed")
    /\ UNCHANGED <<hand, dog, held, streams, busy, gone, log>>

\* Track::audio or Track::finish cuts a window: infer() writes it.
Cut(c) ==
    LET s == Current(c) IN
    /\ Now(c, "feed") /\ track[s].cut < MaxWindows
    /\ \/ /\ track' = [track EXCEPT ![s].cut = @ + 1]
          /\ WriteSent(s, Window(track[s].cut + 1))
          /\ Go(c, "answer")
       \/ Dead(s) /\ Failed(c, s) /\ UNCHANGED wire
    /\ UNCHANGED <<hand, dog, held, streams, busy, gone, log>>

\* infer() reads the answer: the hypothesis, then what the reconciler makes of it,
\* is published and sent, unless the registry or the reconciler throws.
Infers(c) ==
    LET s == Current(c)
        event == Event("hypothesis", call[c].task)
    IN
    /\ Now(c, "answer")
    /\ \/ /\ wire[s].resp # << >>
          /\ wire' = [wire EXCEPT ![s].resp = Tail(@)]
          /\ \/ /\ Head(wire[s].resp) = Hypothesis(track[s].cut)
                /\ Send(c, event, [call[c] EXCEPT !.pc = "feed"])
                /\ track' = [track EXCEPT ![s].count = IF gone[c] THEN @ ELSE @ + 1]
             \/ /\ log' \in {log, [log EXCEPT ![c] = Append(@, event)]}
                /\ Fail(c, "FAILED") /\ UNCHANGED track
       \/ /\ wire[s].cut \/ (Ended(s) /\ wire[s].resp = << >>)
          /\ Failed(c, s) /\ UNCHANGED <<wire, log>>
    /\ UNCHANGED <<hand, dog, held, streams, busy, gone>>

\* Track::audio or Track::finish throws: the hard limit without a pause, or audio
\* the Track refuses.
FeedFails(c) ==
    /\ Now(c, "feed")
    /\ Fail(c, "FAILED")
    /\ UNCHANGED <<workerVars, track, gone, log>>

\* The audio chunk is in the Track; on to the next task or back to the decoder.
Fed(c) ==
    /\ Now(c, "feed") /\ ~call[c].closing
    /\ IF call[c].task < call[c].tasks THEN GoTrack(c, call[c].task + 1)
       ELSE call' = [call EXCEPT ![c].pc = "decode", ![c].task = 1]
    /\ UNCHANGED <<workerVars, track, gone, log>>

-----------------------------------------------------------------------------
(* The end of the source.                                                      *)

\* Pipeline::finish, if the finish message counts what was received and there was
\* any audio.
FinishSource(c) ==
    /\ Now(c, "finish")
    /\ \/ Fail(c, "FAILED")
       \/ IF \A s \in TracksOf(c) : track[s].state = "none"
          THEN Fail(c, "FAILED")
          ELSE call' = [call EXCEPT ![c].pc = "feed", ![c].task = 1, ![c].closing = TRUE,
                                    ![c].decoding = FALSE]
    /\ UNCHANGED <<workerVars, track, gone, log>>

\* Track::finish after the last window.
SendFinish(c) ==
    LET s == Current(c) IN
    /\ Now(c, "feed") /\ call[c].closing
    /\ \/ WriteSent(s, Finish(track[s].count)) /\ Go(c, "closed") /\ UNCHANGED track
       \/ Dead(s) /\ Failed(c, s) /\ UNCHANGED wire
    /\ UNCHANGED <<hand, dog, held, streams, busy, gone, log>>

AwaitClosed(c) ==
    /\ Now(c, "closed")
    /\ Expect(c, "closed", "status")
    /\ UNCHANGED <<hand, dog, held, streams, busy, gone, log>>

\* Read to the end of the RPC, Finish, and the reconciler's last revisions, which
\* may be refused or find the client gone; then the next Track is finished.
CheckStatus(c) ==
    LET s == Current(c) IN
    /\ Now(c, "status")
    /\ \E status \in FinalStatus(s) :
          IF status # "OK" THEN Fail(c, status)
          ELSE \/ call' = [call EXCEPT ![c].pc = IF call[c].task < call[c].tasks THEN "feed" ELSE "judge",
                                       ![c].task = IF @ < call[c].tasks THEN @ + 1 ELSE @]
               \/ Fail(c, "FAILED")
               \/ gone[c] /\ Fail(c, "CANCELLED")
    /\ track' = [track EXCEPT ![s].state = "done"]
    /\ UNCHANGED <<workerVars, gone, log>>

\* Faulty: the Tracks of a failed call are dropped without cancelling them.
BadUnwind(c) ==
    /\ Now(c, "unwind")
    /\ Go(c, "judge")
    /\ track' = [s \in Streams |-> IF s \in TracksOf(c) /\ track[s].state = "live"
                                   THEN [NoTrack EXCEPT !.state = "done"] ELSE track[s]]
    /\ UNCHANGED <<workerVars, gone, log>>

\* ~Track of every Track not done: TryCancel and Finish.
Unwind(c) ==
    LET live == {s \in TracksOf(c) : track[s].state = "live"} IN
    /\ Now(c, "unwind")
    /\ Go(c, "judge")
    /\ track' = [s \in Streams |-> IF s \in live THEN [NoTrack EXCEPT !.state = "done"] ELSE track[s]]
    /\ wire' = [s \in Streams |-> IF s \in live THEN [wire[s] EXCEPT !.cut = TRUE, !.resp = << >>]
                                  ELSE wire[s]]
    /\ UNCHANGED <<hand, dog, held, streams, busy, gone, log>>

\* Faulty: the terminal event is not published for a client that left.
BadJudge(c) ==
    /\ Now(c, "judge")
    /\ IF gone[c]
       THEN call' = [call EXCEPT ![c].pc = "returned", ![c].status = "CANCELLED"] /\ UNCHANGED log
       ELSE /\ call' = [call EXCEPT ![c].pc = "terminal"]
            /\ log' = [log EXCEPT ![c] = Append(@, [Event("closed", call[c].chunks)
                                                    EXCEPT !.status = call[c].status])]
    /\ UNCHANGED <<workerVars, track, gone>>

\* The checksum of the whole source and the cancellation have the last word, then
\* the terminal event is published.
Judge(c) ==
    /\ Now(c, "judge")
    /\ \E hash \in IF call[c].status = "OK" THEN {"OK", "FAILED"} ELSE {call[c].status} :
          LET status == IF gone[c] THEN "CANCELLED" ELSE hash IN
          /\ call' = [call EXCEPT ![c].pc = "terminal", ![c].status = status]
          /\ log' = [log EXCEPT ![c] = Append(@, [Event("closed", call[c].chunks)
                                                  EXCEPT !.status = status])]
    /\ UNCHANGED <<workerVars, track, gone>>

\* The terminal event is written to the client, and the RPC returns.
Terminal(c) ==
    /\ Now(c, "terminal")
    /\ call' = [call EXCEPT ![c].pc = "returned",
                            ![c].status = IF gone[c] /\ @ = "OK" THEN "CANCELLED" ELSE @]
    /\ UNCHANGED <<workerVars, track, gone, log>>

-----------------------------------------------------------------------------
(* Another client of the worker, which sends all it has at once.               *)

RivalDials(r) ==
    /\ hand[r].pc = "none"
    /\ \A c \in Calls : call[c].tasks <= TasksBesideRivals
    /\ hand' = [hand EXCEPT ![r].pc = "start"]
    /\ wire' = [wire EXCEPT ![r].req = <<Open>> \o [k \in 1..MaxWindows |-> Window(k)]
                                       \o <<Finish(MaxWindows)>>]
    /\ UNCHANGED <<dog, held, streams, busy, callVars>>

-----------------------------------------------------------------------------
(* What the client or the environment decides, and what needs only time. *)
Client(c) == ClientGone(c) \/ OpenRefused(c) \/ OpenStream(c) \/ ReadChunk(c)
             \/ ReadFinish(c) \/ ReadBad(c)

Thread(c) ==
    \/ ReadEnds(c) \/ DecodeMore(c) \/ DecodeFails(c) \/ DecodeAudio(c)
    \/ Dial(c) \/ Handshake(c) \/ Cut(c) \/ Infers(c)
    \/ FeedFails(c) \/ Fed(c) \/ FinishSource(c) \/ SendFinish(c) \/ AwaitClosed(c)
    \/ CheckStatus(c) \/ Unwind(c) \/ Judge(c) \/ Terminal(c)

\* The reads of a rival find their message waiting; other reads may time out.
WorkerStep ==
    /\ (\E s \in Streams : Handler(s)) \/ (\E s \in Streams \ Rivals : Expires(s))
    /\ UNCHANGED callVars

AllReturned ==
    /\ \A c \in Calls : Now(c, "returned")
    /\ \A s \in Streams : hand[s].pc \in {"none", "ended"}
    /\ UNCHANGED vars

Next == (\E c \in Calls : Client(c) \/ Thread(c)) \/ WorkerStep
        \/ (\E r \in Rivals : RivalDials(r)) \/ AllReturned

Spec == Init /\ [][Next]_vars

\* Threads that can run do; nobody has to send anything, and no deadline has to
\* pass.
Fairness ==
    /\ \A c \in Calls : WF_vars(Thread(c))
    /\ \A s \in Streams : WF_vars(Handler(s) /\ UNCHANGED callVars)

FairSpec == Spec /\ Fairness

-----------------------------------------------------------------------------
(* Properties *)

\* Every variable keeps its type; a Track is cut off or asked no more once done.
TypeOK ==
    /\ \A s \in Streams :
          /\ wire[s].req \in Seq([kind : {"open", "window", "finish"}, n : Nat])
          /\ wire[s].resp \in Seq([kind : {"opened", "hypothesis", "closed"}, n : Nat])
          /\ dog[s] \in {"none", "armed", "fired", "over"}
          /\ track[s].cut \in 0..MaxWindows
          /\ track[s].count \in 0..track[s].cut
    /\ streams \in Nat
    /\ \A c \in Calls : call[c].task \in 1..call[c].tasks /\ call[c].chunks \in 0..MaxChunks

\* How many events of a kind are in the log of c, and the newest one.
Count(c, kind) == Cardinality({k \in DOMAIN log[c] : log[c][k].kind = kind})
Newest(c) == log[c][Len(log[c])]

\* A call that opened a stream publishes exactly one terminal event, as the last,
\* whichever of source, decoder, worker, registry or client failed first; a call
\* that opened none publishes nothing.  The RPC returns what the event says, but
\* for a client that was gone when the event was written.  (And every variable
\* keeps its type.)
OneTerminalEvent ==
    TypeOK /\ \A c \in Calls : Now(c, "returned") =>
        \/ log[c] = << >> /\ call[c].status # "OK"
        \/ /\ Head(log[c]).kind = "opened"
           /\ Count(c, "closed") = 1
           /\ Newest(c).kind = "closed"
           /\ Newest(c).n = Count(c, "source")
           /\ \/ call[c].status = Newest(c).status
              \/ gone[c] /\ call[c].status = "CANCELLED"

\* A stream that closed OK is whole: the client sent its finish, every window that
\* any Track cut was inferred by the worker and its hypothesis published, and the
\* worker itself closed every track with the same count and OK.
OkMeansWhole ==
    \A c \in Calls : (log[c] # << >> /\ Newest(c) = Event("closed", call[c].chunks)) =>
        /\ call[c].finish
        /\ \A i \in 1..call[c].tasks :
              LET s == Track(c, i) IN
              /\ wire[s].status = "OK"
              /\ track[s].cut = hand[s].count
              /\ track[s].cut = Cardinality({k \in DOMAIN log[c] : log[c][k] = Event("hypothesis", i)})

\* A call whose client left returns, and its worker RPCs end with it.
CancelledCallEnds ==
    \A c \in Calls : gone[c] ~> /\ Now(c, "returned")
                                /\ \A s \in TracksOf(c) : hand[s].pc \in {"none", "ended"}

\* When no read deadline stays armed for ever (it passes, or its read ends), no
\* RPC keeps its place in the worker for ever, though the client of its call
\* falls silent.
SilentStreamIsReleased ==
    \A s \in Streams \ Rivals :
        []<>(dog[s] # "armed") => ((hand[s].pc = "start") ~> (hand[s].pc = "ended"))
=============================================================================
