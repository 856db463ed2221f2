--------------------------- MODULE AsrTranscribe ---------------------------
(***************************************************************************)
(* One call of AsrServiceImpl::Transcribe after its options validated: the *)
(* RPC thread that reads the upload and watches the call, the worker       *)
(* thread that runs process_stream, the keyframe thread of the ffmpeg      *)
(* path, and what they share (ByteStream, the stop source, LockedWriter).  *)
(*                                                                         *)
(* A step is what a thread does between two reads of shared state.  Media  *)
(* bytes, samples and segments are counted, not carried.  Partial segments *)
(* are written but not kept on the wire of the model: only whether their   *)
(* write failed matters to the control.                                    *)
(***************************************************************************)
EXTENDS Naturals, Sequences

CONSTANTS
    MaxMedia,      \* config.max_media_bytes, in units of a chunk
    Prefix,        \* bytes wait_for_prefix asks for, in the same unit
    MaxReads,      \* bound: successful PCM reads of one call
    MaxSegments,   \* bound: final segments of one call
    MaxKeyframes   \* bound: stills of one call

ASSUME CallAssumption ==
    /\ MaxMedia \in Nat \ {0} /\ Prefix \in 1 .. MaxMedia
    /\ MaxReads \in Nat /\ MaxSegments \in Nat /\ MaxKeyframes \in Nat

VARIABLES
    call,          \* what the client sent: container, emit_document, emit_keyframes
    cancelled,     \* context->IsCancelled()
    rpc,           \* where the RPC thread stands
    readerStatus,  \* reader_status
    sawBytes,      \* saw_bytes
    upload,        \* the ByteStream: bytes, complete_, aborted_
    stop,          \* stop.stop_requested()
    w,             \* the worker thread
    kf,            \* the keyframe thread and its own stop source
    forwarding,    \* forward_stop is registered
    wire,          \* the events whose Write succeeded
    dead,          \* LockedWriter::dead_
    outcome        \* the status of the call and the counter it bumped

vars == <<call, cancelled, rpc, readerStatus, sawBytes, upload, stop, w, kf,
          forwarding, wire, dead, outcome>>

reader == <<rpc, readerStatus, sawBytes, outcome>>

Events == INSTANCE EventStream

Families == {"wav", "mp3", "ffmpeg", "unknown"}
Exceptions == {"Cancelled", "QueueTimeout", "DecodeError", "DurationCap",
               "ToolError", "Error"}
Statuses == {"OK", "CANCELLED", "INVALID_ARGUMENT", "RESOURCE_EXHAUSTED",
             "UNIMPLEMENTED", "INTERNAL"}
None == "none"

Init ==
    /\ call \in [family : Families, document : BOOLEAN, keyframes : BOOLEAN]
    /\ call.keyframes => call.family = "ffmpeg"
    /\ cancelled = FALSE
    /\ rpc = "reading" /\ readerStatus = "OK" /\ sawBytes = FALSE
    /\ upload = [size |-> 0, complete |-> FALSE, aborted |-> FALSE]
    /\ stop = FALSE
    /\ w = [pc |-> "prefix", reads |-> 0, buffer |-> "empty", end |-> None,
            abort |-> FALSE, aborted |-> FALSE, segments |-> 0, lease |-> FALSE,
            raised |-> None, status |-> None, hash |-> 0]
    /\ kf = [pc |-> None, stop |-> FALSE, error |-> None, count |-> 0]
    /\ forwarding = FALSE
    /\ wire = <<>> /\ dead = FALSE
    /\ outcome = [status |-> None, counter |-> None]
-----------------------------------------------------------------------------
(* The client.                                                             *)

(* The client cancels, its connection breaks, or the deadline passes.      *)
ClientGone ==
    /\ ~cancelled /\ rpc # "done"
    /\ cancelled' = TRUE
    /\ UNCHANGED <<call, reader, upload, stop, w, kf, forwarding, wire, dead>>

(* stream_->Write: it fails only when the call is gone, and may succeed    *)
(* for a while after that.  A failed writer stays dead.                    *)
Written(e) == ~dead /\ wire' = Append(wire, e) /\ UNCHANGED dead
WriteFails == (dead \/ cancelled) /\ dead' = TRUE /\ UNCHANGED wire
-----------------------------------------------------------------------------
(* The RPC thread.                                                         *)

(* request_stop runs the registered callback before it returns.            *)
RequestStop ==
    /\ stop' = TRUE
    /\ kf' = IF forwarding THEN [kf EXCEPT !.stop = TRUE] ELSE kf

Fits(n) == upload.size + n <= MaxMedia

(* One message of the upload: a chunk of n units, or a second options      *)
(* message, which ends the upload like a chunk over the cap does.          *)
ReadChunk(n) ==
    /\ rpc = "reading"
    /\ IF Fits(n)
       THEN /\ upload' = [upload EXCEPT !.size = @ + n]
            /\ sawBytes' = (sawBytes \/ n > 0)
            /\ UNCHANGED <<rpc, readerStatus>>
       ELSE /\ rpc' = "decide" /\ readerStatus' = "RESOURCE_EXHAUSTED"
            /\ UNCHANGED <<upload, sawBytes>>
    /\ UNCHANGED <<call, cancelled, stop, w, kf, forwarding, wire, dead, outcome>>

ReadOptions ==
    /\ rpc = "reading"
    /\ rpc' = "decide" /\ readerStatus' = "INVALID_ARGUMENT"
    /\ UNCHANGED <<call, cancelled, sawBytes, upload, stop, w, kf, forwarding, wire, dead, outcome>>

(* stream->Read returns false: half-closed, or the call is gone.           *)
ReadEnds ==
    /\ rpc = "reading"
    /\ rpc' = "decide"
    /\ UNCHANGED <<call, cancelled, readerStatus, sawBytes, upload, stop, w, kf,
                   forwarding, wire, dead, outcome>>

(* Faulty variant: abort before stop.                                      *)
BadDecide ==
    /\ rpc = "decide"
    /\ IF readerStatus # "OK" \/ cancelled \/ ~sawBytes
       THEN /\ upload' = [upload EXCEPT !.aborted = TRUE] /\ rpc' = "abort"
            /\ readerStatus' = IF readerStatus = "OK" /\ ~cancelled
                               THEN "INVALID_ARGUMENT" ELSE readerStatus
            /\ UNCHANGED <<stop, kf>>
       ELSE /\ upload' = [upload EXCEPT !.complete = TRUE]
            /\ rpc' = "watch"
            /\ UNCHANGED <<stop, kf, readerStatus>>
    /\ UNCHANGED <<call, cancelled, sawBytes, w, forwarding, wire, dead, outcome>>

(* The upload is over: completed, or given up.  Giving up stops first and  *)
(* aborts in a second step.                                                *)
Decide ==
    /\ rpc = "decide"
    /\ IF readerStatus # "OK" \/ cancelled \/ ~sawBytes
       THEN /\ RequestStop /\ rpc' = "abort"
            /\ readerStatus' = IF readerStatus = "OK" /\ ~cancelled
                               THEN "INVALID_ARGUMENT" ELSE readerStatus
            /\ UNCHANGED upload
       ELSE /\ upload' = [upload EXCEPT !.complete = TRUE]
            /\ rpc' = "watch"
            /\ UNCHANGED <<stop, kf, readerStatus>>
    /\ UNCHANGED <<call, cancelled, sawBytes, w, forwarding, wire, dead, outcome>>

AbortUpload ==
    /\ rpc = "abort"
    /\ upload' = [upload EXCEPT !.aborted = TRUE]
    /\ rpc' = "watch"
    /\ UNCHANGED <<call, cancelled, readerStatus, sawBytes, stop, w, kf,
                   forwarding, wire, dead, outcome>>

(* Faulty variant: a cancelled call leaves the watch without a stop.       *)
BadWatch ==
    /\ rpc = "watch" /\ w.pc # "done" /\ cancelled
    /\ rpc' = "join"
    /\ UNCHANGED <<call, cancelled, readerStatus, sawBytes, upload, stop, kf, w,
                   forwarding, wire, dead, outcome>>

(* One slice of the watch loop that finds the call gone.                   *)
Watch ==
    /\ rpc = "watch" /\ w.pc # "done" /\ cancelled
    /\ RequestStop /\ rpc' = "join"
    /\ UNCHANGED <<call, cancelled, readerStatus, sawBytes, upload, w,
                   forwarding, wire, dead, outcome>>

Counter(s) ==
    CASE s = "OK" -> "transcribed"
      [] s \in {"INVALID_ARGUMENT", "RESOURCE_EXHAUSTED", "UNIMPLEMENTED"} -> "rejected"
      [] OTHER -> "failed"

(* The worker is done: join it and report.                                 *)
Report ==
    /\ rpc \in {"watch", "join"} /\ w.pc = "done"
    /\ LET s == IF readerStatus = "OK" THEN w.status ELSE readerStatus
       IN  outcome' = [status |-> s, counter |-> Counter(s)]
    /\ rpc' = "done"
    /\ UNCHANGED <<call, cancelled, readerStatus, sawBytes, upload, stop, w, kf,
                   forwarding, wire, dead>>
-----------------------------------------------------------------------------
(* The worker thread: process_stream.                                      *)

Gone == upload.aborted \/ stop

WorkerOnly == UNCHANGED <<call, cancelled, reader, upload, stop>>
Quietly == UNCHANGED <<kf, forwarding, wire, dead>>

Goto(l) == w' = [w EXCEPT !.pc = l]
Return(s) == w' = [w EXCEPT !.pc = "done", !.status = s]
Raise(x) == w' = [w EXCEPT !.pc = "unwind", !.raised = x]

(* wait_for_prefix, then is_aborted.                                       *)
AwaitPrefix ==
    /\ w.pc = "prefix"
    /\ upload.aborted \/ upload.complete \/ upload.size >= Prefix
    /\ IF upload.aborted THEN Return("CANCELLED") ELSE Goto("sniff")
    /\ WorkerOnly /\ Quietly

(* read_at(0, ...) returns nothing once the upload is aborted: the zeroed  *)
(* prefix is then sniffed instead.  A short upload may not show enough.    *)
Sniff ==
    /\ w.pc = "sniff"
    /\ \E family \in IF upload.aborted THEN {"unknown"}
                     ELSE IF upload.size < Prefix THEN {call.family, "unknown"}
                     ELSE {call.family} :
          CASE family = "unknown" -> Return("UNIMPLEMENTED")
            [] family = "ffmpeg"  -> Goto("complete")
            [] OTHER              -> Goto("open")
    /\ WorkerOnly /\ Quietly

(* AudioDecoder's constructor reads the header, then the duration cap is   *)
(* applied.  Reads of an aborted upload return 0, which is a DecodeError.  *)
OpenDecoder ==
    /\ w.pc = "open"
    /\ upload.aborted \/ upload.complete \/ upload.size >= Prefix
    /\ \/ Raise("DecodeError")
       \/ ~upload.aborted /\ (Return("RESOURCE_EXHAUSTED") \/ Goto("info"))
    /\ WorkerOnly /\ Quietly

(* The ffmpeg path: the whole upload, then ffprobe.                        *)
AwaitUpload ==
    /\ w.pc = "complete"
    /\ upload.complete \/ upload.aborted
    /\ IF Gone THEN Return("CANCELLED") ELSE Goto("probe")
    /\ WorkerOnly /\ Quietly

Probe ==
    /\ w.pc = "probe"
    /\ \/ stop /\ Raise("Cancelled")
       \/ \E x \in {"DecodeError", "ToolError", "Error"} : Raise(x)
       \/ \E s \in {"INVALID_ARGUMENT", "RESOURCE_EXHAUSTED"} : Return(s)
       \/ ~stop /\ Goto("info")
    /\ WorkerOnly /\ Quietly

WriteInfo ==
    /\ w.pc = "info"
    /\ \/ Written(Events!Event("info")) /\ Goto("acquire")
       \/ WriteFails /\ Return("CANCELLED")
    /\ WorkerOnly /\ UNCHANGED <<kf, forwarding>>

(* ModelPool::acquire, whose queue is ModelPool's own module: it grants    *)
(* a state when there is one, stopped or not, and otherwise waits for the  *)
(* stop or the queue deadline.                                             *)
Granted ==
    /\ w.pc = "acquire"
    /\ w' = [w EXCEPT !.lease = TRUE,
                      !.pc = IF call.family = "ffmpeg" THEN "spawn" ELSE "fill"]
    /\ WorkerOnly /\ Quietly

QueueTimedOut ==
    /\ w.pc = "acquire" /\ ~stop
    /\ Raise("QueueTimeout")
    /\ WorkerOnly /\ Quietly

LeaveQueue ==
    /\ w.pc = "acquire" /\ stop
    /\ Raise("Cancelled")
    /\ WorkerOnly /\ Quietly

(* The keyframe thread starts, and forward_stop is registered: a stop that *)
(* was requested already reaches the thread at once.                       *)
Spawn ==
    /\ w.pc = "spawn"
    /\ Goto("audio")
    /\ kf' = IF call.keyframes THEN [kf EXCEPT !.pc = "extract", !.stop = stop] ELSE kf
    /\ forwarding' = TRUE
    /\ WorkerOnly /\ UNCHANGED <<wire, dead>>

OpenAudio ==
    /\ w.pc = "audio"
    /\ IF stop THEN Raise("Cancelled") ELSE Raise("ToolError") \/ Goto("fill")
    /\ WorkerOnly /\ Quietly
-----------------------------------------------------------------------------
(* Transcriber::run, as far as the call can tell.                          *)

Stopped == w.abort \/ stop
GiveUp == w' = [w EXCEPT !.pc = "returned", !.aborted = TRUE]

(* The head of the fill loop.                                              *)
Fill ==
    /\ w.pc = "fill"
    /\ IF w.end # None \/ w.buffer = "full" THEN Goto("window")
       ELSE IF Stopped THEN GiveUp
       ELSE Goto("read")
    /\ WorkerOnly /\ Quietly

(* A read that returned samples: the window is full or wants more, or the  *)
(* duration cap is passed.                                                 *)
GotSamples ==
    /\ w.reads < MaxReads
    /\ \/ \E b \in {"some", "full"} :
             w' = [w EXCEPT !.reads = @ + 1, !.buffer = b, !.pc = "fill"]
       \/ Raise("DurationCap")

GotNothing(why) == w' = [w EXCEPT !.end = why, !.pc = "fill"]

(* AudioDecoder::read pulls from the growing upload and blocks for bytes   *)
(* that are not there yet.  A wav header declares the length of the data:  *)
(* its end needs no further read.  An aborted upload reads as an end.      *)
ReadUpload ==
    /\ w.pc = "read" /\ call.family # "ffmpeg"
    /\ \/ ~upload.aborted /\ upload.size > w.reads /\ (GotSamples \/ Raise("DecodeError"))
       \/ ~upload.aborted /\ upload.complete /\ GotNothing("eof")
       \/ call.family = "wav" /\ w.reads > 0 /\ GotNothing("eof")
       \/ upload.aborted /\ (GotNothing("abort") \/ Raise("DecodeError"))
    /\ WorkerOnly /\ Quietly

(* VideoDemux::read_audio pulls from the audio child, and kills it when    *)
(* the stop fired.                                                         *)
ReadAudio ==
    /\ w.pc = "read" /\ call.family = "ffmpeg"
    /\ \/ stop /\ Raise("Cancelled")
       \/ ~stop /\ (GotSamples \/ GotNothing("eof") \/ Raise("DecodeError") \/ Raise("ToolError"))
    /\ WorkerOnly /\ Quietly

(* A filled window: nothing left to decode, stopped, or into whisper.      *)
StartWindow ==
    /\ w.pc = "window"
    /\ IF w.buffer = "empty" THEN Goto("returned")
       ELSE IF Stopped THEN GiveUp
       ELSE Goto("whisper")
    /\ WorkerOnly /\ Quietly

(* on_new_segment writes a partial; a failed write makes whisper abort.    *)
PartialFails ==
    /\ w.pc = "whisper" /\ ~w.abort
    /\ WriteFails
    /\ w' = [w EXCEPT !.abort = TRUE]
    /\ WorkerOnly /\ UNCHANGED <<kf, forwarding>>

(* whisper_full_with_state returns.                                        *)
EndWindow ==
    /\ w.pc = "whisper"
    /\ IF Stopped THEN GiveUp ELSE Raise("Error") \/ Goto("finals")
    /\ WorkerOnly /\ Quietly

WriteFinal ==
    /\ w.pc = "finals" /\ w.segments < MaxSegments
    /\ \/ Written(Events!Event("final")) /\ w' = [w EXCEPT !.segments = @ + 1]
       \/ WriteFails /\ w' = [w EXCEPT !.segments = @ + 1, !.pc = "returned",
                                       !.aborted = TRUE]
    /\ WorkerOnly /\ UNCHANGED <<kf, forwarding>>

(* The finals of the window are out.  The last window ends the run; any    *)
(* other may carry a tail over.                                            *)
NextWindow ==
    /\ w.pc = "finals"
    /\ IF w.end # None THEN Goto("returned")
       ELSE \E b \in {"empty", "some"} : w' = [w EXCEPT !.buffer = b, !.pc = "fill"]
    /\ WorkerOnly /\ Quietly
-----------------------------------------------------------------------------
(* The rest of process_stream.                                             *)

(* Transcriber::run returned.  The lease goes back to the pool.  A cut-off *)
(* audio child is killed and the stills stopped; otherwise close_audio     *)
(* judges the exit status of the child.                                    *)
Settle ==
    /\ w.pc = "returned"
    /\ IF call.family # "ffmpeg"
       THEN w' = [w EXCEPT !.lease = FALSE, !.pc = "judge"] /\ UNCHANGED kf
       ELSE IF w.aborted
       THEN w' = [w EXCEPT !.lease = FALSE, !.pc = "join"] /\ kf' = [kf EXCEPT !.stop = TRUE]
       ELSE /\ \/ w' = [w EXCEPT !.lease = FALSE, !.pc = "join"]
               \/ \E x \in {"DecodeError", "ToolError"} :
                     w' = [w EXCEPT !.lease = FALSE, !.pc = "unwind", !.raised = x]
            /\ UNCHANGED kf
    /\ WorkerOnly /\ UNCHANGED <<forwarding, wire, dead>>

(* Faulty variant: the stills are not waited for.                          *)
BadKeyframesEnded == TRUE

KeyframesEnded == kf.pc \in {None, "ended"}

(* keyframe_thread.join(), and the error it left.                          *)
Join ==
    /\ w.pc = "join" /\ KeyframesEnded
    /\ IF ~w.aborted /\ kf.error # None THEN Raise(kf.error) ELSE Goto("judge")
    /\ forwarding' = FALSE
    /\ WorkerOnly /\ UNCHANGED <<kf, wire, dead>>

(* Faulty variant: only the transcriber's own verdict is looked at.        *)
BadJudge ==
    /\ w.pc = "judge"
    /\ IF w.aborted THEN Return("CANCELLED") ELSE Goto("finish")
    /\ WorkerOnly /\ Quietly

Judge ==
    /\ w.pc = "judge"
    /\ IF w.aborted \/ Gone THEN Return("CANCELLED")
       ELSE Goto(IF call.document THEN "name" ELSE "finish")
    /\ WorkerOnly /\ Quietly

(* Faulty variant: whatever has arrived is hashed.                         *)
BadContentHash == upload.size

(* The hash over every byte of the upload, known by their number, or 0     *)
(* when the upload is not over.                                            *)
ContentHash == IF upload.complete THEN upload.size ELSE 0

(* set_source names the Document and stamps its origin hash.               *)
NameDocument ==
    /\ w.pc = "name"
    /\ w' = [w EXCEPT !.hash = ContentHash, !.pc = "finish"]
    /\ WorkerOnly /\ Quietly

(* LockedWriter::finish holds the writer's mutex over both writes.         *)
Finish ==
    /\ w.pc = "finish"
    /\ LET document == IF call.document THEN <<Events!Event("document")>> ELSE <<>>
           trailer == Events!Trailer(w.segments, kf.count)
       IN  \/ /\ ~dead
              /\ wire' = wire \o document \o <<trailer>>
              /\ Return("OK")
              /\ UNCHANGED dead
           \/ /\ dead \/ cancelled
              /\ wire' \in {wire} \cup (IF dead THEN {} ELSE {wire \o document})
              /\ dead' = TRUE
              /\ Return("CANCELLED")
    /\ WorkerOnly /\ UNCHANGED <<kf, forwarding>>

(* Faulty variant: the jthread is detached instead.                        *)
BadUnwind ==
    /\ w.pc = "unwind"
    /\ forwarding' = FALSE
    /\ kf' = [kf EXCEPT !.stop = TRUE]
    /\ w' = [w EXCEPT !.pc = "catch", !.lease = FALSE]
    /\ WorkerOnly /\ UNCHANGED <<wire, dead>>

(* An exception leaves the block: forward_stop goes, the jthread asks the  *)
(* stills to stop and joins, and the lease goes back.                      *)
Unwind ==
    /\ w.pc = "unwind"
    /\ forwarding' = FALSE
    /\ IF KeyframesEnded
       THEN w' = [w EXCEPT !.pc = "catch", !.lease = FALSE] /\ UNCHANGED kf
       ELSE kf' = [kf EXCEPT !.stop = TRUE] /\ UNCHANGED w
    /\ WorkerOnly /\ UNCHANGED <<wire, dead>>

(* The catch clauses of process_stream.                                    *)
Catch ==
    /\ w.pc = "catch"
    /\ Return(IF w.raised = "Cancelled" THEN "CANCELLED"
              ELSE IF w.raised \in {"QueueTimeout", "DurationCap"} THEN "RESOURCE_EXHAUSTED"
              ELSE IF Gone THEN "CANCELLED"
              ELSE IF w.raised = "DecodeError" THEN "INVALID_ARGUMENT" ELSE "INTERNAL")
    /\ WorkerOnly /\ Quietly
-----------------------------------------------------------------------------
(* The keyframe thread.                                                    *)

KeyframesOnly == UNCHANGED <<call, cancelled, reader, upload, stop, w, forwarding>>

KfEnds(error) == kf' = [kf EXCEPT !.pc = "ended", !.error = error]

(* The child is read until it ends, fails, or the stop fires; a still that *)
(* arrives is handed to the sink, which looks at the stop first.           *)
Extract ==
    /\ kf.pc = "extract"
    /\ \/ kf.stop /\ KfEnds("Cancelled")
       \/ \E x \in {None, "DecodeError", "ToolError"} : KfEnds(x)
       \/ ~kf.stop /\ kf.count < MaxKeyframes /\ kf' = [kf EXCEPT !.pc = "write"]
    /\ KeyframesOnly /\ UNCHANGED <<wire, dead>>

WriteKeyframe ==
    /\ kf.pc = "write"
    /\ \/ Written(Events!Event("keyframe")) /\ kf' = [kf EXCEPT !.pc = "count"]
       \/ WriteFails /\ KfEnds(None)
    /\ KeyframesOnly

CountKeyframe ==
    /\ kf.pc = "count"
    /\ kf' = [kf EXCEPT !.count = @ + 1, !.pc = "extract"]
    /\ KeyframesOnly /\ UNCHANGED <<wire, dead>>
-----------------------------------------------------------------------------
Upload == (\E n \in 0 .. Prefix : ReadChunk(n)) \/ ReadOptions \/ ReadEnds
Rpc == Decide \/ AbortUpload \/ Watch \/ Report
Pool == Granted \/ QueueTimedOut
Worker ==
    \/ AwaitPrefix \/ Sniff \/ OpenDecoder \/ AwaitUpload \/ Probe \/ WriteInfo
    \/ LeaveQueue \/ Spawn \/ OpenAudio \/ Fill \/ ReadUpload \/ ReadAudio
    \/ StartWindow \/ PartialFails \/ EndWindow \/ WriteFinal \/ NextWindow
    \/ Settle \/ Join \/ Judge \/ NameDocument \/ Finish \/ Unwind \/ Catch
Keyframes == Extract \/ WriteKeyframe \/ CountKeyframe

(* The call returned; nothing of it is left to run.                        *)
Returned == rpc = "done" /\ UNCHANGED vars

Next == ClientGone \/ Upload \/ Rpc \/ Pool \/ Worker \/ Keyframes \/ Returned

Spec == Init /\ [][Next]_vars

(* Each thread runs, and a Read on a call that is gone returns.  Nothing   *)
(* is assumed of the client, nor of the pool granting a state.             *)
Fairness ==
    /\ WF_vars(cancelled /\ ReadEnds) /\ WF_vars(Rpc)
    /\ WF_vars(Worker) /\ WF_vars(Keyframes)

FairSpec == Spec /\ Fairness
-----------------------------------------------------------------------------
(* What the worker keeps: its place, the window it fills, why the media     *)
(* ended, and what it will report.                                         *)
Workers ==
    [pc : {"prefix", "sniff", "open", "complete", "probe", "info", "acquire", "spawn",
           "audio", "fill", "read", "window", "whisper", "finals", "returned", "join",
           "judge", "name", "finish", "unwind", "catch", "done"},
     reads : 0 .. MaxReads, buffer : {"empty", "some", "full"},
     end : {None, "eof", "abort"}, abort : BOOLEAN, aborted : BOOLEAN,
     segments : 0 .. MaxSegments, lease : BOOLEAN,
     raised : Exceptions \cup {None}, status : Statuses \cup {None},
     hash : 0 .. MaxMedia]

(* What the keyframe thread keeps.                                         *)
Stills ==
    [pc : {None, "extract", "write", "count", "ended"}, stop : BOOLEAN,
     error : Exceptions \cup {None}, count : 0 .. MaxKeyframes]

TypeOK ==
    /\ call \in [family : Families, document : BOOLEAN, keyframes : BOOLEAN]
    /\ cancelled \in BOOLEAN /\ stop \in BOOLEAN /\ forwarding \in BOOLEAN
    /\ rpc \in {"reading", "decide", "abort", "watch", "join", "done"}
    /\ readerStatus \in {"OK", "INVALID_ARGUMENT", "RESOURCE_EXHAUSTED"}
    /\ sawBytes \in BOOLEAN /\ dead \in BOOLEAN
    /\ upload \in [size : 0 .. MaxMedia, complete : BOOLEAN, aborted : BOOLEAN]
    /\ w \in Workers
    /\ kf \in Stills
    /\ outcome \in [status : Statuses \cup {None},
                    counter : {None, "transcribed", "rejected", "failed"}]

(* The responses of every call follow the protocol of EventStream: nothing *)
(* is written after the trailer, not even by a keyframe thread that is     *)
(* still running, the Document immediately precedes it, and its counts are *)
(* what was sent (LockedWriter, and the join before the trailer).          *)
EventsInOrder == Events!Spec

(* OK is reported exactly when the client got the trailer and its upload   *)
(* was in order, and then for media that was decoded to its own end, never *)
(* for an upload that was cut off (the gone() test before the trailer).    *)
OkMeansWhole ==
    rpc = "done" =>
        /\ outcome.status = "OK" <=>
              /\ readerStatus = "OK"
              /\ \E i \in DOMAIN wire : wire[i].kind = "complete"
        /\ outcome.status = "OK" => w.end = "eof"

(* "Stop before abort": whisper never starts on a last window that is last *)
(* only because the upload was given up (Transcribe's two-step give-up,    *)
(* against the stop tests of Transcriber::run).                            *)
NoTruncatedWindow == w.pc = "whisper" => w.end # "abort"

(* A worker that is done has left nothing behind that uses its frame: the  *)
(* keyframe thread has ended, the stop callback is gone and the whisper    *)
(* state is back in the pool, on every return and every exception (in a    *)
(* well-typed state).                                                      *)
WorkerLeavesNothing ==
    TypeOK /\ (w.pc = "done" => kf.pc \in {None, "ended"} /\ ~forwarding /\ ~w.lease)

(* The origin hash of a Document the client got is over every byte it      *)
(* sent, never over the part that had arrived when decoding ended; only a  *)
(* wav, which may be decoded before the upload is over, goes without one   *)
(* (the is_complete test of set_source, and wait_complete on the ffmpeg    *)
(* path).  OriginCarriesHash is what the comments promise instead.         *)
HashCoversUpload ==
    (\E i \in DOMAIN wire : wire[i].kind = "document") =>
        \/ upload.complete /\ w.hash = upload.size
        \/ call.family = "wav" /\ w.hash = 0

(* A call whose client is gone ends, wherever its threads wait: in the     *)
(* upload, the pool's queue, the media children or whisper ("every         *)
(* blocking step watches it").                                             *)
CancelledCallEnds == cancelled ~> rpc = "done"

(* "An aborted upload surfaces to the decoder as truncation; report the    *)
(* disconnect, not a media defect": a given-up upload of a container the   *)
(* service knows is never reported as an unrecognized one.                 *)
DisconnectIsNoMediaDefect ==
    outcome.status = "UNIMPLEMENTED" /\ upload.aborted => call.family = "unknown"

(* "The origin hash needs every byte, so this lands once the upload is in  *)
(* and before the fold closes": a Document the client got carries the hash *)
(* of the whole upload.                                                    *)
OriginCarriesHash ==
    (\E i \in DOMAIN wire : wire[i].kind = "document") =>
        upload.complete /\ w.hash = upload.size
=============================================================================
