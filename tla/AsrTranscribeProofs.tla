------------------------ MODULE AsrTranscribeProofs ------------------------
(* One call of Transcribe, proved for media, segments and stills of any size:  *)
(* what an OK, a Document and a finished worker mean, and that the responses   *)
(* follow the protocol of EventStream.                                         *)
EXTENDS AsrTranscribe, FiniteSetTheorems, SequenceTheorems, TLAPS

\* The events of a call.
Plain == [kind : {"info", "final", "keyframe", "document"}]
Trailers == [kind : {"complete"}, segments : Nat, keyframes : Nat]

\* The indexes of the events of a kind.
KindAt(s, kind) == {i \in DOMAIN s : s[i].kind = kind}
At(kind) == KindAt(wire, kind)
OnWire(kind) == At(kind) # {}

\* The worker before the MediaInfo, and while it may own a state, a callback or
\* a keyframe thread.
Opening == {"prefix", "sniff", "open", "complete", "probe", "info"}
Holding == {"spawn", "audio", "fill", "read", "window", "whisper", "finals",
            "returned", "join", "unwind"}
Naming == {"name", "finish"}

\* Giving up stops first, aborts second; the upload is over once the RPC thread
\* watches the call.
UploadInv ==
    /\ rpc \in {"reading", "decide", "abort"} => ~upload.complete /\ ~upload.aborted
    /\ upload.complete => ~upload.aborted
    /\ rpc = "abort" \/ upload.aborted => stop

\* Which path of process_stream the worker is on, and what it knows there.
PathInv ==
    /\ w.pc \in {"complete", "probe", "spawn", "audio", "join"} => call.family = "ffmpeg"
    /\ w.pc = "open" => call.family # "ffmpeg"
    /\ call.family = "ffmpeg" /\ w.pc \notin {"prefix", "sniff", "complete", "done"}
          => upload.complete

\* Why the window loop ended.
EndInv ==
    /\ w.end = "abort" => upload.aborted
    /\ w.end = "eof" => upload.complete \/ call.family = "wav"
    /\ w.pc = "whisper" => w.end # "abort"
    /\ w.pc = "window" => w.end # None \/ w.buffer = "full"
    /\ w.pc \in {"returned", "join", "judge"} /\ ~w.aborted => w.end # None
    /\ w.pc \in Naming => ~w.aborted /\ w.end = "eof"
    /\ w.status = "OK" => w.pc = "done" /\ w.end = "eof"
    /\ w.pc = "done" => w.status \in Statuses

\* Nothing is held outside the part of process_stream that holds it.
FrameInv ==
    /\ w.pc \notin Holding => KeyframesEnded /\ ~forwarding /\ ~w.lease
    /\ w.pc = "join" => ~w.lease
    /\ w.pc \in Opening \cup {"acquire", "spawn"} => kf.pc = None /\ ~forwarding
    /\ call.family # "ffmpeg" => kf.pc = None /\ ~forwarding
    /\ kf.pc \in {"write", "count"} => kf.count < MaxKeyframes

\* What is on the wire, against what the threads counted.
WireInv ==
    /\ wire \in Seq(Plain \cup Trailers)
    /\ w.pc \in Opening => wire = <<>>
    /\ w.pc \notin Opening \cup {"unwind", "catch", "done"} \/ kf.pc # None => wire # <<>>
    /\ w.pc # "done" => ~OnWire("document") /\ ~OnWire("complete")
    /\ OnWire("complete") <=> w.status = "OK"
    /\ ~w.aborted => Cardinality(At("final")) = w.segments
    /\ Cardinality(At("keyframe")) = kf.count + IF kf.pc = "count" THEN 1 ELSE 0

\* The hash of a Document that is about to go out, or has gone out.
HashInv ==
    (call.document /\ w.pc = "finish") \/ OnWire("document") =>
        \/ upload.complete /\ w.hash = upload.size
        \/ call.family = "wav" /\ w.hash = 0

\* The report of the call.
ReportInv ==
    rpc = "done" => /\ w.pc = "done"
                    /\ outcome.status = IF readerStatus = "OK" THEN w.status
                                        ELSE readerStatus

IInv == TypeOK /\ UploadInv /\ PathInv /\ EndInv /\ FrameInv /\ WireInv /\ HashInv /\ ReportInv

\* The step leaves the other threads alone and writes no event.
Silently == UNCHANGED <<kf, forwarding, wire>> /\ dead' \in BOOLEAN

-----------------------------------------------------------------------------
(* The wire.                                                                   *)

\* A step that writes nothing leaves the events where they are.
LEMMA SameEvents ==
    ASSUME wire' = wire
    PROVE  /\ At("final")' = At("final") /\ At("keyframe")' = At("keyframe")
           /\ At("document")' = At("document") /\ At("complete")' = At("complete")
BY DEF At

\* What one event more does to a stream and to its counts.
LEMMA AppendEvent ==
    ASSUME NEW s \in Seq(Plain \cup Trailers), NEW e \in Plain \cup Trailers, NEW k
    PROVE  /\ Append(s, e) \in Seq(Plain \cup Trailers) /\ Append(s, e) # <<>>
           /\ e.kind # k => KindAt(Append(s, e), k) = KindAt(s, k)
           /\ e.kind = k => /\ KindAt(Append(s, e), k) # {}
                            /\ Cardinality(KindAt(Append(s, e), k)) = Cardinality(KindAt(s, k)) + 1
<1> DEFINE t == Append(s, e)
<1>1. /\ t \in Seq(Plain \cup Trailers) /\ t # <<>>
      /\ Len(t) = Len(s) + 1 /\ Len(s) \in Nat
      /\ DOMAIN s = 1 .. Len(s) /\ DOMAIN t = 1 .. Len(s) + 1
      /\ \A i \in 1 .. Len(s) : t[i] = s[i]
      /\ t[Len(s) + 1] = e
  BY AppendProperties, LenProperties
<1> HIDE DEF t
<1>2. e.kind # k => KindAt(t, k) = KindAt(s, k)
  BY <1>1 DEF KindAt
<1>3. ASSUME e.kind = k
      PROVE  KindAt(t, k) = KindAt(s, k) \cup {Len(s) + 1} /\ Len(s) + 1 \notin KindAt(s, k)
  BY <1>1, <1>3 DEF KindAt
<1>4. IsFiniteSet(KindAt(s, k))
  <2>1. IsFiniteSet(1 .. Len(s))
    BY <1>1, FS_Interval
  <2>2. KindAt(s, k) \subseteq 1 .. Len(s)
    BY <1>1 DEF KindAt
  <2> QED
    BY <2>1, <2>2, FS_Subset
<1> QED
  BY <1>1, <1>2, <1>3, <1>4, FS_AddElement DEF t

\* The events a call writes are of the protocol's types.
LEMMA EventTypes ==
    /\ \A k \in {"info", "final", "keyframe", "document"} :
          Events!Event(k) \in Plain /\ Events!Event(k).kind = k
    /\ \A m \in Nat, n \in Nat :
          Events!Trailer(m, n) \in Trailers /\ Events!Trailer(m, n).kind = "complete"
BY DEF Events!Event, Events!Trailer, Plain, Trailers

-----------------------------------------------------------------------------
(* The ways out of a step of process_stream.                                   *)

\* A return with a status that is not OK, from where nothing is held.
LEMMA ReturnKeeps ==
    ASSUME IInv, NEW s \in Statuses \ {"OK"}, Return(s), WorkerOnly, Silently,
           w.pc \notin Holding \cup {"done"}
    PROVE  IInv'
<1>1. /\ w'.pc = "done" /\ w'.status = s
      /\ w'.reads = w.reads /\ w'.buffer = w.buffer /\ w'.end = w.end
      /\ w'.abort = w.abort /\ w'.aborted = w.aborted /\ w'.segments = w.segments
      /\ w'.lease = w.lease /\ w'.hash = w.hash
  BY DEF IInv, TypeOK, Workers, Return
<1>w. w' \in Workers
  BY Zenon DEF IInv, TypeOK, Workers, Return
<1>2. TypeOK'
  BY <1>w DEF IInv, TypeOK, WorkerOnly, Silently, reader
<1>3. UploadInv' /\ PathInv' /\ EndInv' /\ FrameInv'
  BY <1>1 DEF IInv, UploadInv, PathInv, EndInv, FrameInv, WorkerOnly, Silently, reader,
              KeyframesEnded, Opening, Holding, Naming
<1>4. WireInv' /\ HashInv' /\ ReportInv'
  BY <1>1, SameEvents DEF IInv, WireInv, HashInv, ReportInv, EndInv, OnWire, WorkerOnly,
                          Silently, reader, Opening, Holding
<1> QED
  BY <1>2, <1>3, <1>4 DEF IInv

\* An exception, which unwinds whatever is held.
LEMMA RaiseKeeps ==
    ASSUME IInv, NEW x \in Exceptions, Raise(x), WorkerOnly, Silently,
           w.pc \in {"open", "probe", "acquire", "audio", "read", "whisper", "join"}
    PROVE  IInv'
<1>1. /\ w'.pc = "unwind" /\ w'.status = w.status
      /\ w'.reads = w.reads /\ w'.buffer = w.buffer /\ w'.end = w.end
      /\ w'.abort = w.abort /\ w'.aborted = w.aborted /\ w'.segments = w.segments
      /\ w'.lease = w.lease /\ w'.hash = w.hash
  BY DEF IInv, TypeOK, Workers, Raise
<1>w. w' \in Workers
  BY Zenon DEF IInv, TypeOK, Workers, Raise
<1>2. TypeOK'
  BY <1>w DEF IInv, TypeOK, WorkerOnly, Silently, reader
<1>3. UploadInv' /\ PathInv' /\ EndInv' /\ FrameInv'
  BY <1>1 DEF IInv, UploadInv, PathInv, EndInv, FrameInv, WorkerOnly, Silently, reader,
              KeyframesEnded, Opening, Holding, Naming
<1>4. WireInv' /\ HashInv' /\ ReportInv'
  BY <1>1, SameEvents DEF IInv, WireInv, HashInv, ReportInv, EndInv, OnWire, WorkerOnly,
                          Silently, reader, Opening, Holding
<1> QED
  BY <1>2, <1>3, <1>4 DEF IInv

\* Transcriber::run gives up.
LEMMA GiveUpKeeps ==
    ASSUME IInv, GiveUp, WorkerOnly, Silently, w.pc \in {"fill", "window", "whisper"}
    PROVE  IInv'
<1>1. /\ w'.pc = "returned" /\ w'.aborted = TRUE /\ w'.status = w.status
      /\ w'.reads = w.reads /\ w'.buffer = w.buffer /\ w'.end = w.end
      /\ w'.abort = w.abort /\ w'.segments = w.segments
      /\ w'.lease = w.lease /\ w'.hash = w.hash
  BY DEF IInv, TypeOK, Workers, GiveUp
<1>w. w' \in Workers
  BY Zenon DEF IInv, TypeOK, Workers, GiveUp
<1>2. TypeOK'
  BY <1>w DEF IInv, TypeOK, WorkerOnly, Silently, reader
<1>3. UploadInv' /\ PathInv' /\ EndInv' /\ FrameInv'
  BY <1>1 DEF IInv, UploadInv, PathInv, EndInv, FrameInv, WorkerOnly, Silently, reader,
              KeyframesEnded, Opening, Holding, Naming
<1>4. WireInv' /\ HashInv' /\ ReportInv'
  BY <1>1, SameEvents DEF IInv, WireInv, HashInv, ReportInv, EndInv, OnWire, WorkerOnly,
                          Silently, reader, Opening, Holding
<1> QED
  BY <1>2, <1>3, <1>4 DEF IInv

\* The moves of the worker from one step to the next, with what is known there.
Edge(l) ==
    \/ w.pc = "prefix" /\ l = "sniff"
    \/ w.pc = "sniff" /\ l = IF call.family = "ffmpeg" THEN "complete" ELSE "open"
    \/ w.pc = "open" /\ l = "info"
    \/ w.pc = "complete" /\ l = "probe" /\ upload.complete
    \/ w.pc = "probe" /\ l = "info"
    \/ w.pc = "audio" /\ l = "fill"
    \/ w.pc = "fill" /\ l = "window" /\ (w.end # None \/ w.buffer = "full")
    \/ w.pc = "fill" /\ l = "read"
    \/ w.pc = "window" /\ l = "returned" /\ w.end # None
    \/ w.pc = "window" /\ l = "whisper" /\ ~upload.aborted
    \/ w.pc = "whisper" /\ l = "finals"
    \/ w.pc = "finals" /\ l = "returned" /\ w.end # None
    \/ /\ w.pc = "judge" /\ ~w.aborted /\ ~upload.aborted
       /\ l = IF call.document THEN "name" ELSE "finish"

\* A move that changes nothing else.
LEMMA GotoKeeps ==
    ASSUME IInv, NEW l, Goto(l), Edge(l), WorkerOnly, Silently
    PROVE  IInv'
<1>1. /\ w'.pc = l /\ w'.status = w.status
      /\ w'.reads = w.reads /\ w'.buffer = w.buffer /\ w'.end = w.end
      /\ w'.abort = w.abort /\ w'.aborted = w.aborted /\ w'.segments = w.segments
      /\ w'.lease = w.lease /\ w'.hash = w.hash
  BY DEF IInv, TypeOK, Workers, Goto
<1>w. w' \in Workers
  BY DEF IInv, TypeOK, Workers, Goto, Edge
<1>2. TypeOK'
  BY <1>w DEF IInv, TypeOK, WorkerOnly, Silently, reader
<1>3. UploadInv' /\ PathInv'
  BY <1>1 DEF IInv, UploadInv, PathInv, EndInv, WorkerOnly, Silently, reader, Edge
<1>4. EndInv'
  BY <1>1 DEF IInv, TypeOK, Workers, UploadInv, EndInv, WorkerOnly, Silently, reader, Edge,
              Naming, None
<1>5. FrameInv'
  BY <1>1 DEF IInv, FrameInv, PathInv, WorkerOnly, Silently, reader, Edge, KeyframesEnded,
              Opening, Holding
<1>6. WireInv' /\ HashInv' /\ ReportInv'
  BY <1>1, SameEvents DEF IInv, WireInv, HashInv, ReportInv, EndInv, OnWire, WorkerOnly,
                          Silently, reader, Opening, Edge
<1> QED
  BY <1>2, <1>3, <1>4, <1>5, <1>6 DEF IInv

-----------------------------------------------------------------------------
(* The RPC thread and the client.                                              *)

\* A step outside the worker and the keyframe thread: a complete upload stays as it is.
LEMMA OutsideKeeps ==
    ASSUME IInv, UNCHANGED <<call, w, forwarding, wire>>,
           kf'.pc = kf.pc, kf'.count = kf.count,
           upload.complete => upload'.complete /\ upload'.size = upload.size,
           upload.aborted => upload'.aborted,
           TypeOK', UploadInv', ReportInv'
    PROVE  IInv'
<1>1. PathInv'
  BY DEF IInv, PathInv
<1>2. EndInv'
  BY DEF IInv, EndInv
<1>3. FrameInv'
  BY DEF IInv, FrameInv, KeyframesEnded
<1>4. WireInv'
  BY SameEvents DEF IInv, WireInv, OnWire
<1>5. HashInv'
  BY SameEvents DEF IInv, HashInv, OnWire
<1> QED
  BY <1>1, <1>2, <1>3, <1>4, <1>5, Zenon DEF IInv

\* The client and the upload loop change the upload only while it is being read.
LEMMA ClientKeeps ==
    ASSUME IInv, ClientGone \/ Upload
    PROVE  IInv'
<1>0. TypeOK /\ UploadInv /\ ReportInv
  BY Zenon DEF IInv
<1>1. CASE ClientGone
  <2>1. /\ UNCHANGED <<call, w, kf, forwarding, wire, upload, stop, rpc, readerStatus, outcome>>
        /\ UNCHANGED <<sawBytes, dead>> /\ cancelled' = TRUE
    BY <1>1, Zenon DEF ClientGone, reader
  <2>2. TypeOK' /\ UploadInv' /\ ReportInv'
    BY <1>0, <2>1 DEF TypeOK, UploadInv, ReportInv
  <2> QED
    BY <2>1, <2>2, OutsideKeeps
<1>2. ASSUME NEW n \in 0 .. Prefix, ReadChunk(n)
      PROVE  IInv'
  <2>1. CASE Fits(n)
    <3>1. /\ upload' \in [size : 0 .. MaxMedia, complete : BOOLEAN, aborted : BOOLEAN]
          /\ upload'.complete = upload.complete /\ upload'.aborted = upload.aborted
          /\ ~upload.complete /\ rpc' = rpc /\ sawBytes' \in BOOLEAN
      BY <1>2, <2>1, CallAssumption DEF ReadChunk, Fits, IInv, TypeOK, UploadInv
    <3>2. UNCHANGED <<call, cancelled, stop, w, kf, forwarding, wire, dead, outcome, readerStatus>>
      BY <1>2, <2>1 DEF ReadChunk
    <3>3. TypeOK' /\ UploadInv' /\ ReportInv'
      BY <1>0, <3>1, <3>2 DEF TypeOK, UploadInv, ReportInv
    <3> QED
      BY <3>1, <3>2, <3>3, OutsideKeeps
  <2>2. CASE ~Fits(n)
    <3>1. /\ UNCHANGED <<call, cancelled, stop, w, kf, forwarding, wire, dead, outcome, upload, sawBytes>>
          /\ rpc = "reading" /\ rpc' = "decide" /\ readerStatus' = "RESOURCE_EXHAUSTED"
      BY <1>2, <2>2, Zenon DEF ReadChunk
    <3>2. TypeOK' /\ UploadInv' /\ ReportInv'
      BY <1>0, <3>1 DEF TypeOK, UploadInv, ReportInv
    <3> QED
      BY <3>1, <3>2, OutsideKeeps
  <2> QED
    BY <2>1, <2>2
<1>3. CASE ReadOptions \/ ReadEnds
  <2>1. /\ UNCHANGED <<call, cancelled, stop, w, kf, forwarding, wire, dead, outcome, upload, sawBytes>>
        /\ rpc = "reading" /\ rpc' = "decide" /\ readerStatus' \in {readerStatus, "INVALID_ARGUMENT"}
    BY <1>3 DEF ReadOptions, ReadEnds
  <2>2. TypeOK' /\ UploadInv' /\ ReportInv'
    BY <1>0, <2>1 DEF TypeOK, UploadInv, ReportInv
  <2> QED
    BY <2>1, <2>2, OutsideKeeps
<1> QED
  BY <1>1, <1>2, <1>3 DEF Upload

\* A stop reaches the keyframe thread's own stop source and nothing else of it.
LEMMA StopKeepsKeyframes ==
    ASSUME TypeOK, RequestStop
    PROVE  /\ stop' = TRUE /\ kf'.pc = kf.pc /\ kf'.count = kf.count
           /\ kf' \in Stills
BY Zenon DEF TypeOK, Stills, RequestStop

\* The RPC thread ends the upload, watches the call and reports.
LEMMA RpcKeeps ==
    ASSUME IInv, Rpc
    PROVE  IInv'
<1>0. TypeOK /\ UploadInv /\ ReportInv
  BY Zenon DEF IInv
<1>1. CASE Decide
  <2>1. CASE readerStatus # "OK" \/ cancelled \/ ~sawBytes
    <3>1. /\ RequestStop /\ rpc' = "abort" /\ upload' = upload
          /\ readerStatus' \in {"OK", "INVALID_ARGUMENT", "RESOURCE_EXHAUSTED"}
          /\ UNCHANGED <<call, cancelled, sawBytes, w, forwarding, wire, dead, outcome>>
          /\ ~upload.complete /\ ~upload.aborted
      BY <1>1, <2>1 DEF Decide, IInv, TypeOK, UploadInv
    <3>2. stop' = TRUE /\ kf'.pc = kf.pc /\ kf'.count = kf.count /\ kf' \in Stills
      BY <1>0, <3>1, StopKeepsKeyframes
    <3>3. TypeOK' /\ UploadInv' /\ ReportInv'
      BY <1>0, <3>1, <3>2 DEF TypeOK, UploadInv, ReportInv
    <3> QED
      BY <3>1, <3>2, <3>3, OutsideKeeps
  <2>2. CASE ~(readerStatus # "OK" \/ cancelled \/ ~sawBytes)
    <3>1. /\ upload' \in [size : 0 .. MaxMedia, complete : BOOLEAN, aborted : BOOLEAN]
          /\ upload'.complete /\ upload'.aborted = upload.aborted /\ upload'.size = upload.size
          /\ ~upload.complete /\ ~upload.aborted /\ rpc' = "watch"
          /\ UNCHANGED <<call, cancelled, sawBytes, w, forwarding, wire, dead, outcome, stop, kf, readerStatus>>
      BY <1>1, <2>2, Zenon DEF Decide, IInv, TypeOK, UploadInv
    <3>2. TypeOK' /\ UploadInv' /\ ReportInv'
      BY <1>0, <3>1 DEF TypeOK, UploadInv, ReportInv
    <3> QED
      BY <3>1, <3>2, OutsideKeeps
  <2> QED
    BY <2>1, <2>2
<1>2. CASE AbortUpload
  <2>1. /\ upload' \in [size : 0 .. MaxMedia, complete : BOOLEAN, aborted : BOOLEAN]
        /\ upload'.complete = upload.complete /\ upload'.aborted /\ upload'.size = upload.size
        /\ ~upload.complete /\ ~upload.aborted /\ rpc' = "watch" /\ stop
        /\ UNCHANGED <<call, cancelled, readerStatus, sawBytes, stop, w, kf, forwarding, wire, dead, outcome>>
    BY <1>2, Zenon DEF AbortUpload, IInv, TypeOK, UploadInv
  <2>2. TypeOK' /\ UploadInv' /\ ReportInv'
    BY <1>0, <2>1 DEF TypeOK, UploadInv, ReportInv
  <2> QED
    BY <2>1, <2>2, OutsideKeeps
<1>3. CASE Watch
  <2>1. stop' = TRUE /\ kf'.pc = kf.pc /\ kf'.count = kf.count /\ kf' \in Stills
    BY <1>3, StopKeepsKeyframes DEF Watch, IInv
  <2>2. /\ UNCHANGED <<call, cancelled, readerStatus, sawBytes, upload, w, forwarding, wire, dead, outcome>>
        /\ rpc' = "join"
    BY <1>3, Zenon DEF Watch
  <2>3. TypeOK' /\ UploadInv' /\ ReportInv'
    BY <1>0, <2>1, <2>2 DEF TypeOK, UploadInv, ReportInv
  <2> QED
    BY <2>1, <2>2, <2>3, OutsideKeeps
<1>4. CASE Report
  <2>1. outcome' \in [status : Statuses \cup {None}, counter : {None, "transcribed", "rejected", "failed"}]
    BY <1>4 DEF Report, Counter, IInv, TypeOK, Workers, Statuses
  <2>2. outcome'.status = IF readerStatus = "OK" THEN w.status ELSE readerStatus
    BY <1>4 DEF Report
  <2>3. /\ UNCHANGED <<call, cancelled, readerStatus, sawBytes, upload, stop, w, kf, forwarding, wire, dead>>
        /\ rpc' = "done" /\ rpc \in {"watch", "join"} /\ w.pc = "done"
    BY <1>4, Zenon DEF Report
  <2>4. TypeOK' /\ UploadInv'
    BY <1>0, <2>1, <2>3 DEF TypeOK, UploadInv
  <2>5. ReportInv'
    BY <2>2, <2>3 DEF ReportInv
  <2> QED
    BY <2>3, <2>4, <2>5, OutsideKeeps
<1> QED
  BY <1>1, <1>2, <1>3, <1>4 DEF Rpc

-----------------------------------------------------------------------------
(* The worker thread.                                                          *)

\* A quiet step is a silent one.
LEMMA QuietIsSilent == ASSUME IInv, Quietly PROVE Silently
BY DEF IInv, TypeOK, Quietly, Silently

\* The steps before the MediaInfo.
LEMMA OpeningKeeps ==
    ASSUME IInv, AwaitPrefix \/ Sniff \/ OpenDecoder \/ AwaitUpload \/ Probe
    PROVE  IInv'
<1>1. WorkerOnly /\ Silently
  BY QuietIsSilent DEF AwaitPrefix, Sniff, OpenDecoder, AwaitUpload, Probe
<1>2. CASE AwaitPrefix
  BY <1>1, <1>2, ReturnKeeps, GotoKeeps DEF AwaitPrefix, Edge, Statuses, Holding
<1>3. CASE Sniff
  <2>1. \/ Return("UNIMPLEMENTED")
        \/ Goto(IF call.family = "ffmpeg" THEN "complete" ELSE "open")
    BY <1>3 DEF Sniff
  <2> QED
    BY <1>1, <1>3, <2>1, ReturnKeeps, GotoKeeps DEF Sniff, Edge, Statuses, Holding
<1>4. CASE OpenDecoder
  BY <1>1, <1>4, ReturnKeeps, RaiseKeeps, GotoKeeps
     DEF OpenDecoder, Edge, Statuses, Exceptions, Holding
<1>5. CASE AwaitUpload
  BY <1>1, <1>5, ReturnKeeps, GotoKeeps DEF AwaitUpload, Gone, Edge, Statuses, Holding
<1>6. CASE Probe
  BY <1>1, <1>6, ReturnKeeps, RaiseKeeps, GotoKeeps
     DEF Probe, Edge, Statuses, Exceptions, Holding
<1> QED
  BY <1>2, <1>3, <1>4, <1>5, <1>6

\* The MediaInfo is the first event, and the only step that leaves the opening.
LEMMA InfoKeeps ==
    ASSUME IInv, WriteInfo
    PROVE  IInv'
<1>1. CASE Written(Events!Event("info")) /\ Goto("acquire")
  <2>2. /\ wire' = Append(wire, Events!Event("info")) /\ dead' = dead
        /\ UNCHANGED <<kf, forwarding>> /\ WorkerOnly /\ w.pc = "info"
    BY <1>1 DEF WriteInfo, Written
  <2>3. /\ wire' \in Seq(Plain \cup Trailers) /\ wire' # <<>>
        /\ At("final")' = At("final") /\ At("keyframe")' = At("keyframe")
        /\ At("document")' = At("document") /\ At("complete")' = At("complete")
    BY <2>2, EventTypes, AppendEvent DEF IInv, WireInv, At
  <2>4. /\ w'.pc = "acquire" /\ w'.status = w.status
        /\ w'.reads = w.reads /\ w'.buffer = w.buffer /\ w'.end = w.end
        /\ w'.abort = w.abort /\ w'.aborted = w.aborted /\ w'.segments = w.segments
        /\ w'.lease = w.lease /\ w'.hash = w.hash
    BY <1>1 DEF IInv, TypeOK, Workers, Goto
  <2>5. w' \in Workers
    BY <1>1 DEF IInv, TypeOK, Workers, Goto
  <2>6. TypeOK'
    BY <2>2, <2>5 DEF IInv, TypeOK, WorkerOnly, reader
  <2>7. UploadInv' /\ PathInv' /\ EndInv' /\ FrameInv'
    BY <2>2, <2>4 DEF IInv, UploadInv, PathInv, EndInv, FrameInv, WorkerOnly, reader,
                      KeyframesEnded, Opening, Holding, Naming
  <2>8. WireInv' /\ HashInv' /\ ReportInv'
    BY <2>2, <2>3, <2>4 DEF IInv, WireInv, HashInv, ReportInv, EndInv, OnWire, WorkerOnly,
                            reader, Opening
  <2> QED
    BY <2>6, <2>7, <2>8 DEF IInv
<1>2. CASE WriteFails /\ Return("CANCELLED")
  BY <1>2, ReturnKeeps DEF WriteInfo, WriteFails, Silently, Statuses, Holding
<1> QED
  BY <1>1, <1>2 DEF WriteInfo

\* The pool's answers.
LEMMA PoolKeeps ==
    ASSUME IInv, Granted \/ QueueTimedOut \/ LeaveQueue
    PROVE  IInv'
<1>1. WorkerOnly /\ Silently /\ w.pc = "acquire"
  BY QuietIsSilent DEF Granted, QueueTimedOut, LeaveQueue
<1>2. CASE Granted
  <2>1. /\ w'.pc = IF call.family = "ffmpeg" THEN "spawn" ELSE "fill"
        /\ w'.reads = w.reads /\ w'.buffer = w.buffer /\ w'.end = w.end
        /\ w'.abort = w.abort /\ w'.aborted = w.aborted /\ w'.segments = w.segments
        /\ w'.status = w.status /\ w'.hash = w.hash
    BY <1>2 DEF IInv, TypeOK, Workers, Granted
  <2>2. w' \in Workers
    BY <1>2, ZenonT(60) DEF IInv, TypeOK, Workers, Granted
  <2>3. TypeOK'
    BY <1>1, <2>2 DEF IInv, TypeOK, WorkerOnly, Silently, reader
  <2>4. UploadInv' /\ PathInv' /\ EndInv' /\ FrameInv'
    BY <1>1, <2>1 DEF IInv, UploadInv, PathInv, EndInv, FrameInv, WorkerOnly, Silently,
                      reader, KeyframesEnded, Opening, Holding, Naming
  <2>5. WireInv' /\ HashInv' /\ ReportInv'
    BY <1>1, <2>1, SameEvents DEF IInv, WireInv, HashInv, ReportInv, EndInv, OnWire,
                                  WorkerOnly, Silently, reader, Opening
  <2> QED
    BY <2>3, <2>4, <2>5 DEF IInv
<1>3. CASE QueueTimedOut \/ LeaveQueue
  BY <1>1, <1>3, RaiseKeeps DEF QueueTimedOut, LeaveQueue, Exceptions
<1> QED
  BY <1>2, <1>3

\* The keyframe thread starts and forward_stop is registered.
LEMMA SpawnKeeps ==
    ASSUME IInv, Spawn
    PROVE  IInv'
<1>1. /\ w'.pc = "audio" /\ w'.status = w.status
      /\ w'.reads = w.reads /\ w'.buffer = w.buffer /\ w'.end = w.end
      /\ w'.abort = w.abort /\ w'.aborted = w.aborted /\ w'.segments = w.segments
      /\ w'.lease = w.lease /\ w'.hash = w.hash
  BY DEF IInv, TypeOK, Workers, Spawn, Goto
<1>2. w' \in Workers
  BY DEF IInv, TypeOK, Workers, Spawn, Goto
<1>3. /\ kf' \in Stills /\ kf'.pc \in {None, "extract"} /\ kf'.count = kf.count
      /\ kf.pc = None
  BY Zenon DEF IInv, TypeOK, Stills, FrameInv, Spawn
<1>4. WorkerOnly /\ UNCHANGED <<wire, dead>> /\ forwarding' = TRUE /\ w.pc = "spawn"
  BY DEF Spawn
<1>5. TypeOK'
  BY <1>2, <1>3, <1>4 DEF IInv, TypeOK, WorkerOnly, reader
<1>6. UploadInv' /\ PathInv' /\ EndInv' /\ FrameInv'
  BY <1>1, <1>3, <1>4 DEF IInv, UploadInv, PathInv, EndInv, FrameInv, WorkerOnly, reader,
                          KeyframesEnded, Opening, Holding, Naming
<1>7. WireInv' /\ HashInv' /\ ReportInv'
  BY <1>1, <1>3, <1>4, SameEvents DEF IInv, WireInv, HashInv, ReportInv, EndInv, OnWire,
                                      WorkerOnly, reader, Opening, None
<1> QED
  BY <1>5, <1>6, <1>7 DEF IInv

\* A read of the window loop.
LEMMA ReadKeeps ==
    ASSUME IInv, WorkerOnly, Silently, w.pc = "read",
           \/ GotSamples
           \/ GotNothing("eof") /\ (upload.complete \/ call.family = "wav")
           \/ GotNothing("abort") /\ upload.aborted
    PROVE  IInv'
<1>1. ASSUME NEW why \in {"eof", "abort"}, GotNothing(why),
             why = "eof" => upload.complete \/ call.family = "wav",
             why = "abort" => upload.aborted
      PROVE  IInv'
  <2>1. /\ w'.pc = "fill" /\ w'.status = w.status
        /\ w'.end = why
        /\ w'.aborted = w.aborted /\ w'.segments = w.segments
        /\ w'.lease = w.lease /\ w'.hash = w.hash
    BY <1>1 DEF IInv, TypeOK, Workers, GotNothing
  <2>2. w' \in Workers
    BY <1>1, Zenon DEF IInv, TypeOK, Workers, GotNothing
  <2>3. TypeOK'
    BY <2>2 DEF IInv, TypeOK, WorkerOnly, Silently, reader
  <2>4. UploadInv' /\ PathInv' /\ EndInv' /\ FrameInv'
    BY <1>1, <2>1 DEF IInv, UploadInv, PathInv, EndInv, FrameInv, WorkerOnly, Silently, reader,
                KeyframesEnded, Opening, Holding, Naming
  <2>5. WireInv' /\ HashInv' /\ ReportInv'
    BY <2>1, SameEvents DEF IInv, WireInv, HashInv, ReportInv, EndInv, OnWire, WorkerOnly,
                            Silently, reader, Opening
  <2> QED
    BY <2>3, <2>4, <2>5 DEF IInv
<1>2. ASSUME NEW b \in {"some", "full"}, w.reads < MaxReads,
             w' = [w EXCEPT !.reads = @ + 1, !.buffer = b, !.pc = "fill"]
      PROVE  IInv'
  <2>1. /\ w'.pc = "fill" /\ w'.status = w.status /\ w'.end = w.end
        /\ w'.aborted = w.aborted /\ w'.segments = w.segments
        /\ w'.lease = w.lease /\ w'.hash = w.hash
    BY <1>2 DEF IInv, TypeOK, Workers
  <2>2. w' \in Workers
    <3>1. w.reads + 1 \in 0 .. MaxReads
      BY <1>2, CallAssumption DEF IInv, TypeOK, Workers
    <3> DEFINE v == [w EXCEPT !.reads = w.reads + 1]
    <3>2. v \in Workers /\ w' = [v EXCEPT !.buffer = b, !.pc = "fill"]
      BY <1>2, <3>1 DEF IInv, TypeOK, Workers
    <3> HIDE DEF v
    <3> QED
      BY <3>2, Zenon DEF Workers
  <2>3. TypeOK'
    BY <2>2 DEF IInv, TypeOK, WorkerOnly, Silently, reader
  <2>4. UploadInv' /\ PathInv' /\ EndInv' /\ FrameInv'
    BY <2>1 DEF IInv, UploadInv, PathInv, EndInv, FrameInv, WorkerOnly, Silently, reader,
                KeyframesEnded, Opening, Holding, Naming
  <2>5. WireInv' /\ HashInv' /\ ReportInv'
    BY <2>1, SameEvents DEF IInv, WireInv, HashInv, ReportInv, EndInv, OnWire, WorkerOnly,
                            Silently, reader, Opening
  <2> QED
    BY <2>3, <2>4, <2>5 DEF IInv
<1>3. CASE GotSamples
  BY <1>2, <1>3, RaiseKeeps DEF GotSamples, Exceptions
<1> QED
  BY <1>1, <1>3

\* The window loop, up to the finals.
LEMMA WindowKeeps ==
    ASSUME IInv, OpenAudio \/ Fill \/ ReadUpload \/ ReadAudio \/ StartWindow \/ EndWindow
    PROVE  IInv'
<1>1. WorkerOnly /\ Silently
  BY QuietIsSilent DEF OpenAudio, Fill, ReadUpload, ReadAudio, StartWindow, EndWindow
<1>2. CASE OpenAudio
  BY <1>1, <1>2, RaiseKeeps, GotoKeeps DEF OpenAudio, Edge, Exceptions
<1>3. CASE Fill
  BY <1>1, <1>3, GiveUpKeeps, GotoKeeps DEF Fill, Edge
<1>4. CASE ReadUpload
  BY <1>1, <1>4, ReadKeeps, RaiseKeeps DEF ReadUpload, Exceptions
<1>5. CASE ReadAudio
  <2>1. upload.complete
    BY <1>5 DEF ReadAudio, IInv, PathInv
  <2> QED
    BY <1>1, <1>5, <2>1, ReadKeeps, RaiseKeeps DEF ReadAudio, Exceptions
<1>6. CASE StartWindow
  BY <1>1, <1>6, GiveUpKeeps, GotoKeeps, Zenon DEF StartWindow, Stopped, Edge, IInv, EndInv, UploadInv
<1>7. CASE EndWindow
  BY <1>1, <1>7, GiveUpKeeps, RaiseKeeps, GotoKeeps DEF EndWindow, Edge, Exceptions
<1> QED
  BY <1>2, <1>3, <1>4, <1>5, <1>6, <1>7

\* A partial that could not be written makes whisper abort.
LEMMA PartialKeeps ==
    ASSUME IInv, PartialFails
    PROVE  IInv'
<1>1. /\ w'.pc = w.pc /\ w'.status = w.status /\ w'.buffer = w.buffer /\ w'.end = w.end
      /\ w'.aborted = w.aborted /\ w'.segments = w.segments
      /\ w'.lease = w.lease /\ w'.hash = w.hash
  BY DEF IInv, TypeOK, Workers, PartialFails
<1>2. w' \in Workers
  BY Zenon DEF IInv, TypeOK, Workers, PartialFails
<1>3. WorkerOnly /\ Silently /\ w.pc = "whisper"
  BY DEF PartialFails, WriteFails, Silently
<1>4. TypeOK'
  BY <1>2, <1>3 DEF IInv, TypeOK, WorkerOnly, Silently, reader
<1>5. UploadInv' /\ PathInv' /\ EndInv' /\ FrameInv'
  BY <1>1, <1>3 DEF IInv, UploadInv, PathInv, EndInv, FrameInv, WorkerOnly, Silently, reader,
                    KeyframesEnded, Opening, Holding, Naming
<1>6. WireInv' /\ HashInv' /\ ReportInv'
  BY <1>1, <1>3, SameEvents DEF IInv, WireInv, HashInv, ReportInv, EndInv, OnWire, WorkerOnly,
                                Silently, reader, Opening
<1> QED
  BY <1>4, <1>5, <1>6 DEF IInv

\* A final segment, written or not.
LEMMA FinalKeeps ==
    ASSUME IInv, WriteFinal
    PROVE  IInv'
<1>1. w.segments + 1 \in 0 .. MaxSegments /\ w.segments \in Nat /\ w.pc = "finals"
  BY CallAssumption DEF WriteFinal, IInv, TypeOK, Workers
<1>2. CASE Written(Events!Event("final")) /\ w' = [w EXCEPT !.segments = @ + 1]
  <2>1. /\ w'.pc = w.pc /\ w'.status = w.status /\ w'.buffer = w.buffer /\ w'.end = w.end
        /\ w'.aborted = w.aborted /\ w'.segments = w.segments + 1
        /\ w'.lease = w.lease /\ w'.hash = w.hash
    BY <1>2 DEF IInv, TypeOK, Workers
  <2>2. w' \in Workers
    BY <1>1, <1>2 DEF IInv, TypeOK, Workers
  <2>3. /\ wire' = Append(wire, Events!Event("final")) /\ dead' = dead
        /\ UNCHANGED <<kf, forwarding>> /\ WorkerOnly
    BY <1>2 DEF WriteFinal, Written
  <2>4. /\ wire' \in Seq(Plain \cup Trailers) /\ wire' # <<>>
        /\ Cardinality(At("final")') = Cardinality(At("final")) + 1
        /\ At("keyframe")' = At("keyframe")
        /\ At("document")' = At("document") /\ At("complete")' = At("complete")
    BY <2>3, EventTypes, AppendEvent DEF IInv, WireInv, At
  <2>5. TypeOK'
    BY <2>2, <2>3 DEF IInv, TypeOK, WorkerOnly, reader
  <2>6. UploadInv' /\ PathInv' /\ EndInv' /\ FrameInv'
    BY <1>1, <2>1, <2>3 DEF IInv, UploadInv, PathInv, EndInv, FrameInv, WorkerOnly, reader,
                            KeyframesEnded, Opening, Holding, Naming
  <2>7. WireInv' /\ HashInv' /\ ReportInv'
    BY <1>1, <2>1, <2>3, <2>4 DEF IInv, WireInv, HashInv, ReportInv, EndInv, OnWire,
                                  WorkerOnly, reader, Opening
  <2> QED
    BY <2>5, <2>6, <2>7 DEF IInv
<1>3. CASE WriteFails /\ w' = [w EXCEPT !.segments = @ + 1, !.pc = "returned", !.aborted = TRUE]
  <2>1. /\ w'.pc = "returned" /\ w'.status = w.status /\ w'.end = w.end
        /\ w'.aborted = TRUE /\ w'.lease = w.lease /\ w'.hash = w.hash
    BY <1>3 DEF IInv, TypeOK, Workers
  <2>2. w' \in Workers
    <3> DEFINE v == [w EXCEPT !.segments = w.segments + 1]
    <3>1. v \in Workers /\ w' = [v EXCEPT !.pc = "returned", !.aborted = TRUE]
      BY <1>1, <1>3 DEF IInv, TypeOK, Workers
    <3> HIDE DEF v
    <3> QED
      BY <3>1, Zenon DEF Workers
  <2>3. WorkerOnly /\ Silently
    BY <1>3 DEF WriteFinal, WriteFails, Silently
  <2>4. TypeOK'
    BY <2>2, <2>3 DEF IInv, TypeOK, WorkerOnly, Silently, reader
  <2>5. UploadInv' /\ PathInv' /\ EndInv' /\ FrameInv'
    BY <1>1, <2>1, <2>3, Zenon DEF IInv, UploadInv, PathInv, EndInv, FrameInv, WorkerOnly, Silently,
                            reader, KeyframesEnded, Opening, Holding, Naming
  <2>6. WireInv' /\ HashInv' /\ ReportInv'
    BY <1>1, <2>1, <2>3, SameEvents DEF IInv, WireInv, HashInv, ReportInv, EndInv, OnWire,
                                        WorkerOnly, Silently, reader, Opening
  <2> QED
    BY <2>4, <2>5, <2>6 DEF IInv
<1> QED
  BY <1>2, <1>3 DEF WriteFinal

\* The next window, with what is carried over.
LEMMA NextWindowKeeps ==
    ASSUME IInv, NextWindow
    PROVE  IInv'
<1>1. WorkerOnly /\ Silently /\ w.pc = "finals"
  BY QuietIsSilent DEF NextWindow
<1>2. CASE w.end # None
  BY <1>1, <1>2, GotoKeeps DEF NextWindow, Edge
<1>3. ASSUME NEW b \in {"empty", "some"}, w' = [w EXCEPT !.buffer = b, !.pc = "fill"]
      PROVE  IInv'
  <2>1. /\ w'.pc = "fill" /\ w'.status = w.status /\ w'.end = w.end
        /\ w'.aborted = w.aborted /\ w'.segments = w.segments
        /\ w'.lease = w.lease /\ w'.hash = w.hash
    BY <1>3 DEF IInv, TypeOK, Workers
  <2>2. w' \in Workers
    BY <1>3, Zenon DEF IInv, TypeOK, Workers
  <2>3. TypeOK'
    BY <1>1, <2>2 DEF IInv, TypeOK, WorkerOnly, Silently, reader
  <2>4. UploadInv' /\ PathInv' /\ EndInv' /\ FrameInv'
    BY <1>1, <2>1 DEF IInv, UploadInv, PathInv, EndInv, FrameInv, WorkerOnly, Silently,
                      reader, KeyframesEnded, Opening, Holding, Naming
  <2>5. WireInv' /\ HashInv' /\ ReportInv'
    BY <1>1, <2>1, SameEvents DEF IInv, WireInv, HashInv, ReportInv, EndInv, OnWire,
                                  WorkerOnly, Silently, reader, Opening
  <2> QED
    BY <2>3, <2>4, <2>5 DEF IInv
<1> QED
  BY <1>2, <1>3 DEF NextWindow

\* Transcriber::run returned, and the lease goes back.
LEMMA SettleKeeps ==
    ASSUME IInv, Settle
    PROVE  IInv'
<1>1. WorkerOnly /\ UNCHANGED <<forwarding, wire, dead>> /\ w.pc = "returned"
  BY DEF Settle
<1>2. kf' \in Stills /\ kf'.pc = kf.pc /\ kf'.count = kf.count
  <2>1. kf' = kf \/ kf' = [kf EXCEPT !.stop = TRUE]
    BY DEF Settle
  <2> QED
    BY <2>1, Zenon DEF IInv, TypeOK, Stills
<1>3. ASSUME NEW l \in {"judge", "join"}, w' = [w EXCEPT !.lease = FALSE, !.pc = l],
             l = "judge" <=> call.family # "ffmpeg"
      PROVE  IInv'
  <2>1. /\ w'.pc = l /\ w'.status = w.status /\ w'.end = w.end
        /\ w'.aborted = w.aborted /\ w'.segments = w.segments
        /\ w'.lease = FALSE /\ w'.hash = w.hash
    BY <1>3 DEF IInv, TypeOK, Workers
  <2>2. w' \in Workers
    BY <1>3, Zenon DEF IInv, TypeOK, Workers
  <2>3. TypeOK'
    BY <1>1, <1>2, <2>2 DEF IInv, TypeOK, WorkerOnly, reader
  <2>4. UploadInv' /\ PathInv' /\ EndInv' /\ FrameInv'
    BY <1>1, <1>2, <1>3, <2>1 DEF IInv, UploadInv, PathInv, EndInv, FrameInv, WorkerOnly,
                                  reader, KeyframesEnded, Opening, Holding, Naming
  <2>5. WireInv' /\ HashInv' /\ ReportInv'
    BY <1>1, <1>2, <1>3, <2>1, SameEvents DEF IInv, WireInv, HashInv, ReportInv, EndInv, OnWire,
                                              WorkerOnly, reader, Opening
  <2> QED
    BY <2>3, <2>4, <2>5 DEF IInv
<1>4. ASSUME NEW x \in {"DecodeError", "ToolError"},
             w' = [w EXCEPT !.lease = FALSE, !.pc = "unwind", !.raised = x]
      PROVE  IInv'
  <2>1. /\ w'.pc = "unwind" /\ w'.status = w.status /\ w'.end = w.end
        /\ w'.aborted = w.aborted /\ w'.segments = w.segments /\ w'.hash = w.hash
    BY <1>4 DEF IInv, TypeOK, Workers
  <2>2. w' \in Workers
    <3> DEFINE v == [w EXCEPT !.lease = FALSE]
    <3>1. v \in Workers /\ w' = [v EXCEPT !.pc = "unwind", !.raised = x] /\ x \in Exceptions
      BY <1>4, Zenon DEF IInv, TypeOK, Workers, Exceptions
    <3> HIDE DEF v
    <3> QED
      BY <3>1, Zenon DEF Workers
  <2>3. TypeOK'
    BY <1>1, <1>2, <2>2 DEF IInv, TypeOK, WorkerOnly, reader
  <2>4. UploadInv' /\ PathInv' /\ EndInv' /\ FrameInv'
    BY <1>1, <1>2, <2>1 DEF IInv, UploadInv, PathInv, EndInv, FrameInv, WorkerOnly, reader,
                            KeyframesEnded, Opening, Holding, Naming
  <2>5. WireInv' /\ HashInv' /\ ReportInv'
    BY <1>1, <1>2, <2>1, SameEvents DEF IInv, WireInv, HashInv, ReportInv, EndInv, OnWire,
                                        WorkerOnly, reader, Opening
  <2> QED
    BY <2>3, <2>4, <2>5 DEF IInv
<1> QED
  BY <1>3, <1>4 DEF Settle

\* The keyframe thread has ended and the callback is gone, on the way to the
\* verdict or out of the block.
LEMMA ReleaseKeeps ==
    ASSUME IInv, WorkerOnly, UNCHANGED <<kf, wire, dead>>, forwarding' = FALSE, KeyframesEnded,
           w' \in Workers,
           w'.status = w.status, w'.end = w.end, w'.aborted = w.aborted,
           w'.segments = w.segments, w'.hash = w.hash,
           \/ w.pc = "join" /\ w'.pc \in {"judge", "unwind"} /\ w'.lease = w.lease
           \/ w.pc = "unwind" /\ w'.pc = "catch" /\ ~w'.lease
    PROVE  IInv'
<1>0. forwarding' \in BOOLEAN
  BY Zenon
<1>1. TypeOK'
  BY <1>0 DEF IInv, TypeOK, WorkerOnly, reader
<1>2. UploadInv' /\ PathInv' /\ EndInv' /\ FrameInv'
  BY DEF IInv, UploadInv, PathInv, EndInv, FrameInv, WorkerOnly, reader, KeyframesEnded,
         Opening, Holding, Naming
<1>3. WireInv' /\ HashInv' /\ ReportInv'
  BY SameEvents DEF IInv, WireInv, HashInv, ReportInv, EndInv, OnWire, WorkerOnly, reader,
                    Opening
<1> QED
  BY <1>1, <1>2, <1>3 DEF IInv

\* The join after the transcription.
LEMMA JoinKeeps ==
    ASSUME IInv, Join
    PROVE  IInv'
<1>1. WorkerOnly /\ UNCHANGED <<kf, wire, dead>> /\ forwarding' = FALSE /\ KeyframesEnded
      /\ w.pc = "join"
  BY DEF Join
<1>2. CASE Goto("judge")
  <2>1. /\ w'.pc = "judge" /\ w'.status = w.status /\ w'.end = w.end
        /\ w'.aborted = w.aborted /\ w'.segments = w.segments
        /\ w'.lease = w.lease /\ w'.hash = w.hash
    BY <1>2 DEF IInv, TypeOK, Workers, Goto
  <2>2. w' \in Workers
    BY <1>2 DEF IInv, TypeOK, Workers, Goto
  <2> QED
    BY <1>1, <2>1, <2>2, ReleaseKeeps, Zenon
<1>3. CASE Raise(kf.error) /\ kf.error # None
  <2>1. /\ w'.pc = "unwind" /\ w'.status = w.status /\ w'.end = w.end
        /\ w'.aborted = w.aborted /\ w'.segments = w.segments
        /\ w'.lease = w.lease /\ w'.hash = w.hash
    BY <1>3 DEF IInv, TypeOK, Workers, Raise
  <2>2. w' \in Workers
    <3>1. kf.error \in Exceptions
      BY <1>3 DEF IInv, TypeOK, Stills
    <3> QED
      BY <1>3, <3>1, Zenon DEF IInv, TypeOK, Workers, Raise
  <2> QED
    BY <1>1, <2>1, <2>2, ReleaseKeeps, Zenon
<1> QED
  BY <1>2, <1>3 DEF Join

\* An exception leaves the block.
LEMMA UnwindKeeps ==
    ASSUME IInv, Unwind
    PROVE  IInv'
<1>1. WorkerOnly /\ UNCHANGED <<wire, dead>> /\ forwarding' = FALSE /\ w.pc = "unwind"
  BY DEF Unwind
<1>2. CASE KeyframesEnded
  <2>1. w' = [w EXCEPT !.pc = "catch", !.lease = FALSE] /\ UNCHANGED kf
    BY <1>2 DEF Unwind
  <2>2. /\ w'.pc = "catch" /\ w'.status = w.status /\ w'.end = w.end
        /\ w'.aborted = w.aborted /\ w'.segments = w.segments
        /\ ~w'.lease /\ w'.hash = w.hash
    BY <2>1 DEF IInv, TypeOK, Workers
  <2>3. w' \in Workers
    BY <2>1, Zenon DEF IInv, TypeOK, Workers
  <2> QED
    BY <1>1, <1>2, <2>1, <2>2, <2>3, ReleaseKeeps, Zenon
<1>3. CASE ~KeyframesEnded
  <2>1. kf' = [kf EXCEPT !.stop = TRUE] /\ UNCHANGED w
    BY <1>3 DEF Unwind
  <2>2. kf' \in Stills /\ kf'.pc = kf.pc /\ kf'.count = kf.count
    BY <2>1, Zenon DEF IInv, TypeOK, Stills
  <2>3. TypeOK'
    <3>1. forwarding' \in BOOLEAN /\ dead' = dead /\ WorkerOnly
      BY <1>1, Zenon
    <3> QED
      BY <2>1, <2>2, <3>1 DEF IInv, TypeOK, WorkerOnly, reader
  <2>4. UploadInv' /\ PathInv' /\ EndInv' /\ FrameInv'
    BY <1>1, <2>1, <2>2 DEF IInv, UploadInv, PathInv, EndInv, FrameInv, WorkerOnly, reader,
                            KeyframesEnded, Opening, Holding, Naming
  <2>5. WireInv' /\ HashInv' /\ ReportInv'
    BY <1>1, <2>1, <2>2, SameEvents DEF IInv, WireInv, HashInv, ReportInv, EndInv, OnWire,
                                        WorkerOnly, reader, Opening
  <2> QED
    BY <2>3, <2>4, <2>5 DEF IInv
<1> QED
  BY <1>2, <1>3

\* The verdict, and the catch clauses.
LEMMA VerdictKeeps ==
    ASSUME IInv, Judge \/ Catch
    PROVE  IInv'
<1>1. WorkerOnly /\ Silently
  BY QuietIsSilent DEF Judge, Catch
<1>2. CASE Judge
  BY <1>1, <1>2, ReturnKeeps, GotoKeeps DEF Judge, Gone, Edge, Statuses, Holding
<1>3. CASE Catch
  <2>1. \E s \in {"CANCELLED", "RESOURCE_EXHAUSTED", "INVALID_ARGUMENT", "INTERNAL"} : Return(s)
    BY <1>3 DEF Catch
  <2> QED
    BY <1>1, <1>3, <2>1, ReturnKeeps DEF Catch, Statuses, Holding
<1> QED
  BY <1>2, <1>3

\* The Document is named and hashed.
LEMMA NameKeeps ==
    ASSUME IInv, NameDocument
    PROVE  IInv'
<1>1. WorkerOnly /\ Silently /\ w.pc = "name"
  BY QuietIsSilent DEF NameDocument
<1>2. ContentHash \in 0 .. MaxMedia
  BY CallAssumption DEF ContentHash, IInv, TypeOK
<1>3. /\ w'.pc = "finish" /\ w'.status = w.status /\ w'.end = w.end
      /\ w'.aborted = w.aborted /\ w'.segments = w.segments
      /\ w'.lease = w.lease /\ w'.hash = ContentHash
  BY DEF IInv, TypeOK, Workers, NameDocument
<1>4. w' \in Workers
  BY <1>2, Zenon DEF IInv, TypeOK, Workers, NameDocument
<1>5. TypeOK'
  BY <1>1, <1>4 DEF IInv, TypeOK, WorkerOnly, Silently, reader
<1>6. UploadInv' /\ PathInv' /\ EndInv' /\ FrameInv'
  BY <1>1, <1>3 DEF IInv, UploadInv, PathInv, EndInv, FrameInv, WorkerOnly, Silently, reader,
                    KeyframesEnded, Opening, Holding, Naming
<1>7. WireInv' /\ ReportInv'
  BY <1>1, <1>3, SameEvents DEF IInv, WireInv, ReportInv, EndInv, OnWire, WorkerOnly,
                                Silently, reader, Opening
<1>8. HashInv'
  BY <1>1, <1>3 DEF IInv, HashInv, EndInv, Naming, ContentHash, WorkerOnly, Silently, reader
<1> QED
  BY <1>5, <1>6, <1>7, <1>8 DEF IInv

\* What finish puts on the wire: the Document and the trailer, or less.
LEMMA FinishWrites ==
    ASSUME IInv, Finish
    PROVE  LET D == Events!Event("document")
               T == Events!Trailer(w.segments, kf.count)
           IN  /\ D \in Plain /\ D.kind = "document"
               /\ T \in Trailers /\ T.kind = "complete"
               /\ \/ /\ Return("OK") /\ dead' = dead
                     /\ wire' = IF call.document THEN Append(Append(wire, D), T)
                                ELSE Append(wire, T)
                  \/ /\ Return("CANCELLED") /\ dead' = TRUE
                     /\ wire' = wire \/ (call.document /\ wire' = Append(wire, D))
<1> DEFINE D == Events!Event("document")
           T == Events!Trailer(w.segments, kf.count)
           document == IF call.document THEN <<D>> ELSE <<>>
           E == Plain \cup Trailers
<1>1. w.segments \in Nat /\ kf.count \in Nat
  BY CallAssumption DEF IInv, TypeOK, Workers, Stills
<1>2. D \in Plain /\ D.kind = "document" /\ T \in Trailers /\ T.kind = "complete"
  BY <1>1, EventTypes
<1>3. \/ /\ Return("OK") /\ dead' = dead
         /\ wire' = wire \o document \o <<T>>
      \/ /\ Return("CANCELLED") /\ dead' = TRUE
         /\ wire' = wire \/ wire' = wire \o document
  BY DEF Finish
<1> HIDE DEF D, T
<1>4. wire \in Seq(E)
  BY DEF IInv, WireInv
<1>5. CASE call.document
  <2>1. wire \o <<D>> = Append(wire, D) /\ Append(wire, D) \in Seq(E)
    BY <1>2, <1>4, AppendIsConcat, AppendProperties
  <2>2. Append(wire, D) \o <<T>> = Append(Append(wire, D), T)
    BY <1>2, <2>1, AppendIsConcat
  <2> QED
    BY <1>2, <1>3, <1>5, <2>1, <2>2 DEF D, T
<1>6. CASE ~call.document
  <2>1. wire \o <<>> = wire
    BY <1>4, ConcatEmptySeq
  <2>2. wire \o <<T>> = Append(wire, T)
    BY <1>2, <1>4, AppendIsConcat
  <2> QED
    BY <1>2, <1>3, <1>6, <2>1, <2>2, Zenon DEF D, T
<1> QED
  BY <1>5, <1>6, Zenon

\* The Document and the trailer.
LEMMA FinishKeeps ==
    ASSUME IInv, Finish
    PROVE  IInv'
<1> DEFINE D == Events!Event("document")
           T == Events!Trailer(w.segments, kf.count)
           E == Plain \cup Trailers
<1>1. /\ D \in Plain /\ D.kind = "document"
      /\ T \in Trailers /\ T.kind = "complete"
      /\ \/ /\ Return("OK") /\ dead' = dead
            /\ wire' = IF call.document THEN Append(Append(wire, D), T) ELSE Append(wire, T)
         \/ /\ Return("CANCELLED") /\ dead' = TRUE
            /\ wire' = wire \/ (call.document /\ wire' = Append(wire, D))
  BY FinishWrites, Zenon
<1> HIDE DEF D, T
<1>2. WorkerOnly /\ UNCHANGED <<kf, forwarding>> /\ w.pc = "finish"
  BY DEF Finish
<1>3. wire \in Seq(E) /\ At("document") = {} /\ At("complete") = {} /\ w.status # "OK"
  BY <1>2 DEF IInv, WireInv, EndInv, OnWire
<1>4. ASSUME NEW s \in {"OK", "CANCELLED"}, Return(s), dead' \in BOOLEAN,
             wire' \in Seq(E),
             At("final")' = At("final"), At("keyframe")' = At("keyframe"),
             At("document")' # {} => call.document,
             At("complete")' # {} <=> s = "OK",
             wire = <<>> \/ wire' # <<>>
      PROVE  IInv'
  <2>1. /\ w'.pc = "done" /\ w'.status = s /\ w'.end = w.end
        /\ w'.aborted = w.aborted /\ w'.segments = w.segments
        /\ w'.lease = w.lease /\ w'.hash = w.hash
    BY <1>4 DEF IInv, TypeOK, Workers, Return
  <2>2. w' \in Workers
    <3>1. s \in Statuses
      BY DEF Statuses
    <3> QED
      BY <1>4, <3>1, Zenon DEF IInv, TypeOK, Workers, Return
  <2>3. TypeOK'
    BY <1>2, <1>4, <2>2 DEF IInv, TypeOK, WorkerOnly, reader
  <2>4. UploadInv' /\ PathInv' /\ EndInv' /\ FrameInv'
    BY <1>2, <1>4, <2>1 DEF IInv, UploadInv, PathInv, EndInv, FrameInv, WorkerOnly, reader,
                            KeyframesEnded, Opening, Holding, Naming, Statuses
  <2>5. WireInv'
    BY <1>2, <1>3, <1>4, <2>1 DEF IInv, WireInv, OnWire, Opening
  <2>6. HashInv' /\ ReportInv'
    BY <1>2, <1>4, <2>1 DEF IInv, HashInv, ReportInv, OnWire, WorkerOnly, reader
  <2> QED
    BY <2>3, <2>4, <2>5, <2>6 DEF IInv
<1>5. ASSUME NEW k
      PROVE  /\ Append(wire, D) \in Seq(E) /\ Append(wire, D) # <<>>
             /\ k # "document" => KindAt(Append(wire, D), k) = KindAt(wire, k)
             /\ Append(wire, T) \in Seq(E) /\ Append(wire, T) # <<>>
             /\ k # "complete" => KindAt(Append(wire, T), k) = KindAt(wire, k)
             /\ k = "complete" => KindAt(Append(wire, T), k) # {}
  BY <1>1, <1>3, AppendEvent
<1> DEFINE DT == Append(Append(wire, D), T)
<1>6. ASSUME NEW k
      PROVE  /\ DT \in Seq(E) /\ DT # <<>>
             /\ k \notin {"document", "complete"} => KindAt(DT, k) = KindAt(wire, k)
             /\ k = "complete" => KindAt(DT, k) # {}
  <2>1. Append(wire, D) \in Seq(E) /\ T \in E /\ T.kind = "complete"
    BY <1>1, <1>5
  <2>2. /\ DT \in Seq(E) /\ DT # <<>>
        /\ k # "complete" => KindAt(DT, k) = KindAt(Append(wire, D), k)
        /\ k = "complete" => KindAt(DT, k) # {}
    BY <2>1, AppendEvent, ZenonT(60)
  <2> QED
    BY <1>5, <2>2
<1> HIDE DEF DT
<1>7. CASE /\ Return("OK") /\ dead' = dead
           /\ wire' = IF call.document THEN DT ELSE Append(wire, T)
  <2>1. dead' \in BOOLEAN
    BY <1>7 DEF IInv, TypeOK
  <2>2. CASE call.document
    <3>1. wire' = DT
      BY <1>7, <2>2
    <3>2. /\ At("final")' = At("final") /\ At("keyframe")' = At("keyframe")
          /\ At("complete")' # {} /\ wire' \in Seq(E) /\ wire' # <<>>
      BY <1>6, <3>1 DEF At
    <3> QED
      BY <1>4, <1>7, <2>1, <2>2, <3>2
  <2>3. CASE ~call.document
    <3>1. wire' = Append(wire, T)
      BY <1>7, <2>3
    <3>2. /\ At("final")' = At("final") /\ At("keyframe")' = At("keyframe")
          /\ At("document")' = At("document")
          /\ At("complete")' # {} /\ wire' \in Seq(E) /\ wire' # <<>>
      BY <1>5, <3>1 DEF At
    <3> QED
      BY <1>3, <1>4, <1>7, <2>1, <2>3, <3>2
  <2> QED
    BY <2>2, <2>3
<1>8. CASE /\ Return("CANCELLED") /\ dead' = TRUE
           /\ wire' = wire \/ (call.document /\ wire' = Append(wire, D))
  <2>1. dead' \in BOOLEAN
    BY <1>8
  <2>2. CASE wire' = wire
    <3>1. /\ At("final")' = At("final") /\ At("keyframe")' = At("keyframe")
          /\ At("document")' = At("document") /\ At("complete")' = At("complete")
      BY <2>2 DEF At
    <3> QED
      BY <1>3, <1>4, <1>8, <2>1, <2>2, <3>1
  <2>3. CASE call.document /\ wire' = Append(wire, D)
    <3>1. /\ At("final")' = At("final") /\ At("keyframe")' = At("keyframe")
          /\ At("complete")' = At("complete") /\ wire' \in Seq(E) /\ wire' # <<>>
      BY <1>5, <2>3 DEF At
    <3> QED
      BY <1>3, <1>4, <1>8, <2>1, <2>3, <3>1
  <2> QED
    BY <1>8, <2>2, <2>3
<1> QED
  BY <1>1, <1>7, <1>8, Zenon DEF DT

-----------------------------------------------------------------------------
(* The keyframe thread, and the invariant.                                     *)

\* The steps of the keyframe thread.
LEMMA KeyframesKeep ==
    ASSUME IInv, Keyframes
    PROVE  IInv'
<1>1. KeyframesOnly /\ kf.pc \in {"extract", "write", "count"}
  BY DEF Keyframes, Extract, WriteKeyframe, CountKeyframe
<1>2. w.pc \in Holding /\ ~(w.pc \in Opening \cup {"acquire", "spawn"}) /\ w.pc # "done"
  BY <1>1 DEF IInv, FrameInv, KeyframesEnded, Opening, Holding, None
<1>3. call.family = "ffmpeg" /\ wire # <<>> /\ kf.count \in Nat
  BY <1>1, CallAssumption DEF IInv, FrameInv, WireInv, TypeOK, Stills, None
<1>4. ASSUME kf' \in Stills, kf'.pc # None, dead' \in BOOLEAN,
             wire' \in Seq(Plain \cup Trailers), wire' # <<>>,
             At("final")' = At("final"),
             At("document")' = At("document"), At("complete")' = At("complete"),
             Cardinality(At("keyframe")') = kf'.count + IF kf'.pc = "count" THEN 1 ELSE 0,
             kf'.pc \in {"write", "count"} => kf'.count < MaxKeyframes
      PROVE  IInv'
  <2>1. TypeOK'
    BY <1>1, <1>4 DEF IInv, TypeOK, KeyframesOnly, reader
  <2>2. UploadInv' /\ PathInv' /\ EndInv' /\ FrameInv'
    BY <1>1, <1>2, <1>3, <1>4 DEF IInv, UploadInv, PathInv, EndInv, FrameInv, KeyframesOnly,
                                  reader, KeyframesEnded
  <2>3. WireInv' /\ HashInv' /\ ReportInv'
    BY <1>1, <1>2, <1>4 DEF IInv, WireInv, HashInv, ReportInv, OnWire, KeyframesOnly, reader,
                            Opening
  <2> QED
    BY <2>1, <2>2, <2>3 DEF IInv
<1>5. ASSUME NEW x \in {None, "Cancelled", "DecodeError", "ToolError"}, KfEnds(x),
             kf.pc # "count", wire' = wire, dead' \in BOOLEAN
      PROVE  IInv'
  <2>1. kf' \in Stills /\ kf'.pc = "ended" /\ kf'.count = kf.count
    BY <1>5, Zenon DEF KfEnds, IInv, TypeOK, Stills, Exceptions
  <2> QED
    BY <1>3, <1>4, <1>5, <2>1, SameEvents DEF IInv, WireInv, None
<1>6. CASE Extract
  <2>1. wire' = wire /\ dead' \in BOOLEAN /\ kf.pc = "extract"
    BY <1>6 DEF Extract, IInv, TypeOK
  <2>2. CASE \E x \in {None, "Cancelled", "DecodeError", "ToolError"} : KfEnds(x)
    BY <1>5, <2>1, <2>2
  <2>3. CASE kf.count < MaxKeyframes /\ kf' = [kf EXCEPT !.pc = "write"]
    <3>1. kf' \in Stills /\ kf'.pc = "write" /\ kf'.count = kf.count
      BY <2>3 DEF IInv, TypeOK, Stills
    <3> QED
      BY <1>3, <1>4, <2>1, <2>3, <3>1, SameEvents DEF IInv, WireInv, None
  <2> QED
    BY <1>6, <2>2, <2>3 DEF Extract
<1>7. CASE WriteKeyframe
  <2>1. CASE Written(Events!Event("keyframe")) /\ kf' = [kf EXCEPT !.pc = "count"]
    <3>1. kf' \in Stills /\ kf'.pc = "count" /\ kf'.count = kf.count /\ kf.pc = "write"
      BY <1>7, <2>1 DEF WriteKeyframe, IInv, TypeOK, Stills
    <3>2. wire' = Append(wire, Events!Event("keyframe")) /\ dead' \in BOOLEAN
      BY <2>1 DEF Written, IInv, TypeOK
    <3>3. /\ wire' \in Seq(Plain \cup Trailers) /\ wire' # <<>>
          /\ Cardinality(At("keyframe")') = Cardinality(At("keyframe")) + 1
          /\ At("final")' = At("final")
          /\ At("document")' = At("document") /\ At("complete")' = At("complete")
      BY <3>2, EventTypes, AppendEvent DEF IInv, WireInv, At
    <3>4. kf.count < MaxKeyframes
      BY <3>1 DEF IInv, FrameInv
    <3> QED
      BY <1>3, <1>4, <3>1, <3>2, <3>3, <3>4, SMTT(60) DEF IInv, WireInv, None
  <2>2. CASE WriteFails /\ KfEnds(None)
    <3>1. wire' = wire /\ dead' \in BOOLEAN /\ kf.pc # "count"
      BY <1>7, <2>2 DEF WriteFails, WriteKeyframe
    <3> QED
      BY <1>5, <2>2, <3>1
  <2> QED
    BY <1>7, <2>1, <2>2 DEF WriteKeyframe
<1>8. CASE CountKeyframe
  <2>1. wire' = wire /\ dead' \in BOOLEAN /\ kf.pc = "count"
    BY <1>8 DEF CountKeyframe, IInv, TypeOK
  <2>2. kf.count + 1 \in 0 .. MaxKeyframes
    BY <1>3, <2>1, CallAssumption DEF IInv, FrameInv
  <2>3. kf' \in Stills /\ kf'.pc = "extract" /\ kf'.count = kf.count + 1
    BY <1>8, <2>2, Zenon DEF CountKeyframe, IInv, TypeOK, Stills
  <2> QED
    BY <1>3, <1>4, <2>1, <2>3, SameEvents DEF IInv, WireInv, None
<1> QED
  BY <1>6, <1>7, <1>8 DEF Keyframes

\* The invariant holds when the call starts.
LEMMA InitIInv == Init => IInv
<1> SUFFICES ASSUME Init PROVE IInv
  OBVIOUS
<1>1. w \in Workers /\ w.pc = "prefix" /\ w.end = None /\ w.status = None /\ ~w.lease
      /\ ~w.aborted /\ w.segments = 0
  BY CallAssumption, SMTT(60) DEF Init, Workers
<1>2. kf \in Stills /\ kf.pc = None /\ kf.count = 0
  BY CallAssumption DEF Init, Stills
<1>3. TypeOK
  <2>1. upload \in [size : 0 .. MaxMedia, complete : BOOLEAN, aborted : BOOLEAN]
    BY CallAssumption DEF Init
  <2>2. outcome \in [status : Statuses \cup {None},
                     counter : {None, "transcribed", "rejected", "failed"}]
    BY DEF Init
  <2>3. cancelled \in BOOLEAN /\ stop \in BOOLEAN /\ forwarding \in BOOLEAN
        /\ sawBytes \in BOOLEAN /\ dead \in BOOLEAN
    BY Zenon DEF Init
  <2>4. /\ call \in [family : Families, document : BOOLEAN, keyframes : BOOLEAN]
        /\ rpc = "reading" /\ readerStatus = "OK"
    BY DEF Init
  <2> QED
    BY <1>1, <1>2, <2>1, <2>2, <2>3, <2>4 DEF TypeOK
<1>4. UploadInv /\ PathInv /\ EndInv /\ FrameInv
  BY <1>1, <1>2 DEF Init, UploadInv, PathInv, EndInv, FrameInv, KeyframesEnded, Holding, Naming,
                    None
<1>5. wire \in Seq(Plain \cup Trailers) /\ wire = <<>>
  BY SMTT(60) DEF Init
<1>6. \A k : At(k) = {}
  BY <1>5 DEF At, KindAt
<1>7. Cardinality(At("final")) = 0 /\ Cardinality(At("keyframe")) = 0
  BY <1>6, FS_EmptySet
<1>8. WireInv
  BY <1>1, <1>2, <1>5, <1>6, <1>7 DEF WireInv, OnWire, Opening, None
<1>9. HashInv /\ ReportInv
  BY <1>1, <1>6 DEF Init, HashInv, ReportInv, OnWire
<1> QED
  BY <1>3, <1>4, <1>8, <1>9 DEF IInv

\* Every step of the call keeps the invariant.
LEMMA NextIInv == IInv /\ [Next]_vars => IInv'
<1> SUFFICES ASSUME IInv, [Next]_vars PROVE IInv'
  OBVIOUS
<1>1. CASE ClientGone \/ Upload
  BY <1>1, ClientKeeps
<1>2. CASE Rpc
  BY <1>2, RpcKeeps
<1>3. CASE Pool
  BY <1>3, PoolKeeps DEF Pool
<1>4. CASE Worker
  BY <1>4, OpeningKeeps, InfoKeeps, PoolKeeps, SpawnKeeps, WindowKeeps, PartialKeeps, FinalKeeps,
     NextWindowKeeps, SettleKeeps, JoinKeeps, VerdictKeeps, NameKeeps, FinishKeeps, UnwindKeeps
     DEF Worker
<1>5. CASE Keyframes
  BY <1>5, KeyframesKeep
<1>6. CASE UNCHANGED vars
  <2>1. TypeOK'
    BY <1>6 DEF vars, IInv, TypeOK
  <2>2. UploadInv' /\ PathInv' /\ EndInv' /\ FrameInv'
    BY <1>6, SMTT(60) DEF vars, IInv, UploadInv, PathInv, EndInv, FrameInv, KeyframesEnded
  <2>3. WireInv' /\ HashInv' /\ ReportInv'
    BY <1>6, SameEvents DEF vars, IInv, WireInv, HashInv, ReportInv, OnWire
  <2> QED
    BY <2>1, <2>2, <2>3 DEF IInv
<1> QED
  BY <1>1, <1>2, <1>3, <1>4, <1>5, <1>6 DEF Next, Returned

-----------------------------------------------------------------------------
(* What follows.                                                               *)

\* The state of every call is well typed, and the threads agree with the wire.
THEOREM CallInvariant == Spec => []IInv
BY InitIInv, NextIInv, PTL DEF Spec

\* Transcribe reports OK exactly when the client got the trailer of an upload
\* that was in order, and then the media was decoded to its own end.
THEOREM CallOkMeansWhole == Spec => []OkMeansWhole
<1>1. IInv => OkMeansWhole
  <2> SUFFICES ASSUME IInv, rpc = "done"
               PROVE  /\ outcome.status = "OK" <=>
                            /\ readerStatus = "OK"
                            /\ \E i \in DOMAIN wire : wire[i].kind = "complete"
                      /\ outcome.status = "OK" => w.end = "eof"
    BY DEF OkMeansWhole
  <2>1. outcome.status = IF readerStatus = "OK" THEN w.status ELSE readerStatus
    BY DEF IInv, ReportInv
  <2>2. w.status = "OK" <=> \E i \in DOMAIN wire : wire[i].kind = "complete"
    BY DEF IInv, WireInv, OnWire, At, KindAt
  <2>3. w.status = "OK" => w.end = "eof"
    BY DEF IInv, EndInv
  <2> QED
    BY <2>1, <2>2, <2>3
<1> QED
  BY <1>1, CallInvariant, PTL

\* Stop before abort: whisper never starts on a window that is last only because
\* the upload was given up.
THEOREM CallNoTruncatedWindow == Spec => []NoTruncatedWindow
<1>1. IInv => NoTruncatedWindow
  BY DEF IInv, EndInv, NoTruncatedWindow
<1> QED
  BY <1>1, CallInvariant, PTL

\* A worker that is done has joined its keyframe thread, removed the callback and
\* given the whisper state back, on every path out of process_stream.
THEOREM CallWorkerLeavesNothing == Spec => []WorkerLeavesNothing
<1>1. IInv => WorkerLeavesNothing
  BY DEF IInv, FrameInv, KeyframesEnded, Holding, WorkerLeavesNothing
<1> QED
  BY <1>1, CallInvariant, PTL

\* The origin hash of a Document covers the whole upload, or is left out.
THEOREM CallHashCoversUpload == Spec => []HashCoversUpload
<1>1. IInv => HashCoversUpload
  BY DEF IInv, HashInv, OnWire, At, KindAt, HashCoversUpload
<1> QED
  BY <1>1, CallInvariant, PTL

\* What the threads counted is what the protocol says was sent, and the stream is
\* open until the worker is done.
LEMMA OpenStream ==
    ASSUME IInv
    PROVE  /\ Events!Sent("final") = Cardinality(At("final"))
           /\ Events!Sent("keyframe") = Cardinality(At("keyframe"))
           /\ w.pc # "done" => ~Events!Ended
<1>1. Events!Sent("final") = Cardinality(At("final"))
  BY DEF Events!Sent, At, KindAt, Cardinality, Events!Cardinality
<1>2. Events!Sent("keyframe") = Cardinality(At("keyframe"))
  BY DEF Events!Sent, At, KindAt, Cardinality, Events!Cardinality
<1>3. ASSUME w.pc # "done", wire # <<>>
      PROVE  wire[Len(wire)].kind \notin {"document", "complete"}
  <2>1. Len(wire) \in DOMAIN wire
    BY <1>3, EmptySeq, LenProperties DEF IInv, WireInv
  <2>2. KindAt(wire, "document") = {} /\ KindAt(wire, "complete") = {}
    BY <1>3 DEF IInv, WireInv, OnWire, At
  <2> QED
    BY <2>1, <2>2 DEF KindAt
<1> QED
  BY <1>1, <1>2, <1>3 DEF Events!Ended

\* Every step that writes is a step of the protocol.
LEMMA WireSteps ==
    ASSUME IInv, Next
    PROVE  Events!Next \/ wire' = wire
<1>1. CASE WriteInfo
  BY <1>1 DEF WriteInfo, Written, WriteFails, IInv, WireInv, Opening, Events!Next, Events!SendInfo
<1>2. CASE WriteFinal
  <2>1. wire # <<>> /\ w.pc # "done"
    BY <1>2 DEF WriteFinal, IInv, WireInv, Opening
  <2>2. wire' = wire \/ wire' = Append(wire, Events!Event("final"))
    BY <1>2 DEF WriteFinal, Written, WriteFails
  <2> QED
    BY <2>1, <2>2, OpenStream DEF Events!Next, Events!SendBody
<1>3. CASE WriteKeyframe
  <2>1. wire # <<>> /\ w.pc # "done"
    BY <1>3 DEF WriteKeyframe, IInv, WireInv, FrameInv, KeyframesEnded, Holding, None
  <2>2. wire' = wire \/ wire' = Append(wire, Events!Event("keyframe"))
    BY <1>3 DEF WriteKeyframe, Written, WriteFails
  <2> QED
    BY <2>1, <2>2, OpenStream DEF Events!Next, Events!SendBody
<1>4. CASE Finish
  <2> DEFINE D == Events!Event("document")
             T == Events!Trailer(w.segments, kf.count)
  <2>1. wire # <<>> /\ w.pc = "finish" /\ ~w.aborted /\ KeyframesEnded
    BY <1>4 DEF Finish, IInv, WireInv, EndInv, FrameInv, Opening, Holding, Naming
  <2>2. w.segments = Events!Sent("final") /\ kf.count = Events!Sent("keyframe")
    BY <2>1, OpenStream, CallAssumption, SMTT(60) DEF IInv, WireInv, KeyframesEnded, TypeOK, Stills, None
  <2>3. wire' \in {wire, Append(wire, D), Append(wire, T), Append(Append(wire, D), T)}
    BY <1>4, FinishWrites, Zenon
  <2>4. Append(Append(wire, D), T) = wire \o <<D, T>>
    BY <1>4, FinishWrites, SMTT(60) DEF IInv, WireInv
  <2> QED
    BY <2>1, <2>2, <2>3, <2>4, OpenStream, Zenon DEF Events!Next, Events!SendEnd
<1>5. CASE ~(WriteInfo \/ WriteFinal \/ WriteKeyframe \/ Finish)
  BY <1>5, Zenon DEF Next, ClientGone, Upload, ReadChunk, ReadOptions, ReadEnds, Rpc, Decide,
     AbortUpload, Watch, Report, Pool, Granted, QueueTimedOut, Worker, AwaitPrefix, Sniff,
     OpenDecoder, AwaitUpload, Probe, LeaveQueue, Spawn, OpenAudio, Fill, ReadUpload, ReadAudio,
     StartWindow, PartialFails, WriteFails, EndWindow, NextWindow, Settle, Join, Judge,
     NameDocument, Unwind, Catch, Keyframes, Extract, CountKeyframe, Returned, Quietly, vars
<1> QED
  BY <1>1, <1>2, <1>3, <1>4, <1>5

\* The responses of a call implement the protocol a client may rely on.
THEOREM CallEventsInOrder == Spec => EventsInOrder
<1>1. Init => Events!Init
  BY DEF Init, Events!Init
<1>2. IInv /\ [Next]_vars => [Events!Next]_wire
  BY WireSteps DEF vars
<1> QED
  BY <1>1, <1>2, CallInvariant, PTL DEF Spec, EventsInOrder, Events!Spec
=============================================================================
