# grpc-asr: TLA+ specification

A verification development for grpc-asr: TLA+ modules translated from the C++
sources, TLC runs that check them on small instances, and TLAPS proofs of the
properties that matter most for every instance. Paths below are relative to the
repository root.

## The system

grpc-asr serves two APIs.

**Transcribe** (`src/`): one bidirectional call uploads media and streams back
events. The RPC thread appends chunks to a `ByteStream` and then watches the
call; a worker thread (`process_stream`) sniffs the container, decodes it
(in process, or through `ffmpeg` children for video and ogg), borrows a
`whisper_state` from the `ModelPool`, runs the `Transcriber` window loop and
writes segments; a third thread extracts keyframes. All writes go through one
`LockedWriter`, which may also fold the events into a Document.

**Media streaming** (`streaming/`): `Ingest`/`Pull` feed a stream into the
`Registry`, which numbers, retains and fans out events to `Subscribe` calls
through bounded mailboxes. On the RPC thread, `Decoder` turns the bytes into
numbered chunks of samples, and the `Pipeline` feeds them to one `Track` for
each speech task: voice activity detection, `Windowing`, and a Transcribe RPC to
a `SpeechWorker`, whose hypotheses a `Reconciler` merges into transcript
revisions.

| Part | State | Operations | What is hard |
|---|---|---|---|
| ModelPool | free list, waiters, leases | acquire, release, stop, timeout | lost wake-ups, leaks, double lending, waits that never end |
| Transcribe call | upload, stop source, three threads, writer | Read loop, give up, watch, process_stream, keyframes | order of stop and abort, late stills, unwinding, a client that leaves anywhere |
| ffmpeg children | pipes, pid, stop token, inactivity clock | spawn, read, drain, kill, reap | hung children, inherited descriptors, reaping exactly once, partial reads |
| Transcriber | buffer, clock, index and speaker base | fill, decode, cut, carry | progress, clock drift, numbering of segments decoded twice |
| Decoder, Track, VAD | sample and chunk numbers, time offset | frame, chunk, break, finish | samples held back in several places when the timeline breaks or ends |
| Windowing | buffer, committed position, running silence | append, finish, discontinuity | off-by-one cuts, stale silence, a contract with another process |
| Speech worker | stream counter, inference slot, watchdogs | admit, read, infer, close | places that must come back, a deadline racing its message |
| Ingest call | decoder, tracks, status, log | open, chunks, decode, turns with the worker, terminal event | one terminal event whatever fails first, OK only for a whole stream |
| Reconciler | pending tokens, revision, anchor | accept, finish | repeating or dropping words at window edges |
| Registry | streams, histories, mailboxes, transcripts | open, publish, close, subscribe, next, cancel | retention against resume, reuse of ids, overflow, terminal events |

## Modules

| Module | Models | Runs |
|---|---|---|
| `ModelPool` | `src/engine/model_pool.cpp`, the wait loop of `stream_backend.cpp` | model_pool |
| `StateLending` | what the pool promises: exclusive lending | refinement target of ModelPool |
| `ModelPoolProofs` | proofs about ModelPool | |
| `AsrTranscribe` | `Transcribe` and `process_stream`, `ByteStream`, `LockedWriter` | transcribe, disconnect_status, origin_hash |
| `AsrTranscribeProofs` | proofs about AsrTranscribe | |
| `EventStream` | what a Transcribe client may rely on: the order of events | refinement target of AsrTranscribe |
| `ToolProcess` | `src/media/video_demux.cpp`: child processes and their three callers | tool_process |
| `ToolProcessProofs` | proofs about ToolProcess | |
| `Transcriber` | `Transcriber::run`, `cut_window` | transcriber, partials |
| `TranscriberProofs` | proofs about Transcriber | |
| `Timeline` | the sample timeline of `decoder.cpp`, `Track::audio` and `finish`, `vad.cpp`; composed with Windowing | timeline |
| `TimelineProofs` | proofs about Timeline, from those about Windowing | |
| `Windowing` | `streaming/src/windowing.cpp` | windowing |
| `WorkerInput` | the checks of `SpeechWorker::Transcribe` on its input | refinement target of Windowing |
| `WindowingProofs` | proofs about Windowing | |
| `SpeechWorker` | `streaming/src/worker.cpp`: handlers, read watchdogs, limit, slot | ingest |
| `Ingest` | `Service::process`, `Pipeline` and `Track` (`service.cpp`, `pipeline.cpp`); composed with SpeechWorker | ingest |
| `IngestProofs` | proofs about Ingest and SpeechWorker together | |
| `Reconciler` | `streaming/src/reconcile.cpp`; composed with Transcripts | reconciler |
| `Transcripts` | the transcript part of `Registry::derived` | reconciler |
| `Registry` | `streaming/src/registry.cpp`, `Service::Subscribe` | registry |
| `RegistryProofs` | proofs about Registry | |
| `MC*` | bounds and model values for TLC | |

Every action is a critical section, or what a thread does between two accesses
to shared state. Definitions whose name starts with `Bad` are faulty variants of
a definition that follows them; no specification uses them. They document which
mistake each property detects.

**ModelPool.** `pc[s]` places each stream inside `acquire`: arriving, asleep on
the condition variable, awake (holding the mutex next), leased, or notifying
(between `push_back` and `notify_one`, which the code does after the unlock).
Stop callbacks are separate steps (`toWake`), because `request_stop` sets the
flag first and runs the callback later. Spurious wake-ups are allowed.

**AsrTranscribe.** `rpc`, `w.pc` and `kf.pc` are the three threads. The upload is
its size and two flags; PCM reads and segments are counted. `w.end` remembers
why the source ended: its own end, or an aborted upload that only looks like
one. The Document's origin hash is the part of the upload it covers. A failed
`Write` needs a call that is gone, but a gone call may still accept writes for a
while. The pool is an environment that may grant a state or not; ModelPool covers
its inside. The option checks before the first chunk are not part of the model:
they return before any thread exists.

**ToolProcess.** One call of `VideoDemux`: a probe (several children in turn), the
audio stream or the keyframes. The caller, its child, the two pipes, the stop token,
the inactivity deadline and another stream's fork take steps of their own. A child
is a script of writes with an exit code and may hang, die or close its output
anywhere. Output is a sequence of pieces, two to a sample, a PNG signature or a PNG
chunk, and a read may part them anywhere.

**Transcriber.** Sizes are samples, times milliseconds, with `Rate` samples each,
so the conversions between the two are those of the code. whisper is external: a
decode yields any number of segments with any speaker turns, and its last segment
may start anywhere, past the window included.

**Timeline.** A frame comes with a size and a timestamp that is absent, as
expected, slightly off, or far off. The resampler is external and holds back some
samples. `pc` is where the one thread stands between `emit_audio`, `Track::audio`,
the VAD frame and the window cutter, whose actions are those of Windowing through
`INSTANCE`. `source` and `run` are history variables: where each sample really
comes from.

**Windowing.** One action appends one sample, as the loop of `append` does. The
policy is chosen in Init among all the constructor accepts. `heard` is a history
variable (which samples were speech) used by properties only. A window handed to
`emit_` appears as `cutter.last`. `ForcedOnlyWithoutPause` is what `media.proto:792`
says of a forced boundary ("Hard duration limit without a confirmed pause."), with
one exception. `append` cuts at most once per sample. When a pause is long enough for
two cuts and speech returns right after the first, the rest of that pause, which
reaches back to or before the window's first sample, is not cut at any more, and the
window may end forced. Every other pause with room for a cut wins over the limit,
wherever it began: before the window, at its first sample, or after a forced cut.

**SpeechWorker and Ingest.** A `wire` is what gRPC guarantees of a stream: messages
in order, the status after them, and nothing certain once either side has
cancelled. `hand[s]` is the worker's handler of one RPC and `dog[s]` its
`ReadDeadline` thread: armed, fired (it holds the lock), over. `fetch_add` and the
`fetch_sub` of a refused RPC are two steps. `call[c]` is the thread of
`Service::process`; an exception is a jump to `unwind`, where the Pipeline's
destructor cancels the tracks that are not done. What the client sends, what the
decoder makes of it and where windows are cut are choices here (Timeline and
Windowing have them in detail); the registry is the log of one stream's events.
A rival is another client of the worker. `FeedFails` is a Track that throws while it
is fed, `length_error` at the hard limit included; `finish` of the reconciler, after
the worker's status, may throw too. All audio of a call belongs to one audio track,
so the key of `tracks_` is the task alone.

**Reconciler and Transcripts.** A speech is a sequence of timed tokens. Each window
hears the words inside it, may hear a cut word in part, and may mishear a bounded
number of words. Its tokens come marked, as Parakeet marks the start of a word, or
unmarked, as Whisper gives them; `WordBoundary` applies to the former only, so the
stable prefix may split a Whisper word, whose first pieces then come twice. `Anchor`
is the search of `reconcile.cpp` over the pending and the new tokens, written as the
best of a set. Every output goes through `Registry::derived` (Transcripts), which
compares it with the revision it keeps.

**Registry.** Events are immutable, so `log` holds each one once and everything
else refers to cursors (incarnation, sequence). `seen` is a history variable: the
last cursor of each incarnation a client accounts for. A mailbox push happens
inside the publishing step because `publish` pushes under the registry lock. The
Subscribe loop takes two steps for each event: `Take` is `next()`, after which the
mailbox has room again, and `Written` is the return of `Write`, which blocks for as
long as the client does not read; `sending` is the response in between. What a
new subscription is hydrated with is a set of entries (`Entries`) put in order
(`InOrder`): per stream its snapshot, then its events by sequence. The code visits
the streams in the order of their UUIDs, the model in the order in which they were
opened; no property tells the two apart.

## What the runs check

| Run | Shows | Bounds |
|---|---|---|
| model_pool | states conserved, no lost wake-up, exclusive lending, a free state is eventually taken, whoever should leave the queue leaves | 2 states, 3 Transcribe streams and 1 window that come and go forever, with a queue timeout: two waiters can sleep while a third arrives or leaves |
| windowing | the buffer is the tail of the audio, nothing is left uncut, pause cuts are in silence with margins, forced cuts only without an admissible pause, and the worker accepts every window sequence | every valid policy with windows up to 5 samples, overlap and padding up to 2, pauses up to 3; 9 samples: at least two windows of any policy |
| registry | history is the newest run, mailbox budget, a mailbox and the response being written are exactly the rest of what the client is due, the oldest closed stream makes way, terminal events arrive | 3 ids, room for 2 streams, 4 opens (so an id is used again after its eviction), an event larger than the retention budget, a client that follows two of the streams and one kind of payload |
| transcribe | event protocol, OK means whole, no truncated window, nothing left behind, a hash covers the whole upload, a cancelled call ends, no deadlock | 2 units of media (the cap can be hit), 2 reads, 2 finals, 2 stills; all four container classes, with and without Document and stills |
| tool_process | every child is reaped once and no signal sent after that, no piece lost between reads, OK means whole, a stop and a hung child end the call, no read waits for nothing | pipes and reads of 2 pieces, audio of two and a half samples, two stills, every truncation of them, chatty children and ones that close early |
| transcriber | numbering and speakers, clock, progress, no deadlock | windows of 3 ms with 2 samples each, up to 11 samples, up to 3 segments per decode |
| timeline | a window lies on one run of the source's timeline and carries its time, every decoded sample reaches a window | 3 frames of 0, 1 or 3 samples with timestamps missing, as expected, 1 off (accepted), 4 ahead or 3 back (breaks); chunks and VAD frames of 2 samples, so samples wait in all three places; two fixed and two speech-aware policies |
| ingest | one terminal event, OK means whole, the worker's places and slot come back, the watchdog acts on reads only, a cancelled call ends, a silent stream is released, no deadlock | 1 call with two tasks, or with one beside a rival; a worker limit of 2 with 0 or 1 places taken by others; 1 chunk, 1 window for each track: both tracks compete for the slot and the limit. Two tracks never exceed `MaxTracks` = 2, so the refusal of a Track too many (32 in the code) is not reached; the theorems cover it |
| reconciler | the finished transcript has every word and, unless it says otherwise or a word was misheard, is what was said, with no marked word twice; the registry takes every revision, that of the last flush included | 12 utterances of up to 4 words (one said twice, one with a split character, the same unmarked) shifted against windows of 1 and 1.2 s with 0.6 s overlap, one misheard word, 2 languages, 2 segments kept |
| disconnect_status, origin_hash | expected violations, see below | as transcribe |
| partials | expected violation, see below | as transcriber |

`CHECK_DEADLOCK FALSE` is set where the model really stops: windowing and timeline
(finished, failed, or the bound on the audio) and the registry (event bounds).

Type invariants are checked as a conjunct of one invariant of each run
(`MailboxWithinBudget`, `WorkerLeavesNothing`, `FinalsAreNumbered`, `ReapedOnce`,
`OneTerminalEvent`) and are proved for every module with a proof module.

The reconciler's run keeps to utterances that satisfy `ReconcilerAssumption`: words
are shorter than the overlap, and no word is said again within the matching
tolerance. Without the second condition two occurrences cannot be told apart by
text and time, and nothing in the repository says which one the anchor should take.

### Fairness

- ModelPool: weak fairness on what a stream does once it may run (poll, take the
  mutex, notify) and on stop callbacks; on the clock only for the 20 ms slices of
  streaming windows, which always pass. None on clients, and none on the return of
  a lease: nobody who waits is promised a state, only that a free one is taken and
  that a stream that should leave does.
- Registry: weak fairness on `next` and on the return of the Subscribe loop (it polls
  every 50 ms), none on publishers and none on `Write`: `TerminalEventArrives` has as
  its premise that the client keeps reading.
- AsrTranscribe: weak fairness on each thread, and on `Read` returning once the
  call is gone. None on the client and none on the pool granting a state, so
  CancelledCallEnds rests on the stop alone.
- ToolProcess: weak fairness on the caller's thread (its inactivity deadline
  included, which poll observes), on SIGKILL ending a process, and on another
  stream's fork reaching its exec. None on what a child does.
- Ingest: weak fairness on the call's thread and on the worker's handlers. None on
  clients or deadlines; `SilentStreamIsReleased` assumes of deadlines only that
  none stays armed for ever.

### Findings

1. `disconnect_status`: `process_stream` tests `is_aborted()` and then reads the
   prefix. A client that goes away between the two has its known container
   reported as UNIMPLEMENTED and counted as rejected, against the comment "report
   the disconnect, not a media defect" further down in the same function.
2. `origin_hash`: a wav is decoded while it is uploaded. When its data chunk ends
   before the last byte has come, `is_complete()` is false and the Document of a call
   that ends OK has no origin hash, against the comment "the origin hash needs every
   byte, so this lands once the upload is in" (`asr_service.cpp:356`) and the design
   document. `HashCoversUpload` is what does hold: a hash is never over a part of the
   upload, and only a wav goes without one.
3. `partials`: a segment that was held back and decodes to nothing the second
   time leaves a partial that no final with its index replaces, against the
   comment in the proto.

Two observations without a run. A cancelled call increments `failed`, whose comment
in `asr_service.h` speaks of server-caused failures. And a Transcribe call whose
worker fails early is told so only after the client has half-closed or left,
because the upload loop looks at nothing but its reads (`asr_service.cpp:494`).

## What is proved

Proved with TLAPS for every value of the constants that satisfies the named
assumptions.

**ModelPool** (`PoolAssumption`: finite disjoint sets, `None` is not a state).
The inductive invariant is `TypeOK /\ StatesConserved /\ NoLostWakeup`.
`StatesConserved` says the free list and the leases are disjoint, without
duplicates, and together all states; `TypeOK` needs it because a release pushes
back whatever the lease holds. `NoLostWakeup` counts: while somebody sleeps, the
free states are at most the streams awake plus the notifications pending. It is
inductive because an awake stream re-evaluates the predicate before it leaves.
`PoolLendsExclusively` shows that every step of the pool is a step or a stutter
of StateLending.

**Windowing** (`PolicyAssumption`). The invariant adds to the checked
properties that the policy is valid, that an open cutter is `Ready` (before the
first window and after a discontinuity its buffer starts at the committed sample,
and it has not sent the End window: what the worker tests of the next one) and
that `silence_start_` is where the running silence began (`Quiet`).
`CutterSatisfiesWorker` is the refinement of WorkerInput: whatever the policy and
the audio, `SpeechWorker` refuses none of the windows. `CutterLeavesNothing` and
`CutterPausesAreQuiet` are action properties proved from the invariant.
`CutterForcesOnlyWithoutPause` needs a second one, `Pauses`: the silence in
progress began no earlier than `silence_start_`, and no pause of the open buffer,
the rest of the one the last cut was made in excepted, could have been cut at. It is
inductive because a pause that could be cut at after a cut could have been, one
sample shorter, before it. The other half of the property, that a sample which makes
room for a pause cut is answered by one, is the lemmas `PauseIsSeen` and
`PauseIsTaken`.

**Timeline** (`TimelineAssumption`). Windowing's invariant is used as it stands;
the three components together need four more facts. `Flow`: every decoded sample is
in exactly one of the resampler, the chunk, the VAD frame and the cutter, and
chunks are numbered as the track expects. `OneRun`: what the cutter holds and what
is still to come lies on one run of the source's timeline, or on two that meet at a
break the cutter has not been told of and that no sample handed on has crossed.
`OnTime`: the decoder's origin and the track's offset put every sample with a known
time within the drift that was accepted. `LastWindow`: the last window lies within
the decoded audio. `TimelineWindowOnOneTimeline` and `TimelineEverySampleHeard`
follow.

**Transcriber** (`RunAssumption`). The invariant adds to `FinalsAreNumbered` that
the index and the speaker of the next window follow the finals that went out
(`Counted`), and that a window which is decoded but not the last is full and on the
clock (`OnClock`). `RunWindowsAdvance` is an action property proved from it: with a
full window and a resume point past its start, `keep_from_sample` is positive.

**AsrTranscribe** (`CallAssumption`). The invariant says, thread by thread, what is
known where. `UploadInv`: giving up stops first and aborts second. `PathInv`: only
the ffmpeg path waits for the whole upload. `EndInv`: why the window loop ended,
and that the worker gets past the judging only with the media's own end.
`FrameInv`: what process_stream holds (keyframe thread, stop callback, pool state)
it holds between known points. `WireInv`: the events on the wire are what the two
writing threads counted. `HashInv` and `ReportInv` carry the hash and the status to
the end. The four safety theorems follow, and `CallEventsInOrder`: every step is a
step or a stutter of EventStream, the trailer's step because the keyframe thread
has been joined and its count is final.

**ToolProcess** (`ToolAssumption`: scripts of pieces; a child writes nothing to a
stdout it has closed). `Life` says who owns the child: between fork and the end of
`wait_exit` the process exists and `reaped_` is false. `Script` says what the child
may still write, `Ending` that past the end of file the pipe is empty and stays so,
`Ongoing` that no result is set before the call leaves. `ToolReapedOnce`,
`ToolFramingLosesNothing` and `ToolOkMeansWhole` follow. The framing lemmas find the
first boundary in the bytes carried over with the least-element theorem of the
naturals, in place of an induction.

**SpeechWorker and Ingest** (`WorkerAssumption`: finitely many RPCs, `None` is no
status; `IngestAssumption`: tracks are no rivals). `WorkerPlaces` shows that
`streams_` equals the handlers inside Transcribe plus the places taken by others,
that no more than the limit are admitted although `fetch_add` overshoots it, and
that the slot is taken exactly while its holder infers; `DeadlineEndsWithRead` that
no watchdog outlives its read. The latter is inductive because a handler acts on a
message only once `~ReadDeadline` has joined the watchdog. The former needs more:
the inductive invariant adds `Undialled`: a Track that does not exist yet has no
handler, and a call dials only such a Track, so a dial never resets a handler that
holds a place. Each handler step is then one of entering, staying and returning, and
the lemmas `Entering`, `Staying` and `Returning` count the set of handlers before
and after it.

`CallPublishesOneTerminal` and `CallOkMeansWhole` need a second inductive
invariant, `JInv`, about each call with its log, its Tracks, their RPCs and the
handlers at the other end. `Ledger` says what the log holds at each point of
`Service::process`, the number of source and terminal events included. `Progress`
says that a call reaches its end with OK only through the closing of every Track.
`Whole` ties the counts together while no exception was thrown: the hypotheses in
the log are the windows the Track has an answer for, the finish on the wire names
their number, and a status OK of the RPC means that the worker counted the same.
`Ends` says that a status is on the wire exactly when the handler has ended. A window
that is being answered is the one point where `cut` and `count` differ (`Answering`).
Counting takes a few facts about finite sets; they are collected in
`FiniteCounting`, which the invariant carries and the last section proves.

**Registry** (`RegistryAssumption`: charges and limits are naturals, filters name
existing ids and kinds). The inductive invariant has seven parts. `LogOK`: no
incarnation is without events. `TableOK`: a stream is the incarnation its record
names, and `closedAt` lists the closed ones once each. `HistoryOK` is
`HistoryIsNewestRun` with the first retained event in range. `BoxesOK`: a mailbox
refers to events that exist and its byte count is their cost, which an append to the
log does not change. `SeenOK`: nobody has seen what was not published. `SendingOK`:
a response in `Write` came from a mailbox and goes with its RPC. `RestOK` is
`MailboxIsTheRest`, entry by entry, over the response in `Write` followed by the
mailbox (`Outgoing`). The hard step is `Subscribe`: `Hydrates` states what the
ordered entries contain, `ResumedCursor` that a cursor which passes the checks names
the stream's present incarnation and lies within what is retained, and
`HydrationIsTheRest` that the queue so built is what the client still wants.
`Publish` keeps the rest because an event goes to exactly the mailboxes that accept
it, or the mailbox stops. `OnlyOldestClosedMakesWay` is an action property proved
from `TableOK`. What `Total` computes is proved without an induction theorem: the
set of lengths for which the sums agree contains zero and every successor, and a
least counterexample would contradict that (`LeastNat`, `EveryNat`).

Only model-checked:

- all liveness properties and freedom from deadlock: liveness under fairness and
  ENABLED are outside the prover;
- Reconciler and Transcripts (`TranscriptIsWhole`, `RevisionsAreAccepted`). The
  properties compare texts that a search over alignments of two token sequences
  assembled, for utterances that satisfy `ReconcilerAssumption`. What that search
  finds for every input takes an induction over both sequences; the library's
  induction theorems cannot be instantiated here, and the argument by a least
  counterexample that serves for the sums of Registry was not carried that far.

## Not modelled

- `HttpInput` and the `Pull` RPC: a loop around curl's multi interface. What it hands
  to `Service::process` is a sequence of chunks, an end or an error, which Ingest
  takes as choices.
- `AsrDocumentFold`: a sequential translation of events into a document tree. The
  order of the events it gets is EventStream's; its content is data.
- Speech models (`SpeechModel`, Parakeet, whisper itself): numeric inference in
  libraries. Callers depend on a result, a failure or a cancellation, all of which
  are choices in the models of the callers.
- Container sniffing, configuration and option validation: pure functions without
  state that return before anything is started.
- Process startup and shutdown, GetServiceInfo, GetModelInfo and the metrics line.
- Of modelled parts: texts, wording, log probabilities, hashing itself, the decoder's
  packets and media descriptions, the registry's producer list and snapshot budget,
  and the internals of gRPC, libav, miniaudio and the C++ library, which appear as
  the code uses them.
