------------------------------- MODULE Timeline -------------------------------
(* How decoded audio keeps its place in time between the media decoder and the *)
(* speech worker: decoder.cpp resamples the frames of one track and numbers    *)
(* the chunks, Track::audio (pipeline.cpp) checks them and derives the time    *)
(* offset, vad.cpp gathers them into fixed frames, and the window cutter       *)
(* (module Windowing, whose actions are used here as they are) cuts them.      *)
(*                                                                             *)
(* One sample lasts one unit of time, so a position and a duration are the     *)
(* same number; the resampler keeps the count of samples and may hold some of  *)
(* them back.  All of it runs on the one thread of the call: `pc' is where it  *)
(* stands.                                                                     *)
EXTENDS Integers, Sequences

CONSTANTS Policies, Horizon, MaxWindowSamples,   \* those of Windowing
          ChunkSamples,   \* 4096: the longest chunk of emit_audio
          VadSamples,     \* 512: pending.size()
          Tolerance,      \* 2000 us: a timestamp this far off is no break
          MaxHeld,        \* bound on what the resampler's filter holds back
          FrameSizes,     \* nb_samples of a decoded frame
          Jumps,          \* a timestamp's distance from the expected one
          MaxFrames,      \* bound on the frames of one behaviour
          Promised        \* lengths a PCM WAV header may announce (0: none)

VARIABLES policy, cutter, received, silenceStart, inSilence, finished, heard,
          decoder,    \* AudioState, the frame and the rest of emit_audio's loop
          chunk,      \* the AudioChunk being handed over
          track,      \* Track: samples_, chunks_, time_offset_
          vad,        \* VoiceActivity: used; the samples of the frame being
                      \* emitted and its verdict
          pc,
          stamp,      \* presentation_time_us of the last hypothesis
          promised,   \* the length announced by the container
          source,     \* history: run, source time and drift of every sample
          run         \* history: the current run of the source timeline, and
                      \* how far accepted timestamps have moved within it

ASSUME TimelineAssumption ==
    /\ MaxWindowSamples \in Nat /\ Horizon \in Nat
    /\ Policies \subseteq [target : Nat, max : Nat, overlap : Nat, minPause : Nat,
                           padding : Nat, speechAware : BOOLEAN,
                           failWithoutPause : BOOLEAN]
    /\ ChunkSamples \in Nat \ {0} /\ VadSamples \in Nat \ {0}
    /\ Tolerance \in Nat /\ MaxHeld \in Nat /\ MaxFrames \in Nat
    /\ FrameSizes \subseteq Nat /\ Jumps \subseteq Int /\ Promised \subseteq Nat

windowVars == <<policy, cutter, received, silenceStart, inSilence, finished, heard>>
vars == <<windowVars, decoder, chunk, track, vad, pc, stamp, promised, source, run>>

W == INSTANCE Windowing

\* std::optional<int64_t>
Unknown == [known |-> FALSE, at |-> 0]
Time(t) == [known |-> TRUE, at |-> t]
Shift(time, d) == [time EXCEPT !.at = IF time.known THEN @ + d ELSE @]

NoFrame == [size |-> 0, time |-> Unknown]
NoChunk == [number |-> 0, first |-> 0, length |-> 0, discontinuity |-> FALSE,
            time |-> Unknown]

Init ==
    /\ W!Init
    /\ decoder = [samples |-> 0, chunks |-> 0, originSample |-> 0,
                  origin |-> Unknown, nextInput |-> Unknown,
                  discontinuity |-> FALSE, frame |-> NoFrame, frames |-> 0,
                  left |-> 0, phase |-> "receive"]
    /\ chunk = NoChunk
    /\ track = [samples |-> 0, chunks |-> 0, offset |-> Unknown]
    /\ vad = [used |-> 0, emitting |-> 0, speech |-> FALSE]
    /\ pc = "decoder"
    /\ stamp = Unknown
    /\ promised \in Promised
    /\ source = << >>
    /\ run = [number |-> 1, drift |-> 0]

Distance(a, b) == IF a >= b THEN a - b ELSE b - a
Smaller(a, b) == IF a <= b THEN a ELSE b

-----------------------------------------------------------------------------
(* decoder.cpp *)

\* Samples inside the resampler.
Held == Len(source) - decoder.samples

Discontinuous(time) ==
    /\ time.known /\ decoder.nextInput.known
    /\ Distance(time.at, decoder.nextInput.at) > Tolerance

\* Where the source says the samples of a frame are.
FrameTime(time) == IF time.known THEN time ELSE decoder.nextInput

\* convert() up to the resampler: the timestamps.
Stamped(d, size, time, broken) ==
    LET begins == time.known /\ (broken \/ ~d.origin.known)
    IN  [d EXCEPT !.origin = IF begins THEN time ELSE @,
                  !.originSample = IF begins THEN d.samples ELSE @,
                  !.nextInput = Shift(IF time.known THEN time ELSE @, size),
                  !.discontinuity = @ \/ broken]

\* History: the run the frame belongs to.  The first timestamp of a run that
\* began without any is taken to be that of the samples still held back.
RunAfter(time, broken) ==
    IF broken
    THEN [number |-> run.number + 1, drift |-> 0]
    ELSE [run EXCEPT !.drift =
             @ + IF ~time.known THEN 0
                 ELSE IF decoder.nextInput.known
                      THEN Distance(time.at, decoder.nextInput.at) ELSE Held]

\* The rest of convert(): swr_convert takes the frame and returns all but the
\* samples its filter still needs.
Resample(size, time, broken) ==
    /\ run' = RunAfter(time, broken)
    /\ source' = source \o [i \in 1..size |->
                    [run |-> run'.number, drift |-> run'.drift,
                     time |-> Shift(FrameTime(time), i - 1)]]
    /\ \E held \in 0..Smaller(MaxHeld, Held + size) :
          decoder' = [Stamped(decoder, size, time, broken) EXCEPT
                         !.left = Held + size - held,
                         !.frame = NoFrame,
                         !.frames = @ + 1,
                         !.phase = "receive"]

Decoding(phase) == pc = "decoder" /\ decoder.phase = phase /\ decoder.left = 0

\* convert() of one decoded frame; a break first empties the resampler.
Convert(size, time) ==
    /\ Decoding("receive")
    /\ decoder.frames < MaxFrames
    /\ IF Discontinuous(time)
       THEN /\ decoder' = [decoder EXCEPT !.phase = "flush", !.left = Held,
                                          !.frame = [size |-> size, time |-> time]]
            /\ UNCHANGED <<source, run>>
       ELSE Resample(size, time, FALSE)
    /\ UNCHANGED <<windowVars, chunk, track, vad, pc, stamp, promised>>

\* convert() after flush_resampler() and the reset of the resampler.
ConvertAfterBreak ==
    /\ Decoding("flush")
    /\ Resample(decoder.frame.size, decoder.frame.time, TRUE)
    /\ UNCHANGED <<windowVars, chunk, track, vad, pc, stamp, promised>>

\* Faulty: the resampler is not emptied at the end of the input.
BadEndOfInput ==
    /\ Decoding("receive")
    /\ decoder' = [decoder EXCEPT !.phase = "end"]
    /\ UNCHANGED <<windowVars, chunk, track, vad, pc, stamp, promised, source, run>>

\* The end of the input: run() empties the resampler.
EndOfInput ==
    /\ Decoding("receive")
    /\ decoder' = [decoder EXCEPT !.phase = "end", !.left = Held]
    /\ UNCHANGED <<windowVars, chunk, track, vad, pc, stamp, promised, source, run>>

Truncated == Len(source) < promised

\* run() returns to process(), which finishes the pipeline, or throws.
DecoderReturns ==
    /\ Decoding("end")
    /\ pc' = IF Truncated THEN "failed" ELSE "finish"
    /\ UNCHANGED <<windowVars, decoder, chunk, track, vad, stamp, promised, source, run>>

\* One turn of emit_audio's loop; Pipeline::audio is called with the chunk.
EmitAudio ==
    LET length == Smaller(ChunkSamples, decoder.left)
    IN  /\ pc = "decoder" /\ decoder.left > 0
        /\ chunk' = [number |-> decoder.chunks + 1, first |-> decoder.samples,
                     length |-> length, discontinuity |-> decoder.discontinuity,
                     time |-> Shift(decoder.origin,
                                    decoder.samples - decoder.originSample)]
        /\ decoder' = [decoder EXCEPT !.chunks = @ + 1, !.samples = @ + length,
                                      !.left = @ - length,
                                      !.discontinuity = FALSE]
        /\ pc' = "audio"
        /\ UNCHANGED <<windowVars, track, vad, stamp, promised, source, run>>

-----------------------------------------------------------------------------
(* The hypothesis of a window that the cutter hands to Track::infer carries    *)
(* the presentation time of the window's first sample.                         *)

Infer ==
    stamp' = IF cutter'.number = cutter.number
             THEN stamp
             ELSE Shift(track.offset, cutter'.last.first)

\* windows_->append of one sample; the cutter may give up (std::length_error).
ToWindow(speech, next) ==
    /\ W!Append1(speech)
    /\ Infer
    /\ pc' = IF finished' THEN "failed" ELSE next

(* vad.cpp: samples leave in frames of VadSamples, a shorter one only when     *)
(* flush() is called at a break or at the end.                                 *)

Quiet == vad.emitting = 0

\* flush(): the frame, without its padding, goes on with the model's verdict.
Flush(used) ==
    \E speech \in BOOLEAN :
        vad' = [used |-> 0, emitting |-> used, speech |-> speech]

\* The frame's samples, one by one, in the callback.
VadEmits ==
    /\ ~Quiet /\ pc # "failed"
    /\ ToWindow(vad.speech, pc)
    /\ vad' = [vad EXCEPT !.emitting = @ - 1]
    /\ UNCHANGED <<decoder, chunk, track, promised, source, run>>

-----------------------------------------------------------------------------
(* pipeline.cpp, Track::audio *)

\* The contiguity check, then the break or the offset.
Audio ==
    /\ pc = "audio"
    /\ pc' = IF chunk.first # track.samples \/ chunk.number # track.chunks + 1
             THEN "refused"
             ELSE IF chunk.discontinuity THEN "break" ELSE "offset"
    /\ UNCHANGED <<windowVars, decoder, chunk, track, vad, stamp, promised, source, run>>

\* Faulty: a break leaves the rest of the old run in the next frame.
BadRest == FALSE

\* What flush() finds to emit.
Rest == vad.used > 0

\* vad_->discontinuity()
BreakVad ==
    /\ pc = "break" /\ Quiet /\ Rest
    /\ Flush(vad.used)
    /\ UNCHANGED <<windowVars, decoder, chunk, track, pc, stamp, promised, source, run>>

\* windows_->discontinuity() and time_offset_.reset()
BreakWindows ==
    /\ pc = "break" /\ Quiet /\ ~Rest
    /\ W!Discontinuity
    /\ Infer
    /\ track' = [track EXCEPT !.offset = Unknown]
    /\ pc' = "offset"
    /\ UNCHANGED <<decoder, chunk, vad, promised, source, run>>

SetOffset ==
    /\ pc = "offset"
    /\ track' = [track EXCEPT !.offset =
                    IF @.known THEN @ ELSE Shift(chunk.time, -chunk.first)]
    /\ pc' = "samples"
    /\ UNCHANGED <<windowVars, decoder, chunk, vad, stamp, promised, source, run>>

\* The next sample of the chunk: samples_ counts them as they are handed on.
Sample ==
    /\ pc = "samples" /\ Quiet /\ chunk.length > 0
    /\ chunk' = [chunk EXCEPT !.length = @ - 1]
    /\ track' = [track EXCEPT !.samples = @ + 1]
    /\ IF ~policy.speechAware
       THEN ToWindow(TRUE, pc) /\ UNCHANGED vad
       ELSE /\ IF vad.used + 1 = VadSamples
               THEN Flush(VadSamples)
               ELSE vad' = [vad EXCEPT !.used = @ + 1]
            /\ UNCHANGED <<windowVars, stamp, pc>>
    /\ UNCHANGED <<decoder, promised, source, run>>

AudioReturns ==
    /\ pc = "samples" /\ Quiet /\ chunk.length = 0
    /\ track' = [track EXCEPT !.chunks = @ + 1]
    /\ pc' = "decoder"
    /\ UNCHANGED <<windowVars, decoder, chunk, vad, stamp, promised, source, run>>

\* Track::finish: vad_->finish(), then windows_->finish().
FinishVad ==
    /\ pc = "finish" /\ Quiet /\ Rest
    /\ Flush(vad.used)
    /\ UNCHANGED <<windowVars, decoder, chunk, track, pc, stamp, promised, source, run>>

FinishWindows ==
    /\ pc = "finish" /\ Quiet /\ ~Rest
    /\ W!Finish
    /\ Infer
    /\ pc' = "done"
    /\ UNCHANGED <<decoder, chunk, track, vad, promised, source, run>>

\* A native call (decoder, resampler or VAD model) reports an error.
NativeFails ==
    /\ pc \notin {"done", "failed", "refused"} /\ Quiet
    /\ pc' = "failed"
    /\ UNCHANGED <<windowVars, decoder, chunk, track, vad, stamp, promised, source, run>>

\* The timestamps a frame can come with.
Times ==
    {Unknown} \cup
    IF decoder.nextInput.known
    THEN {Time(decoder.nextInput.at + d) : d \in Jumps}
    ELSE {Time(0)}

Next ==
    \/ \E size \in FrameSizes, time \in Times : Convert(size, time)
    \/ ConvertAfterBreak \/ EndOfInput \/ DecoderReturns \/ EmitAudio
    \/ Audio \/ BreakVad \/ BreakWindows \/ SetOffset \/ Sample \/ AudioReturns
    \/ VadEmits \/ FinishVad \/ FinishWindows \/ NativeFails

Spec == Init /\ [][Next]_vars

-----------------------------------------------------------------------------
(* Properties *)

\* No window mixes audio from the two sides of a break in the source's
\* timeline, however the break falls on resampler, chunk and VAD frames; and
\* when the source's time of the window's first sample is known, the hypothesis
\* carries it, off by no more than the timestamps accepted as continuous (2 ms
\* each) have moved since the run began.
WindowOnOneTimeline ==
    cutter.number > 0 =>
        LET w == cutter.last
            begin == source[w.first + 1]
        IN  /\ \A i \in (w.first + 1)..(w.first + w.count) :
                  source[i].run = begin.run
            /\ begin.time.known =>
                  /\ stamp.known
                  /\ Distance(stamp.at, begin.time.at) <= begin.drift

\* The pipeline never refuses its own decoder's chunks, and a call that ends
\* well has cut every decoded sample into some window, the ones held back by
\* the resampler and the VAD frame included, and has decoded all that the
\* container announced.
EverySampleHeard ==
    /\ pc # "refused"
    /\ pc = "done" => /\ cutter.committed = Len(source)
                      /\ Len(source) >= promised

=============================================================================
