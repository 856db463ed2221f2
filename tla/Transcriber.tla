---------------------------- MODULE Transcriber ----------------------------
(***************************************************************************)
(* engine::Transcriber::run: the window loop that turns a stream of PCM    *)
(* samples into numbered segments.  A window is decoded as a whole; its    *)
(* last segment may be cut by the window's edge, so it is held back and    *)
(* decoded again at the head of the next window (cut_window).              *)
(*                                                                         *)
(* whisper is external: a decode yields any number of segments, with any   *)
(* speaker turns, the last one starting anywhere.  Text and tokens are     *)
(* left out.  Times are milliseconds, Rate samples each.                   *)
(***************************************************************************)
EXTENDS Naturals, Sequences, FiniteSets

CONSTANTS
    Rate,          \* samples per millisecond
    WindowMs,      \* options.window_seconds
    MaxSamples,    \* options.max_duration_seconds, in samples
    MinSamples,    \* the shortest input whisper accepts
    Diarize,       \* options.diarize
    MaxDecoded     \* bound: segments of one decode

ASSUME RunAssumption ==
    /\ Rate \in Nat \ {0} /\ WindowMs \in Nat \ {0}
    /\ MaxSamples \in Nat
    /\ MinSamples \in 1 .. WindowMs * Rate
    /\ Diarize \in BOOLEAN
    /\ MaxDecoded \in Nat

WindowSamples == WindowMs * Rate

VARIABLES
    pc,            \* fill, decode, cut; ended, aborted, capped, failed
    buffer,        \* buffer.size()
    consumed,      \* consumed_samples
    sourceDone,    \* source_done
    base,          \* RunState: ms, index and speaker of the window's segment 0
    decoded,       \* what whisper's state holds: the turns, and the last start
    stopped,       \* RunState::stopped()
    finals,        \* the final segments handed to the sink
    partials       \* the indexes handed to the sink as partials

vars == <<pc, buffer, consumed, sourceDone, base, decoded, stopped, finals, partials>>

Nothing == [turns |-> <<>>, lastStart |-> 0]

Init ==
    /\ pc = "fill"
    /\ buffer = 0 /\ consumed = 0 /\ sourceDone = FALSE
    /\ base = [ms |-> 0, index |-> 0, speaker |-> 0]
    /\ decoded = Nothing
    /\ stopped = FALSE
    /\ finals = <<>> /\ partials = {}

Running == pc \in {"fill", "decode", "cut"}

(* The stream's stop is requested, or a partial could not be delivered.    *)
Stop ==
    /\ Running /\ ~stopped
    /\ stopped' = TRUE
    /\ UNCHANGED <<pc, buffer, consumed, sourceDone, base, decoded, finals, partials>>

(* A test of stopped(): before every read, and around the decode.          *)
GiveUp ==
    /\ stopped
    /\ pc \in {"decode", "cut"} \/ (pc = "fill" /\ ~sourceDone /\ buffer < WindowSamples)
    /\ pc' = "aborted"
    /\ UNCHANGED <<buffer, consumed, sourceDone, base, decoded, stopped, finals, partials>>

(* The room left in the window.                                            *)
Space == WindowSamples - buffer

(* One read of the source into the room left in the window.  The duration  *)
(* cap is tested after the samples were taken.                             *)
Read(got) ==
    /\ pc = "fill" /\ ~sourceDone /\ buffer < WindowSamples /\ ~stopped
    /\ got <= Space
    /\ buffer' = buffer + got
    /\ consumed' = consumed + got
    /\ sourceDone' = (got = 0)
    /\ pc' = IF consumed + got > MaxSamples THEN "capped" ELSE "fill"
    /\ UNCHANGED <<base, decoded, stopped, finals, partials>>

(* The window is as full as it gets.  The final sliver is padded.          *)
CloseWindow ==
    /\ pc = "fill" /\ (sourceDone \/ buffer = WindowSamples)
    /\ pc' = IF buffer = 0 THEN "ended" ELSE "decode"
    /\ buffer' = IF buffer > 0 /\ sourceDone /\ buffer < MinSamples
                 THEN MinSamples ELSE buffer
    /\ UNCHANGED <<consumed, sourceDone, base, decoded, stopped, finals, partials>>

(* whisper_full_with_state: every committed segment goes out as a partial. *)
Decode(turns, lastStart) ==
    /\ pc = "decode" /\ ~stopped
    /\ decoded' = [turns |-> turns, lastStart |-> lastStart]
    /\ partials' = partials \cup {base.index + i - 1 : i \in DOMAIN turns}
    /\ pc' = "cut"
    /\ UNCHANGED <<buffer, consumed, sourceDone, base, stopped, finals>>

(* whisper fails without having been stopped.                              *)
DecodeFails ==
    /\ pc = "decode" /\ ~stopped
    /\ pc' = "failed"
    /\ UNCHANGED <<buffer, consumed, sourceDone, base, decoded, stopped, finals, partials>>
-----------------------------------------------------------------------------
Min2(a, b) == IF a < b THEN a ELSE b

(* last_start_ms as run passes it: read only when there are two segments.  *)
LastStartMs == IF Len(decoded.turns) >= 2 THEN decoded.lastStart ELSE 0

(* Faulty variant: a last segment at the window's first sample is held.    *)
BadHoldsBack(segments, last, windowMs, lastStart) ==
    ~last /\ segments >= 2 /\ lastStart < windowMs

(* cut_window: whether the last segment is held back, ...                  *)
HoldsBack(segments, last, windowMs, lastStart) ==
    ~last /\ segments >= 2 /\ lastStart > 0 /\ lastStart < windowMs

(* ... and the cut that follows from it.                                   *)
CutWindow(segments, last, windowMs, lastStart) ==
    IF HoldsBack(segments, last, windowMs, lastStart)
    THEN [finalize |-> segments - 1, resume |-> lastStart]
    ELSE [finalize |-> segments, resume |-> windowMs]

(* The speaker turns among the first n segments of the window.             *)
Turns(n) == Cardinality({i \in 1 .. n : decoded.turns[i]})

(* Faulty variant: the label counts the turn after the segment itself.     *)
BadReadSegment(i) ==
    [index |-> base.index + i - 1,
     speaker |-> base.speaker + Turns(i),
     turn |-> decoded.turns[i]]

(* read_segment: the i-th segment of the window under its global index,    *)
(* labelled by the turns before it.                                        *)
ReadSegment(i) ==
    [index |-> base.index + i - 1,
     speaker |-> base.speaker + Turns(i - 1),
     turn |-> decoded.turns[i]]

(* Faulty variant: the tail is dropped with the rest of the window.        *)
BadCarried(resume) == 0

(* What is left in the buffer when the next window starts resume later.    *)
Carried(resume) == buffer - Min2(resume * Rate, buffer)

(* The finals go out and the next window starts at the first sample that   *)
(* is not final.  A sink that refuses one ends the run there.              *)
Finalize(delivered) ==
    LET cut == CutWindow(Len(decoded.turns), sourceDone, buffer \div Rate, LastStartMs)
    IN  /\ pc = "cut" /\ ~stopped
        /\ delivered <= cut.finalize
        /\ finals' = finals \o [i \in 1 .. delivered |-> ReadSegment(i)]
        /\ IF delivered < cut.finalize
           THEN pc' = "aborted" /\ UNCHANGED <<base, buffer>>
           ELSE /\ pc' = IF sourceDone THEN "ended" ELSE "fill"
                /\ base' = [ms |-> IF sourceDone THEN base.ms ELSE base.ms + cut.resume,
                            index |-> base.index + cut.finalize,
                            speaker |-> base.speaker + Turns(cut.finalize)]
                /\ buffer' = IF sourceDone THEN buffer ELSE Carried(cut.resume)
        /\ UNCHANGED <<consumed, sourceDone, decoded, stopped, partials>>

(* run returned or threw.                                                  *)
Returned == ~Running /\ UNCHANGED vars
-----------------------------------------------------------------------------
TurnSeqs == UNION {[1 .. n -> IF Diarize THEN BOOLEAN ELSE {FALSE}] : n \in 0 .. MaxDecoded}

(* whisper's clock runs past the window: its last segment may start there. *)
Next ==
    \/ Stop \/ GiveUp
    \/ \E got \in 0 .. WindowSamples : Read(got)
    \/ CloseWindow
    \/ \E turns \in TurnSeqs, t \in 0 .. WindowMs + 1 : Decode(turns, t)
    \/ DecodeFails
    \/ \E delivered \in 0 .. MaxDecoded : Finalize(delivered)
    \/ Returned

Spec == Init /\ [][Next]_vars
-----------------------------------------------------------------------------
TypeOK ==
    /\ pc \in {"fill", "decode", "cut", "ended", "aborted", "capped", "failed"}
    /\ buffer \in 0 .. WindowSamples
    /\ consumed \in Nat /\ sourceDone \in BOOLEAN /\ stopped \in BOOLEAN
    /\ base \in [ms : Nat, index : Nat, speaker : Nat]
    /\ decoded \in [turns : Seq(BOOLEAN), lastStart : Nat]
    /\ finals \in Seq([index : Nat, speaker : Nat, turn : BOOLEAN])
    /\ partials \subseteq Nat

(* The finals of a run, across all its windows and the segments that were  *)
(* decoded twice, are numbered 0, 1, 2, ... without gap or repeat, and     *)
(* their speaker labels count exactly the turns of the finals before them  *)
(* (window_base_index, window_base_speaker and read_segment), in a         *)
(* well-typed state.                                                       *)
FinalsAreNumbered ==
    TypeOK /\ \A i \in DOMAIN finals :
        /\ finals[i].index = i - 1
        /\ i = 1 => finals[i].speaker = 0
        /\ i > 1 => finals[i].speaker =
                        finals[i - 1].speaker + IF finals[i - 1].turn THEN 1 ELSE 0

(* While a window fills, window_base_ms is the media time of the buffer's  *)
(* first sample: no sample is dropped or decoded under a shifted clock     *)
(* when a tail is carried over (resume_ms against keep_from_sample).       *)
WindowIsOnTheClock == pc = "fill" => base.ms * Rate + buffer = consumed

(* Every window but the last moves the clock forward and leaves room for   *)
(* new samples: no window is decoded twice from the same start             *)
(* ("Resuming in place would re-decode the same window forever").          *)
WindowsAdvance ==
    [][pc = "cut" /\ pc' = "fill" => base'.ms > base.ms /\ buffer' < WindowSamples]_vars

(* asr_service.proto on partial_segment: "A segment the decoder may still  *)
(* revise; replaced by a FinalSegment with the same index", in a run that  *)
(* ended cleanly.                                                          *)
PartialsAreReplaced ==
    pc = "ended" => \A k \in partials : \E i \in DOMAIN finals : finals[i].index = k
=============================================================================
