------------------------------ MODULE Windowing ------------------------------
(* The speech window cutter of the streaming tier (windowing.cpp): PCM samples *)
(* go in one by one with a voice-activity flag, overlapping inference windows  *)
(* come out.  The buffer is abstracted to its length: sample values never      *)
(* decide anything.                                                            *)
EXTENDS Integers, Sequences

CONSTANTS Policies,          \* the window policies a request may ask for
          Horizon,           \* bound on the samples of one behaviour
          MaxWindowSamples   \* 30 s of audio, the worker's limit

VARIABLES policy,        \* policy_, as accepted by the constructor
          cutter,        \* first_, buffer_.size(), committed_, number_ and the
                         \* last window handed to emit_
          received,      \* received_
          silenceStart,  \* silence_start_
          inSilence,     \* in_silence_
          finished,      \* finished_
          heard          \* history: the flag each sample came with; a sample
                         \* before the last discontinuity counts as "broken"

vars == <<policy, cutter, received, silenceStart, inSilence, finished, heard>>

ASSUME PolicyAssumption ==
    /\ MaxWindowSamples \in Nat
    /\ Horizon \in Nat
    /\ Policies \subseteq [target : Nat, max : Nat, overlap : Nat, minPause : Nat,
                           padding : Nat, speechAware : BOOLEAN,
                           failWithoutPause : BOOLEAN]

\* The constructor's two checks.
ValidPolicy(p) ==
    /\ p.target > 0
    /\ p.max >= p.target
    /\ p.max <= MaxWindowSamples
    /\ p.overlap < p.target
    /\ p.speechAware =>
          /\ p.minPause > 0
          /\ p.minPause <= p.max
          /\ p.padding * 2 < p.max
          /\ p.failWithoutPause \/ p.overlap > 0

NoWindow == [number |-> 0, first |-> 0, firstNew |-> 0, count |-> 0,
             boundary |-> "None"]

Init ==
    /\ policy \in {p \in Policies : ValidPolicy(p)}
    /\ cutter = [first |-> 0, size |-> 0, committed |-> 0, number |-> 0,
                 last |-> NoWindow]
    /\ received = 0
    /\ silenceStart = 0
    /\ inSilence = FALSE
    /\ finished = FALSE
    /\ heard = << >>

\* Faulty: only an empty window is dropped.
BadNothingNewEmpty(c, count) == count = 0

\* Faulty: a rest no longer than the overlap is taken for already sent.
BadNothingNewShort(c, count) == count <= policy.overlap

NothingNew(c, count) == count = 0 \/ c.first + count <= c.committed

Consume(count, overlap) == count - overlap

Emit(c, count, boundary, overlap) ==
    IF NothingNew(c, count)
    THEN c
    ELSE [first     |-> c.first + Consume(count, overlap),
          size      |-> c.size - Consume(count, overlap),
          committed |-> c.first + count,
          number    |-> c.number + 1,
          last      |-> [number |-> c.number + 1, first |-> c.first,
                         firstNew |-> c.committed, count |-> count,
                         boundary |-> boundary]]

\* buffer_.push_back(sample)
Push(c) == [c EXCEPT !.size = @ + 1]

\* The first admissible cut of the pause in progress.
PauseCut(c, silence) ==
    LET byTarget  == c.first + policy.target
        bySilence == silence + policy.padding
    IN  IF byTarget >= bySilence THEN byTarget ELSE bySilence

\* Faulty: the pause must be longer than the minimum.
BadLongEnough(silence, seen) == seen - silence > policy.minPause

LongEnough(silence, seen) == seen - silence >= policy.minPause

\* A pause is cut once it is long enough and both margins have been observed.
CutAtPause(c, silence, quiet, seen) ==
    LET cut == PauseCut(c, silence)
    IN  IF /\ quiet
           /\ LongEnough(silence, seen)
           /\ cut > c.first
           /\ cut + policy.padding <= seen
        THEN Emit(c, cut - c.first, "Pause", 0)
        ELSE c

\* The hard limit: the caller is told (an exception) or the speech is split.
AtLimit(c) == c.size >= policy.max

CutAtLimit(c) ==
    IF AtLimit(c) /\ ~policy.failWithoutPause
    THEN Emit(c, c.size, "Forced", policy.overlap)
    ELSE c

CutAtTarget(c) ==
    IF c.size = policy.target
    THEN Emit(c, c.size, "Fixed", policy.overlap)
    ELSE c

\* append() for one sample with its voice-activity flag.
Append1(speech) ==
    /\ ~finished
    /\ received < Horizon
    /\ received' = received + 1
    /\ inSilence' = ~speech
    /\ silenceStart' = IF ~speech /\ ~inSilence THEN received ELSE silenceStart
    /\ heard' = Append(heard, IF speech THEN "speech" ELSE "silence")
    /\ IF policy.speechAware
       THEN LET c == CutAtPause(Push(cutter), silenceStart', inSilence', received')
            IN  /\ cutter' = CutAtLimit(c)
                /\ finished' = (AtLimit(c) /\ policy.failWithoutPause)
       ELSE /\ cutter' = CutAtTarget(Push(cutter))
            /\ finished' = finished
    /\ UNCHANGED policy

Finish ==
    /\ ~finished
    /\ cutter' = [Emit(cutter, cutter.size, "End", 0) EXCEPT !.size = 0]
    /\ finished' = TRUE
    /\ UNCHANGED <<policy, received, silenceStart, inSilence, heard>>

\* Faulty: first_ stays behind when the rest was all overlap.
BadRestart(c) == [c EXCEPT !.size = 0]

\* buffer_.clear(); first_ = received_
Restart(c) == [c EXCEPT !.size = 0, !.first = received]

\* Faulty: a silence goes on across the discontinuity.
BadDiscontinuity ==
    /\ ~finished
    /\ cutter' = Restart(Emit(cutter, cutter.size, "Discontinuity", 0))
    /\ heard' = [i \in 1..Len(heard) |-> "broken"]
    /\ UNCHANGED <<policy, received, silenceStart, inSilence, finished>>

Discontinuity ==
    /\ ~finished
    /\ cutter' = Restart(Emit(cutter, cutter.size, "Discontinuity", 0))
    /\ inSilence' = FALSE
    /\ heard' = [i \in 1..Len(heard) |-> "broken"]
    /\ UNCHANGED <<policy, received, silenceStart, finished>>

Next ==
    \/ \E speech \in BOOLEAN : Append1(speech)
    \/ Finish
    \/ Discontinuity

Spec == Init /\ [][Next]_vars

-----------------------------------------------------------------------------
(* Properties *)

Boundaries == {"None", "Fixed", "Pause", "Forced", "End", "Discontinuity"}

Window == [number : Nat, first : Nat, firstNew : Nat, count : Nat,
           boundary : Boundaries]

\* Every variable keeps its type: the unsigned positions of the cutter never
\* go below zero (an erase past the end of buffer_ would).
TypeOK ==
    /\ policy \in Policies
    /\ cutter \in [first : Nat, size : Nat, committed : Nat, number : Nat,
                   last : Window]
    /\ received \in Nat
    /\ silenceStart \in Nat
    /\ inSilence \in BOOLEAN
    /\ finished \in BOOLEAN
    /\ heard \in Seq({"speech", "silence", "broken"})

\* While the cutter is open its buffer holds exactly the samples from first_ to
\* received_, reaches back no further than one overlap before committed_, and
\* stays below the length at which append() must have cut it.
BufferIsTheTail ==
    ~finished =>
        /\ cutter.first + cutter.size = received
        /\ cutter.first <= cutter.committed
        /\ cutter.committed <= cutter.first + policy.overlap
        /\ cutter.committed <= received
        /\ cutter.size < IF policy.speechAware THEN policy.max ELSE policy.target

\* finish() and discontinuity() leave no sample behind: whatever was received
\* has by then been new in some window.
NothingLeftUncut ==
    [][Finish \/ Discontinuity => cutter'.committed = received]_vars

NewWindow(boundary) ==
    /\ cutter'.number # cutter.number
    /\ cutter'.last.boundary = boundary

\* A pause cut has the padding that was asked for on both sides, all of it
\* silence, inside a silence of at least min_pause_samples.
PauseCutIsQuiet ==
    [][NewWindow("Pause") =>
         LET cut == cutter'.committed
             quiet == {i \in 1..received' : heard'[i] = "silence"}
         IN  /\ (cut - policy.padding + 1)..(cut + policy.padding) \subseteq quiet
             /\ (received' - policy.minPause + 1)..received' \subseteq quiet]_vars

\* Samples s to e, received by now, are a pause that leaves room for a cut: past
\* the target length of the window that begins at first, with both margins.
Room(first, h, s, e) ==
    /\ e - s >= policy.minPause
    /\ \A i \in (s + 1)..e : h[i] = "silence"
    /\ \E cut \in (first + policy.target)..e :
          /\ s + policy.padding <= cut
          /\ cut + policy.padding <= e

\* Speech is split, or given up, only for want of a pause.  append() cuts at every
\* sample that completes a pause with room for a cut, and a forced window has none
\* behind it, however it began; only of the pause the window before was cut at
\* something may be left over, when speech came back right after that cut.
ForcedOnlyWithoutPause ==
    [][policy.speechAware =>
         /\ received' # received /\ (\E s \in 0..received' : Room(cutter.first, heard', s, received'))
               => NewWindow("Pause")
         /\ NewWindow("Forced") =>
               \A s, e \in 0..received' :
                  Room(cutter.first, heard', s, e) =>
                     cutter.last.boundary = "Pause" /\ s <= cutter.first]_vars

\* The speech worker never refuses a window of this cutter: windows are numbered
\* without a gap, each begins its new audio where the one before it ended, no
\* overlap crosses a discontinuity, none is empty or too long, and none follows
\* the End window.
Worker ==
    INSTANCE WorkerInput WITH
        count <- cutter.number,
        end <- cutter.committed,
        afterDiscontinuity <- cutter.last.boundary = "Discontinuity",
        afterEnd <- cutter.last.boundary = "End",
        window <- cutter.last

WorkerAccepts == Worker!Spec

=============================================================================
