--------------------------- MODULE TimelineProofs ---------------------------
(* Proofs about the way of the samples from the decoder to the windows, for    *)
(* every frame size, timestamp, chunk length, VAD frame and window policy.     *)
(*                                                                             *)
(* The invariant of the window cutter (module WindowingProofs) is used as it   *)
(* is; what is added says where the samples between decoder and cutter are     *)
(* (Flow), which of them belong to one run of the source's timeline (OneRun),  *)
(* and what the offsets of decoder and track say of their times (OnTime).      *)
EXTENDS Timeline, TLAPS

WP == INSTANCE WindowingProofs

-----------------------------------------------------------------------------
(* Types *)

Optional == [known : BOOLEAN, at : Int]
Frames == [size : Nat, time : Optional]
Decoders == [samples : Nat, chunks : Nat, originSample : Nat,
             origin : Optional, nextInput : Optional, discontinuity : BOOLEAN,
             frame : Frames, frames : Nat, left : Nat,
             phase : {"receive", "flush", "end"}]
Chunks == [number : Nat, first : Nat, length : Nat, discontinuity : BOOLEAN,
           time : Optional]
Tracks == [samples : Nat, chunks : Nat, offset : Optional]
Vads == [used : Nat, emitting : Nat, speech : BOOLEAN]
Samples == [run : Nat, drift : Nat, time : Optional]
Runs == [number : Nat, drift : Nat]

Handing == {"audio", "break", "offset", "samples"}

TypeOK ==
    /\ decoder \in Decoders /\ chunk \in Chunks /\ track \in Tracks /\ vad \in Vads
    /\ pc \in Handing \cup {"decoder", "refused", "finish", "done", "failed"}
    /\ stamp \in Optional /\ promised \in Nat
    /\ source \in Seq(Samples) /\ run \in Runs

-----------------------------------------------------------------------------
(* Small facts *)

\* Before the first sample there is none.
LEMMA NoneYet == ASSUME NEW a, NEW b, a = 0, b = 0 PROVE (a + 1)..b = {}
  OBVIOUS

\* A sample beyond the first b is one of the n that follow them.
LEMMA Beyond ==
    ASSUME NEW a \in Nat, NEW b \in Nat, NEW n \in Nat, NEW l, l = b + n,
           NEW i \in (a + 1)..l, i > b
    PROVE  i \in (b + 1)..(b + n)
  OBVIOUS

\* std::nullopt has no value.
LEMMA UnknownIsNot == ~Unknown.known
  BY DEF Unknown

-----------------------------------------------------------------------------
(* The inductive invariant *)

\* Every sample is somewhere: still in the resampler, in the chunk, in the VAD
\* frame or received by the cutter.
Flow ==
    /\ received + vad.used + vad.emitting = track.samples
    /\ ~policy.speechAware => vad.used = 0
    /\ decoder.samples + decoder.left <= Len(source)
    /\ decoder.phase # "receive" => decoder.samples + decoder.left = Len(source)
    /\ decoder.phase = "flush" => decoder.frame.time.known
    /\ pc \in Handing =>
          /\ decoder.samples = track.samples + chunk.length
          /\ decoder.chunks = track.chunks + 1
          /\ pc # "samples" => chunk.first = track.samples
          /\ pc = "audio" => chunk.number = decoder.chunks
    /\ pc \in {"decoder", "finish", "done"} =>
          decoder.samples = track.samples /\ decoder.chunks = track.chunks
    /\ pc \in {"finish", "done"} =>
          decoder.phase = "end" /\ decoder.left = 0 /\ Len(source) >= promised
    /\ pc \in {"decoder", "done"} => Quiet
    /\ pc = "done" => vad.used = 0 /\ cutter.committed = received
    /\ pc # "refused"
    /\ finished => pc \in {"done", "failed"}
    /\ decoder.discontinuity => pc \in {"decoder", "finish", "done", "failed"}

Going == pc \notin {"done", "failed"}

\* There is a break the cutter has not been told of.
Open == decoder.discontinuity \/ (pc \in {"audio", "break"} /\ chunk.discontinuity)

\* What the cutter still holds, and all that is to come, is one run; or two that
\* meet at the break, which no sample handed on has crossed.
OneRun ==
    Going =>
      /\ \A i \in (track.samples + 1)..Len(source) : source[i].run = run.number
      /\ \A i, j \in (cutter.first + 1)..track.samples : source[i].run = source[j].run
      /\ ~Open => \A i \in (cutter.first + 1)..Len(source) : source[i].run = run.number

\* A sample whose source time is known lies where the offset puts it, up to the
\* drift.
Fits(offset, sample, i) ==
    sample.time.known =>
      /\ offset.known
      /\ Distance(offset.at + i - 1, sample.time.at) <= sample.drift

\* origin_time at the first sample, were the run to go back that far.
DecoderOffset == Shift(decoder.origin, -decoder.originSample)

\* The samples whose offset the track has settled.
Settled == IF pc = "samples" THEN decoder.samples ELSE track.samples

OnTime ==
    Going =>
      /\ decoder.origin.known = decoder.nextInput.known
      /\ decoder.nextInput.known =>
            Distance(DecoderOffset.at + Len(source), decoder.nextInput.at) <= run.drift
      /\ pc \in {"audio", "break", "offset"} => chunk.time = Shift(DecoderOffset, chunk.first)
      /\ \A i \in (track.samples + 1)..Len(source) : Fits(DecoderOffset, source[i], i)
      /\ \A i \in (cutter.first + 1)..Settled : Fits(track.offset, source[i], i)
      /\ ~Open /\ track.offset.known => track.offset = DecoderOffset

\* The last window lies within the decoded audio.
LastWindow ==
    cutter.number > 0 =>
      cutter.last.count > 0 /\ cutter.last.first + cutter.last.count <= Len(source)

IInv ==
    /\ TypeOK
    /\ WP!IInv
    /\ Flow
    /\ OneRun
    /\ OnTime
    /\ LastWindow
    /\ WindowOnOneTimeline

-----------------------------------------------------------------------------
(* The window cutter, used through its own invariant                           *)

\* The assumptions of the cutter are met.
LEMMA CutterAssumption == WP!PolicyAssumption
BY TimelineAssumption DEF WP!PolicyAssumption

\* Both instances of the cutter are the same machine.
LEMMA SameCutter ==
    /\ W!Init => WP!Init
    /\ \A speech \in BOOLEAN : W!Append1(speech) => WP!Append1(speech)
    /\ W!Finish => WP!Finish
    /\ W!Discontinuity => WP!Discontinuity
<1>1. W!Init => WP!Init
  BY Zenon DEF W!Init, WP!Init, W!ValidPolicy, WP!ValidPolicy, W!NoWindow, WP!NoWindow
<1>2. \A speech \in BOOLEAN : W!Append1(speech) => WP!Append1(speech)
  BY ZenonT(60)
     DEF W!Append1, WP!Append1, W!CutAtPause, WP!CutAtPause, W!CutAtLimit, WP!CutAtLimit,
         W!CutAtTarget, WP!CutAtTarget, W!Push, WP!Push, W!AtLimit, WP!AtLimit,
         W!Emit, WP!Emit, W!NothingNew, WP!NothingNew, W!Consume, WP!Consume,
         W!PauseCut, WP!PauseCut, W!LongEnough, WP!LongEnough
<1>3. W!Finish => WP!Finish
  BY Zenon DEF W!Finish, WP!Finish, W!Emit, WP!Emit, W!NothingNew, WP!NothingNew,
               W!Consume, WP!Consume
<1>4. W!Discontinuity => WP!Discontinuity
  BY Zenon DEF W!Discontinuity, WP!Discontinuity, W!Emit, WP!Emit, W!NothingNew,
               WP!NothingNew, W!Consume, WP!Consume, W!Restart, WP!Restart
<1> QED
  BY <1>1, <1>2, <1>3, <1>4

\* At most one window is sent, it begins with the buffer, and what was received
\* contains it.
Cuts ==
    /\ cutter'.first \in Nat /\ cutter'.first >= cutter.first
    /\ \/ cutter'.number = cutter.number /\ cutter'.last = cutter.last
       \/ /\ cutter'.number # cutter.number
          /\ cutter'.last.first = cutter.first
          /\ cutter'.last.count \in Nat /\ cutter'.last.count > 0
          /\ cutter.first + cutter'.last.count <= received'

\* What the cutter's invariant says of its positions.
LEMMA CutterTypes ==
    ASSUME WP!IInv
    PROVE  /\ cutter.first \in Nat /\ cutter.committed \in Nat /\ cutter.number \in Nat
           /\ cutter.last.first \in Nat /\ cutter.last.count \in Nat
           /\ received \in Nat /\ finished \in BOOLEAN
           /\ policy.speechAware \in BOOLEAN
           /\ ~finished => cutter.first <= received
<1>1. WP!TypeOK /\ WP!BufferIsTheTail
  BY DEF WP!IInv
<1>2. policy.speechAware \in BOOLEAN
  BY <1>1, TimelineAssumption DEF WP!TypeOK
<1>3. cutter.last \in WP!Window
  BY <1>1 DEF WP!TypeOK
<1>4. cutter.last.first \in Nat /\ cutter.last.count \in Nat
  BY <1>3 DEF WP!Window
<1> QED
  BY <1>1, <1>2, <1>4 DEF WP!TypeOK, WP!BufferIsTheTail

\* append() of one sample.
LEMMA AppendStep ==
    ASSUME WP!IInv, NEW speech \in BOOLEAN, W!Append1(speech)
    PROVE  WP!IInv' /\ ~finished /\ received' = received + 1 /\ Cuts /\ policy' = policy
<1>1. WP!Append1(speech)
  BY SameCutter
<1>2. WP!IInv'
  BY <1>1, CutterAssumption, WP!NextIInv DEF WP!Next
<1>3. /\ cutter' \in WP!Cutters /\ WP!IsTail(cutter', received') /\ WP!Sends(cutter, cutter')
  BY <1>1, CutterAssumption, WP!AppendLemma
<1>4. ~finished /\ received' = received + 1 /\ received \in Nat /\ policy' = policy
  BY <1>1, CutterTypes DEF WP!Append1
<1>5. cutter'.last \in WP!Window
  BY <1>3 DEF WP!Cutters
<1>6. cutter'.first \in Nat /\ cutter'.committed \in Nat /\ cutter'.committed <= received'
  BY <1>3 DEF WP!Cutters, WP!IsTail
<1>7. cutter'.last.count \in Nat /\ cutter'.last.first \in Nat
  BY <1>5 DEF WP!Window
<1>8. cutter.number \in Nat /\ cutter.first \in Nat
  BY CutterTypes
<1> QED
  BY <1>2, <1>3, <1>4, <1>6, <1>7, <1>8 DEF WP!Sends, Cuts

\* finish(): all that was received has been cut.
LEMMA FinishStep ==
    ASSUME WP!IInv, W!Finish
    PROVE  WP!IInv' /\ ~finished /\ received' = received /\ Cuts
           /\ cutter'.committed = received /\ policy' = policy
<1> DEFINE e == WP!Emit(cutter, cutter.size, "End", 0)
<1>1. WP!Finish
  BY SameCutter
<1>2. WP!IInv'
  BY <1>1, CutterAssumption, WP!NextIInv DEF WP!Next
<1>3. ~finished /\ received' = received /\ cutter' = [e EXCEPT !.size = 0]
      /\ policy' = policy
  BY <1>1 DEF WP!Finish
<1>4. e \in WP!Cutters /\ WP!Sends(cutter, e) /\ e.committed = received
  BY <1>3, CutterAssumption, WP!RestLemma
<1> HIDE DEF e
<1>5. /\ cutter'.first = e.first /\ cutter'.committed = e.committed
      /\ cutter'.number = e.number /\ cutter'.last = e.last
  BY <1>3, <1>4 DEF WP!Cutters
<1>6. e.first \in Nat /\ e.last \in WP!Window
  BY <1>4 DEF WP!Cutters
<1>7. e.last.count \in Nat /\ e.last.first \in Nat
  BY <1>6 DEF WP!Window
<1>8. cutter.number \in Nat /\ cutter.first \in Nat /\ received \in Nat
  BY CutterTypes
<1>9. Cuts
  BY <1>3, <1>4, <1>5, <1>6, <1>7, <1>8 DEF WP!Sends, Cuts
<1> QED
  BY <1>2, <1>3, <1>4, <1>5, <1>9

\* discontinuity(): the buffer is empty and begins at the break.
LEMMA BreakStep ==
    ASSUME WP!IInv, W!Discontinuity
    PROVE  WP!IInv' /\ ~finished /\ ~finished' /\ received' = received /\ Cuts
           /\ cutter'.first = received /\ policy' = policy
<1> DEFINE e == WP!Emit(cutter, cutter.size, "Discontinuity", 0)
<1>1. WP!Discontinuity
  BY SameCutter
<1>2. WP!IInv'
  BY <1>1, CutterAssumption, WP!NextIInv DEF WP!Next
<1>3. ~finished /\ ~finished' /\ received' = received /\ policy' = policy
      /\ cutter' = [e EXCEPT !.size = 0, !.first = received]
  BY <1>1 DEF WP!Discontinuity, WP!Restart
<1>4. e \in WP!Cutters /\ WP!Sends(cutter, e) /\ e.committed = received
  BY <1>3, CutterAssumption, WP!RestLemma
<1> HIDE DEF e
<1>5. /\ cutter'.first = received
      /\ cutter'.number = e.number /\ cutter'.last = e.last
  BY <1>3, <1>4 DEF WP!Cutters
<1>6. e.first \in Nat /\ e.last \in WP!Window
  BY <1>4 DEF WP!Cutters
<1>7. e.last.count \in Nat /\ e.last.first \in Nat
  BY <1>6 DEF WP!Window
<1>8. cutter.number \in Nat /\ cutter.first \in Nat /\ received \in Nat /\ cutter.first <= received
  BY <1>3, CutterTypes
<1>9. Cuts
  BY <1>3, <1>4, <1>5, <1>6, <1>7, <1>8 DEF WP!Sends, Cuts
<1> QED
  BY <1>2, <1>3, <1>5, <1>9

-----------------------------------------------------------------------------
(* Times                                                                       *)

\* What moving an optional time does.
LEMMA ShiftLemma ==
    ASSUME NEW time \in Optional, NEW d \in Int
    PROVE  /\ Shift(time, d) \in Optional
           /\ Shift(time, d).known = time.known
           /\ Shift(time, d).at = IF time.known THEN time.at + d ELSE time.at
BY DEF Shift, Optional

\* Moving back.
LEMMA ShiftBack ==
    ASSUME NEW time \in Optional, NEW d \in Int
    PROVE  Shift(Shift(time, d), -d) = time
<1> DEFINE there == Shift(time, d)
<1>1. /\ there \in Optional /\ there.known = time.known
      /\ there.at = IF time.known THEN time.at + d ELSE time.at
  BY ShiftLemma
<1> HIDE DEF there
<1> DEFINE back == Shift(there, -d)
<1>2. -d \in Int
  OBVIOUS
<1>3. /\ back \in Optional /\ back.known = there.known
      /\ back.at = IF there.known THEN there.at + (-d) ELSE there.at
  BY <1>1, <1>2, ShiftLemma
<1> HIDE DEF back
<1>4. back.known = time.known /\ back.at = time.at
  BY <1>1, <1>3 DEF Optional
<1>5. back = time
  BY <1>3, <1>4 DEF Optional
<1> QED
  BY <1>5 DEF back, there

\* Distances are distances.
LEMMA DistanceLemma ==
    ASSUME NEW a \in Int, NEW b \in Int
    PROVE  /\ Distance(a, b) \in Nat
           /\ a = b => Distance(a, b) = 0
           /\ \A d \in Int : Distance(a + d, b + d) = Distance(a, b)
           /\ \A c \in Int : Distance(a, c) <= Distance(a, b) + Distance(c, b)
BY DEF Distance

\* The records of the state, field by field.
LEMMA FieldTypes ==
    ASSUME TypeOK
    PROVE  /\ decoder.samples \in Nat /\ decoder.chunks \in Nat
           /\ decoder.originSample \in Nat /\ decoder.left \in Nat /\ decoder.frames \in Nat
           /\ decoder.origin \in Optional /\ decoder.nextInput \in Optional
           /\ decoder.discontinuity \in BOOLEAN /\ decoder.frame \in Frames
           /\ decoder.phase \in {"receive", "flush", "end"}
           /\ chunk.number \in Nat /\ chunk.first \in Nat /\ chunk.length \in Nat
           /\ chunk.discontinuity \in BOOLEAN /\ chunk.time \in Optional
           /\ track.samples \in Nat /\ track.chunks \in Nat /\ track.offset \in Optional
           /\ vad.used \in Nat /\ vad.emitting \in Nat /\ vad.speech \in BOOLEAN
           /\ run.number \in Nat /\ run.drift \in Nat
           /\ Len(source) \in Nat
           /\ \A i \in 1..Len(source) : source[i] \in Samples
<1>1. /\ decoder.samples \in Nat /\ decoder.chunks \in Nat
      /\ decoder.originSample \in Nat /\ decoder.left \in Nat /\ decoder.frames \in Nat
      /\ decoder.origin \in Optional /\ decoder.nextInput \in Optional
      /\ decoder.discontinuity \in BOOLEAN /\ decoder.frame \in Frames
      /\ decoder.phase \in {"receive", "flush", "end"}
  BY DEF TypeOK, Decoders
<1>2. /\ chunk.number \in Nat /\ chunk.first \in Nat /\ chunk.length \in Nat
      /\ chunk.discontinuity \in BOOLEAN /\ chunk.time \in Optional
  BY DEF TypeOK, Chunks
<1>3. /\ track.samples \in Nat /\ track.chunks \in Nat /\ track.offset \in Optional
      /\ vad.used \in Nat /\ vad.emitting \in Nat /\ vad.speech \in BOOLEAN
      /\ run.number \in Nat /\ run.drift \in Nat
  BY DEF TypeOK, Tracks, Vads, Runs
<1>4. Len(source) \in Nat /\ \A i \in 1..Len(source) : source[i] \in Samples
  BY DEF TypeOK
<1> QED
  BY <1>1, <1>2, <1>3, <1>4

\* Samples handed on have been decoded.
LEMMA FlowBounds ==
    ASSUME TypeOK, WP!IInv, Flow, Going
    PROVE  /\ cutter.first <= received /\ received <= track.samples
           /\ track.samples <= Settled /\ Settled <= decoder.samples
           /\ decoder.samples <= Len(source)
           /\ Settled \in Nat /\ ~finished
           /\ pc = "samples" => ~Open
<1>1. /\ track.samples \in Nat /\ decoder.samples \in Nat /\ decoder.left \in Nat
      /\ vad.used \in Nat /\ vad.emitting \in Nat /\ chunk.length \in Nat
      /\ Len(source) \in Nat /\ received \in Nat /\ cutter.first \in Nat
  BY FieldTypes, CutterTypes
<1>2. ~finished /\ pc \in Handing \cup {"decoder", "finish"}
  BY CutterTypes DEF Flow, Going, TypeOK
<1>3. cutter.first <= received
  BY <1>2, CutterTypes
<1>4. received <= track.samples /\ decoder.samples <= Len(source)
  BY <1>1, SMTT(30) DEF Flow
<1>5. track.samples <= decoder.samples
  <2>1. CASE pc \in Handing
    BY <1>1, <2>1 DEF Flow
  <2>2. CASE pc \in {"decoder", "finish"}
    BY <1>1, <2>2 DEF Flow
  <2> QED
    BY <1>2, <2>1, <2>2
<1>6. Settled = track.samples \/ Settled = decoder.samples
  BY DEF Settled
<1>7. pc = "samples" => ~Open
  BY <1>2 DEF Flow, Open
<1> QED
  BY <1>1, <1>2, <1>3, <1>4, <1>5, <1>6, <1>7

-----------------------------------------------------------------------------
(* What a step leaves alone                                                    *)

\* The decoded audio is only ever extended.
Extended ==
    /\ Len(source') \in Nat /\ Len(source') >= Len(source)
    /\ \A i \in 1..Len(source) : source'[i] = source[i]

\* A step of the decoder or the VAD does not touch the windows.
LEMMA SameWindows ==
    ASSUME TypeOK, WP!IInv, LastWindow, WindowOnOneTimeline,
           UNCHANGED <<windowVars, stamp>>, Extended
    PROVE  WP!IInv' /\ LastWindow' /\ WindowOnOneTimeline'
<1>1. WP!IInv'
  BY CutterAssumption, WP!NextIInv DEF windowVars, WP!vars
<1>2. cutter' = cutter /\ stamp' = stamp
  BY DEF windowVars
<1>3. Len(source) \in Nat /\ cutter.last.first \in Nat /\ cutter.last.count \in Nat
  BY FieldTypes, CutterTypes, Zenon
<1>4. LastWindow'
  BY <1>2, <1>3 DEF LastWindow, Extended
<1>5. WindowOnOneTimeline'
  <2> SUFFICES ASSUME cutter.number > 0
               PROVE  LET w == cutter.last
                          begin == source'[w.first + 1]
                      IN  /\ \A i \in (w.first + 1)..(w.first + w.count) :
                                source'[i].run = begin.run
                          /\ begin.time.known =>
                                stamp.known /\ Distance(stamp.at, begin.time.at) <= begin.drift
    BY <1>2 DEF WindowOnOneTimeline
  <2>1. \A i \in (cutter.last.first + 1)..(cutter.last.first + cutter.last.count) :
           source'[i] = source[i]
    BY <1>3 DEF LastWindow, Extended
  <2>2. source'[cutter.last.first + 1] = source[cutter.last.first + 1]
    BY <1>3, <2>1, SMTT(30) DEF LastWindow
  <2> QED
    BY <2>1, <2>2 DEF WindowOnOneTimeline
<1> QED
  BY <1>1, <1>4, <1>5

\* A window the cutter sends lies in one run and carries its time.
LEMMA WindowStep ==
    ASSUME TypeOK, WP!IInv, Flow, OneRun, OnTime, LastWindow, WindowOnOneTimeline, Going,
           Cuts, Infer, source' = source, received' \in Nat, received' <= Settled
    PROVE  LastWindow' /\ WindowOnOneTimeline' /\ stamp' \in Optional
<1> DEFINE first == cutter.first
           begin == source[first + 1]
<1>1. /\ first \in Nat /\ Len(source) \in Nat /\ Settled \in Nat /\ Settled <= Len(source)
      /\ track.offset \in Optional /\ first \in Int
  <2>1. /\ first \in Nat /\ Len(source) \in Nat /\ decoder.samples \in Nat
        /\ track.offset \in Optional
    BY FieldTypes, CutterTypes
  <2>2. Settled \in Nat /\ Settled <= decoder.samples /\ decoder.samples <= Len(source)
    BY FlowBounds
  <2> QED
    BY <2>1, <2>2
<1>2. CASE cutter'.number = cutter.number /\ cutter'.last = cutter.last
  <2>1. stamp' = stamp
    BY <1>2 DEF Infer
  <2> QED
    BY <1>2, <2>1 DEF LastWindow, WindowOnOneTimeline, TypeOK
<1>3. CASE cutter'.number # cutter.number
  <2>1. /\ cutter'.last.first = first /\ cutter'.last.count \in Nat
        /\ cutter'.last.count > 0 /\ first + cutter'.last.count <= Settled
    BY <1>1, <1>3 DEF Cuts
  <2>2. \A i \in (first + 1)..Settled : source[i].run = begin.run
    <3>1. CASE Open
      <4>1. Settled = track.samples
        BY <3>1, FlowBounds DEF Settled
      <4>2. \A i, j \in (first + 1)..Settled : source[i].run = source[j].run
        BY <4>1 DEF OneRun
      <4> QED
        BY <1>1, <2>1, <4>2
    <3>2. CASE ~Open
      <4>1. \A i \in (first + 1)..Len(source) : source[i].run = run.number
        BY <3>2 DEF OneRun
      <4>2. first + 1 \in (first + 1)..Len(source)
        BY <1>1, <2>1
      <4>3. begin.run = run.number
        BY <4>1, <4>2
      <4> QED
        BY <1>1, <4>1, <4>3
    <3> QED
      BY <3>1, <3>2
  <2>3. Fits(track.offset, begin, first + 1)
    BY <1>1, <2>1 DEF OnTime
  <2>4. stamp' = Shift(track.offset, first)
    BY <1>3, <2>1 DEF Infer
  <2>5. /\ stamp' \in Optional /\ stamp'.known = track.offset.known
        /\ track.offset.known => stamp'.at = track.offset.at + first
    <3> DEFINE moved == Shift(track.offset, first)
    <3>1. /\ moved \in Optional /\ moved.known = track.offset.known
          /\ moved.at = IF track.offset.known THEN track.offset.at + first ELSE track.offset.at
      BY <1>1, ShiftLemma, Zenon
    <3> HIDE DEF moved
    <3>2. stamp' = moved
      BY <2>4 DEF moved
    <3> QED
      BY <3>1, <3>2
  <2>6. track.offset.at + (first + 1) - 1 = track.offset.at + first
    BY <1>1 DEF Optional
  <2>7. begin.time.known => stamp'.known /\ Distance(stamp'.at, begin.time.at) <= begin.drift
    BY <2>3, <2>5, <2>6 DEF Fits
  <2>8. LastWindow'
    BY <1>1, <2>1 DEF LastWindow
  <2>9. WindowOnOneTimeline'
    BY <1>1, <2>1, <2>2, <2>7 DEF WindowOnOneTimeline
  <2> QED
    BY <2>5, <2>8, <2>9
<1> QED
  BY <1>2, <1>3 DEF Cuts

\* Samples move on, none crosses an open break.
LEMMA RunKept ==
    ASSUME TypeOK, WP!IInv, Flow, OneRun, Going, UNCHANGED <<source, run>>,
           cutter'.first \in Nat, cutter'.first >= cutter.first,
           track'.samples \in Nat, track'.samples >= track.samples,
           track'.samples <= Len(source),
           Open => Open' /\ track'.samples = track.samples
    PROVE  OneRun'
<1>1. cutter.first \in Nat /\ track.samples \in Nat /\ Len(source) \in Nat
      /\ cutter.first <= track.samples
  BY FieldTypes, CutterTypes, FlowBounds
<1>2. \A i \in (track'.samples + 1)..Len(source) : source[i].run = run.number
  BY <1>1 DEF OneRun
<1>3. ~Open => \A i \in (cutter.first + 1)..Len(source) : source[i].run = run.number
  BY DEF OneRun
<1>4. \A i, j \in (cutter'.first + 1)..track'.samples : source[i].run = source[j].run
  <2>1. CASE Open
    <3>1. \A i, j \in (cutter.first + 1)..track.samples : source[i].run = source[j].run
      BY DEF OneRun
    <3> QED
      BY <1>1, <2>1, <3>1
  <2>2. CASE ~Open
    BY <1>1, <1>3, <2>2, SMTT(30)
  <2> QED
    BY <2>1, <2>2
<1>5. ~Open' => \A i \in (cutter'.first + 1)..Len(source) : source[i].run = run.number
  BY <1>1, <1>3
<1> QED
  BY <1>2, <1>4, <1>5 DEF OneRun

\* The offsets stay, and so do the samples they are about.
LEMMA TimeKept ==
    ASSUME TypeOK, WP!IInv, Flow, OnTime, Going, UNCHANGED <<source, run>>,
           cutter'.first \in Nat, cutter'.first >= cutter.first,
           track'.samples \in Nat, track'.samples >= track.samples,
           track'.offset = track.offset, Settled' <= Settled, Settled' \in Nat,
           decoder'.origin = decoder.origin,
           decoder'.originSample = decoder.originSample,
           decoder'.nextInput = decoder.nextInput,
           Open => Open',
           pc' \in {"audio", "break", "offset"} =>
               chunk'.time = Shift(DecoderOffset', chunk'.first)
    PROVE  OnTime'
<1>1. cutter.first \in Nat /\ track.samples \in Nat /\ Len(source) \in Nat /\ Settled \in Nat
  BY FieldTypes, CutterTypes, FlowBounds
<1>2. DecoderOffset' = DecoderOffset
  BY DEF DecoderOffset
<1>3. \A i \in (track'.samples + 1)..Len(source) : Fits(DecoderOffset, source[i], i)
  <2>1. \A i \in (track.samples + 1)..Len(source) : Fits(DecoderOffset, source[i], i)
    BY DEF OnTime
  <2> QED
    BY <1>1, <2>1
<1>4. \A i \in (cutter'.first + 1)..Settled' : Fits(track.offset, source[i], i)
  <2>1. \A i \in (cutter.first + 1)..Settled : Fits(track.offset, source[i], i)
    BY DEF OnTime
  <2> QED
    BY <1>1, <2>1
<1>5. /\ decoder.origin.known = decoder.nextInput.known
      /\ decoder.nextInput.known =>
            Distance(DecoderOffset.at + Len(source), decoder.nextInput.at) <= run.drift
      /\ ~Open' /\ track.offset.known => track.offset = DecoderOffset
  BY DEF OnTime
<1> QED
  BY <1>2, <1>3, <1>4, <1>5 DEF OnTime

\* A step that hands no sample on: the cutter, the decoded audio and the offsets
\* stay as they are.
LEMMA StillKeeps ==
    ASSUME IInv, Going, TypeOK', Flow',
           UNCHANGED <<windowVars, stamp, source, run>>,
           track'.samples = track.samples, track'.offset = track.offset,
           Settled' = Settled,
           decoder'.origin = decoder.origin,
           decoder'.originSample = decoder.originSample,
           decoder'.nextInput = decoder.nextInput,
           Open => Open',
           pc' \in {"audio", "break", "offset"} =>
               chunk'.time = Shift(DecoderOffset', chunk'.first)
    PROVE  IInv'
<1>i. TypeOK /\ WP!IInv /\ Flow /\ OneRun /\ OnTime /\ LastWindow /\ WindowOnOneTimeline
  BY DEF IInv
<1>1. cutter' = cutter
  BY DEF windowVars
<1>2. /\ cutter.first \in Nat /\ track.samples \in Nat /\ track.samples <= Len(source)
      /\ Settled \in Nat
  BY <1>i, FieldTypes, CutterTypes, FlowBounds
<1>3. OneRun'
  BY <1>i, <1>1, <1>2, RunKept
<1>4. OnTime'
  BY <1>i, <1>1, <1>2, TimeKept
<1>5. Extended
  BY <1>i, FieldTypes DEF Extended
<1> QED
  BY <1>i, <1>3, <1>4, <1>5, SameWindows DEF IInv

\* A call that has ended stays so.
LEMMA EndKeeps ==
    ASSUME IInv, ~Going', TypeOK', Flow', UNCHANGED <<windowVars, stamp, source>>
    PROVE  IInv'
<1>i. TypeOK /\ WP!IInv /\ LastWindow /\ WindowOnOneTimeline
  BY DEF IInv
<1>1. Extended
  BY <1>i, FieldTypes DEF Extended
<1> QED
  BY <1>i, <1>1, SameWindows DEF IInv, OneRun, OnTime

-----------------------------------------------------------------------------
(* Track::audio and Track::finish                                              *)

\* The contiguity check lets every chunk of the decoder through.
LEMMA AudioKeeps == ASSUME IInv, Audio PROVE IInv'
<1>i. TypeOK /\ Flow /\ OnTime
  BY DEF IInv
<1>1. /\ pc = "audio" /\ pc' \in {"break", "offset"}
      /\ pc' = "break" <=> chunk.discontinuity
      /\ UNCHANGED <<windowVars, decoder, chunk, track, vad, stamp, promised, source, run>>
  BY <1>i DEF Audio, Flow, Handing
<1>2. TypeOK'
  BY <1>i, <1>1 DEF TypeOK, Handing
<1>3. Flow'
  BY <1>i, <1>1 DEF Flow, Handing, Quiet, windowVars
<1>4. Going /\ Open' = Open /\ Settled' = Settled
  BY <1>1 DEF Going, Open, Settled
<1>5. chunk'.time = Shift(DecoderOffset', chunk'.first)
  BY <1>i, <1>1, <1>4 DEF OnTime, DecoderOffset
<1> QED
  BY <1>1, <1>2, <1>3, <1>4, <1>5, StillKeeps

\* flush() of the VAD frame at a break or at the end.
LEMMA FlushKeeps == ASSUME IInv, BreakVad \/ FinishVad PROVE IInv'
<1>i. TypeOK /\ Flow /\ OnTime
  BY DEF IInv
<1>1. /\ pc \in {"break", "finish"} /\ Quiet
      /\ UNCHANGED <<windowVars, decoder, chunk, track, pc, stamp, promised, source, run>>
  BY DEF BreakVad, FinishVad
<1>2. PICK speech \in BOOLEAN : vad' = [used |-> 0, emitting |-> vad.used, speech |-> speech]
  BY DEF BreakVad, FinishVad, Flush
<1>3. vad' \in Vads /\ vad'.used = 0 /\ vad'.emitting = vad.used
      /\ vad.emitting = 0 /\ vad.used \in Nat
  BY <1>i, <1>1, <1>2, FieldTypes DEF Vads, Quiet
<1>4. TypeOK'
  BY <1>i, <1>1, <1>3 DEF TypeOK
<1>5. received \in Nat /\ received + vad'.used + vad'.emitting = track.samples
  BY <1>i, <1>3, CutterTypes, SMTT(60) DEF Flow, IInv
<1>6. Flow'
  BY <1>i, <1>1, <1>3, <1>5 DEF Flow, Handing, Quiet, windowVars
<1>7. Going /\ Open' = Open /\ Settled' = Settled
  BY <1>1 DEF Going, Open, Settled
<1>8. pc' \in {"audio", "break", "offset"} => chunk'.time = Shift(DecoderOffset', chunk'.first)
  BY <1>i, <1>1, <1>7 DEF OnTime, DecoderOffset
<1> QED
  BY <1>1, <1>4, <1>6, <1>7, <1>8, StillKeeps

\* A native error ends the call.
LEMMA NativeKeeps == ASSUME IInv, NativeFails PROVE IInv'
<1>i. TypeOK /\ Flow
  BY DEF IInv
<1>1. /\ pc' = "failed"
      /\ UNCHANGED <<windowVars, decoder, chunk, track, vad, stamp, promised, source, run>>
  BY DEF NativeFails
<1>2. TypeOK' /\ ~Going'
  BY <1>i, <1>1 DEF TypeOK, Going
<1>3. Flow'
  BY <1>i, <1>1 DEF Flow, Handing, Quiet, windowVars
<1> QED
  BY <1>1, <1>2, <1>3, EndKeeps

\* The chunk has been handed on.
LEMMA AudioReturnsKeeps == ASSUME IInv, AudioReturns PROVE IInv'
<1>i. TypeOK /\ Flow
  BY DEF IInv
<1>1. /\ pc = "samples" /\ pc' = "decoder" /\ Quiet /\ chunk.length = 0
      /\ track' = [track EXCEPT !.chunks = @ + 1]
      /\ UNCHANGED <<windowVars, decoder, chunk, vad, stamp, promised, source, run>>
  BY DEF AudioReturns
<1>2. /\ track' \in Tracks /\ track'.samples = track.samples
      /\ track'.offset = track.offset /\ track'.chunks = track.chunks + 1
  BY <1>i, <1>1 DEF TypeOK, Tracks
<1>3. TypeOK'
  BY <1>i, <1>1, <1>2 DEF TypeOK
<1>4. decoder.samples = track.samples /\ decoder.chunks = track.chunks + 1
  BY <1>i, <1>1, FieldTypes DEF Flow, Handing
<1>5. Flow'
  BY <1>i, <1>1, <1>2, <1>4 DEF Flow, Handing, Quiet, windowVars
<1>6. Going /\ ~Open /\ Settled' = Settled
  BY <1>i, <1>1, <1>2, <1>4 DEF Going, Open, Settled, Flow
<1> QED
  BY <1>1, <1>2, <1>3, <1>5, <1>6, StillKeeps

\* The offset of the run is the decoder's.
LEMMA SetOffsetKeeps == ASSUME IInv, SetOffset PROVE IInv'
<1> DEFINE offset == IF track.offset.known THEN track.offset
                     ELSE Shift(chunk.time, -chunk.first)
<1>i. TypeOK /\ WP!IInv /\ Flow /\ OneRun /\ OnTime /\ LastWindow /\ WindowOnOneTimeline
  BY DEF IInv
<1>1. /\ pc = "offset" /\ pc' = "samples"
      /\ track' = [track EXCEPT !.offset = offset]
      /\ UNCHANGED <<windowVars, decoder, chunk, vad, stamp, promised, source, run>>
  BY DEF SetOffset
<1>2. /\ decoder.origin \in Optional /\ decoder.originSample \in Nat
      /\ chunk.first \in Nat /\ chunk.time \in Optional /\ track.offset \in Optional
      /\ track.samples \in Nat /\ decoder.samples \in Nat /\ Len(source) \in Nat
      /\ cutter.first \in Nat
  BY <1>i, FieldTypes, CutterTypes
<1>3. Going /\ ~Open
  BY <1>i, <1>1 DEF Going, Open, Flow
<1>4. /\ cutter.first <= track.samples /\ track.samples <= decoder.samples
      /\ decoder.samples <= Len(source)
      /\ Settled = track.samples /\ Settled' = decoder.samples
  BY <1>i, <1>1, <1>2, <1>3, FlowBounds, CutterTypes DEF Settled
<1>5. DecoderOffset \in Optional
  <2>1. -decoder.originSample \in Int
    BY <1>2
  <2> QED
    BY <1>2, <2>1, ShiftLemma, Zenon DEF DecoderOffset
<1>6. Shift(chunk.time, -chunk.first) = DecoderOffset
  <2>1. chunk.time = Shift(DecoderOffset, chunk.first)
    BY <1>i, <1>1, <1>3 DEF OnTime
  <2> QED
    BY <1>2, <1>5, <2>1, ShiftBack
<1>7. offset \in Optional /\ (offset.known => offset = DecoderOffset)
      /\ (track.offset.known => offset = track.offset)
      /\ (~track.offset.known => offset = DecoderOffset)
  BY <1>i, <1>2, <1>3, <1>5, <1>6 DEF OnTime
<1> HIDE DEF offset
<1>8. /\ track' \in Tracks /\ track'.samples = track.samples
      /\ track'.offset = offset /\ track'.chunks = track.chunks
  BY <1>i, <1>1, <1>7 DEF TypeOK, Tracks
<1>9. TypeOK'
  BY <1>i, <1>1, <1>8 DEF TypeOK, Handing
<1>10. Flow'
  BY <1>i, <1>1, <1>8 DEF Flow, Handing, Quiet, windowVars
<1>11. cutter' = cutter /\ DecoderOffset' = DecoderOffset /\ ~Open'
  BY <1>1, <1>3 DEF windowVars, DecoderOffset, Open
<1>12. OneRun'
  BY <1>i, <1>1, <1>2, <1>3, <1>4, <1>8, <1>11, RunKept
<1>13. OnTime'
  <2>1. \A i \in (cutter.first + 1)..decoder.samples : Fits(offset, source[i], i)
    <3> SUFFICES ASSUME NEW i \in (cutter.first + 1)..decoder.samples
                 PROVE  Fits(offset, source[i], i)
      OBVIOUS
    <3>1. CASE i \in (cutter.first + 1)..track.samples
      <4>1. Fits(track.offset, source[i], i)
        BY <1>i, <1>3, <1>4, <3>1 DEF OnTime
      <4> QED
        BY <1>7, <4>1 DEF Fits
    <3>2. CASE i \in (track.samples + 1)..Len(source)
      <4>1. Fits(DecoderOffset, source[i], i)
        BY <1>i, <1>3, <3>2 DEF OnTime
      <4>2. track.offset.known => track.offset = DecoderOffset
        BY <1>i, <1>3 DEF OnTime
      <4> QED
        BY <1>7, <4>1, <4>2
    <3> QED
      BY <1>2, <1>4, <3>1, <3>2
  <2>2. \A i \in (track.samples + 1)..Len(source) : Fits(DecoderOffset, source[i], i)
    BY <1>i, <1>3 DEF OnTime
  <2>3. /\ decoder.origin.known = decoder.nextInput.known
        /\ decoder.nextInput.known =>
              Distance(DecoderOffset.at + Len(source), decoder.nextInput.at) <= run.drift
    BY <1>i, <1>3 DEF OnTime
  <2> QED
    BY <1>1, <1>4, <1>7, <1>8, <1>11, <2>1, <2>2, <2>3 DEF OnTime
<1>14. Extended
  BY <1>1, <1>2 DEF Extended
<1> QED
  BY <1>i, <1>1, <1>9, <1>10, <1>12, <1>13, <1>14, SameWindows DEF IInv

\* The break reaches the cutter: what it held is sent, the new run begins.
LEMMA BreakWindowsKeeps == ASSUME IInv, BreakWindows PROVE IInv'
<1>i. TypeOK /\ WP!IInv /\ Flow /\ OneRun /\ OnTime /\ LastWindow /\ WindowOnOneTimeline
  BY DEF IInv
<1>1. /\ pc = "break" /\ pc' = "offset" /\ Quiet /\ ~Rest /\ Infer /\ W!Discontinuity
      /\ track' = [track EXCEPT !.offset = Unknown]
      /\ UNCHANGED <<decoder, chunk, vad, promised, source, run>>
  BY DEF BreakWindows
<1>2. WP!IInv' /\ ~finished' /\ received' = received /\ Cuts /\ cutter'.first = received
      /\ policy' = policy
  BY <1>i, <1>1, BreakStep
<1>3. /\ track.samples \in Nat /\ vad.used \in Nat /\ vad.emitting \in Nat
      /\ received \in Nat /\ Len(source) \in Nat
  BY <1>i, FieldTypes, CutterTypes
<1>4. received = track.samples
  BY <1>i, <1>1, <1>3 DEF Flow, Quiet, Rest
<1>5. Going
  BY <1>1 DEF Going
<1>6. received' \in Nat /\ received' <= Settled
  BY <1>1, <1>2, <1>3, <1>4 DEF Settled
<1>7. LastWindow' /\ WindowOnOneTimeline' /\ stamp' \in Optional
  BY <1>i, <1>1, <1>2, <1>5, <1>6, WindowStep
<1>8. Unknown \in Optional /\ ~Unknown.known
  BY DEF Unknown, Optional
<1>9. /\ track' \in Tracks /\ track'.samples = track.samples
      /\ track'.offset = Unknown /\ track'.chunks = track.chunks
  BY <1>i, <1>1, <1>8 DEF TypeOK, Tracks
<1>10. TypeOK'
  BY <1>i, <1>1, <1>7, <1>9 DEF TypeOK, Handing
<1>11. Flow'
  BY <1>i, <1>1, <1>2, <1>9 DEF Flow, Handing, Quiet
<1>12. \A i \in (track.samples + 1)..Len(source) :
          source[i].run = run.number /\ Fits(DecoderOffset, source[i], i)
  BY <1>i, <1>5 DEF OneRun, OnTime
<1>13. OneRun'
  <2>1. \A i, j \in (cutter'.first + 1)..track'.samples : source[i].run = source[j].run
    BY <1>2, <1>3, <1>4, <1>9
  <2> QED
    BY <1>1, <1>2, <1>4, <1>9, <1>12, <2>1 DEF OneRun
<1>14. OnTime'
  <2>1. DecoderOffset' = DecoderOffset /\ Settled' = track.samples
    BY <1>1, <1>9 DEF DecoderOffset, Settled
  <2>2. \A i \in (cutter'.first + 1)..Settled' : Fits(track'.offset, source[i], i)
    BY <1>2, <1>3, <1>4, <2>1
  <2>3. /\ decoder.origin.known = decoder.nextInput.known
        /\ decoder.nextInput.known =>
              Distance(DecoderOffset.at + Len(source), decoder.nextInput.at) <= run.drift
        /\ chunk.time = Shift(DecoderOffset, chunk.first)
    BY <1>i, <1>1, <1>5 DEF OnTime
  <2> QED
    BY <1>1, <1>8, <1>9, <1>12, <2>1, <2>2, <2>3 DEF OnTime
<1> QED
  BY <1>2, <1>7, <1>10, <1>11, <1>13, <1>14 DEF IInv

\* One sample given to the cutter.
LEMMA ToWindowKeeps ==
    ASSUME IInv, Going, NEW speech \in BOOLEAN, ToWindow(speech, pc),
           received + 1 <= Settled,
           UNCHANGED <<decoder, promised, source, run>>,
           vad' \in Vads, track' \in Tracks, chunk' \in Chunks,
           track'.samples >= track.samples, track'.samples <= decoder.samples,
           track'.offset = track.offset, track'.chunks = track.chunks,
           chunk'.first = chunk.first, chunk'.time = chunk.time,
           chunk'.number = chunk.number, chunk'.discontinuity = chunk.discontinuity,
           pc # "samples" => track'.samples = track.samples,
           track'.samples + chunk'.length = track.samples + chunk.length,
           received + 1 + vad'.used + vad'.emitting = track'.samples, vad'.used = vad.used,
           ~Quiet \/ pc = "samples"
    PROVE  IInv'
<1>i. TypeOK /\ WP!IInv /\ Flow /\ OneRun /\ OnTime /\ LastWindow /\ WindowOnOneTimeline
  BY DEF IInv
<1>1. W!Append1(speech) /\ Infer /\ pc' = IF finished' THEN "failed" ELSE pc
  BY DEF ToWindow
<1>2. WP!IInv' /\ ~finished /\ received' = received + 1 /\ Cuts /\ policy' = policy
  BY <1>i, <1>1, AppendStep
<1>3. /\ received' \in Nat /\ Len(source) \in Nat /\ Settled \in Nat /\ cutter.first \in Nat
      /\ decoder.samples <= Len(source) /\ decoder.samples \in Nat /\ track.samples \in Nat
      /\ (pc = "samples" => ~Open)
  <2>1. /\ received \in Nat /\ cutter.first \in Nat /\ Len(source) \in Nat
        /\ decoder.samples \in Nat /\ track.samples \in Nat
    BY <1>i, FieldTypes, CutterTypes
  <2>2. /\ Settled \in Nat /\ decoder.samples <= Len(source)
        /\ (pc = "samples" => ~Open)
    BY <1>i, FlowBounds
  <2> QED
    BY <1>2, <2>1, <2>2
<1>4. LastWindow' /\ WindowOnOneTimeline' /\ stamp' \in Optional
  BY <1>i, <1>1, <1>2, <1>3, WindowStep
<1>5. TypeOK'
  BY <1>i, <1>1, <1>4 DEF TypeOK
<1>6. /\ track'.samples \in Nat /\ chunk'.length \in Nat /\ chunk.length \in Nat
      /\ finished' \in BOOLEAN /\ pc \notin {"decoder", "done"}
  <2>1. track'.samples \in Nat /\ chunk'.length \in Nat
    BY DEF Tracks, Chunks
  <2>2. chunk.length \in Nat
    BY <1>i, FieldTypes
  <2>3. finished' \in BOOLEAN
    BY <1>2 DEF WP!IInv, WP!TypeOK
  <2>4. pc \notin {"decoder", "done"}
    BY <1>i DEF Flow
  <2> QED
    BY <2>1, <2>2, <2>3, <2>4
<1>7. Flow'
  <2>1. received' + vad'.used + vad'.emitting = track'.samples
    BY <1>2
  <2>2. pc' \in Handing =>
          /\ decoder'.samples = track'.samples + chunk'.length
          /\ decoder'.chunks = track'.chunks + 1
          /\ pc' # "samples" => chunk'.first = track'.samples
          /\ pc' = "audio" => chunk'.number = decoder'.chunks
    BY <1>i, <1>1, Zenon DEF Flow, Handing
  <2>3. pc' \in {"decoder", "finish", "done"} =>
          decoder'.samples = track'.samples /\ decoder'.chunks = track'.chunks
    BY <1>i, <1>1, Zenon DEF Flow
  <2>4. finished' => pc' = "failed"
    BY <1>1
  <2> QED
    BY <1>i, <1>1, <1>2, <1>6, <2>1, <2>2, <2>3, <2>4 DEF Flow
<1>8. CASE ~Going'
  BY <1>2, <1>4, <1>5, <1>7, <1>8, Zenon DEF IInv, OneRun, OnTime
<1>9. CASE Going'
  <2>1. pc' = pc
    BY <1>1, <1>9 DEF Going
  <2>2. Open' = Open /\ Settled' <= Settled /\ Settled' \in Nat
    BY <1>3, <1>6, <2>1, SMTT(60) DEF Open, Settled
  <2>3. cutter'.first \in Nat /\ cutter'.first >= cutter.first
    BY <1>2 DEF Cuts
  <2>4. track'.samples <= Len(source) /\ (Open => Open' /\ track'.samples = track.samples)
    BY <1>3, <1>6, <2>2
  <2>5. OneRun'
    BY <1>i, <1>6, <2>3, <2>4, RunKept
  <2>6. pc' \in {"audio", "break", "offset"} => chunk'.time = Shift(DecoderOffset', chunk'.first)
    BY <1>i, <2>1 DEF OnTime, DecoderOffset
  <2>7. OnTime'
    BY <1>i, <1>6, <2>2, <2>3, <2>6, TimeKept
  <2> QED
    BY <1>2, <1>4, <1>5, <1>7, <2>5, <2>7 DEF IInv
<1> QED
  BY <1>8, <1>9

\* The samples of a VAD frame, one by one.
LEMMA VadEmitsKeeps == ASSUME IInv, VadEmits PROVE IInv'
<1>i. TypeOK /\ WP!IInv /\ Flow
  BY DEF IInv
<1>1. /\ ~Quiet /\ pc # "failed" /\ ToWindow(vad.speech, pc)
      /\ vad' = [vad EXCEPT !.emitting = @ - 1]
      /\ UNCHANGED <<decoder, chunk, track, promised, source, run>>
  BY DEF VadEmits
<1>2. /\ vad.emitting \in Nat /\ vad.emitting > 0 /\ vad.speech \in BOOLEAN
      /\ vad.used \in Nat /\ received \in Nat /\ track.samples \in Nat
      /\ decoder.samples \in Nat /\ chunk.length \in Nat
  BY <1>i, <1>1, FieldTypes, CutterTypes DEF Quiet
<1>3. vad' \in Vads /\ vad'.used = vad.used /\ vad'.emitting = vad.emitting - 1
  BY <1>i, <1>1, <1>2 DEF TypeOK, Vads
<1>4. Going
  BY <1>i, <1>1 DEF Going, Flow
<1>5. track.samples <= Settled /\ Settled <= decoder.samples /\ Settled \in Nat
  BY <1>i, <1>4, FlowBounds
<1>6. /\ received + 1 + vad'.used + vad'.emitting = track.samples
      /\ received + 1 <= Settled /\ track.samples <= decoder.samples
  <2>1. received + vad.used + vad.emitting = track.samples
    BY <1>i DEF Flow
  <2>2. vad'.used = vad.used /\ vad'.emitting \in Nat /\ vad'.emitting = vad.emitting - 1
    BY <1>2, <1>3
  <2> QED
    BY <1>2, <1>5, <2>1, <2>2
<1>7. track \in Tracks /\ chunk \in Chunks /\ track.samples >= track.samples
  BY <1>i, <1>2 DEF TypeOK
<1> QED
  BY <1>1, <1>2, <1>3, <1>4, <1>6, <1>7, ToWindowKeeps

\* A sample of the chunk goes to the cutter, or to the VAD frame.
LEMMA SampleKeeps == ASSUME IInv, Sample PROVE IInv'
<1>i. TypeOK /\ WP!IInv /\ Flow
  BY DEF IInv
<1>1. /\ pc = "samples" /\ Quiet /\ chunk.length > 0
      /\ chunk' = [chunk EXCEPT !.length = @ - 1]
      /\ track' = [track EXCEPT !.samples = @ + 1]
      /\ UNCHANGED <<decoder, promised, source, run>>
  BY DEF Sample
<1>2. /\ vad.emitting = 0 /\ vad.used \in Nat /\ received \in Nat /\ track.samples \in Nat
      /\ decoder.samples \in Nat /\ chunk.length \in Nat /\ Len(source) \in Nat
      /\ VadSamples \in Nat
  <2>1. received \in Nat /\ VadSamples \in Nat
    BY <1>i, CutterTypes, TimelineAssumption
  <2> QED
    BY <1>i, <1>1, <2>1, FieldTypes DEF Quiet
<1>3. /\ chunk' \in Chunks /\ chunk'.length = chunk.length - 1
      /\ chunk'.first = chunk.first /\ chunk'.time = chunk.time
      /\ chunk'.number = chunk.number /\ chunk'.discontinuity = chunk.discontinuity
  BY <1>i, <1>1, <1>2, SMTT(60) DEF TypeOK, Chunks
<1>4. /\ track' \in Tracks /\ track'.samples = track.samples + 1
      /\ track'.offset = track.offset /\ track'.chunks = track.chunks
  BY <1>i, <1>1, <1>2, SMTT(30) DEF TypeOK, Tracks
<1>5. /\ decoder.samples = track.samples + chunk.length
      /\ received + vad.used = track.samples
  BY <1>i, <1>1, <1>2 DEF Flow, Handing
<1>6. Going /\ Settled = decoder.samples
  BY <1>1 DEF Going, Settled
<1>7. CASE ~policy.speechAware
  <2>1. ToWindow(TRUE, pc) /\ vad' = vad
    BY <1>7, Zenon DEF Sample
  <2>2. vad.used = 0
    BY <1>i, <1>7 DEF Flow
  <2>3. /\ received + 1 <= Settled
        /\ track'.samples >= track.samples /\ track'.samples <= decoder.samples
        /\ track'.samples + chunk'.length = track.samples + chunk.length
        /\ received + 1 + vad'.used + vad'.emitting = track'.samples
    BY <1>1, <1>2, <1>3, <1>4, <1>5, <1>6, <2>1, <2>2
  <2>4. vad' \in Vads /\ vad'.used = vad.used /\ TRUE \in BOOLEAN
    BY <1>i, <2>1 DEF TypeOK
  <2> QED
    BY <1>1, <1>3, <1>4, <1>6, <2>1, <2>3, <2>4, ToWindowKeeps, Zenon
<1>8. CASE policy.speechAware
  <2>1. UNCHANGED <<windowVars, stamp, pc>>
    BY <1>8 DEF Sample
  <2>2. vad' \in Vads /\ vad'.used + vad'.emitting = vad.used + 1
        /\ vad'.used \in Nat /\ vad'.emitting \in Nat
    <3>1. CASE vad.used + 1 = VadSamples
      <4>1. PICK speech \in BOOLEAN :
               vad' = [used |-> 0, emitting |-> VadSamples, speech |-> speech]
        BY <1>8, <3>1 DEF Sample, Flush
      <4> QED
        BY <1>2, <3>1, <4>1 DEF Vads
    <3>2. CASE vad.used + 1 # VadSamples
      <4>1. vad' = [vad EXCEPT !.used = @ + 1]
        BY <1>8, <3>2 DEF Sample
      <4> QED
        BY <1>i, <1>2, <4>1 DEF TypeOK, Vads
    <3> QED
      BY <3>1, <3>2
  <2>3. TypeOK'
    BY <1>i, <1>1, <1>3, <1>4, <2>1, <2>2 DEF TypeOK
  <2>4. received' + vad'.used + vad'.emitting = track'.samples
    <3>1. received' = received
      BY <2>1 DEF windowVars
    <3>2. track'.samples = track.samples + 1 /\ track'.samples \in Nat
      BY <1>2, <1>4
    <3>3. received + vad'.used + vad'.emitting = received + (vad'.used + vad'.emitting)
      BY <1>2, <2>2
    <3>4. received + (vad.used + 1) = (received + vad.used) + 1
      BY <1>2
    <3> QED
      BY <1>5, <2>2, <3>1, <3>2, <3>3, <3>4
  <2>5. decoder.samples = track'.samples + chunk'.length
    <3>1. /\ track'.samples = track.samples + 1 /\ track'.samples \in Nat
          /\ chunk'.length = chunk.length - 1 /\ chunk'.length \in Nat
      BY <1>1, <1>2, <1>3, <1>4
    <3>2. (track.samples + 1) + (chunk.length - 1) = track.samples + chunk.length
      BY <1>2
    <3> QED
      BY <1>5, <3>1, <3>2
  <2>6. Flow'
    <3>1. policy' = policy /\ finished' = finished
      BY <2>1 DEF windowVars
    <3> QED
      BY <1>i, <1>1, <1>4, <1>8, <2>1, <2>4, <2>5, <3>1 DEF Flow, Handing
  <2>7. OneRun /\ OnTime /\ LastWindow /\ WindowOnOneTimeline /\ cutter' = cutter
    BY <2>1 DEF IInv, windowVars
  <2>8. /\ ~Open /\ ~Open' /\ Settled' = Settled /\ Settled \in Nat
        /\ cutter.first \in Nat /\ cutter.first >= cutter.first
        /\ track'.samples \in Nat /\ track'.samples >= track.samples
        /\ track'.samples <= Len(source)
    <3>1. ~Open /\ ~Open'
      BY <1>i, <1>1, <2>1 DEF Flow, Open
    <3>2. decoder.samples <= Len(source)
      BY <1>i, <1>6, FlowBounds
    <3>3. cutter.first \in Nat
      BY <1>i, CutterTypes
    <3> QED
      BY <1>1, <1>2, <1>3, <1>4, <1>5, <1>6, <2>1, <3>1, <3>2, <3>3, SMTT(60) DEF Settled
  <2>9. OneRun'
    BY <1>i, <1>1, <1>6, <2>7, <2>8, RunKept
  <2>10. OnTime'
    BY <1>i, <1>1, <1>4, <1>6, <2>1, <2>7, <2>8, TimeKept
  <2>11. Extended
    BY <1>1, <1>2 DEF Extended
  <2> QED
    BY <1>i, <2>1, <2>3, <2>6, <2>7, <2>9, <2>10, <2>11, SameWindows DEF IInv
<1> QED
  BY <1>7, <1>8

\* The end: the rest of the buffer becomes the last window.
LEMMA FinishWindowsKeeps == ASSUME IInv, FinishWindows PROVE IInv'
<1>i. TypeOK /\ WP!IInv /\ Flow /\ OneRun /\ OnTime /\ LastWindow /\ WindowOnOneTimeline
  BY DEF IInv
<1>1. /\ pc = "finish" /\ pc' = "done" /\ Quiet /\ ~Rest /\ Infer /\ W!Finish
      /\ UNCHANGED <<decoder, chunk, track, vad, promised, source, run>>
  BY DEF FinishWindows
<1>2. /\ WP!IInv' /\ received' = received /\ Cuts
      /\ cutter'.committed = received /\ policy' = policy
  BY <1>i, <1>1, FinishStep
<1>3. /\ track.samples \in Nat /\ vad.used \in Nat /\ vad.emitting \in Nat /\ received \in Nat
  BY <1>i, FieldTypes, CutterTypes
<1>4. vad.used = 0 /\ received = track.samples
  BY <1>i, <1>1, <1>3 DEF Flow, Quiet, Rest
<1>5. Going /\ received' \in Nat /\ received' <= Settled
  BY <1>1, <1>2, <1>3, <1>4 DEF Going, Settled
<1>6. LastWindow' /\ WindowOnOneTimeline' /\ stamp' \in Optional
  BY <1>i, <1>1, <1>2, <1>5, WindowStep
<1>7. TypeOK'
  BY <1>i, <1>1, <1>6 DEF TypeOK
<1>8. Flow'
  BY <1>i, <1>1, <1>2, <1>4 DEF Flow, Handing, Quiet
<1> QED
  BY <1>1, <1>2, <1>6, <1>7, <1>8 DEF IInv, OneRun, OnTime, Going

-----------------------------------------------------------------------------
(* The decoder                                                                 *)

\* The resampler is emptied at the end of the input.
LEMMA EndOfInputKeeps == ASSUME IInv, EndOfInput PROVE IInv'
<1>i. TypeOK /\ Flow
  BY DEF IInv
<1>1. /\ pc = "decoder" /\ decoder.phase = "receive"
      /\ decoder' = [decoder EXCEPT !.phase = "end", !.left = Held]
      /\ UNCHANGED <<windowVars, chunk, track, vad, pc, stamp, promised, source, run>>
  BY DEF EndOfInput, Decoding
<1>2. /\ decoder.samples \in Nat /\ decoder.left \in Nat /\ Len(source) \in Nat
      /\ decoder.samples + decoder.left <= Len(source)
  BY <1>i, FieldTypes, Zenon DEF Flow
<1>3. Held \in Nat /\ decoder.samples + Held = Len(source)
  BY <1>2 DEF Held
<1>4. /\ decoder' \in Decoders /\ decoder'.samples = decoder.samples
      /\ decoder'.chunks = decoder.chunks /\ decoder'.left = Held
      /\ decoder'.phase = "end" /\ decoder'.discontinuity = decoder.discontinuity
      /\ decoder'.origin = decoder.origin /\ decoder'.originSample = decoder.originSample
      /\ decoder'.nextInput = decoder.nextInput
  BY <1>i, <1>1, <1>3, Zenon DEF TypeOK, Decoders
<1>5. TypeOK'
  BY <1>i, <1>1, <1>4 DEF TypeOK
<1>6. Flow'
  BY <1>i, <1>1, <1>2, <1>3, <1>4 DEF Flow, Handing, Quiet, windowVars
<1>7. Going /\ Open' = Open /\ Settled' = Settled
  BY <1>1, <1>4 DEF Going, Open, Settled
<1> QED
  BY <1>1, <1>4, <1>5, <1>6, <1>7, StillKeeps

\* A break empties the resampler before the frame is taken.
LEMMA FlushResamplerKeeps ==
    ASSUME IInv, Decoding("receive"), NEW frame \in Frames, frame.time.known,
           decoder' = [decoder EXCEPT !.phase = "flush", !.left = Held, !.frame = frame],
           UNCHANGED <<windowVars, chunk, track, vad, pc, stamp, promised, source, run>>
    PROVE  IInv'
<1>i. TypeOK /\ Flow
  BY DEF IInv
<1>1. pc = "decoder" /\ decoder.phase = "receive"
  BY DEF Decoding
<1>2. /\ decoder.samples \in Nat /\ decoder.left \in Nat /\ Len(source) \in Nat
      /\ decoder.samples + decoder.left <= Len(source)
  BY <1>i, FieldTypes DEF Flow
<1>3. Held \in Nat /\ decoder.samples + Held = Len(source)
  BY <1>2 DEF Held
<1>4. /\ decoder' \in Decoders /\ decoder'.samples = decoder.samples
      /\ decoder'.chunks = decoder.chunks /\ decoder'.left = Held
      /\ decoder'.phase = "flush" /\ decoder'.discontinuity = decoder.discontinuity
      /\ decoder'.origin = decoder.origin /\ decoder'.originSample = decoder.originSample
      /\ decoder'.nextInput = decoder.nextInput /\ decoder'.frame = frame
  BY <1>i, <1>3, Zenon DEF TypeOK, Decoders
<1>5. TypeOK'
  BY <1>i, <1>4 DEF TypeOK
<1>6. Flow'
  BY <1>i, <1>1, <1>2, <1>3, <1>4 DEF Flow, Handing, Quiet, windowVars
<1>7. Going /\ Open' = Open /\ Settled' = Settled
  BY <1>1, <1>4 DEF Going, Open, Settled
<1> QED
  BY <1>1, <1>4, <1>5, <1>6, <1>7, StillKeeps

\* run() returns or throws.
LEMMA DecoderReturnsKeeps == ASSUME IInv, DecoderReturns PROVE IInv'
<1>i. TypeOK /\ Flow
  BY DEF IInv
<1>1. /\ pc = "decoder" /\ decoder.phase = "end" /\ decoder.left = 0
      /\ pc' = IF Truncated THEN "failed" ELSE "finish"
      /\ UNCHANGED <<windowVars, decoder, chunk, track, vad, stamp, promised, source, run>>
  BY DEF DecoderReturns, Decoding
<1>2. TypeOK'
  BY <1>i, <1>1 DEF TypeOK
<1>3. Len(source) \in Nat /\ promised \in Nat /\ finished' = finished
  BY <1>i, <1>1, FieldTypes DEF TypeOK, windowVars
<1>4. ~Truncated => Len(source) >= promised
  BY <1>3 DEF Truncated
<1>5. Flow'
  BY <1>i, <1>1, <1>3, <1>4, SMTT(60) DEF Flow, Handing, Quiet, windowVars
<1>6. CASE Truncated
  <2>1. ~Going'
    BY <1>1, <1>6 DEF Going
  <2> QED
    BY <1>1, <1>2, <1>5, <2>1, EndKeeps
<1>7. CASE ~Truncated
  <2>1. Going /\ Open' = Open /\ Settled' = Settled
        /\ pc' \notin {"audio", "break", "offset"}
    BY <1>1, <1>7 DEF Going, Open, Settled
  <2> QED
    BY <1>1, <1>2, <1>5, <2>1, StillKeeps
<1> QED
  BY <1>6, <1>7

\* One chunk of the loop of emit_audio.
LEMMA EmitAudioKeeps == ASSUME IInv, EmitAudio PROVE IInv'
<1> DEFINE length == Smaller(ChunkSamples, decoder.left)
           move == decoder.samples - decoder.originSample
<1>i. TypeOK /\ Flow
  BY DEF IInv
<1>1. /\ pc = "decoder" /\ decoder.left > 0 /\ pc' = "audio"
      /\ chunk' = [number |-> decoder.chunks + 1, first |-> decoder.samples,
                   length |-> length, discontinuity |-> decoder.discontinuity,
                   time |-> Shift(decoder.origin, move)]
      /\ decoder' = [decoder EXCEPT !.chunks = @ + 1, !.samples = @ + length,
                                    !.left = @ - length, !.discontinuity = FALSE]
      /\ UNCHANGED <<windowVars, track, vad, stamp, promised, source, run>>
  BY DEF EmitAudio
<1>2. /\ decoder.samples \in Nat /\ decoder.left \in Nat /\ Len(source) \in Nat
      /\ decoder.chunks \in Nat /\ decoder.originSample \in Nat
      /\ decoder.origin \in Optional /\ decoder.discontinuity \in BOOLEAN
      /\ track.samples \in Nat
  BY <1>i, FieldTypes
<1>3. length \in Nat /\ length > 0 /\ length <= decoder.left
  <2>1. ChunkSamples \in Nat /\ ChunkSamples > 0
    BY TimelineAssumption
  <2>2. length = IF ChunkSamples <= decoder.left THEN ChunkSamples ELSE decoder.left
    BY DEF Smaller
  <2> QED
    BY <1>1, <1>2, <2>1, <2>2
<1> HIDE DEF length
<1>4. move \in Int /\ Shift(decoder.origin, move) \in Optional
  <2>1. move \in Int
    BY <1>2
  <2> QED
    BY <1>2, <2>1, ShiftLemma
<1>5. Shift(decoder.origin, move) = Shift(DecoderOffset, decoder.samples)
  <2>1. -decoder.originSample \in Int /\ decoder.samples \in Int
    BY <1>2
  <2> DEFINE o == Shift(decoder.origin, -decoder.originSample)
             p == Shift(o, decoder.samples)
             q == Shift(decoder.origin, move)
  <2>2. /\ o \in Optional /\ o.known = decoder.origin.known
        /\ o.at = IF decoder.origin.known THEN decoder.origin.at + (-decoder.originSample)
                  ELSE decoder.origin.at
    BY <1>2, <2>1, ShiftLemma, Zenon
  <2>3. /\ q \in Optional /\ q.known = decoder.origin.known
        /\ q.at = IF decoder.origin.known THEN decoder.origin.at + move ELSE decoder.origin.at
    BY <1>2, <1>4, ShiftLemma, Zenon
  <2> HIDE DEF o, q
  <2>4. /\ p \in Optional /\ p.known = o.known
        /\ p.at = IF o.known THEN o.at + decoder.samples ELSE o.at
    BY <2>1, <2>2, ShiftLemma
  <2> HIDE DEF p
  <2>5. decoder.origin.at \in Int
    BY <1>2 DEF Optional
  <2>6. p.known = q.known /\ p.at = q.at
    BY <1>2, <2>2, <2>3, <2>4, <2>5
  <2>7. p = q
    BY <2>3, <2>4, <2>6 DEF Optional
  <2> QED
    BY <2>7 DEF p, q, o, DecoderOffset
<1> HIDE DEF move
<1>6. /\ chunk' \in Chunks /\ chunk'.first = decoder.samples /\ chunk'.length = length
      /\ chunk'.number = decoder.chunks + 1
      /\ chunk'.discontinuity = decoder.discontinuity
      /\ chunk'.time = Shift(decoder.origin, move)
  BY <1>1, <1>2, <1>3, <1>4 DEF Chunks
<1>7. /\ decoder.left - length \in Nat /\ decoder.samples + length \in Nat
      /\ (decoder.samples + length) + (decoder.left - length) = decoder.samples + decoder.left
  BY <1>2, <1>3
<1>8. /\ decoder' \in Decoders /\ decoder'.samples = decoder.samples + length
      /\ decoder'.chunks = decoder.chunks + 1 /\ decoder'.left = decoder.left - length
      /\ decoder'.phase = decoder.phase /\ decoder'.discontinuity = FALSE
      /\ decoder'.origin = decoder.origin /\ decoder'.originSample = decoder.originSample
      /\ decoder'.nextInput = decoder.nextInput /\ decoder'.frame = decoder.frame
  <2>1. decoder \in Decoders /\ decoder.chunks + 1 \in Nat
    BY <1>i, <1>2 DEF TypeOK
  <2>2. decoder' = [decoder EXCEPT !.chunks = decoder.chunks + 1,
                                   !.samples = decoder.samples + length,
                                   !.left = decoder.left - length,
                                   !.discontinuity = FALSE]
    BY <1>1
  <2> HIDE DEF length
  <2>3. decoder' \in Decoders
    BY <1>7, <2>1, <2>2, Zenon DEF Decoders
  <2> QED
    BY <2>1, <2>2, <2>3, Zenon DEF Decoders
<1>9. TypeOK'
  BY <1>i, <1>1, <1>6, <1>8 DEF TypeOK, Handing
<1>10. decoder.samples = track.samples /\ decoder.chunks = track.chunks
  BY <1>i, <1>1 DEF Flow
<1>11. /\ decoder'.samples + decoder'.left = decoder.samples + decoder.left
       /\ decoder'.samples = track.samples + chunk'.length
       /\ decoder'.chunks = track.chunks + 1
  <2>1. decoder'.samples + decoder'.left = (decoder.samples + length) + (decoder.left - length)
    BY <1>8
  <2>2. decoder'.samples = track.samples + length /\ chunk'.length = length
    BY <1>6, <1>8, <1>10
  <2>3. decoder'.chunks = track.chunks + 1
    BY <1>8, <1>10
  <2> QED
    BY <1>7, <2>1, <2>2, <2>3
<1>12. Flow'
  <2>1. /\ received' = received /\ policy' = policy /\ finished' = finished
        /\ cutter' = cutter
    BY <1>1 DEF windowVars
  <2>2. ~decoder'.discontinuity
    BY <1>8
  <2> QED
    BY <1>i, <1>1, <1>6, <1>8, <1>10, <1>11, <2>1, <2>2 DEF Flow, Handing
<1>13. Going /\ (Open => Open') /\ Settled' = Settled
  BY <1>1, <1>6 DEF Going, Open, Settled
<1>14. chunk'.time = Shift(DecoderOffset', chunk'.first)
  <2>1. DecoderOffset' = DecoderOffset
    BY <1>8 DEF DecoderOffset
  <2> QED
    BY <1>5, <1>6, <2>1
<1> QED
  BY <1>1, <1>8, <1>9, <1>12, <1>13, <1>14, StillKeeps

-----------------------------------------------------------------------------
(* convert(): a frame is stamped and resampled                                 *)

\* Appending n samples leaves the others where they are.
LEMMA Joined ==
    ASSUME NEW S, NEW s \in Seq(S), NEW t \in Seq(S), NEW n \in Nat, Len(t) = n
    PROVE  /\ s \o t \in Seq(S) /\ Len(s \o t) = Len(s) + n
           /\ Len(s \o t) \in Nat /\ Len(s \o t) >= Len(s)
           /\ \A i \in 1..Len(s) : (s \o t)[i] = s[i]
           /\ \A i \in (Len(s) + 1)..(Len(s) + n) : (s \o t)[i] = t[i - Len(s)]
<1>1. Len(s) \in Nat
  OBVIOUS
<1>2. s \o t \in Seq(S) /\ Len(s \o t) = Len(s) + n
  OBVIOUS
<1>3. Len(s \o t) \in Nat /\ Len(s \o t) >= Len(s)
  BY <1>1, <1>2
<1>4. \A i \in 1..Len(s) : (s \o t)[i] = s[i]
  BY <1>1
<1>5. \A i \in (Len(s) + 1)..(Len(s) + n) : (s \o t)[i] = t[i - Len(s)]
  BY <1>1
<1> QED
  BY <1>2, <1>3, <1>4, <1>5, Zenon

\* The samples of a frame, with the time the source gives them.
LEMMA FrameSamples ==
    ASSUME TypeOK, NEW size \in Nat, NEW time \in Optional, NEW broken \in BOOLEAN,
           Resample(size, time, broken), run' \in Runs
    PROVE  /\ source' \in Seq(Samples) /\ Len(source') = Len(source) + size /\ Extended
           /\ \A i \in (Len(source) + 1)..(Len(source) + size) :
                 /\ source'[i].run = run'.number
                 /\ source'[i].drift = run'.drift
                 /\ source'[i].time = Shift(FrameTime(time), i - Len(source) - 1)
<1> DEFINE new == [i \in 1..size |-> [run |-> run'.number, drift |-> run'.drift,
                                       time |-> Shift(FrameTime(time), i - 1)]]
<1>1. FrameTime(time) \in Optional
  BY FieldTypes DEF FrameTime
<1>2. \A i \in 1..size : Shift(FrameTime(time), i - 1) \in Optional
  <2> TAKE i \in 1..size
  <2>1. i - 1 \in Int
    OBVIOUS
  <2> QED
    BY <1>1, <2>1, ShiftLemma
<1>3. \A i \in 1..size : new[i] \in Samples
  <2>1. run'.number \in Nat /\ run'.drift \in Nat
    BY DEF Runs
  <2> QED
    BY <1>2, <2>1 DEF Samples
<1>4. new \in Seq(Samples) /\ Len(new) = size
  <2>1. new \in [1..size -> Samples]
    BY <1>3
  <2>2. new \in Seq(Samples)
    BY <2>1
  <2> QED
    BY <2>1, <2>2
<1> DEFINE all == source \o new
<1>5. source' = all
  BY DEF Resample
<1>6. \A i \in 1..size : /\ new[i].run = run'.number /\ new[i].drift = run'.drift
                         /\ new[i].time = Shift(FrameTime(time), i - 1)
  OBVIOUS
<1> HIDE DEF new
<1>7. source \in Seq(Samples) /\ Len(source) \in Nat
  BY FieldTypes DEF TypeOK
<1>8. /\ all \in Seq(Samples) /\ Len(all) = Len(source) + size
      /\ Len(all) \in Nat /\ Len(all) >= Len(source)
      /\ \A i \in 1..Len(source) : all[i] = source[i]
      /\ \A i \in (Len(source) + 1)..(Len(source) + size) : all[i] = new[i - Len(source)]
  BY <1>4, <1>7, Joined, ZenonT(60)
<1> HIDE DEF all
<1>9. ASSUME NEW i \in (Len(source) + 1)..(Len(source) + size)
      PROVE  /\ all[i].run = run'.number
             /\ all[i].drift = run'.drift
             /\ all[i].time = Shift(FrameTime(time), i - Len(source) - 1)
  <2>1. i - Len(source) \in 1..size
    BY <1>7
  <2>2. all[i] = new[i - Len(source)]
    BY <1>8, Zenon
  <2> QED
    BY <1>6, <2>1, <2>2, Zenon
<1>10. Extended
  BY <1>5, <1>8, Zenon DEF Extended
<1> QED
  BY <1>5, <1>8, <1>9, <1>10, Zenon

\* A frame begins the timeline of its run: no timestamp came before it.
Begins(time, broken) == time.known /\ (broken \/ ~decoder.origin.known)

\* The decoder after a frame, field by field.
LEMMA FrameTaken ==
    ASSUME TypeOK, Flow, NEW size \in Nat, NEW time \in Optional, NEW broken \in BOOLEAN,
           Resample(size, time, broken)
    PROVE  /\ decoder' \in Decoders
           /\ decoder'.samples = decoder.samples /\ decoder'.chunks = decoder.chunks
           /\ decoder'.phase = "receive"
           /\ decoder'.discontinuity = (decoder.discontinuity \/ broken)
           /\ decoder'.samples + decoder'.left <= Len(source) + size
           /\ decoder'.origin = IF Begins(time, broken) THEN time ELSE decoder.origin
           /\ decoder'.originSample =
                 IF Begins(time, broken) THEN decoder.samples ELSE decoder.originSample
           /\ decoder'.nextInput = Shift(FrameTime(time), size)
<1> DEFINE e == Stamped(decoder, size, time, broken)
           origin == IF Begins(time, broken) THEN time ELSE decoder.origin
           originSample == IF Begins(time, broken) THEN decoder.samples ELSE decoder.originSample
           next == Shift(FrameTime(time), size)
<1>1. /\ decoder \in Decoders
      /\ decoder.samples \in Nat /\ decoder.left \in Nat /\ decoder.frames \in Nat
      /\ Len(source) \in Nat /\ decoder.samples + decoder.left <= Len(source)
      /\ decoder.nextInput \in Optional /\ decoder.discontinuity \in BOOLEAN
      /\ decoder.origin \in Optional /\ decoder.originSample \in Nat
  BY FieldTypes DEF TypeOK, Flow
<1>2. Held \in Nat /\ decoder.samples + Held = Len(source)
  BY <1>1 DEF Held
<1>3. next \in Optional /\ origin \in Optional /\ originSample \in Nat
  <2>1. FrameTime(time) \in Optional /\ size \in Int
    BY <1>1, SMTT(60) DEF FrameTime
  <2> QED
    BY <1>1, <2>1, ShiftLemma
<1>4. e = [decoder EXCEPT !.origin = origin, !.originSample = originSample, !.nextInput = next,
                          !.discontinuity = @ \/ broken]
  BY DEF Stamped, Begins, FrameTime
<1> HIDE DEF e, next, origin, originSample
<1>5. /\ e \in Decoders /\ e.samples = decoder.samples /\ e.chunks = decoder.chunks
      /\ e.discontinuity = (decoder.discontinuity \/ broken)
      /\ e.origin = origin /\ e.originSample = originSample /\ e.nextInput = next
      /\ e.frames = decoder.frames
  BY <1>1, <1>3, <1>4, Zenon DEF Decoders
<1>6. PICK held \in 0..Smaller(MaxHeld, Held + size) :
         decoder' = [e EXCEPT !.left = Held + size - held, !.frame = NoFrame,
                              !.frames = @ + 1, !.phase = "receive"]
  BY Zenon DEF Resample, e
<1>7. held \in Nat /\ held <= Held + size
  <2>1. MaxHeld \in Nat /\ Held + size \in Nat
    BY <1>2, TimelineAssumption
  <2>2. Smaller(MaxHeld, Held + size) = IF MaxHeld <= Held + size THEN MaxHeld ELSE Held + size
    BY DEF Smaller
  <2> QED
    BY <2>1, <2>2
<1> DEFINE left == Held + size - held
<1>8. left \in Nat /\ decoder.samples + left <= Len(source) + size
  <2>1. /\ Held \in Nat /\ size \in Nat /\ decoder.samples \in Nat /\ Len(source) \in Nat
        /\ decoder.samples + Held = Len(source)
    BY <1>1, <1>2, Zenon
  <2> QED
    BY <1>7, <2>1
<1>9. decoder' = [e EXCEPT !.left = left, !.frame = NoFrame, !.frames = @ + 1,
                           !.phase = "receive"]
  BY <1>6
<1> HIDE DEF left
<1>10. NoFrame \in Frames
  BY DEF NoFrame, Frames, Unknown, Optional
<1>11. e.frames + 1 \in Nat
  <2>1. e.frames = decoder.frames /\ decoder.frames \in Nat
    BY <1>1, <1>5, Zenon
  <2> QED
    BY <2>1
<1>12. /\ decoder' \in Decoders /\ decoder'.samples = e.samples /\ decoder'.chunks = e.chunks
       /\ decoder'.phase = "receive" /\ decoder'.discontinuity = e.discontinuity
       /\ decoder'.left = left /\ decoder'.origin = e.origin
       /\ decoder'.originSample = e.originSample /\ decoder'.nextInput = e.nextInput
  BY <1>5, <1>8, <1>9, <1>10, <1>11, Zenon DEF Decoders
<1> QED
  BY <1>5, <1>8, <1>12 DEF next, origin, originSample

\* The history of runs is well typed.
LEMMA RunTypes ==
    ASSUME TypeOK, Flow, NEW time \in Optional, NEW broken \in BOOLEAN
    PROVE  /\ RunAfter(time, broken) \in Runs
           /\ ~broken => /\ RunAfter(time, broken).number = run.number
                         /\ RunAfter(time, broken).drift =
                               run.drift + IF ~time.known THEN 0
                                           ELSE IF decoder.nextInput.known
                                                THEN Distance(time.at, decoder.nextInput.at)
                                                ELSE Held
<1>1. /\ run.number \in Nat /\ run.drift \in Nat /\ decoder.samples \in Nat
      /\ decoder.left \in Nat /\ Len(source) \in Nat
      /\ decoder.samples + decoder.left <= Len(source)
      /\ decoder.nextInput \in Optional /\ decoder.nextInput.known \in BOOLEAN
      /\ decoder.nextInput.at \in Int /\ time.at \in Int /\ time.known \in BOOLEAN
  BY FieldTypes, Zenon DEF Flow, Optional
<1>2. Held \in Nat
  BY <1>1 DEF Held
<1>3. Distance(time.at, decoder.nextInput.at) \in Nat
  BY <1>1, DistanceLemma, Zenon
<1> DEFINE drift == run.drift + IF ~time.known THEN 0
                                 ELSE IF decoder.nextInput.known
                                      THEN Distance(time.at, decoder.nextInput.at) ELSE Held
<1>4. drift \in Nat
  BY <1>1, <1>2, <1>3
<1>5. CASE broken
  BY <1>1, <1>5 DEF RunAfter, Runs
<1>6. CASE ~broken
  <2>1. RunAfter(time, broken) = [run EXCEPT !.drift = drift]
    BY <1>6 DEF RunAfter
  <2> HIDE DEF drift
  <2>2. RunAfter(time, broken) \in Runs /\ RunAfter(time, broken).number = run.number
        /\ RunAfter(time, broken).drift = drift
    BY <1>4, <2>1 DEF TypeOK, Runs
  <2> QED
    BY <1>6, <2>2 DEF drift
<1> QED
  BY <1>5, <1>6

\* How far the time of a frame may be off: the timestamps accepted as continuous
\* move no further than the run's drift says.
LEMMA FrameOnTime ==
    ASSUME IInv, pc = "decoder", NEW size \in Nat, NEW time \in Optional,
           NEW broken \in BOOLEAN, Resample(size, time, broken),
           broken => time.known /\ decoder.samples = Len(source)
    PROVE  /\ DecoderOffset' \in Optional
           /\ DecoderOffset'.known = FrameTime(time).known
           /\ decoder'.origin.known = FrameTime(time).known
           /\ FrameTime(time).known =>
                 Distance(DecoderOffset'.at + Len(source), FrameTime(time).at) <= run'.drift
           /\ ~broken /\ DecoderOffset.known => DecoderOffset' = DecoderOffset
           /\ DecoderOffset.known = decoder.origin.known
<1> DEFINE off == DecoderOffset
           new == DecoderOffset'
<1>i. TypeOK /\ Flow /\ OnTime
  BY DEF IInv
<1>1. /\ decoder.samples \in Nat /\ decoder.left \in Nat /\ Len(source) \in Nat
      /\ decoder.samples + decoder.left <= Len(source)
      /\ decoder.originSample \in Nat /\ decoder.origin \in Optional
      /\ decoder.nextInput \in Optional /\ run.drift \in Nat
  BY <1>i, FieldTypes DEF Flow
<1>2. /\ decoder.origin.known \in BOOLEAN /\ decoder.origin.at \in Int
      /\ decoder.nextInput.known \in BOOLEAN /\ decoder.nextInput.at \in Int
      /\ time.known \in BOOLEAN /\ time.at \in Int
  BY <1>1 DEF Optional
<1>3. /\ decoder'.origin = IF Begins(time, broken) THEN time ELSE decoder.origin
      /\ decoder'.originSample =
            IF Begins(time, broken) THEN decoder.samples ELSE decoder.originSample
  BY <1>i, FrameTaken
<1>4. run' = RunAfter(time, broken)
  BY DEF Resample
<1>10. ~broken => run'.drift = run.drift + IF ~time.known THEN 0
                                          ELSE IF decoder.nextInput.known
                                               THEN Distance(time.at, decoder.nextInput.at)
                                               ELSE Held
  BY <1>i, <1>4, RunTypes, Zenon
<1>5. decoder.origin.known = decoder.nextInput.known
  BY <1>i DEF OnTime, Going
<1>6. /\ off \in Optional /\ off.known = decoder.origin.known /\ off.at \in Int
  <2>1. -decoder.originSample \in Int
    BY <1>1
  <2>2. off \in Optional /\ off.known = decoder.origin.known
    BY <1>1, <2>1, ShiftLemma, Zenon DEF DecoderOffset
  <2> QED
    BY <2>2 DEF Optional
<1>7. Held \in Nat /\ decoder.samples + Held = Len(source)
  BY <1>1 DEF Held
<1>8. CASE Begins(time, broken)
  <2>1. new = Shift(time, -decoder.samples)
    BY <1>3, <1>8 DEF DecoderOffset
  <2>2. -decoder.samples \in Int /\ time.known
    BY <1>1, <1>8 DEF Begins
  <2>3. new \in Optional /\ new.known /\ new.at = time.at + (-decoder.samples)
    BY <2>1, <2>2, ShiftLemma
  <2>4. FrameTime(time) = time
    BY <2>2 DEF FrameTime
  <2>5. new.at + Len(source) = time.at + Held
    BY <1>1, <1>2, <1>7, <2>3
  <2>6. Distance(time.at + Held, time.at) = Held
    BY <1>2, <1>7 DEF Distance
  <2>7. Held <= run'.drift
    <3>1. CASE broken
      <4>1. Held = 0
        BY <1>1, <3>1 DEF Held
      <4>2. run'.drift = 0
        BY <1>4, <3>1 DEF RunAfter
      <4> QED
        BY <4>1, <4>2
    <3>2. CASE ~broken
      <4>1. run'.drift = run.drift + Held
        BY <1>5, <1>8, <1>10, <2>2, <3>2, Zenon DEF Begins
      <4> QED
        BY <1>1, <1>7, <4>1
    <3> QED
      BY <3>1, <3>2
  <2>8. decoder'.origin.known = FrameTime(time).known
    BY <1>3, <1>8, <2>4
  <2>9. ~broken => ~DecoderOffset.known
    BY <1>6, <1>8 DEF Begins
  <2> QED
    BY <1>6, <2>2, <2>3, <2>4, <2>5, <2>6, <2>7, <2>8, <2>9, Zenon
<1>9. CASE ~Begins(time, broken)
  <2>1. new = off /\ ~broken /\ decoder'.origin = decoder.origin
    BY <1>3, <1>9 DEF DecoderOffset, Begins
  <2>2. off.known = FrameTime(time).known
    BY <1>2, <1>5, <1>6, <1>9, <2>1 DEF Begins, FrameTime
  <2>3. decoder.nextInput.known =>
           Distance(off.at + Len(source), decoder.nextInput.at) <= run.drift
    BY <1>i DEF OnTime, Going
  <2>4. FrameTime(time).known =>
           Distance(off.at + Len(source), FrameTime(time).at) <= run'.drift
    <3> SUFFICES ASSUME FrameTime(time).known
                 PROVE  Distance(off.at + Len(source), FrameTime(time).at) <= run'.drift
      OBVIOUS
    <3>1. decoder.nextInput.known
      BY <1>5, <1>6, <2>2
    <3>2. off.at + Len(source) \in Int
      BY <1>1, <1>6
    <3>3. CASE time.known
      <4>1. run'.drift = run.drift + Distance(time.at, decoder.nextInput.at)
        BY <1>10, <2>1, <3>1, <3>3, Zenon
      <4>2. FrameTime(time) = time
        BY <3>3 DEF FrameTime
      <4>3. Distance(off.at + Len(source), time.at) <=
              Distance(off.at + Len(source), decoder.nextInput.at)
                + Distance(time.at, decoder.nextInput.at)
        BY <1>2, <3>2, DistanceLemma, Zenon
      <4>4. /\ Distance(off.at + Len(source), decoder.nextInput.at) \in Nat
            /\ Distance(time.at, decoder.nextInput.at) \in Nat
            /\ Distance(off.at + Len(source), time.at) \in Nat
        BY <1>2, <3>2, DistanceLemma, Zenon
      <4> QED
        BY <1>1, <2>3, <3>1, <4>1, <4>2, <4>3, <4>4, SMTT(60)
    <3>4. CASE ~time.known
      <4>1. run'.drift = run.drift
        <5>1. run'.drift = run.drift + 0
          BY <1>10, <2>1, <3>4, Zenon
        <5> QED
          BY <1>1, <5>1
      <4>2. FrameTime(time) = decoder.nextInput
        BY <3>4 DEF FrameTime
      <4> QED
        BY <2>3, <3>1, <4>1, <4>2
    <3> QED
      BY <3>3, <3>4
  <2> QED
    BY <1>6, <2>1, <2>2, <2>4
<1> QED
  BY <1>8, <1>9, Zenon

\* The samples of a frame fit the decoder's offset, and so does what comes next.
LEMMA FrameFits ==
    ASSUME IInv, pc = "decoder", NEW size \in Nat, NEW time \in Optional,
           NEW broken \in BOOLEAN, Resample(size, time, broken),
           broken => time.known /\ decoder.samples = Len(source)
    PROVE  /\ decoder'.origin.known = decoder'.nextInput.known
           /\ decoder'.nextInput.known =>
                 Distance(DecoderOffset'.at + Len(source'), decoder'.nextInput.at) <= run'.drift
           /\ \A i \in (Len(source) + 1)..(Len(source) + size) :
                 Fits(DecoderOffset', source'[i], i)
<1> DEFINE new == DecoderOffset'
           ft == FrameTime(time)
<1>i. TypeOK /\ Flow
  BY DEF IInv
<1>1. /\ new \in Optional /\ new.known = ft.known /\ decoder'.origin.known = ft.known
      /\ ft.known => Distance(new.at + Len(source), ft.at) <= run'.drift
  BY FrameOnTime
<1>2. ft \in Optional /\ Len(source) \in Nat
  BY <1>i, FieldTypes DEF FrameTime
<1>3. new.at \in Int /\ ft.at \in Int /\ ft.known \in BOOLEAN
  BY <1>1, <1>2 DEF Optional
<1>4. run' \in Runs
  BY <1>i, RunTypes DEF Resample
<1>5. /\ Len(source') = Len(source) + size
      /\ \A i \in (Len(source) + 1)..(Len(source) + size) :
                 /\ source'[i].drift = run'.drift
                 /\ source'[i].time = Shift(ft, i - Len(source) - 1)
  BY <1>i, <1>4, FrameSamples
<1>6. decoder'.nextInput = Shift(ft, size)
  BY <1>i, FrameTaken
<1> HIDE DEF new, ft
<1>7. /\ decoder'.nextInput.known = ft.known
      /\ ft.known => decoder'.nextInput.at = ft.at + size
  <2>1. size \in Int
    OBVIOUS
  <2> QED
    BY <1>2, <1>6, <2>1, ShiftLemma
<1>8. \A d \in Int : Distance((new.at + Len(source)) + d, ft.at + d) =
                     Distance(new.at + Len(source), ft.at)
  <2>1. new.at + Len(source) \in Int
    BY <1>2, <1>3
  <2> QED
    BY <1>3, <2>1, DistanceLemma, Zenon
<1>9. ft.known => Distance(new.at + Len(source'), decoder'.nextInput.at) <= run'.drift
  <2>1. new.at + Len(source') = (new.at + Len(source)) + size
    BY <1>2, <1>3, <1>5
  <2> QED
    BY <1>1, <1>7, <1>8, <2>1
<1>10. ASSUME NEW i \in (Len(source) + 1)..(Len(source) + size)
       PROVE  Fits(new, source'[i], i)
  <2> DEFINE d == i - Len(source) - 1
             there == Shift(ft, d)
  <2>1. d \in Int /\ new.at + i - 1 = (new.at + Len(source)) + d
    BY <1>2, <1>3, SMTT(60)
  <2>2. source'[i].drift = run'.drift /\ source'[i].time = there
    BY <1>5
  <2>3. there.known = ft.known /\ (ft.known => there.at = ft.at + d)
    BY <1>2, <2>1, ShiftLemma, Zenon
  <2> HIDE DEF d, there
  <2>4. ft.known => Distance(new.at + i - 1, there.at) <= run'.drift
    BY <1>1, <1>8, <2>1, <2>3
  <2> QED
    BY <1>1, <2>2, <2>3, <2>4 DEF Fits
<1> QED
  BY <1>1, <1>7, <1>9, <1>10 DEF new

\* A frame is converted; after a break the resampler has been emptied.
LEMMA ResampleKeeps ==
    ASSUME IInv, pc = "decoder", NEW size \in Nat, NEW time \in Optional,
           NEW broken \in BOOLEAN, Resample(size, time, broken),
           broken => time.known /\ decoder.samples = Len(source),
           UNCHANGED <<windowVars, chunk, track, vad, pc, stamp, promised>>
    PROVE  IInv'
<1>i. TypeOK /\ WP!IInv /\ Flow /\ OneRun /\ OnTime /\ LastWindow /\ WindowOnOneTimeline
  BY DEF IInv
<1>1. /\ run' \in Runs /\ (~broken => run'.number = run.number)
  BY <1>i, RunTypes DEF Resample
<1>2. /\ source' \in Seq(Samples) /\ Len(source') = Len(source) + size /\ Extended
      /\ \A i \in (Len(source) + 1)..(Len(source) + size) : source'[i].run = run'.number
  BY <1>i, <1>1, FrameSamples
<1>3. /\ decoder' \in Decoders /\ decoder'.samples = decoder.samples
      /\ decoder'.chunks = decoder.chunks /\ decoder'.phase = "receive"
      /\ decoder'.discontinuity = (decoder.discontinuity \/ broken)
      /\ decoder'.samples + decoder'.left <= Len(source')
  BY <1>i, <1>2, FrameTaken
<1>4. /\ Len(source) \in Nat /\ track.samples \in Nat /\ cutter.first \in Nat
      /\ cutter.first <= track.samples /\ track.samples = decoder.samples
      /\ track.samples <= Len(source) /\ Going /\ Settled = track.samples
  <2>1. Len(source) \in Nat /\ track.samples \in Nat /\ cutter.first \in Nat
        /\ decoder.samples \in Nat /\ received \in Nat
    BY <1>i, FieldTypes, CutterTypes
  <2>2. Going /\ Settled = track.samples
    BY DEF Going, Settled
  <2>3. cutter.first <= received /\ received <= track.samples /\ decoder.samples <= Len(source)
    BY <1>i, <2>2, FlowBounds
  <2>4. track.samples = decoder.samples
    BY <1>i DEF Flow
  <2> QED
    BY <2>1, <2>2, <2>3, <2>4
<1>5. TypeOK'
  BY <1>i, <1>1, <1>2, <1>3 DEF TypeOK
<1>6. Flow'
  <2>1. /\ received' = received /\ policy' = policy /\ finished' = finished
        /\ cutter' = cutter
    BY DEF windowVars
  <2> QED
    BY <1>i, <1>3, <2>1 DEF Flow, Handing, Quiet
<1>7. WP!IInv' /\ LastWindow' /\ WindowOnOneTimeline'
  BY <1>i, <1>2, SameWindows
<1>8. /\ cutter' = cutter /\ Settled' = track.samples /\ Open = decoder.discontinuity
      /\ Open' = (decoder.discontinuity \/ broken)
  <2>1. cutter' = cutter /\ pc' = pc /\ track' = track
    BY DEF windowVars
  <2>2. Settled' = track.samples
    BY <2>1 DEF Settled
  <2>3. decoder.discontinuity \in BOOLEAN
    BY <1>i, FieldTypes
  <2>4. Open = decoder.discontinuity
    BY <2>3 DEF Open
  <2>5. Open' = decoder'.discontinuity
    BY <1>3, <2>1, <2>3 DEF Open
  <2> QED
    BY <1>3, <2>1, <2>2, <2>4, <2>5
<1>9. \A i \in 1..Len(source) : source'[i] = source[i]
  BY <1>2 DEF Extended
<1>10. OneRun'
  <2>1. \A i \in (track.samples + 1)..Len(source') : source'[i].run = run'.number
    <3> SUFFICES ASSUME NEW i \in (track.samples + 1)..Len(source')
                 PROVE  source'[i].run = run'.number
      OBVIOUS
    <3>1. CASE i <= Len(source)
      <4>1. i \in (track.samples + 1)..Len(source) /\ i \in 1..Len(source)
        BY <1>2, <1>4, <3>1
      <4>2. source[i].run = run.number
        BY <1>i, <1>4, <4>1 DEF OneRun
      <4>3. ~broken
        BY <1>4, <4>1
      <4> QED
        BY <1>1, <1>9, <4>1, <4>2, <4>3
    <3>2. CASE i > Len(source)
      BY <1>2, <1>4, <3>2
    <3> QED
      BY <1>4, <3>1, <3>2, SMTT(60)
  <2>2. \A i, j \in (cutter.first + 1)..track.samples : source'[i].run = source'[j].run
    <3>1. \A i, j \in (cutter.first + 1)..track.samples : source[i].run = source[j].run
      BY <1>i, <1>4 DEF OneRun
    <3>2. \A i \in (cutter.first + 1)..track.samples : source'[i] = source[i]
      BY <1>4, <1>9, SMTT(60)
    <3> QED
      BY <3>1, <3>2
  <2>3. ~Open' => \A i \in (cutter.first + 1)..Len(source') : source'[i].run = run'.number
    <3> SUFFICES ASSUME ~Open', NEW i \in (cutter.first + 1)..Len(source')
                 PROVE  source'[i].run = run'.number
      OBVIOUS
    <3>1. ~broken /\ ~Open
      BY <1>8, Zenon
    <3>2. CASE i <= Len(source)
      <4>1. i \in (cutter.first + 1)..Len(source) /\ i \in 1..Len(source)
        BY <1>2, <1>4, <3>2
      <4>2. source[i].run = run.number
        BY <1>i, <1>4, <3>1, <4>1 DEF OneRun
      <4> QED
        BY <1>1, <1>9, <3>1, <4>1, <4>2
    <3>3. CASE i > Len(source)
      BY <1>2, <1>4, <3>3, SMTT(60)
    <3> QED
      BY <1>4, <3>2, <3>3
  <2> QED
    BY <1>8, <2>1, <2>2, <2>3 DEF OneRun
<1>11. OnTime'
  <2>1. /\ decoder'.origin.known = decoder'.nextInput.known
        /\ decoder'.nextInput.known =>
              Distance(DecoderOffset'.at + Len(source'), decoder'.nextInput.at) <= run'.drift
        /\ \A i \in (Len(source) + 1)..(Len(source) + size) : Fits(DecoderOffset', source'[i], i)
    BY FrameFits, Zenon
  <2>2. /\ ~broken /\ DecoderOffset.known => DecoderOffset' = DecoderOffset
    BY FrameOnTime
  <2>3. \A i \in (track.samples + 1)..Len(source') : Fits(DecoderOffset', source'[i], i)
    <3> SUFFICES ASSUME NEW i \in (track.samples + 1)..Len(source')
                 PROVE  Fits(DecoderOffset', source'[i], i)
      OBVIOUS
    <3>1. CASE i <= Len(source)
      <4>1. i \in (track.samples + 1)..Len(source) /\ i \in 1..Len(source)
        BY <1>2, <1>4, <3>1
      <4>2. Fits(DecoderOffset, source[i], i)
        BY <1>i, <1>4, <4>1 DEF OnTime
      <4>3. ~broken
        BY <1>4, <4>1
      <4> QED
        BY <1>9, <2>2, <4>1, <4>2, <4>3 DEF Fits
    <3>2. CASE i > Len(source)
      <4>1. i \in (Len(source) + 1)..(Len(source) + size)
        BY <1>2, <1>4, <3>2, Beyond, Zenon
      <4> QED
        BY <2>1, <4>1, Zenon
    <3> QED
      BY <1>4, <3>1, <3>2
  <2>4. \A i \in (cutter.first + 1)..track.samples : Fits(track.offset, source'[i], i)
    <3>1. \A i \in (cutter.first + 1)..track.samples : Fits(track.offset, source[i], i)
      BY <1>i, <1>4 DEF OnTime
    <3>2. \A i \in (cutter.first + 1)..track.samples : source'[i] = source[i]
      BY <1>4, <1>9, SMTT(60)
    <3> QED
      BY <3>1, <3>2
  <2>5. ~Open' /\ track.offset.known => track.offset = DecoderOffset'
    BY <1>i, <1>4, <1>8, <2>2, Zenon DEF OnTime
  <2> QED
    BY <1>8, <2>1, <2>3, <2>4, <2>5, Zenon DEF OnTime
<1> QED
  BY <1>5, <1>6, <1>7, <1>10, <1>11 DEF IInv

\* convert() of a frame, whatever its timestamp.
LEMMA ConvertKeeps ==
    ASSUME IInv, NEW size \in FrameSizes, NEW time \in Optional, Convert(size, time)
    PROVE  IInv'
<1>1. pc = "decoder" /\ Decoding("receive") /\ size \in Nat
      /\ UNCHANGED <<windowVars, chunk, track, vad, pc, stamp, promised>>
  BY TimelineAssumption DEF Convert, Decoding
<1>2. CASE Discontinuous(time)
  <2> DEFINE frame == [size |-> size, time |-> time]
  <2>1. frame \in Frames /\ frame.time.known
    BY <1>1, <1>2 DEF Frames, Discontinuous
  <2>2. decoder' = [decoder EXCEPT !.phase = "flush", !.left = Held, !.frame = frame]
        /\ UNCHANGED <<source, run>>
    BY <1>2 DEF Convert
  <2> HIDE DEF frame
  <2> QED
    BY <1>1, <2>1, <2>2, FlushResamplerKeeps, Zenon
<1>3. CASE ~Discontinuous(time)
  <2>1. Resample(size, time, FALSE)
    BY <1>3, Zenon DEF Convert
  <2> QED
    BY <1>1, <2>1, ResampleKeeps, Zenon
<1> QED
  BY <1>2, <1>3

\* The frame after a break.
LEMMA ConvertAfterBreakKeeps == ASSUME IInv, ConvertAfterBreak PROVE IInv'
<1>i. TypeOK /\ Flow
  BY DEF IInv
<1>1. /\ pc = "decoder" /\ decoder.phase = "flush" /\ decoder.left = 0
      /\ Resample(decoder.frame.size, decoder.frame.time, TRUE)
      /\ UNCHANGED <<windowVars, chunk, track, vad, pc, stamp, promised>>
  BY Zenon DEF ConvertAfterBreak, Decoding
<1>2. decoder.frame \in Frames /\ decoder.samples \in Nat /\ Len(source) \in Nat
  BY <1>i, FieldTypes, Zenon
<1>3. decoder.frame.size \in Nat /\ decoder.frame.time \in Optional
  BY <1>2 DEF Frames
<1>4. decoder.frame.time.known /\ decoder.samples = Len(source)
  BY <1>i, <1>1, <1>2 DEF Flow
<1> QED
  BY <1>1, <1>3, <1>4, ResampleKeeps, Zenon

\* The invariant holds before anything has been decoded.
LEMMA InitIInv == Init => IInv
<1> SUFFICES ASSUME Init PROVE IInv
  OBVIOUS
<1>1. WP!IInv
  BY SameCutter, CutterAssumption, WP!InitIInv DEF Init
<1>2. cutter.first = 0 /\ cutter.number = 0 /\ received = 0 /\ ~finished
  BY DEF Init, W!Init
<1>3. Unknown \in Optional /\ ~Unknown.known
  BY DEF Unknown, Optional
<1>4. /\ decoder = [samples |-> 0, chunks |-> 0, originSample |-> 0,
                    origin |-> Unknown, nextInput |-> Unknown,
                    discontinuity |-> FALSE, frame |-> NoFrame, frames |-> 0,
                    left |-> 0, phase |-> "receive"]
      /\ chunk = [number |-> 0, first |-> 0, length |-> 0, discontinuity |-> FALSE,
                  time |-> Unknown]
      /\ track = [samples |-> 0, chunks |-> 0, offset |-> Unknown]
      /\ vad = [used |-> 0, emitting |-> 0, speech |-> FALSE]
      /\ pc = "decoder" /\ stamp = Unknown /\ promised \in Promised /\ source = << >>
      /\ run = [number |-> 1, drift |-> 0]
  BY DEF Init, NoChunk
<1>5. NoFrame \in Frames
  BY <1>3 DEF NoFrame, Frames
<1>6. decoder \in Decoders
  BY <1>3, <1>4, <1>5, Zenon DEF Decoders
<1>7. chunk \in Chunks /\ track \in Tracks /\ vad \in Vads /\ run \in Runs
  BY <1>3, <1>4 DEF Chunks, Tracks, Vads, Runs
<1>8. /\ decoder.samples = 0 /\ decoder.left = 0 /\ decoder.chunks = 0
      /\ decoder.phase = "receive" /\ ~decoder.discontinuity
      /\ decoder.origin = Unknown /\ decoder.nextInput = Unknown
      /\ track.samples = 0 /\ track.chunks = 0 /\ track.offset = Unknown
      /\ vad.used = 0 /\ vad.emitting = 0
  BY <1>4, Zenon
<1>9. source \in Seq(Samples) /\ Len(source) = 0 /\ promised \in Nat
  <2>1. source = << >> /\ promised \in Promised
    BY <1>4, Zenon
  <2>2. Promised \subseteq Nat
    BY TimelineAssumption, Zenon
  <2>3. source \in Seq(Samples) /\ Len(source) = 0
    BY <2>1
  <2> QED
    BY <2>1, <2>2, <2>3, Zenon
<1>10. TypeOK
  BY <1>3, <1>4, <1>6, <1>7, <1>9 DEF TypeOK
<1>11. Flow
  <2>1. pc = "decoder"
    BY <1>4, Zenon
  <2>2. Quiet
    BY <1>8 DEF Quiet
  <2> QED
    BY <1>2, <1>8, <1>9, <2>1, <2>2, SMTT(60) DEF Flow, Handing
<1>12. OneRun
  <2>1. (track.samples + 1)..Len(source) = {} /\ (cutter.first + 1)..Len(source) = {}
    BY <1>2, <1>8, <1>9, NoneYet, Zenon
  <2>2. (cutter.first + 1)..track.samples = {}
    BY <1>2, <1>8, NoneYet, Zenon
  <2> QED
    BY <2>1, <2>2, Zenon DEF OneRun
<1>13. OnTime
  <2>1. Settled = 0
    BY <1>4, <1>8, Zenon DEF Settled
  <2> QED
    <3>1. ~decoder.nextInput.known /\ ~decoder.origin.known /\ ~track.offset.known
      BY <1>8, UnknownIsNot, Zenon
    <3>2. (track.samples + 1)..Len(source) = {} /\ (cutter.first + 1)..Settled = {}
      BY <1>2, <1>8, <1>9, <2>1, NoneYet, Zenon
    <3> QED
      BY <1>4, <3>1, <3>2, Zenon DEF OnTime
<1> QED
  BY <1>1, <1>2, <1>10, <1>11, <1>12, <1>13, SMTT(60) DEF IInv, LastWindow, WindowOnOneTimeline

\* The timestamps of a frame are times.
LEMMA TimesAreOptional == ASSUME TypeOK PROVE Times \subseteq Optional
<1>1. decoder.nextInput \in Optional
  BY FieldTypes, Zenon
<1>2. decoder.nextInput.at \in Int
  BY <1>1 DEF Optional
<1>3. Unknown \in Optional /\ \A t \in Int : Time(t) \in Optional
  BY DEF Unknown, Time, Optional
<1>4. \A d \in Jumps : decoder.nextInput.at + d \in Int
  BY <1>2, TimelineAssumption
<1> QED
  BY <1>3, <1>4 DEF Times

\* Every step keeps the invariant.
LEMMA NextIInv == IInv /\ [Next]_vars => IInv'
<1> SUFFICES ASSUME IInv, [Next]_vars PROVE IInv'
  OBVIOUS
<1>1. ASSUME NEW size \in FrameSizes, NEW time \in Times, Convert(size, time)
      PROVE  IInv'
  <2>1. time \in Optional
    BY TimesAreOptional DEF IInv
  <2> QED
    BY <1>1, <2>1, ConvertKeeps
<1>2. CASE ConvertAfterBreak \/ EndOfInput \/ DecoderReturns \/ EmitAudio
  BY <1>2, ConvertAfterBreakKeeps, EndOfInputKeeps, DecoderReturnsKeeps, EmitAudioKeeps
<1>3. CASE Audio \/ BreakVad \/ BreakWindows \/ SetOffset \/ Sample \/ AudioReturns
  BY <1>3, AudioKeeps, FlushKeeps, BreakWindowsKeeps, SetOffsetKeeps, SampleKeeps,
     AudioReturnsKeeps
<1>4. CASE VadEmits \/ FinishVad \/ FinishWindows \/ NativeFails
  BY <1>4, VadEmitsKeeps, FlushKeeps, FinishWindowsKeeps, NativeKeeps
<1>5. CASE UNCHANGED vars
  <2>1. /\ UNCHANGED <<windowVars, decoder, chunk, track, vad, pc, stamp, promised, source, run>>
    BY <1>5 DEF vars
  <2>2. UNCHANGED <<policy, cutter, received, silenceStart, inSilence, finished, heard>>
    BY <2>1 DEF windowVars
  <2>3. Extended
    BY <2>1, FieldTypes DEF Extended, IInv
  <2>4. TypeOK' /\ Flow'
    BY <2>1, <2>2, Zenon DEF IInv, TypeOK, Flow, Quiet
  <2>5. OneRun' /\ OnTime'
    BY <2>1, <2>2, ZenonT(60) DEF IInv, OneRun, OnTime, Going, Open, Settled, DecoderOffset
  <2> QED
    BY <2>1, <2>3, <2>4, <2>5, SameWindows DEF IInv
<1> QED
  BY <1>1, <1>2, <1>3, <1>4, <1>5 DEF Next

-----------------------------------------------------------------------------
(* What follows                                                                *)

\* The inductive invariant of the way from the decoder to the windows.
THEOREM TimelineInvariant == Spec => []IInv
BY InitIInv, NextIInv, PTL DEF Spec

\* No window mixes the two sides of a break, and its hypothesis carries the
\* source's time of its first sample, up to the drift of the accepted timestamps.
THEOREM TimelineWindowOnOneTimeline == Spec => []WindowOnOneTimeline
<1>1. IInv => WindowOnOneTimeline
  BY DEF IInv
<1> QED
  BY <1>1, TimelineInvariant, PTL

\* No chunk is refused, and a call that ends well has cut every decoded sample.
THEOREM TimelineEverySampleHeard == Spec => []EverySampleHeard
<1>1. IInv => EverySampleHeard
  <2> SUFFICES ASSUME IInv PROVE EverySampleHeard
    OBVIOUS
  <2>1. TypeOK /\ WP!IInv /\ Flow
    BY DEF IInv
  <2>2. /\ received \in Nat /\ vad.used \in Nat /\ vad.emitting \in Nat
        /\ track.samples \in Nat /\ decoder.samples \in Nat /\ Len(source) \in Nat
    BY <2>1, FieldTypes, CutterTypes
  <2>3. ASSUME pc = "done" PROVE cutter.committed = Len(source) /\ Len(source) >= promised
    <3>1. /\ vad.used = 0 /\ vad.emitting = 0 /\ cutter.committed = received
          /\ decoder.samples = track.samples /\ decoder.left = 0 /\ decoder.phase = "end"
          /\ Len(source) >= promised /\ decoder.samples + decoder.left = Len(source)
          /\ received + vad.used + vad.emitting = track.samples
      BY <2>1, <2>3 DEF Flow, Quiet
    <3> QED
      BY <2>2, <3>1
  <2> QED
    BY <2>1, <2>3 DEF EverySampleHeard, Flow
<1> QED
  BY <1>1, TimelineInvariant, PTL
=============================================================================
