--------------------------- MODULE WindowingProofs ---------------------------
(* Proofs about the window cutter, for every set of policies.                  *)
(*                                                                             *)
(* BufferIsTheTail is not inductive alone: what the next window will say also  *)
(* depends on the last one (Ready), and a pause cut on what silence_start_     *)
(* stands for (Quiet).  That a forced cut has no pause to use instead needs    *)
(* more: no pause of the open buffer was ever passed over (Pauses).            *)
EXTENDS Windowing, TLAPS

Cutters == [first : Nat, size : Nat, committed : Nat, number : Nat, last : Window]

\* c holds exactly the samples up to seen, one overlap back at most.
IsTail(c, seen) ==
    /\ c.first + c.size = seen
    /\ c.first <= c.committed
    /\ c.committed <= c.first + policy.overlap
    /\ c.committed <= seen

\* What the worker will check the next window of c against.
Ready(c) ==
    /\ c.number = 0 => c.first = c.committed
    /\ c.last.boundary = "Discontinuity" => c.first = c.committed
    /\ c.last.boundary # "End"

\* silence_start_ is the beginning of the silence in progress.
Quiet ==
    /\ Len(heard) = received
    /\ inSilence =>
         /\ silenceStart <= received
         /\ \A i \in (silenceStart + 1)..received : heard[i] = "silence"

IInv ==
    /\ TypeOK
    /\ ValidPolicy(policy)
    /\ BufferIsTheTail
    /\ ~finished => Ready(cutter)
    /\ Quiet

\* The step from c to e is one the worker accepts, or sends it nothing; what is
\* sent begins with the buffer of c.
Sends(c, e) ==
    \/ /\ e.number = c.number
       /\ e.committed = c.committed
       /\ e.last = c.last
       /\ e.first >= c.first
    \/ /\ e.first >= c.first
       /\ e.last.first = c.first
       /\ c.last.boundary # "End"
       /\ e.number = c.number + 1
       /\ e.last.number = c.number + 1
       /\ e.last.count > 0
       /\ e.last.count <= MaxWindowSamples
       /\ e.last.firstNew >= e.last.first
       /\ e.last.firstNew < e.last.first + e.last.count
       /\ e.last.firstNew = c.committed
       /\ c.number = 0 => e.last.firstNew = e.last.first
       /\ c.last.boundary = "Discontinuity" => e.last.first = c.committed
       /\ e.committed = e.last.first + e.last.count

-----------------------------------------------------------------------------
\* What emit() does to a cutter whose buffer is the tail of the audio: it stays
\* one, and what it hands out is a window the worker accepts.
LEMMA EmitLemma ==
    ASSUME policy \in Policies, ValidPolicy(policy),
           NEW c \in Cutters, NEW seen \in Nat, NEW count \in Nat,
           NEW boundary \in Boundaries, NEW overlap \in Nat,
           IsTail(c, seen), count <= c.size, count <= MaxWindowSamples,
           overlap <= policy.overlap, overlap <= count, Ready(c)
    PROVE  LET e == Emit(c, count, boundary, overlap)
           IN  /\ e \in Cutters
               /\ IsTail(e, seen)
               /\ Sends(c, e)
               /\ NothingNew(c, count) => e = c
               /\ ~NothingNew(c, count) =>
                     /\ e.number = c.number + 1
                     /\ e.first = c.first + (count - overlap)
                     /\ e.committed = c.first + count
                     /\ e.last.boundary = boundary
               /\ overlap = 0 /\ count = c.size => e.committed = seen
               /\ \/ e = c
                  \/ /\ e.last.boundary = boundary
                     /\ e.number > 0
                     /\ overlap = 0 => e.first = e.committed
<1>1. CASE NothingNew(c, count)
  <2>1. Emit(c, count, boundary, overlap) = c
    BY <1>1 DEF Emit
  <2>2. count = c.size => c.committed = seen
    BY <1>1 DEF NothingNew, IsTail, Cutters
  <2>. QED
    BY <1>1, <2>1, <2>2 DEF Sends, Cutters
<1>2. CASE ~NothingNew(c, count)
  <2>1. count - overlap \in Nat /\ c.size - (count - overlap) \in Nat
    BY DEF Cutters
  <2>2. count > 0 /\ c.first + count > c.committed
    BY <1>2 DEF NothingNew, Cutters
  <2>3. Emit(c, count, boundary, overlap) =
          [first     |-> c.first + (count - overlap),
           size      |-> c.size - (count - overlap),
           committed |-> c.first + count,
           number    |-> c.number + 1,
           last      |-> [number |-> c.number + 1, first |-> c.first,
                          firstNew |-> c.committed, count |-> count,
                          boundary |-> boundary]]
    BY <1>2 DEF Emit, Consume
  <2>4. Emit(c, count, boundary, overlap) \in Cutters
    BY <2>1, <2>3 DEF Cutters, Window
  <2>5. policy.overlap \in Nat
    BY PolicyAssumption
  <2>6. IsTail(Emit(c, count, boundary, overlap), seen)
    BY <2>1, <2>2, <2>3, <2>5 DEF Cutters, IsTail
  <2>7. Sends(c, Emit(c, count, boundary, overlap))
    BY <2>2, <2>3 DEF Cutters, Window, IsTail, Ready, Sends
  <2>. QED
    BY <1>2, <2>3, <2>4, <2>6, <2>7 DEF Cutters, IsTail
<1>. QED
  BY <1>1, <1>2

\* The types the provers need of an accepted policy.
LEMMA PolicyTypes ==
    ASSUME policy \in Policies, ValidPolicy(policy)
    PROVE  /\ policy.target \in Nat /\ policy.max \in Nat /\ policy.overlap \in Nat
           /\ policy.minPause \in Nat /\ policy.padding \in Nat
           /\ policy.speechAware \in BOOLEAN /\ policy.failWithoutPause \in BOOLEAN
           /\ policy.target > 0 /\ policy.max >= policy.target
           /\ policy.max <= MaxWindowSamples /\ policy.overlap < policy.target
           /\ MaxWindowSamples \in Nat
  BY PolicyAssumption DEF ValidPolicy

\* Pushing one sample keeps the buffer the tail of the audio.
LEMMA PushLemma ==
    ASSUME policy \in Policies, ValidPolicy(policy),
           NEW c \in Cutters, NEW seen \in Nat, IsTail(c, seen), Ready(c)
    PROVE  /\ Push(c) \in Cutters
           /\ IsTail(Push(c), seen + 1)
           /\ Ready(Push(c))
           /\ Push(c).size = c.size + 1
           /\ Push(c).first = c.first
           /\ Push(c).committed = c.committed
           /\ Push(c).number = c.number
           /\ Push(c).last = c.last
  BY PolicyTypes DEF Push, Cutters, IsTail, Ready

\* A pause cut sends at most one acceptable window and shortens the buffer.
LEMMA PauseLemma ==
    ASSUME policy \in Policies, ValidPolicy(policy),
           NEW c \in Cutters, NEW seen \in Nat, NEW silence \in Nat,
           NEW quiet \in BOOLEAN,
           IsTail(c, seen), Ready(c), c.size <= policy.max
    PROVE  LET e == CutAtPause(c, silence, quiet, seen)
           IN  /\ e \in Cutters
               /\ IsTail(e, seen)
               /\ Ready(e)
               /\ \/ e = c
                  \/ /\ e.size < c.size
                     /\ Sends(c, e)
                     /\ e.number = c.number + 1
                     /\ e.last.boundary = "Pause"
                     /\ quiet
                     /\ seen - silence >= policy.minPause
                     /\ e.committed >= silence + policy.padding
                     /\ e.committed + policy.padding <= seen
<1>. DEFINE cut == PauseCut(c, silence)
            count == cut - c.first
            e == CutAtPause(c, silence, quiet, seen)
<1>1. cut \in Nat /\ cut >= c.first + policy.target /\ cut >= silence + policy.padding
  BY PolicyTypes DEF PauseCut, Cutters
<1>2. CASE quiet /\ LongEnough(silence, seen) /\ cut > c.first /\ cut + policy.padding <= seen
  <2>1. e = Emit(c, count, "Pause", 0)
    BY <1>2 DEF CutAtPause
  <2>2. count \in Nat /\ count > 0 /\ count <= c.size /\ count <= MaxWindowSamples
         /\ count > policy.overlap
    BY <1>1, <1>2, PolicyTypes DEF Cutters, IsTail
  <2>3. ~NothingNew(c, count)
    BY <2>2, PolicyTypes DEF NothingNew, Cutters, IsTail
  <2>4. "Pause" \in Boundaries
    BY DEF Boundaries
  <2>. HIDE DEF cut, count, e
  <2>5. /\ e \in Cutters /\ IsTail(e, seen) /\ Sends(c, e)
        /\ e.number = c.number + 1 /\ e.first = c.first + count
        /\ e.committed = c.first + count /\ e.last.boundary = "Pause"
    <3>1. /\ 0 \in Nat /\ 0 <= policy.overlap /\ 0 <= count
          /\ count - 0 = count
      BY <2>2, PolicyTypes
    <3>2. /\ Emit(c, count, "Pause", 0) \in Cutters
          /\ IsTail(Emit(c, count, "Pause", 0), seen)
          /\ Sends(c, Emit(c, count, "Pause", 0))
          /\ Emit(c, count, "Pause", 0).number = c.number + 1
          /\ Emit(c, count, "Pause", 0).first = c.first + (count - 0)
          /\ Emit(c, count, "Pause", 0).committed = c.first + count
          /\ Emit(c, count, "Pause", 0).last.boundary = "Pause"
      BY <2>2, <2>3, <2>4, <3>1, EmitLemma, SMTT(60)
    <3>. QED
      BY <2>1, <3>1, <3>2, Zenon
  <2>6. Ready(e)
    BY <2>5 DEF Ready, Cutters
  <2>7. e.size < c.size
    BY <2>2, <2>5 DEF IsTail, Cutters
  <2>8. e.committed = cut
    BY <1>1, <2>5 DEF Cutters, count
  <2>. QED
    BY <1>1, <1>2, <2>5, <2>6, <2>7, <2>8, Zenon DEF LongEnough, e
<1>3. CASE ~(quiet /\ LongEnough(silence, seen) /\ cut > c.first /\ cut + policy.padding <= seen)
  <2>1. e = c
    BY <1>3 DEF CutAtPause
  <2>. QED
    BY <2>1
<1>. QED
  BY <1>2, <1>3

\* Cutting a whole buffer that is longer than the overlap keeps the overlap.
LEMMA WholeLemma ==
    ASSUME policy \in Policies, ValidPolicy(policy),
           NEW c \in Cutters, NEW seen \in Nat,
           NEW boundary \in {"Fixed", "Forced"},
           IsTail(c, seen), Ready(c), c.size <= policy.max, c.size >= policy.target
    PROVE  LET e == Emit(c, c.size, boundary, policy.overlap)
           IN  /\ e \in Cutters
               /\ IsTail(e, seen)
               /\ Ready(e)
               /\ Sends(c, e)
               /\ e.size = policy.overlap
               /\ e.number = c.number + 1
               /\ e.last.boundary = boundary
<1>. DEFINE e == Emit(c, c.size, boundary, policy.overlap)
<1>1. ~NothingNew(c, c.size)
  BY PolicyTypes DEF NothingNew, Cutters, IsTail
<1>2. boundary \in Boundaries /\ c.size \in Nat /\ c.size <= MaxWindowSamples
      /\ policy.overlap <= c.size /\ policy.overlap \in Nat
  BY PolicyTypes DEF Boundaries, Cutters
<1>. HIDE DEF e
<1>3. /\ e \in Cutters /\ IsTail(e, seen) /\ Sends(c, e)
      /\ e.number = c.number + 1 /\ e.first = c.first + (c.size - policy.overlap)
      /\ e.last.boundary = boundary
  BY <1>1, <1>2, EmitLemma DEF e
<1>4. e.size = policy.overlap
  BY <1>2, <1>3 DEF IsTail, Cutters
<1>5. Ready(e)
  BY <1>3 DEF Ready, Cutters
<1>. QED
  BY <1>3, <1>4, <1>5 DEF e

\* One appended sample: the buffer stays below its limit unless the cutter gives
\* up, at most one window is sent, and a pause cut is one PauseLemma allows.
LEMMA AppendLemma ==
    ASSUME IInv, NEW speech \in BOOLEAN, Append1(speech)
    PROVE  /\ cutter' \in Cutters
           /\ IsTail(cutter', received')
           /\ Ready(cutter')
           /\ Sends(cutter, cutter')
           /\ ~finished' =>
                 cutter'.size < IF policy.speechAware THEN policy.max ELSE policy.target
           /\ NewWindow("Pause") =>
                 /\ ~speech
                 /\ received' - silenceStart' >= policy.minPause
                 /\ cutter'.committed >= silenceStart' + policy.padding
                 /\ cutter'.committed + policy.padding <= received'
<1>. DEFINE p == Push(cutter)
            c == CutAtPause(p, silenceStart', inSilence', received')
<1>1. /\ policy \in Policies /\ ValidPolicy(policy) /\ cutter \in Cutters
      /\ received \in Nat /\ IsTail(cutter, received) /\ Ready(cutter) /\ ~finished
      /\ cutter.size < IF policy.speechAware THEN policy.max ELSE policy.target
      /\ received' = received + 1 /\ inSilence' = ~speech
      /\ silenceStart' \in Nat /\ inSilence' \in BOOLEAN /\ received' \in Nat
  BY DEF IInv, TypeOK, BufferIsTheTail, Append1, Cutters, IsTail
<1>2. /\ p \in Cutters /\ IsTail(p, received') /\ Ready(p)
      /\ p.size = cutter.size + 1 /\ p.first = cutter.first
      /\ p.committed = cutter.committed /\ p.number = cutter.number
      /\ p.last = cutter.last
  BY <1>1, PushLemma
<1>. HIDE DEF p
<1>3. p.size <= policy.max
  BY <1>1, <1>2, PolicyTypes DEF Cutters
<1>4. CASE policy.speechAware
  <2>1. /\ c \in Cutters /\ IsTail(c, received') /\ Ready(c)
        /\ \/ c = p
           \/ /\ c.size < p.size
              /\ Sends(p, c)
              /\ c.number = p.number + 1
              /\ c.last.boundary = "Pause"
              /\ inSilence'
              /\ received' - silenceStart' >= policy.minPause
              /\ c.committed >= silenceStart' + policy.padding
              /\ c.committed + policy.padding <= received'
    BY <1>1, <1>2, <1>3, PauseLemma, Zenon
  <2>2. /\ cutter' = CutAtLimit(c)
        /\ finished' = (AtLimit(c) /\ policy.failWithoutPause)
    BY <1>4 DEF Append1, p
  <2>. HIDE DEF c
  <2>3. CASE AtLimit(c) /\ ~policy.failWithoutPause
    <3>1. c = p /\ c.size >= policy.target /\ c.size <= policy.max
      BY <1>1, <1>2, <1>3, <2>1, <2>3, PolicyTypes DEF AtLimit, Cutters
    <3>2. cutter' = Emit(c, c.size, "Forced", policy.overlap)
      BY <2>2, <2>3 DEF CutAtLimit
    <3>3. /\ cutter' \in Cutters /\ IsTail(cutter', received') /\ Ready(cutter')
          /\ Sends(c, cutter') /\ cutter'.size = policy.overlap
          /\ cutter'.last.boundary = "Forced"
      BY <1>1, <2>1, <3>1, <3>2, WholeLemma
    <3>4. Sends(cutter, cutter')
      BY <1>2, <3>1, <3>3 DEF Sends
    <3>5. ~NewWindow("Pause")
      BY <3>3 DEF NewWindow
    <3>6. cutter'.size < policy.max
      BY <1>1, <3>3, PolicyTypes
    <3>. QED
      BY <1>4, <3>3, <3>4, <3>5, <3>6
  <2>4. CASE ~(AtLimit(c) /\ ~policy.failWithoutPause)
    <3>1. cutter' = c
      BY <2>2, <2>4 DEF CutAtLimit
    <3>2. Sends(cutter, cutter')
      BY <1>1, <1>2, <2>1, <3>1 DEF Sends, Cutters
    <3>3. ~finished' => cutter'.size < policy.max
      BY <1>1, <2>1, <2>2, <2>4, <3>1, PolicyTypes DEF AtLimit, Cutters
    <3>4. c = p => ~NewWindow("Pause")
      BY <1>2, <3>1 DEF NewWindow
    <3>. QED
      BY <1>1, <1>4, <2>1, <3>1, <3>2, <3>3, <3>4, Zenon
  <2>. QED
    BY <2>3, <2>4
<1>5. CASE ~policy.speechAware
  <2>1. cutter' = CutAtTarget(p) /\ finished' = FALSE
    BY <1>1, <1>5 DEF Append1, p
  <2>2. CASE p.size = policy.target
    <3>1. cutter' = Emit(p, p.size, "Fixed", policy.overlap)
      BY <2>1, <2>2 DEF CutAtTarget
    <3>2. p.size >= policy.target
      BY <2>2, <1>1, PolicyTypes
    <3>3. /\ cutter' \in Cutters /\ IsTail(cutter', received') /\ Ready(cutter')
          /\ Sends(p, cutter') /\ cutter'.size = policy.overlap
          /\ cutter'.last.boundary = "Fixed"
      BY <1>1, <1>2, <1>3, <3>1, <3>2, WholeLemma
    <3>4. Sends(cutter, cutter')
      BY <1>2, <3>3 DEF Sends
    <3>5. ~NewWindow("Pause")
      BY <3>3 DEF NewWindow
    <3>6. cutter'.size < policy.target
      BY <1>1, <3>3, PolicyTypes
    <3>. QED
      BY <1>5, <3>3, <3>4, <3>5, <3>6
  <2>3. CASE p.size # policy.target
    <3>1. cutter' = p
      BY <2>1, <2>3 DEF CutAtTarget
    <3>2. Sends(cutter, cutter') /\ ~NewWindow("Pause")
      BY <1>1, <1>2, <3>1 DEF Sends, NewWindow, Cutters
    <3>3. cutter'.size < policy.target
      BY <1>1, <1>2, <1>5, <2>3, <3>1, PolicyTypes DEF Cutters
    <3>. QED
      BY <1>2, <1>5, <3>1, <3>2, <3>3
  <2>. QED
    BY <2>2, <2>3
<1>. QED
  BY <1>1, <1>4, <1>5, PolicyTypes

\* finish() and discontinuity() send the rest of the buffer, if any of it is new.
LEMMA RestLemma ==
    ASSUME IInv, ~finished, NEW boundary \in {"End", "Discontinuity"}
    PROVE  LET e == Emit(cutter, cutter.size, boundary, 0)
           IN  /\ e \in Cutters
               /\ Sends(cutter, e)
               /\ e.committed = received
               /\ e.last.boundary # "End" \/ boundary = "End"
<1>1. /\ policy \in Policies /\ ValidPolicy(policy) /\ cutter \in Cutters
      /\ received \in Nat /\ IsTail(cutter, received) /\ Ready(cutter)
      /\ cutter.size <= policy.max /\ policy.overlap \in Nat
  <2>1. policy \in Policies /\ ValidPolicy(policy)
    BY DEF IInv, TypeOK
  <2>. QED
    BY <2>1, PolicyTypes, SMTT(30) DEF IInv, TypeOK, BufferIsTheTail, Cutters, IsTail
<1>2. boundary \in Boundaries /\ cutter.size \in Nat /\ cutter.size <= MaxWindowSamples
      /\ 0 <= cutter.size /\ 0 <= policy.overlap
  BY <1>1, PolicyTypes DEF Boundaries, Cutters
<1>. DEFINE e == Emit(cutter, cutter.size, boundary, 0)
<1>3. /\ e \in Cutters /\ Sends(cutter, e) /\ e.committed = received
      /\ \/ e = cutter
         \/ e.last.boundary = boundary /\ e.number > 0
  BY <1>1, <1>2, EmitLemma
<1>. HIDE DEF e
<1>. QED
  BY <1>1, <1>3 DEF Ready, e

\* The constructor leaves an empty buffer.
LEMMA InitIInv == Init => IInv
<1>. SUFFICES ASSUME Init PROVE IInv
  OBVIOUS
<1>1. TypeOK /\ ValidPolicy(policy)
  <2>1. policy \in Policies /\ ValidPolicy(policy)
    BY Zenon DEF Init
  <2>2. NoWindow \in Window
    BY DEF NoWindow, Window, Boundaries
  <2>3. cutter \in [first : Nat, size : Nat, committed : Nat, number : Nat,
                    last : Window]
    BY <2>2 DEF Init
  <2>4. heard \in Seq({"speech", "silence", "broken"})
    BY DEF Init
  <2>5. received \in Nat /\ silenceStart \in Nat
    BY DEF Init
  <2>6. inSilence \in BOOLEAN /\ finished \in BOOLEAN
    BY Zenon DEF Init
  <2>. QED
    BY <2>1, <2>3, <2>4, <2>5, <2>6, Zenon DEF TypeOK
<1>2. BufferIsTheTail
  BY <1>1, PolicyTypes DEF Init, TypeOK, BufferIsTheTail
<1>3. Ready(cutter) /\ Quiet
  BY DEF Init, Ready, Quiet, NoWindow
<1>. QED
  BY <1>1, <1>2, <1>3 DEF IInv

\* One appended sample keeps what silence_start_ stands for.
LEMMA AppendQuiet ==
    ASSUME IInv, NEW speech \in BOOLEAN, Append1(speech)
    PROVE  Quiet' /\ heard' \in Seq({"speech", "silence", "broken"})
<1>. DEFINE x == IF speech THEN "speech" ELSE "silence"
<1>1. /\ heard \in Seq({"speech", "silence", "broken"}) /\ received \in Nat
      /\ Len(heard) = received /\ silenceStart \in Nat
      /\ heard' = Append(heard, x) /\ received' = received + 1
      /\ inSilence' = ~speech
      /\ silenceStart' = IF ~speech /\ ~inSilence THEN received ELSE silenceStart
      /\ x \in {"speech", "silence", "broken"}
      /\ ~speech => x = "silence"
  BY DEF IInv, TypeOK, Quiet, Append1
<1>. HIDE DEF x
<1>2. /\ heard' \in Seq({"speech", "silence", "broken"}) /\ Len(heard') = received'
      /\ heard'[received'] = x
      /\ \A i \in 1..received : heard'[i] = heard[i]
  BY <1>1
<1>3. ASSUME inSilence' PROVE silenceStart' <= received'
  <2>1. ~speech
    BY <1>1, <1>3, Zenon
  <2>2. CASE inSilence
    BY <1>1, <2>1, <2>2 DEF IInv, Quiet
  <2>3. CASE ~inSilence
    BY <1>1, <2>1, <2>3
  <2>. QED
    BY <2>2, <2>3
<1>4. ASSUME inSilence', NEW i \in (silenceStart' + 1)..received'
      PROVE  heard'[i] = "silence"
  <2>. ~speech
    BY <1>1, <1>4, Zenon
  <2>1. CASE i = received'
    BY <1>1, <1>2, <2>1
  <2>2. CASE i # received' /\ inSilence
    BY <1>1, <1>2, <2>2 DEF IInv, Quiet
  <2>3. CASE i # received' /\ ~inSilence
    BY <1>1, <2>3
  <2>. QED
    BY <2>1, <2>2, <2>3
<1>. QED
  BY <1>2, <1>3, <1>4 DEF Quiet

\* Every step keeps the invariant.
LEMMA NextIInv == IInv /\ [Next]_vars => IInv'
<1>. SUFFICES ASSUME IInv, [Next]_vars PROVE IInv'
  OBVIOUS
<1>1. ASSUME NEW speech \in BOOLEAN, Append1(speech) PROVE IInv'
  <2>1. /\ cutter' \in Cutters /\ IsTail(cutter', received') /\ Ready(cutter')
        /\ ~finished' =>
              cutter'.size < IF policy.speechAware THEN policy.max ELSE policy.target
    BY <1>1, AppendLemma
  <2>2. Quiet' /\ heard' \in Seq({"speech", "silence", "broken"})
    BY <1>1, AppendQuiet
  <2>a. finished' \in BOOLEAN
    <3>1. finished' = FALSE
          \/ \E c : finished' = (AtLimit(c) /\ policy.failWithoutPause)
      BY <1>1, Zenon DEF Append1, IInv, TypeOK
    <3>. QED
      BY <3>1, Zenon
  <2>3. policy' = policy /\ received' \in Nat /\ silenceStart' \in Nat
        /\ inSilence' \in BOOLEAN /\ finished' \in BOOLEAN
    BY <1>1, <2>a DEF IInv, TypeOK, Append1
  <2>4. TypeOK' /\ ValidPolicy(policy)'
    BY <2>1, <2>2, <2>3 DEF IInv, TypeOK, Cutters, ValidPolicy
  <2>5. BufferIsTheTail'
    BY <2>1, <2>3 DEF IsTail, BufferIsTheTail
  <2>6. Ready(cutter)'
    BY <2>1 DEF Ready
  <2>. QED
    BY <2>2, <2>4, <2>5, <2>6 DEF IInv
<1>2. ASSUME Finish PROVE IInv'
  <2>. DEFINE e == Emit(cutter, cutter.size, "End", 0)
  <2>1. e \in Cutters
    BY <1>2, RestLemma DEF Finish
  <2>2. cutter' = [e EXCEPT !.size = 0] /\ finished'
        /\ UNCHANGED <<policy, received, silenceStart, inSilence, heard>>
    BY <1>2 DEF Finish
  <2>. HIDE DEF e
  <2>3. cutter' \in Cutters
    BY <2>1, <2>2 DEF Cutters
  <2>4. TypeOK' /\ ValidPolicy(policy)' /\ Quiet'
    BY <2>2, <2>3 DEF IInv, TypeOK, Cutters, ValidPolicy, Quiet
  <2>. QED
    BY <2>2, <2>4 DEF IInv, BufferIsTheTail
<1>3. ASSUME Discontinuity PROVE IInv'
  <2>. DEFINE e == Emit(cutter, cutter.size, "Discontinuity", 0)
  <2>1. e \in Cutters /\ e.committed = received /\ e.last.boundary # "End"
    BY <1>3, RestLemma DEF Discontinuity
  <2>2. /\ cutter' = [e EXCEPT !.size = 0, !.first = received]
        /\ inSilence' = FALSE
        /\ heard' = [i \in 1..Len(heard) |-> "broken"]
        /\ UNCHANGED <<policy, received, silenceStart, finished>>
        /\ received \in Nat /\ Len(heard) = received
    BY <1>3 DEF Discontinuity, Restart, IInv, TypeOK, Quiet
  <2>. HIDE DEF e
  <2>3. /\ cutter' \in Cutters /\ cutter'.first = received /\ cutter'.size = 0
        /\ cutter'.committed = received /\ cutter'.last.boundary # "End"
    BY <2>1, <2>2, Zenon DEF Cutters
  <2>4. heard' \in Seq({"speech", "silence", "broken"}) /\ Len(heard') = received
    BY <2>2
  <2>5. TypeOK' /\ ValidPolicy(policy)' /\ Quiet'
    BY <2>2, <2>3, <2>4, Zenon DEF IInv, TypeOK, Cutters, ValidPolicy, Quiet
  <2>6. BufferIsTheTail'
    <3>1. policy \in Policies /\ ValidPolicy(policy)
      BY DEF IInv, TypeOK
    <3>2. /\ policy.overlap \in Nat /\ policy.target > 0 /\ policy.max > 0
      BY <3>1, PolicyTypes
    <3>3. policy' = policy /\ received' = received /\ received \in Nat
      BY <2>2
    <3>4. /\ cutter'.first + cutter'.size = received'
          /\ cutter'.first <= cutter'.committed
          /\ cutter'.committed <= cutter'.first + policy'.overlap
          /\ cutter'.committed <= received'
      BY <2>3, <3>2, <3>3
    <3>5. cutter'.size < IF policy'.speechAware THEN policy'.max ELSE policy'.target
      BY <2>3, <3>2, <3>3
    <3>. QED
      BY <3>4, <3>5 DEF BufferIsTheTail
  <2>7. Ready(cutter)'
    BY <2>3 DEF Ready
  <2>. QED
    BY <2>5, <2>6, <2>7 DEF IInv
<1>4. ASSUME UNCHANGED vars PROVE IInv'
  BY <1>4 DEF vars, IInv, TypeOK, ValidPolicy, BufferIsTheTail, Ready, Quiet
<1>. QED
  BY <1>1, <1>2, <1>3, <1>4 DEF Next

-----------------------------------------------------------------------------
\* A cut of a silence of h as the policy asks for it, unless that silence is the
\* pause the window before was cut at.
Cuttable(c, h, s, e, cut) ==
    /\ ~(c.last.boundary = "Pause" /\ s <= c.first)
    /\ e - s >= policy.minPause
    /\ \A i \in (s + 1)..e : h[i] = "silence"
    /\ c.first + policy.target <= cut
    /\ s + policy.padding <= cut
    /\ cut + policy.padding <= e

\* silence_start_ is where the silence in progress began, and the open buffer
\* holds no pause that could have been cut at.
Pauses ==
    /\ inSilence => silenceStart = 0 \/ heard[silenceStart] # "silence"
    /\ ~inSilence => received = 0 \/ heard[received] # "silence"
    /\ ~finished /\ policy.speechAware =>
         \A s, cut \in Nat : \A e \in 0..received :
             ~Cuttable(cutter, heard, s, e, cut)

\* append() cuts at the pause in progress whenever it may.
LEMMA PauseStep ==
    ASSUME IInv, NEW speech \in BOOLEAN, Append1(speech), policy.speechAware,
           inSilence', received' - silenceStart' >= policy.minPause,
           PauseCut(cutter, silenceStart') + policy.padding <= received'
    PROVE  /\ cutter'.first = PauseCut(cutter, silenceStart')
           /\ cutter'.last.boundary = "Pause"
           /\ cutter'.number # cutter.number
<1>. DEFINE p == Push(cutter)
            cut == PauseCut(cutter, silenceStart')
            c == CutAtPause(p, silenceStart', inSilence', received')
<1>1. /\ policy \in Policies /\ ValidPolicy(policy) /\ cutter \in Cutters
      /\ received \in Nat /\ IsTail(cutter, received) /\ Ready(cutter) /\ ~finished
      /\ cutter.size < policy.max
      /\ received' = received + 1 /\ inSilence' = ~speech
      /\ silenceStart' \in Nat /\ inSilence' \in BOOLEAN /\ received' \in Nat
  BY DEF IInv, TypeOK, BufferIsTheTail, Append1, Cutters, IsTail
<1>2. /\ p \in Cutters /\ IsTail(p, received') /\ Ready(p)
      /\ p.size = cutter.size + 1 /\ p.first = cutter.first
      /\ p.committed = cutter.committed /\ p.number = cutter.number
  BY <1>1, PushLemma
<1>3. cutter' = CutAtLimit(c)
  BY Zenon DEF Append1
<1>4. PauseCut(p, silenceStart') = cut
  BY <1>2 DEF PauseCut
<1>. HIDE DEF p
<1>5. cut \in Nat /\ cut >= cutter.first + policy.target
  BY <1>1, PolicyTypes DEF PauseCut, Cutters
<1>6. cut > p.first
  BY <1>1, <1>2, <1>5, PolicyTypes DEF Cutters
<1>7. c = Emit(p, cut - p.first, "Pause", 0)
  <2>1. cut + policy.padding <= received'
    OBVIOUS
  <2>. HIDE DEF cut
  <2>. QED
    BY <1>4, <1>6, <2>1, Zenon DEF CutAtPause, LongEnough
<1>. HIDE DEF cut
<1>8. cut - p.first \in Nat /\ cut - p.first > 0 /\ p.first + (cut - p.first) = cut
  BY <1>2, <1>5, <1>6 DEF Cutters
<1>9. cut > p.committed
  BY <1>1, <1>2, <1>5, PolicyTypes DEF Cutters, IsTail
<1>10. ~NothingNew(p, cut - p.first)
  BY <1>2, <1>5, <1>8, <1>9 DEF NothingNew, Cutters
<1>11. c = [first     |-> p.first + (cut - p.first - 0),
           size      |-> p.size - (cut - p.first - 0),
           committed |-> p.first + (cut - p.first),
           number    |-> p.number + 1,
           last      |-> [number |-> p.number + 1, first |-> p.first,
                          firstNew |-> p.committed, count |-> cut - p.first,
                          boundary |-> "Pause"]]
  BY <1>7, <1>10, Zenon DEF Emit, Consume
<1>. HIDE DEF c
<1>12. c.first = cut /\ c.last.boundary = "Pause" /\ c.size < p.size /\ c.number # cutter.number
  BY <1>2, <1>8, <1>11 DEF Cutters
<1>13. c.size \in Int
  BY <1>2, <1>8, <1>11 DEF Cutters
<1>14. ~AtLimit(c)
  BY <1>1, <1>2, <1>12, <1>13, PolicyTypes DEF AtLimit, Cutters
<1>. QED
  BY <1>3, <1>12, <1>14 DEF CutAtLimit, cut

\* A sample that does not complete a pause either sends nothing or leaves no more
\* than the overlap.
LEMMA OtherStep ==
    ASSUME IInv, NEW speech \in BOOLEAN, Append1(speech), policy.speechAware,
           cutter'.last.boundary # "Pause"
    PROVE  cutter'.last = cutter.last \/ cutter'.size = policy.overlap
<1>. DEFINE p == Push(cutter)
            c == CutAtPause(p, silenceStart', inSilence', received')
<1>1. /\ policy \in Policies /\ ValidPolicy(policy) /\ cutter \in Cutters
      /\ received \in Nat /\ IsTail(cutter, received) /\ Ready(cutter)
      /\ cutter.size < policy.max
      /\ received' = received + 1
      /\ silenceStart' \in Nat /\ inSilence' \in BOOLEAN /\ received' \in Nat
  BY DEF IInv, TypeOK, BufferIsTheTail, Append1, Cutters, IsTail
<1>2. /\ p \in Cutters /\ IsTail(p, received') /\ Ready(p)
      /\ p.size = cutter.size + 1 /\ p.last = cutter.last
  BY <1>1, PushLemma
<1>3. cutter' = CutAtLimit(c)
  BY Zenon DEF Append1
<1>. HIDE DEF p
<1>4. p.size <= policy.max
  BY <1>1, <1>2, PolicyTypes DEF Cutters
<1>. HIDE DEF c
<1>5. c \in Cutters /\ (c = p \/ c.last.boundary = "Pause")
  BY <1>1, <1>2, <1>4, PauseLemma DEF c
<1>6. CASE cutter' = c
  BY <1>2, <1>5, <1>6
<1>7. CASE cutter' # c
  <2>1. cutter' = Emit(c, c.size, "Forced", policy.overlap)
    BY <1>3, <1>7, Zenon DEF CutAtLimit
  <2>2. cutter'.size = c.size - (c.size - policy.overlap)
    BY <1>7, <2>1 DEF Emit, Consume
  <2>. QED
    BY <1>1, <1>5, <2>2, PolicyTypes DEF Cutters
<1>. QED
  BY <1>6, <1>7

\* A pause in progress that leaves room for a cut is what silence_start_ says of it.
LEMMA PauseIsSeen ==
    ASSUME IInv, Pauses, NEW speech \in BOOLEAN, Append1(speech), policy.speechAware,
           NEW s \in Nat, NEW cut \in Nat,
           received' - s >= policy.minPause,
           \A i \in (s + 1)..received' : heard'[i] = "silence",
           cutter.first + policy.target <= cut,
           s + policy.padding <= cut,
           cut + policy.padding <= received'
    PROVE  /\ inSilence'
           /\ silenceStart' <= s
           /\ received' - silenceStart' >= policy.minPause
           /\ PauseCut(cutter, silenceStart') + policy.padding <= received'
<1>. DEFINE x == IF speech THEN "speech" ELSE "silence"
<1>1. /\ policy \in Policies /\ ValidPolicy(policy) /\ cutter \in Cutters
      /\ received \in Nat /\ ~finished /\ silenceStart \in Nat /\ inSilence \in BOOLEAN
      /\ heard \in Seq({"speech", "silence", "broken"}) /\ Len(heard) = received
      /\ heard' = Append(heard, x) /\ received' = received + 1
      /\ inSilence' = ~speech
      /\ silenceStart' = IF ~speech /\ ~inSilence THEN received ELSE silenceStart
      /\ speech => x = "speech"
      /\ x \in {"speech", "silence", "broken"}
  BY DEF IInv, TypeOK, Quiet, Append1, Cutters
<1>2. /\ policy.target \in Nat /\ policy.minPause \in Nat /\ policy.padding \in Nat
      /\ policy.minPause > 0
  BY <1>1, PolicyTypes DEF ValidPolicy
<1>3. received' > s
  BY <1>1, <1>2
<1>. HIDE DEF x
<1>4. heard'[received'] = x /\ \A i \in 1..received : heard'[i] = heard[i]
  BY <1>1
<1>6. ~speech
  BY <1>1, <1>3, <1>4
<1>7. inSilence'
  BY <1>1, <1>6, Zenon
<1>8. silenceStart' <= s
  <2>. SUFFICES ASSUME silenceStart' > s PROVE FALSE
    BY <1>1
  <2>1. silenceStart' \in Nat /\ silenceStart' <= received
    <3>1. inSilence => silenceStart <= received
      BY DEF IInv, Quiet
    <3>2. inSilence => silenceStart # received + 1
      BY <1>1, <3>1
    <3>. QED
      BY <1>1, <1>6, <3>1
  <2>2. silenceStart' \in 1..received /\ silenceStart' \in (s + 1)..received'
    BY <1>1, <2>1
  <2>3. heard[silenceStart'] = "silence"
    BY <1>4, <2>2
  <2>4. CASE inSilence
    BY <1>1, <2>2, <2>3, <2>4 DEF Pauses
  <2>5. CASE ~inSilence
    BY <1>1, <1>6, <2>2, <2>3, <2>5 DEF Pauses
  <2>. QED
    BY <2>4, <2>5
<1>9. silenceStart' \in Nat /\ cutter.first \in Nat
  <2>1. silenceStart' = received \/ silenceStart' = silenceStart
    BY <1>1, Zenon
  <2>. QED
    BY <1>1, <2>1 DEF Cutters
<1>10. PauseCut(cutter, silenceStart') <= cut
  <2>1. silenceStart' + policy.padding <= cut
    BY <1>2, <1>8, <1>9
  <2>. QED
    BY <1>2, <1>9, <2>1 DEF PauseCut
<1>11. PauseCut(cutter, silenceStart') \in Nat
  BY <1>2, <1>9 DEF PauseCut
<1>12. received' \in Nat
  BY <1>1
<1>13. received' - silenceStart' >= policy.minPause
  BY <1>2, <1>8, <1>9, <1>12
<1>14. PauseCut(cutter, silenceStart') + policy.padding <= received'
  BY <1>2, <1>10, <1>11, <1>12
<1>. QED
  BY <1>7, <1>8, <1>13, <1>14

\* Such a pause is cut at once.
LEMMA PauseIsTaken ==
    ASSUME IInv, Pauses, NEW speech \in BOOLEAN, Append1(speech), policy.speechAware,
           NEW s \in Nat, NEW cut \in Nat, NEW e \in 0..received',
           Cuttable(cutter, heard', s, e, cut)
    PROVE  /\ e = received'
           /\ silenceStart' <= s
           /\ inSilence'
           /\ cutter'.first = PauseCut(cutter, silenceStart')
           /\ cutter'.last.boundary = "Pause"
<1>. DEFINE x == IF speech THEN "speech" ELSE "silence"
<1>1. /\ received \in Nat /\ ~finished
      /\ heard \in Seq({"speech", "silence", "broken"}) /\ Len(heard) = received
      /\ heard' = Append(heard, x) /\ received' = received + 1
      /\ x \in {"speech", "silence", "broken"}
  BY DEF IInv, TypeOK, Quiet, Append1
<1>. HIDE DEF x
<1>2. \A i \in 1..received : heard'[i] = heard[i]
  BY <1>1
<1>3. /\ ~(cutter.last.boundary = "Pause" /\ s <= cutter.first)
      /\ e - s >= policy.minPause
      /\ \A i \in (s + 1)..e : heard'[i] = "silence"
      /\ cutter.first + policy.target <= cut
      /\ s + policy.padding <= cut /\ cut + policy.padding <= e
  BY Zenon DEF Cuttable
<1>4. e = received'
  <2>. SUFFICES ASSUME e # received' PROVE FALSE
    OBVIOUS
  <2>1. e \in 0..received
    BY <1>1
  <2>2. \A i \in (s + 1)..e : heard[i] = "silence"
    BY <1>1, <1>2, <1>3, <2>1
  <2>3. Cuttable(cutter, heard, s, e, cut)
    BY <1>3, <2>2, Zenon DEF Cuttable
  <2>. QED
    BY <1>1, <2>1, <2>3 DEF Pauses
<1>5. /\ inSilence' /\ silenceStart' <= s
      /\ received' - silenceStart' >= policy.minPause
      /\ PauseCut(cutter, silenceStart') + policy.padding <= received'
  BY <1>3, <1>4, PauseIsSeen
<1>. QED
  BY <1>4, <1>5, PauseStep

-----------------------------------------------------------------------------
\* One appended sample leaves no pause that could have been cut at: one that is
\* still there after a cut was there, one sample shorter, before it.
LEMMA AppendPauses ==
    ASSUME IInv, Pauses, NEW speech \in BOOLEAN, Append1(speech)
    PROVE  Pauses'
<1>. DEFINE x == IF speech THEN "speech" ELSE "silence"
<1>1. /\ policy \in Policies /\ ValidPolicy(policy) /\ cutter \in Cutters
      /\ received \in Nat /\ ~finished /\ silenceStart \in Nat /\ inSilence \in BOOLEAN
      /\ heard \in Seq({"speech", "silence", "broken"}) /\ Len(heard) = received
      /\ heard' = Append(heard, x) /\ received' = received + 1
      /\ inSilence' = ~speech /\ policy' = policy
      /\ silenceStart' = IF ~speech /\ ~inSilence THEN received ELSE silenceStart
      /\ speech => x = "speech"
      /\ x \in {"speech", "silence", "broken"}
  BY DEF IInv, TypeOK, Quiet, Append1, Cutters
<1>. HIDE DEF x
<1>2. heard'[received'] = x /\ \A i \in 1..received : heard'[i] = heard[i]
  BY <1>1
<1>3. ASSUME inSilence' PROVE silenceStart' = 0 \/ heard'[silenceStart'] # "silence"
  <2>1. ~speech
    BY <1>1, <1>3, Zenon
  <2>2. CASE inSilence
    BY <1>1, <1>2, <2>2 DEF IInv, Quiet, Pauses
  <2>3. CASE ~inSilence
    BY <1>1, <1>2, <2>1, <2>3 DEF Pauses
  <2>. QED
    BY <2>2, <2>3
<1>4. ~inSilence' => heard'[received'] # "silence"
  <2>1. ~inSilence' => speech
    BY <1>1, Zenon
  <2>. QED
    BY <1>1, <1>2, <2>1
<1>5. ASSUME policy.speechAware, NEW s \in Nat, NEW cut \in Nat, NEW e \in 0..received',
             Cuttable(cutter', heard', s, e, cut), ~finished'
      PROVE  FALSE
  <2>. DEFINE P == PauseCut(cutter, silenceStart')
  <2>1. /\ cutter.first \in Nat /\ cutter'.first \in Nat /\ cutter.first <= cutter'.first
        /\ cutter'.size \in Nat /\ cutter'.first + cutter'.size = received'
    BY <1>1, AppendLemma DEF Sends, Cutters, IsTail
  <2>2. /\ policy.target \in Nat /\ policy.minPause \in Nat /\ policy.padding \in Nat
        /\ policy.target > 0 /\ policy.minPause > 0
        /\ policy.overlap \in Nat /\ policy.overlap < policy.target
    BY <1>1, <1>5, PolicyTypes DEF ValidPolicy
  <2>3. /\ ~(cutter'.last.boundary = "Pause" /\ s <= cutter'.first)
        /\ e - s >= policy.minPause
        /\ \A i \in (s + 1)..e : heard'[i] = "silence"
        /\ cutter'.first + policy.target <= cut
        /\ s + policy.padding <= cut /\ cut + policy.padding <= e
    BY <1>5, Zenon DEF Cuttable
  <2>4. Cuttable(cutter, heard', s, e, cut)
    <3>1. cutter.first + policy.target <= cut
      BY <2>1, <2>2, <2>3
    <3>2. cutter'.size # policy.overlap
      <4>1. received' \in Nat /\ e \in Nat /\ e <= received'
        BY <1>1
      <4>. QED
        BY <2>1, <2>2, <2>3, <4>1
    <3>3. ~(cutter.last.boundary = "Pause" /\ s <= cutter.first)
      <4>1. CASE cutter'.last.boundary = "Pause"
        BY <2>1, <2>3, <4>1
      <4>2. CASE cutter'.last.boundary # "Pause"
        BY <1>5, <3>2, <4>2, OtherStep
      <4>. QED
        BY <4>1, <4>2
    <3>. QED
      BY <2>3, <3>1, <3>3, Zenon DEF Cuttable
  <2>5. /\ e = received' /\ inSilence' /\ silenceStart' <= s
        /\ cutter'.first = P /\ cutter'.last.boundary = "Pause"
    BY <1>5, <2>4, PauseIsTaken
  <2>6. cutter'.first = P /\ s > cutter'.first
    BY <2>1, <2>3, <2>5
  <2>7. silenceStart' \in Nat
    <3>1. silenceStart' = received \/ silenceStart' = silenceStart
      BY <1>1, Zenon
    <3>. QED
      BY <1>1, <3>1
  <2>8. P >= cutter.first + policy.target /\ P >= silenceStart' + policy.padding
    BY <2>1, <2>2, <2>7 DEF PauseCut
  <2>. HIDE DEF P
  <2>9. s > silenceStart' /\ s - 1 > cutter.first
    BY <2>1, <2>2, <2>3, <2>6, <2>7, <2>8
  <2>10. s < received'
    BY <1>1, <2>2, <2>3, <2>5
  <2>11. heard'[s] = "silence"
    <3>1. s \in (silenceStart' + 1)..received'
      BY <1>1, <2>7, <2>9, <2>10
    <3>. QED
      BY <2>5, <3>1, AppendQuiet DEF Quiet
  <2>12. \A i \in (s - 1 + 1)..received : heard[i] = "silence"
    <3>. SUFFICES ASSUME NEW i \in (s - 1 + 1)..received PROVE heard[i] = "silence"
      OBVIOUS
    <3>1. i \in 1..received /\ (i = s \/ i \in (s + 1)..e)
      BY <1>1, <2>5, <2>7, <2>9
    <3>. QED
      BY <1>2, <2>3, <2>11, <3>1
  <2>13. /\ s - 1 \in Nat /\ cut - 1 \in Nat /\ received \in 0..received
    BY <1>1, <2>1, <2>2, <2>3, <2>9
  <2>14. /\ received - (s - 1) >= policy.minPause
         /\ cutter.first + policy.target <= cut - 1
         /\ (s - 1) + policy.padding <= cut - 1
         /\ (cut - 1) + policy.padding <= received
    <3>1. cutter.first + 1 <= cutter'.first
      BY <2>1, <2>2, <2>6, <2>8
    <3>2. received' = received + 1 /\ received \in Nat
      BY <1>1
    <3>3. cutter.first + policy.target <= cut - 1
      BY <2>1, <2>2, <2>3, <3>1
    <3>4. received - (s - 1) >= policy.minPause
      BY <2>2, <2>3, <2>5, <3>2
    <3>5. (s - 1) + policy.padding <= cut - 1 /\ (cut - 1) + policy.padding <= received
      BY <2>2, <2>3, <2>5, <3>2
    <3>. QED
      BY <3>3, <3>4, <3>5
  <2>15. Cuttable(cutter, heard, s - 1, received, cut - 1)
    BY <2>1, <2>9, <2>12, <2>14 DEF Cuttable
  <2>. QED
    BY <1>1, <1>5, <2>13, <2>15 DEF Pauses
<1>6. ~finished' /\ policy'.speechAware =>
         \A s, cut \in Nat : \A e \in 0..received' :
            ~Cuttable(cutter, heard, s, e, cut)'
  BY <1>1, <1>5, Zenon DEF Cuttable
<1>. QED
  BY <1>3, <1>4, <1>6, Zenon DEF Pauses

\* Every step keeps the open buffer free of pauses.
LEMMA NextPauses == IInv /\ Pauses /\ [Next]_vars => Pauses'
<1>. SUFFICES ASSUME IInv, Pauses, [Next]_vars PROVE Pauses'
  OBVIOUS
<1>1. ASSUME NEW speech \in BOOLEAN, Append1(speech) PROVE Pauses'
  BY <1>1, AppendPauses
<1>2. CASE Finish
  BY <1>2 DEF Finish, Pauses
<1>3. CASE Discontinuity
  <2>1. /\ policy \in Policies /\ ValidPolicy(policy) /\ received \in Nat
        /\ Len(heard) = received /\ policy' = policy /\ received' = received
        /\ heard' = [i \in 1..Len(heard) |-> "broken"] /\ ~inSilence'
    BY <1>3 DEF Discontinuity, IInv, TypeOK, Quiet
  <2>2. cutter'.first = received
    <3>1. Emit(cutter, cutter.size, "Discontinuity", 0) \in Cutters
      BY <1>3, RestLemma DEF Discontinuity
    <3>. QED
      BY <1>3, <3>1 DEF Discontinuity, Restart, Cutters
  <2>3. received' = 0 \/ heard'[received'] # "silence"
    BY <2>1
  <2>4. ASSUME NEW s \in Nat, NEW cut \in Nat, NEW e \in 0..received'
        PROVE  ~Cuttable(cutter, heard, s, e, cut)'
    BY <2>1, <2>2, PolicyTypes DEF Cuttable
  <2>. QED
    BY <2>1, <2>3, <2>4 DEF Pauses
<1>4. CASE UNCHANGED vars
  BY <1>4 DEF vars, Pauses, Cuttable
<1>. QED
  BY <1>1, <1>2, <1>3, <1>4 DEF Next

-----------------------------------------------------------------------------
\* The samples after the first a are among the first b.
LEMMA TailOfRange ==
    ASSUME NEW a \in Nat, NEW b \in Nat
    PROVE  (a + 1)..b \subseteq 1..b
  OBVIOUS

\* The inductive invariant holds in every reachable state of the cutter.
THEOREM CutterInvariant == Spec => []IInv
  BY InitIInv, NextIInv, PTL DEF Spec

\* No position of the cutter ever underflows or leaves its type.
THEOREM CutterTypeCorrect == Spec => []TypeOK
<1>1. IInv => TypeOK
  BY DEF IInv
<1>. QED
  BY <1>1, CutterInvariant, PTL

\* The open cutter's buffer is exactly the tail of the audio and bounded.
THEOREM CutterKeepsTail == Spec => []BufferIsTheTail
<1>1. IInv => BufferIsTheTail
  BY DEF IInv
<1>. QED
  BY <1>1, CutterInvariant, PTL

\* finish() and discontinuity() leave no received sample out of the windows.
THEOREM CutterLeavesNothing == Spec => NothingLeftUncut
<1>1. ASSUME IInv, Finish PROVE cutter'.committed = received
  BY <1>1, RestLemma DEF Finish, Cutters
<1>2. ASSUME IInv, Discontinuity PROVE cutter'.committed = received
  BY <1>2, RestLemma DEF Discontinuity, Restart, Cutters
<1>3. IInv /\ [Next]_vars => [Finish \/ Discontinuity => cutter'.committed = received]_vars
  BY <1>1, <1>2
<1>. QED
  BY <1>3, CutterInvariant, PTL DEF Spec, NothingLeftUncut

\* finish() and discontinuity() send no other window than their own.
LEMMA RestWindow ==
    ASSUME IInv, Finish \/ Discontinuity
    PROVE  ~NewWindow("Pause") /\ ~NewWindow("Forced")
<1>1. ASSUME NEW boundary \in {"End", "Discontinuity"},
             cutter'.number = Emit(cutter, cutter.size, boundary, 0).number,
             cutter'.last = Emit(cutter, cutter.size, boundary, 0).last
      PROVE  ~NewWindow("Pause") /\ ~NewWindow("Forced")
  BY <1>1 DEF NewWindow, Emit
<1>2. CASE Finish
  <2>1. Emit(cutter, cutter.size, "End", 0) \in Cutters
    BY <1>2, RestLemma DEF Finish
  <2>. QED
    BY <1>1, <1>2, <2>1 DEF Finish, Cutters
<1>3. CASE Discontinuity
  <2>1. Emit(cutter, cutter.size, "Discontinuity", 0) \in Cutters
    BY <1>3, RestLemma DEF Discontinuity
  <2>. QED
    BY <1>1, <1>3, <2>1 DEF Discontinuity, Restart, Cutters
<1>. QED
  BY <1>2, <1>3

\* A pause cut lies inside silence, padded on both sides as the policy asks.
THEOREM CutterPausesAreQuiet == Spec => PauseCutIsQuiet
<1>. DEFINE cut == cutter'.committed
            quiet == {i \in 1..received' : heard'[i] = "silence"}
            Good == /\ (cut - policy.padding + 1)..(cut + policy.padding) \subseteq quiet
                    /\ (received' - policy.minPause + 1)..received' \subseteq quiet
<1>1. ASSUME IInv, NEW speech \in BOOLEAN, Append1(speech), NewWindow("Pause")
      PROVE  Good
  <2>1. /\ ~speech
        /\ received' - silenceStart' >= policy.minPause
        /\ cutter'.committed >= silenceStart' + policy.padding
        /\ cutter'.committed + policy.padding <= received'
        /\ cutter' \in Cutters
    BY <1>1, AppendLemma
  <2>2. policy.padding \in Nat /\ policy.minPause \in Nat
    BY <1>1, PolicyTypes DEF IInv, TypeOK
  <2>3. inSilence' /\ received' \in Nat /\ silenceStart' \in Nat
    <3>1. inSilence'
      BY <1>1, <2>1, Zenon DEF Append1
    <3>. QED
      BY <1>1, <3>1 DEF Append1, IInv, TypeOK
  <2>4. \A i \in (silenceStart' + 1)..received' : heard'[i] = "silence"
    BY <1>1, <2>3, AppendQuiet, Zenon DEF Quiet
  <2>5. (silenceStart' + 1)..received' \subseteq quiet
    <3>. HIDE DEF cut, quiet, Good
    <3>0. received' \in Nat /\ silenceStart' \in Nat
      BY <2>3
    <3>1. (silenceStart' + 1)..received' \subseteq 1..received'
      BY <3>0, TailOfRange, Zenon
    <3>. QED
      BY <2>4, <3>1, Zenon DEF quiet
  <2>6. cut \in Nat
    BY <2>1 DEF Cutters
  <2>. HIDE DEF cut, quiet
  <2>7. (cut - policy.padding + 1)..(cut + policy.padding)
           \subseteq (silenceStart' + 1)..received'
    BY <2>1, <2>2, <2>3, <2>6 DEF cut
  <2>8. (received' - policy.minPause + 1)..received'
           \subseteq (silenceStart' + 1)..received'
    BY <2>1, <2>2, <2>3
  <2>. QED
    BY <2>5, <2>7, <2>8
<1>2. ASSUME IInv, Finish \/ Discontinuity PROVE ~NewWindow("Pause")
  BY <1>2, RestWindow
<1>3. IInv /\ [Next]_vars => [NewWindow("Pause") => Good]_vars
  <2>. HIDE DEF Good
  <2>. QED
    BY <1>1, <1>2 DEF Next
<1>. QED
  BY <1>3, CutterInvariant, PTL DEF Spec, PauseCutIsQuiet

\* Speech is split, or given up, only for want of a pause to cut at.
THEOREM CutterForcesOnlyWithoutPause == Spec => ForcedOnlyWithoutPause
<1>. DEFINE Taken == received' # received /\ (\E s \in 0..received' :
                                                   Room(cutter.first, heard', s, received'))
                        => NewWindow("Pause")
            Forced == NewWindow("Forced") =>
                        \A s, e \in 0..received' :
                           Room(cutter.first, heard', s, e) =>
                              cutter.last.boundary = "Pause" /\ s <= cutter.first
<1>1. Init => Pauses
  <2>. SUFFICES ASSUME Init PROVE Pauses
    OBVIOUS
  <2>1. policy \in Policies /\ ValidPolicy(policy)
    BY Zenon DEF Init
  <2>2. ASSUME NEW s \in Nat, NEW cut \in Nat, NEW e \in 0..received
        PROVE  ~Cuttable(cutter, heard, s, e, cut)
    BY <2>1, PolicyTypes DEF Init, Cuttable
  <2>. QED
    BY <2>2 DEF Init, Pauses
<1>2. Spec => []Pauses
  BY <1>1, NextPauses, CutterInvariant, PTL DEF Spec
<1>3. ASSUME IInv, Pauses, NEW speech \in BOOLEAN, Append1(speech), policy.speechAware
      PROVE  Taken /\ Forced
  <2>1. cutter.first \in Nat /\ policy.target \in Nat /\ received' \in Nat
    BY <1>3, PolicyTypes DEF IInv, TypeOK, Append1
  <2>2. ASSUME NEW s \in 0..received', NEW e \in 0..received',
               Room(cutter.first, heard', s, e)
        PROVE  \E cut \in Nat :
                  /\ e - s >= policy.minPause
                  /\ \A i \in (s + 1)..e : heard'[i] = "silence"
                  /\ cutter.first + policy.target <= cut
                  /\ s + policy.padding <= cut
                  /\ cut + policy.padding <= e
    <3>1. PICK cut \in (cutter.first + policy.target)..e :
                  s + policy.padding <= cut /\ cut + policy.padding <= e
      BY <2>2, Zenon DEF Room
    <3>2. cut \in Nat /\ cutter.first + policy.target <= cut
      BY <2>1
    <3>. QED
      BY <2>2, <3>1, <3>2, Zenon DEF Room
  <2>3. ASSUME NEW s \in 0..received', Room(cutter.first, heard', s, received')
        PROVE  NewWindow("Pause")
    <3>1. received' \in 0..received' /\ s \in Nat
      BY <2>1
    <3>2. PICK cut \in Nat :
                  /\ received' - s >= policy.minPause
                  /\ \A i \in (s + 1)..received' : heard'[i] = "silence"
                  /\ cutter.first + policy.target <= cut
                  /\ s + policy.padding <= cut
                  /\ cut + policy.padding <= received'
      BY <2>2, <2>3, <3>1, Zenon
    <3>3. /\ inSilence' /\ received' - silenceStart' >= policy.minPause
          /\ PauseCut(cutter, silenceStart') + policy.padding <= received'
      BY <1>3, <3>1, <3>2, PauseIsSeen, Zenon
    <3>. QED
      BY <1>3, <3>3, PauseStep, Zenon DEF NewWindow
  <2>4. ASSUME NewWindow("Forced"), NEW s \in 0..received', NEW e \in 0..received',
               Room(cutter.first, heard', s, e)
        PROVE  cutter.last.boundary = "Pause" /\ s <= cutter.first
    <3>. SUFFICES ASSUME ~(cutter.last.boundary = "Pause" /\ s <= cutter.first)
                  PROVE  FALSE
      OBVIOUS
    <3>1. \E cut \in Nat : Cuttable(cutter, heard', s, e, cut)
      BY <2>2, <2>4, Zenon DEF Cuttable
    <3>2. s \in Nat
      BY <2>1
    <3>3. cutter'.last.boundary = "Pause"
      BY <1>3, <3>1, <3>2, PauseIsTaken, Zenon
    <3>. QED
      BY <2>4, <3>3 DEF NewWindow
  <2>. QED
    BY <2>3, <2>4, Zenon
<1>4. ASSUME IInv, Finish \/ Discontinuity
      PROVE  ~NewWindow("Forced") /\ received' = received
  <2>1. received' = received
    BY <1>4, Zenon DEF Finish, Discontinuity
  <2>. QED
    BY <1>4, <2>1, RestWindow, Zenon
<1>5. IInv /\ Pauses /\ [Next]_vars =>
         [policy.speechAware => Taken /\ Forced]_vars
  <2>1. ASSUME ~NewWindow("Forced"), received' = received PROVE Taken /\ Forced
    BY <2>1
  <2>. HIDE DEF Taken, Forced
  <2>. QED
    BY <1>3, <1>4, <2>1, Zenon DEF Next
<1>. QED
  BY <1>2, <1>5, CutterInvariant, PTL DEF Spec, ForcedOnlyWithoutPause

\* The cutter implements the worker's input contract: the worker refuses no
\* window that any policy can make it send.
THEOREM CutterSatisfiesWorker == Spec => WorkerAccepts
<1>1. Init => Worker!Init
  BY DEF Init, Worker!Init, NoWindow
<1>2. ASSUME IInv, Next PROVE Sends(cutter, cutter') /\ cutter' \in Cutters
  <2>1. ASSUME NEW speech \in BOOLEAN, Append1(speech)
        PROVE  Sends(cutter, cutter') /\ cutter' \in Cutters
    BY <1>2, <2>1, AppendLemma
  <2>2. CASE Finish
    <3>1. /\ Emit(cutter, cutter.size, "End", 0) \in Cutters
          /\ Sends(cutter, Emit(cutter, cutter.size, "End", 0))
      BY <1>2, <2>2, RestLemma DEF Finish
    <3>. QED
      BY <2>2, <3>1 DEF Finish, Sends, Cutters
  <2>3. CASE Discontinuity
    <3>1. /\ Emit(cutter, cutter.size, "Discontinuity", 0) \in Cutters
          /\ Sends(cutter, Emit(cutter, cutter.size, "Discontinuity", 0))
      BY <1>2, <2>3, RestLemma DEF Discontinuity
    <3>2. received \in Nat /\ received >= cutter.first
      BY <1>2, <2>3 DEF Discontinuity, IInv, TypeOK, BufferIsTheTail
    <3>. QED
      BY <2>3, <3>1, <3>2, Zenon DEF Discontinuity, Restart, Sends, Cutters
  <2>. QED
    BY <1>2, <2>1, <2>2, <2>3 DEF Next
<1>3. ASSUME Sends(cutter, cutter'), cutter \in Cutters, cutter' \in Cutters
      PROVE  [Worker!Accept]_(Worker!workerVars)
  <2>1. CASE cutter'.number = cutter.number /\ cutter'.committed = cutter.committed
             /\ cutter'.last = cutter.last
    BY <2>1 DEF Worker!workerVars
  <2>2. CASE cutter'.number = cutter.number + 1
    <3>1. Worker!Acceptable(cutter'.last)
      BY <1>3, <2>2 DEF Sends, Worker!Acceptable, Cutters, Window
    <3>2. cutter'.committed = cutter'.last.first + cutter'.last.count
      BY <1>3, <2>2 DEF Sends, Cutters
    <3>. QED
      BY <2>2, <3>1, <3>2 DEF Worker!Accept
  <2>. QED
    BY <1>3, <2>1, <2>2 DEF Sends
<1>4. ASSUME IInv, [Next]_vars PROVE [Worker!Accept]_(Worker!workerVars)
  <2>1. CASE Next
    BY <1>2, <1>3, <1>4, <2>1 DEF IInv, TypeOK, Cutters
  <2>2. CASE UNCHANGED vars
    BY <2>2 DEF vars, Worker!workerVars
  <2>. QED
    BY <1>4, <2>1, <2>2
<1>. QED
  BY <1>1, <1>4, CutterInvariant, PTL DEF Spec, WorkerAccepts, Worker!Spec

=============================================================================
