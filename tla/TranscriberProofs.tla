------------------------- MODULE TranscriberProofs -------------------------
(* The window loop of Transcriber::run, proved for windows, rates and media of *)
(* any length: the numbering of the finals, the media clock of the window and  *)
(* the progress of the loop.                                                   *)
EXTENDS Transcriber, FiniteSetTheorems, SequenceTheorems, TLAPS

Finals == [index : Nat, speaker : Nat, turn : BOOLEAN]

\* The speaker label the next final will carry.
NextSpeaker ==
    IF finals = <<>> THEN 0
    ELSE finals[Len(finals)].speaker + IF finals[Len(finals)].turn THEN 1 ELSE 0

\* The label and the index of the next segment follow the finals that went out.
Counted == Running => base.index = Len(finals) /\ base.speaker = NextSpeaker

\* The clock of a window that is not the last one, while it is filled, decoded
\* and cut: it is full when it is decoded.
OnClock ==
    /\ pc = "fill" => base.ms * Rate + buffer = consumed
    /\ pc \in {"decode", "cut"} /\ ~sourceDone =>
          buffer = WindowSamples /\ base.ms * Rate + buffer = consumed

IInv == FinalsAreNumbered /\ Counted /\ OnClock

-----------------------------------------------------------------------------
(* Arithmetic of the window.                                                   *)

\* A window is made of milliseconds.
LEMMA WindowIsNat == WindowSamples \in Nat \ {0} /\ Rate \in Nat \ {0} /\ WindowMs \in Nat \ {0}
BY RunAssumption DEF WindowSamples

\* A full window lasts WindowMs.
LEMMA FullWindow == WindowSamples \div Rate = WindowMs
BY RunAssumption, SMTT(30) DEF WindowSamples

\* A resume within the window is a sample of it, and a later one as it grows.
LEMMA ResumeInWindow ==
    ASSUME NEW r \in 1 .. WindowMs
    PROVE  r * Rate \in Nat /\ r * Rate <= WindowSamples /\ r * Rate > 0
BY RunAssumption, SMTT(30) DEF WindowSamples

-----------------------------------------------------------------------------
(* Speaker turns.                                                              *)

\* Turns counts the segments of the window whose speaker changes after them.
LEMMA TurnsCount ==
    ASSUME decoded.turns \in Seq(BOOLEAN)
    PROVE  /\ Turns(0) = 0
           /\ \A n \in Nat : Turns(n) \in Nat
           /\ \A n \in Nat : n < Len(decoded.turns) =>
                 Turns(n + 1) = Turns(n) + IF decoded.turns[n + 1] THEN 1 ELSE 0
<1> DEFINE T(n) == {i \in 1 .. n : decoded.turns[i]}
<1>1. \A n \in Nat : IsFiniteSet(T(n))
  <2> TAKE n \in Nat
  <2>1. IsFiniteSet(1 .. n)
    BY FS_Interval
  <2>2. T(n) \subseteq 1 .. n
    OBVIOUS
  <2> QED
    BY <2>1, <2>2, FS_Subset
<1>2. Turns(0) = 0
  <2>1. T(0) = {}
    OBVIOUS
  <2> QED
    BY <2>1, FS_EmptySet DEF Turns
<1>3. \A n \in Nat : Turns(n) \in Nat
  BY <1>1, FS_CardinalityType DEF Turns
<1>4. ASSUME NEW n \in Nat, n < Len(decoded.turns)
      PROVE  Turns(n + 1) = Turns(n) + IF decoded.turns[n + 1] THEN 1 ELSE 0
  <2>1. CASE decoded.turns[n + 1]
    <3>1. T(n + 1) = T(n) \cup {n + 1} /\ n + 1 \notin T(n)
      BY <2>1
    <3>2. Cardinality(T(n + 1)) = Cardinality(T(n)) + 1
      <4>1. IsFiniteSet(T(n))
        BY <1>1, Zenon
      <4> HIDE DEF T
      <4> QED
        BY <3>1, <4>1, FS_AddElement
    <3>3. Turns(n + 1) = Cardinality(T(n + 1)) /\ Turns(n) = Cardinality(T(n))
      BY DEF Turns
    <3> QED
      BY <2>1, <3>2, <3>3
  <2>2. CASE ~decoded.turns[n + 1]
    <3>1. T(n + 1) = T(n)
      BY <2>2
    <3>2. Turns(n + 1) = Turns(n) /\ Turns(n) \in Nat
      BY <1>3, <3>1, Zenon DEF Turns
    <3> QED
      BY <2>2, <3>2
  <2> QED
    BY <2>1, <2>2
<1> QED
  BY <1>2, <1>3, <1>4

-----------------------------------------------------------------------------
(* The steps.                                                                  *)

\* What a cut finalizes and where the next window resumes.
LEMMA CutBounds ==
    ASSUME TypeOK, OnClock, pc = "cut"
    PROVE  LET cut == CutWindow(Len(decoded.turns), sourceDone, buffer \div Rate, LastStartMs)
           IN  /\ cut.finalize \in 0 .. Len(decoded.turns)
               /\ ~sourceDone => cut.resume \in 1 .. WindowMs
<1>1. decoded.turns \in Seq(BOOLEAN) /\ Len(decoded.turns) \in Nat /\ LastStartMs \in Nat
  BY DEF TypeOK, LastStartMs
<1>2. ~sourceDone => buffer \div Rate = WindowMs
  BY FullWindow DEF OnClock
<1> QED
  BY <1>1, <1>2, WindowIsNat DEF CutWindow, HoldsBack

\* s is the finals followed by the first d segments of the window.
Appended(s, d) ==
    /\ s \in Seq(Finals) /\ Len(s) = Len(finals) + d
    /\ \A i \in 1 .. Len(finals) : s[i] = finals[i]
    /\ \A i \in 1 .. d : /\ s[Len(finals) + i].index = Len(finals) + i - 1
                         /\ s[Len(finals) + i].speaker = base.speaker + Turns(i - 1)
                         /\ s[Len(finals) + i].turn = decoded.turns[i]

\* What Finalize hands to the sink.
LEMMA FinalsAppended ==
    ASSUME TypeOK, Counted, pc = "cut", NEW d \in 0 .. Len(decoded.turns)
    PROVE  Appended(finals \o [i \in 1 .. d |-> ReadSegment(i)], d)
<1> DEFINE f == [i \in 1 .. d |-> ReadSegment(i)]
<1>1. decoded.turns \in Seq(BOOLEAN) /\ base.index \in Nat /\ base.speaker \in Nat
      /\ finals \in Seq(Finals) /\ Len(finals) \in Nat /\ d \in Nat
  BY LenProperties DEF TypeOK, Finals
<1>2. base.index = Len(finals)
  BY DEF Counted, Running
<1>3. \A i \in 1 .. d : decoded.turns[i] \in BOOLEAN
  BY <1>1, ElementOfSeq
<1>4. \A i \in 1 .. d : Turns(i - 1) \in Nat
  <2>1. \A n \in Nat : Turns(n) \in Nat
    BY <1>1, TurnsCount, Zenon
  <2>2. \A i \in 1 .. d : i - 1 \in Nat
    BY <1>1
  <2> QED
    BY <2>1, <2>2, Zenon
<1>5. \A i \in 1 .. d : /\ ReadSegment(i) \in Finals
                        /\ ReadSegment(i).index = Len(finals) + i - 1
                        /\ ReadSegment(i).speaker = base.speaker + Turns(i - 1)
                        /\ ReadSegment(i).turn = decoded.turns[i]
  BY <1>1, <1>2, <1>3, <1>4 DEF ReadSegment, Finals
<1>6. f \in Seq(Finals) /\ Len(f) = d
  <2>1. f \in [1 .. d -> Finals]
    BY <1>5
  <2>2. f \in Seq(Finals)
    BY <1>1, <2>1, SeqDef
  <2>3. DOMAIN f = 1 .. d /\ DOMAIN f = 1 .. Len(f) /\ Len(f) \in Nat
    BY <2>2, LenProperties
  <2> QED
    BY <1>1, <2>2, <2>3
<1>7. \A i \in 1 .. d : f[i] = ReadSegment(i)
  OBVIOUS
<1> HIDE DEF f
<1>8. /\ finals \o f \in Seq(Finals) /\ Len(finals \o f) = Len(finals) + d
      /\ \A i \in 1 .. Len(finals) + d : (finals \o f)[i] =
            IF i <= Len(finals) THEN finals[i] ELSE f[i - Len(finals)]
  BY <1>1, <1>6, ConcatProperties, Zenon
<1>9. \A i \in 1 .. Len(finals) : (finals \o f)[i] = finals[i]
  BY <1>1, <1>8
<1>10. \A i \in 1 .. d : (finals \o f)[Len(finals) + i] = f[i]
  <2> TAKE i \in 1 .. d
  <2>1. /\ Len(finals) + i \in 1 .. Len(finals) + d /\ ~(Len(finals) + i <= Len(finals))
        /\ (Len(finals) + i) - Len(finals) = i
    BY <1>1
  <2> QED
    BY <1>8, <2>1
<1> QED
  BY <1>5, <1>7, <1>8, <1>9, <1>10 DEF f, Appended

\* They continue the numbering and the labels.
LEMMA FinalsContinue ==
    ASSUME TypeOK, FinalsAreNumbered, Counted, pc = "cut",
           NEW d \in 0 .. Len(decoded.turns), Appended(finals', d)
    PROVE  /\ \A i \in DOMAIN finals' :
                 /\ finals'[i].index = i - 1
                 /\ i = 1 => finals'[i].speaker = 0
                 /\ i > 1 => finals'[i].speaker =
                                 finals'[i - 1].speaker + IF finals'[i - 1].turn THEN 1 ELSE 0
           /\ NextSpeaker' = base.speaker + Turns(d)
<1> DEFINE L == Len(finals)
<1>1. decoded.turns \in Seq(BOOLEAN) /\ Len(decoded.turns) \in Nat /\ base.speaker \in Nat
      /\ finals \in Seq(Finals) /\ d \in Nat /\ L \in Nat
  BY LenProperties DEF TypeOK, Finals
<1>2. base.speaker = NextSpeaker /\ DOMAIN finals = 1 .. L
  BY <1>1, LenProperties DEF Counted, Running
<1>3. L = 0 <=> finals = <<>>
  BY <1>1, EmptySeq
<1>4. /\ Turns(0) = 0
      /\ \A n \in Nat : Turns(n) \in Nat
      /\ \A n \in Nat : n < Len(decoded.turns) =>
            Turns(n + 1) = Turns(n) + IF decoded.turns[n + 1] THEN 1 ELSE 0
  BY <1>1, TurnsCount
<1>5. finals' \in Seq(Finals) /\ Len(finals') = L + d /\ DOMAIN finals' = 1 .. (L + d)
  BY LenProperties DEF Appended
<1>6. \A i \in 1 .. L : finals'[i] = finals[i]
  BY DEF Appended
<1>7. \A i \in 1 .. d : /\ finals'[L + i].index = L + i - 1
                        /\ finals'[L + i].speaker = base.speaker + Turns(i - 1)
                        /\ finals'[L + i].turn = decoded.turns[i]
  BY DEF Appended
<1>l. L = Len(finals)
  OBVIOUS
<1> HIDE DEF L
<1>8. ASSUME NEW i \in 1 .. (L + d)
      PROVE  /\ finals'[i].index = i - 1
             /\ i = 1 => finals'[i].speaker = 0
             /\ i > 1 => finals'[i].speaker =
                             finals'[i - 1].speaker + IF finals'[i - 1].turn THEN 1 ELSE 0
  <2>1. CASE i \in 1 .. L
    <3>1. i \in DOMAIN finals /\ finals'[i] = finals[i] /\ (i > 1 => finals'[i - 1] = finals[i - 1])
      <4>1. i > 1 => i - 1 \in 1 .. L
        BY <1>1, <2>1
      <4> QED
        BY <1>2, <1>6, <2>1, <4>1
    <3> QED
      BY <3>1 DEF FinalsAreNumbered
  <2>2. CASE i = L + 1
    <3>1. finals'[i].index = L /\ finals'[i].speaker = base.speaker
      <4>1. 1 \in 1 .. d
        BY <1>1, <2>2
      <4>2. finals'[i].index = L + 1 - 1 /\ finals'[i].speaker = base.speaker + Turns(0)
        BY <1>7, <2>2, <4>1
      <4>3. Turns(0) = 0
        BY <1>4
      <4> QED
        BY <1>1, <4>2, <4>3
    <3>2. CASE L = 0
      BY <1>2, <1>3, <2>2, <3>1, <3>2 DEF NextSpeaker
    <3>3. CASE L > 0
      <4>1. finals # <<>> /\ finals'[L] = finals[L] /\ i - 1 = L
        BY <1>1, <1>3, <1>6, <2>2, <3>3
      <4>2. base.speaker = finals[L].speaker + IF finals[L].turn THEN 1 ELSE 0
        BY <1>2, <1>l, <4>1 DEF NextSpeaker
      <4> QED
        BY <2>2, <3>1, <3>3, <4>1, <4>2
    <3> QED
      BY <1>1, <3>2, <3>3
  <2>3. CASE i > L + 1
    <3>1. PICK j \in 2 .. d : i = L + j
      BY <1>1, <2>3
    <3>2. /\ j \in 1 .. d /\ j - 1 \in 1 .. d /\ i - 1 = L + (j - 1)
          /\ j - 2 \in Nat /\ j - 2 < Len(decoded.turns) /\ (j - 2) + 1 = j - 1 /\ (j - 1) - 1 = j - 2
      BY <1>1, <3>1
    <3>3. Turns(j - 1) = Turns(j - 2) + (IF decoded.turns[j - 1] THEN 1 ELSE 0) /\ Turns(j - 2) \in Nat
      BY <1>4, <3>2, Zenon
    <3>4. /\ finals'[i].index = L + j - 1 /\ finals'[i].speaker = base.speaker + Turns(j - 1)
      BY <1>7, <3>1, <3>2
    <3>5. /\ finals'[i - 1].speaker = base.speaker + Turns(j - 2)
          /\ finals'[i - 1].turn = decoded.turns[j - 1]
      BY <1>7, <3>2
    <3> QED
      BY <1>1, <2>3, <3>1, <3>3, <3>4, <3>5
  <2> QED
    BY <1>1, <2>1, <2>2, <2>3
<1>9. NextSpeaker' = base.speaker + Turns(d)
  <2>1. CASE d = 0
    <3>1. finals' = finals
      BY <1>1, <1>5, <1>6, <1>l, <2>1, SeqEqual
    <3> QED
      BY <1>1, <1>2, <1>4, <2>1, <3>1 DEF NextSpeaker
  <2>2. CASE d > 0
    <3>1. /\ finals' # <<>> /\ d \in 1 .. d
          /\ d - 1 \in Nat /\ d - 1 < Len(decoded.turns) /\ (d - 1) + 1 = d
      BY <1>1, <1>5, <2>2, EmptySeq
    <3>2. Turns(d) = Turns(d - 1) + (IF decoded.turns[d] THEN 1 ELSE 0) /\ Turns(d - 1) \in Nat
      BY <1>4, <3>1, SMTT(30)
    <3>3. /\ finals'[L + d].speaker = base.speaker + Turns(d - 1)
          /\ finals'[L + d].turn = decoded.turns[d]
      BY <1>7, <3>1
    <3>4. NextSpeaker' = finals'[L + d].speaker + IF finals'[L + d].turn THEN 1 ELSE 0
      BY <1>5, <3>1 DEF NextSpeaker
    <3>5. NextSpeaker' = (base.speaker + Turns(d - 1)) + IF decoded.turns[d] THEN 1 ELSE 0
      BY <3>3, <3>4
    <3>6. CASE decoded.turns[d]
      <4>1. Turns(d) = Turns(d - 1) + 1 /\ NextSpeaker' = (base.speaker + Turns(d - 1)) + 1
        BY <3>2, <3>5, <3>6
      <4> QED
        BY <1>1, <3>2, <4>1
    <3>7. CASE ~decoded.turns[d]
      <4>1. Turns(d) = Turns(d - 1) + 0 /\ NextSpeaker' = (base.speaker + Turns(d - 1)) + 0
        BY <3>2, <3>5, <3>7
      <4> QED
        BY <1>1, <3>2, <4>1
    <3> QED
      BY <3>6, <3>7
  <2> QED
    BY <1>1, <2>1, <2>2
<1> QED
  BY <1>5, <1>8, <1>9

\* The window loop starts with nothing decoded at media time 0.
LEMMA InitIInv == Init => IInv
<1> SUFFICES ASSUME Init PROVE IInv
  OBVIOUS
<1>1. TypeOK
  <2>1. base \in [ms : Nat, index : Nat, speaker : Nat]
    BY DEF Init
  <2>2. decoded \in [turns : Seq(BOOLEAN), lastStart : Nat]
    BY DEF Init, Nothing
  <2>3. /\ pc = "fill" /\ buffer = 0 /\ consumed = 0 /\ sourceDone \in BOOLEAN
        /\ stopped \in BOOLEAN /\ finals = <<>> /\ partials = {}
    BY Zenon DEF Init
  <2> QED
    BY <2>1, <2>2, <2>3, WindowIsNat DEF TypeOK
<1>2. finals = <<>> /\ Len(finals) = 0 /\ DOMAIN finals = {}
  BY DEF Init
<1>3. FinalsAreNumbered
  BY <1>1, <1>2 DEF FinalsAreNumbered
<1>4. Counted
  BY <1>2 DEF Init, Counted, NextSpeaker
<1>5. OnClock
  BY RunAssumption DEF Init, OnClock
<1> QED
  BY <1>3, <1>4, <1>5 DEF IInv

\* The steps that leave the finals and the base alone.
LEMMA SameFinals ==
    ASSUME IInv, UNCHANGED <<finals, base>>, TypeOK', Running' => Running
    PROVE  FinalsAreNumbered' /\ Counted'
<1>1. NextSpeaker' = NextSpeaker
  BY DEF NextSpeaker
<1> QED
  BY <1>1 DEF IInv, FinalsAreNumbered, Counted

\* The finals go out and the next window starts on the clock.
LEMMA FinalizeKeeps ==
    ASSUME IInv, NEW delivered \in 0 .. MaxDecoded, Finalize(delivered)
    PROVE  /\ IInv'
           /\ pc' = "fill" => base'.ms > base.ms /\ buffer' < WindowSamples
<1> DEFINE cut == CutWindow(Len(decoded.turns), sourceDone, buffer \div Rate, LastStartMs)
<1>1. /\ pc = "cut" /\ delivered <= cut.finalize
      /\ finals' = finals \o [i \in 1 .. delivered |-> ReadSegment(i)]
      /\ UNCHANGED <<consumed, sourceDone, decoded, stopped, partials>>
      /\ \/ pc' = "aborted" /\ UNCHANGED <<base, buffer>>
         \/ /\ delivered = cut.finalize
            /\ pc' = IF sourceDone THEN "ended" ELSE "fill"
            /\ base' = [ms |-> IF sourceDone THEN base.ms ELSE base.ms + cut.resume,
                        index |-> base.index + cut.finalize,
                        speaker |-> base.speaker + Turns(cut.finalize)]
            /\ buffer' = IF sourceDone THEN buffer ELSE Carried(cut.resume)
  <2>1. cut.finalize \in Nat
    BY CutBounds DEF IInv, FinalsAreNumbered, Finalize, TypeOK
  <2> QED
    BY <2>1 DEF Finalize
<1>2. /\ cut.finalize \in 0 .. Len(decoded.turns)
      /\ ~sourceDone => cut.resume \in 1 .. WindowMs
  BY <1>1, CutBounds DEF IInv, FinalsAreNumbered
<1> HIDE DEF cut
<1>t. TypeOK /\ FinalsAreNumbered /\ Counted /\ OnClock
  BY DEF IInv, FinalsAreNumbered
<1>3. delivered \in 0 .. Len(decoded.turns) /\ Len(decoded.turns) \in Nat
  BY <1>1, <1>2, <1>t DEF TypeOK
<1>4. Appended(finals', delivered)
  BY <1>1, <1>3, <1>t, FinalsAppended
<1>5. /\ finals' \in Seq(Finals) /\ Len(finals') = Len(finals) + delivered
      /\ \A i \in DOMAIN finals' :
            /\ finals'[i].index = i - 1
            /\ i = 1 => finals'[i].speaker = 0
            /\ i > 1 => finals'[i].speaker =
                            finals'[i - 1].speaker + IF finals'[i - 1].turn THEN 1 ELSE 0
      /\ NextSpeaker' = base.speaker + Turns(delivered)
  <2>1. finals' \in Seq(Finals) /\ Len(finals') = Len(finals) + delivered
    BY <1>4 DEF Appended
  <2> QED
    BY <1>1, <1>3, <1>4, <1>t, <2>1, FinalsContinue, Zenon
<1>6. Turns(cut.finalize) \in Nat
  <2>1. decoded.turns \in Seq(BOOLEAN) /\ cut.finalize \in Nat
    BY <1>2, <1>3, <1>t DEF TypeOK
  <2>2. \A n \in Nat : Turns(n) \in Nat
    BY <2>1, TurnsCount
  <2> QED
    BY <2>1, <2>2, Zenon
<1>7. CASE pc' = "aborted" /\ UNCHANGED <<base, buffer>>
  <2>1. TypeOK'
    BY <1>1, <1>5, <1>7, <1>t DEF TypeOK, Finals
  <2> QED
    BY <1>5, <1>7, <2>1 DEF IInv, FinalsAreNumbered, Counted, OnClock, Running
<1>8. CASE /\ delivered = cut.finalize
           /\ pc' = IF sourceDone THEN "ended" ELSE "fill"
           /\ base' = [ms |-> IF sourceDone THEN base.ms ELSE base.ms + cut.resume,
                       index |-> base.index + cut.finalize,
                       speaker |-> base.speaker + Turns(cut.finalize)]
           /\ buffer' = IF sourceDone THEN buffer ELSE Carried(cut.resume)
  <2>1. base.ms \in Nat /\ base.index \in Nat /\ base.speaker \in Nat
        /\ buffer \in 0 .. WindowSamples /\ sourceDone \in BOOLEAN /\ cut.finalize \in Nat
        /\ base.index = Len(finals) /\ base.speaker = NextSpeaker
    BY <1>1, <1>2, <1>3, <1>t DEF TypeOK, Counted, Running
  <2>2. base'.index = Len(finals') /\ base'.speaker = NextSpeaker'
    BY <1>5, <1>8, <2>1
  <2>3. CASE sourceDone
    <3>1. base' \in [ms : Nat, index : Nat, speaker : Nat]
      <4>1. base' = [ms |-> base.ms, index |-> base.index + cut.finalize,
                     speaker |-> base.speaker + Turns(cut.finalize)]
        BY <1>8, <2>3
      <4> QED
        BY <1>6, <2>1, <4>1, SMTT(30)
    <3>2. pc' = "ended" /\ buffer' = buffer
      BY <1>8, <2>3
    <3>3. TypeOK'
      BY <1>1, <1>5, <1>t, <3>1, <3>2 DEF TypeOK, Finals
    <3> QED
      BY <1>5, <3>2, <3>3 DEF IInv, FinalsAreNumbered, Counted, OnClock, Running
  <2>4. CASE ~sourceDone
    <3> DEFINE r == cut.resume
    <3>1. buffer = WindowSamples /\ base.ms * Rate + buffer = consumed
      BY <1>1, <1>t, <2>4 DEF OnClock
    <3>2. r \in 1 .. WindowMs
      BY <1>2, <2>4
    <3> HIDE DEF r
    <3>3. r * Rate \in Nat /\ r * Rate <= WindowSamples /\ r * Rate > 0
      BY <3>2, ResumeInWindow
    <3>4. buffer' = WindowSamples - r * Rate
      BY <1>8, <2>4, <3>1, <3>3, WindowIsNat DEF Carried, Min2, r
    <3>5. base'.ms = base.ms + r /\ pc' = "fill"
      BY <1>8, <2>4 DEF r
    <3>6. base' \in [ms : Nat, index : Nat, speaker : Nat] /\ buffer' \in 0 .. WindowSamples
          /\ buffer' < WindowSamples /\ base'.ms > base.ms
      <4>1. base' = [ms |-> base.ms + r, index |-> base.index + cut.finalize,
                     speaker |-> base.speaker + Turns(cut.finalize)]
        BY <1>8, <2>4 DEF r
      <4>2. base.ms + r \in Nat /\ base.ms + r > base.ms
        BY <2>1, <3>2, WindowIsNat
      <4>3. base' \in [ms : Nat, index : Nat, speaker : Nat]
        BY <1>6, <2>1, <4>1, <4>2
      <4>4. buffer' \in 0 .. WindowSamples /\ buffer' < WindowSamples
        BY <3>3, <3>4, WindowIsNat
      <4> QED
        BY <3>5, <4>2, <4>3, <4>4
    <3>7. TypeOK'
      BY <1>1, <1>5, <1>t, <3>5, <3>6 DEF TypeOK, Finals
    <3>8. base'.ms * Rate + buffer' = consumed'
      <4>1. (base.ms + r) * Rate = base.ms * Rate + r * Rate /\ base.ms * Rate \in Nat
        BY <2>1, <3>2, WindowIsNat
      <4> QED
        BY <1>1, <3>1, <3>3, <3>4, <3>5, <4>1, WindowIsNat
    <3> QED
      BY <1>5, <2>2, <3>5, <3>6, <3>7, <3>8 DEF IInv, FinalsAreNumbered, Counted, OnClock, Running
  <2> QED
    BY <2>1, <2>3, <2>4
<1> QED
  BY <1>1, <1>7, <1>8

\* Every step of the loop keeps the invariant.
LEMMA NextIInv == IInv /\ [Next]_vars => IInv'
<1> SUFFICES ASSUME IInv, [Next]_vars PROVE IInv'
  OBVIOUS
<1>t. TypeOK /\ FinalsAreNumbered /\ Counted /\ OnClock
  BY DEF IInv, FinalsAreNumbered
<1>1. CASE Stop \/ GiveUp \/ DecodeFails \/ UNCHANGED vars
  <2>1. /\ UNCHANGED <<finals, base, buffer, consumed, sourceDone>>
        /\ TypeOK' /\ (Running' => pc' = pc)
    BY <1>1, <1>t, Zenon DEF Stop, GiveUp, DecodeFails, vars, TypeOK, Running
  <2> QED
    BY <1>t, <2>1, SameFinals DEF IInv, OnClock, Running
<1>2. ASSUME NEW got \in 0 .. WindowSamples, Read(got)
      PROVE  IInv'
  <2>1. TypeOK'
    <3>1. buffer + got \in 0 .. WindowSamples /\ consumed + got \in Nat
      BY <1>2, <1>t, WindowIsNat DEF Read, Space, TypeOK
    <3>2. /\ pc' \in {"fill", "capped"} /\ buffer' = buffer + got /\ consumed' = consumed + got
          /\ sourceDone' \in BOOLEAN /\ UNCHANGED <<base, decoded, stopped, finals, partials>>
      BY <1>2, Zenon DEF Read
    <3> QED
      BY <1>t, <3>1, <3>2, Zenon DEF TypeOK
  <2>2. /\ UNCHANGED <<finals, base>> /\ pc = "fill" /\ pc' \in {"fill", "capped"}
        /\ buffer' = buffer + got /\ consumed' = consumed + got
    BY <1>2 DEF Read
  <2>3. OnClock'
    <3>1. base.ms * Rate \in Nat /\ buffer \in Nat /\ consumed \in Nat /\ got \in Nat
      BY <1>t, WindowIsNat DEF TypeOK
    <3>2. base.ms * Rate + buffer = consumed
      BY <1>t, <2>2 DEF OnClock
    <3> QED
      BY <2>2, <3>1, <3>2 DEF OnClock
  <2> QED
    BY <2>1, <2>2, <2>3, SameFinals DEF IInv, Running
<1>3. CASE CloseWindow
  <2>1. TypeOK'
    BY <1>3, <1>t, RunAssumption DEF CloseWindow, TypeOK, WindowSamples
  <2>2. /\ UNCHANGED <<finals, base, consumed, sourceDone>> /\ pc = "fill"
        /\ pc' \in {"decode", "ended"} /\ (~sourceDone => buffer' = buffer /\ buffer = WindowSamples)
    BY <1>3, <1>t DEF CloseWindow, TypeOK
  <2> QED
    BY <1>t, <2>1, <2>2, SameFinals DEF IInv, OnClock, Running
<1>4. ASSUME NEW turns \in TurnSeqs, NEW t \in 0 .. WindowMs + 1, Decode(turns, t)
      PROVE  IInv'
  <2>1. turns \in Seq(BOOLEAN) /\ t \in Nat
    <3>1. PICK n \in 0 .. MaxDecoded : turns \in [1 .. n -> BOOLEAN]
      BY Zenon DEF TurnSeqs
    <3>2. n \in Nat
      BY RunAssumption
    <3>3. turns \in Seq(BOOLEAN)
      BY <3>1, <3>2, SeqDef
    <3> QED
      BY <3>3, WindowIsNat
  <2>2. /\ UNCHANGED <<finals, base, buffer, consumed, sourceDone, stopped>>
        /\ pc = "decode" /\ pc' = "cut"
    BY <1>4 DEF Decode
  <2>3. partials' \subseteq Nat
    <3>1. \A i \in DOMAIN turns : base.index + i - 1 \in Nat
      BY <1>t, <2>1, LenProperties DEF TypeOK
    <3> QED
      BY <1>4, <1>t, <3>1, Zenon DEF Decode, TypeOK
  <2>4. decoded' \in [turns : Seq(BOOLEAN), lastStart : Nat]
    BY <1>4, <2>1 DEF Decode
  <2>5. TypeOK'
    BY <1>t, <2>2, <2>3, <2>4 DEF TypeOK
  <2> QED
    BY <1>t, <2>2, <2>5, SameFinals DEF IInv, OnClock, Running
<1>5. ASSUME NEW delivered \in 0 .. MaxDecoded, Finalize(delivered)
      PROVE  IInv'
  BY <1>5, FinalizeKeeps
<1> QED
  BY <1>1, <1>2, <1>3, <1>4, <1>5 DEF Next, Returned

-----------------------------------------------------------------------------
(* What follows.                                                               *)

\* The inductive invariant of the window loop.
THEOREM RunInvariant == Spec => []IInv
BY InitIInv, NextIInv, PTL DEF Spec

\* The finals of a run are numbered 0, 1, 2, ... across its windows, and their
\* labels count the speaker turns of the finals before them.
THEOREM RunFinalsAreNumbered == Spec => []FinalsAreNumbered
<1>1. IInv => FinalsAreNumbered
  BY DEF IInv
<1> QED
  BY <1>1, RunInvariant, PTL

\* A window that is filled starts at window_base_ms on the media clock.
THEOREM RunWindowIsOnTheClock == Spec => []WindowIsOnTheClock
<1>1. IInv => WindowIsOnTheClock
  BY DEF IInv, OnClock, WindowIsOnTheClock
<1> QED
  BY <1>1, RunInvariant, PTL

\* Every window but the last moves the clock forward and leaves room for samples.
THEOREM RunWindowsAdvance == Spec => WindowsAdvance
<1>1. IInv /\ [Next]_vars =>
        [pc = "cut" /\ pc' = "fill" => base'.ms > base.ms /\ buffer' < WindowSamples]_vars
  <2> SUFFICES ASSUME IInv, Next, pc = "cut", pc' = "fill"
               PROVE  base'.ms > base.ms /\ buffer' < WindowSamples
    BY DEF vars
  <2>1. PICK delivered \in 0 .. MaxDecoded : Finalize(delivered)
    BY DEF Next, Stop, GiveUp, Read, CloseWindow, Decode, DecodeFails, Returned, vars, Running
  <2> QED
    BY <2>1, FinalizeKeeps
<1> QED
  BY <1>1, RunInvariant, PTL DEF Spec, WindowsAdvance
=============================================================================
