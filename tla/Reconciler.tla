----------------------------- MODULE Reconciler -----------------------------
(* media::Reconciler (reconcile.cpp): hypotheses of overlapping windows become *)
(* one transcript of numbered revisions, which go to the registry one by one   *)
(* (Transcripts.tla).  What is said, where the windows end and what the model  *)
(* hears at their edges are choices.                                           *)
(*                                                                             *)
(* A token is a piece of a word: its key (the letters that are compared), its  *)
(* times, its mark, and whether its bytes begin or end inside a character.     *)
(* The mark of a Parakeet token says whether it starts its word ("start") or   *)
(* goes on with it ("inside"); a Whisper token has none.  Time counts samples. *)
EXTENDS Integers, SequencesExt, FiniteSetsExt, Transcripts

CONSTANTS Speeches,      \* what may be said: sequences of tokens
          Horizon,       \* length of the audio
          Lengths,       \* lengths a window may have
          Overlap,       \* the policy's overlap
          Tolerance, Slack, Near,  \* the 350, 500 and 30 ms of reconcile.cpp
          Languages,     \* languages a hypothesis may be in
          MaxMisheard    \* bound: words heard wrong

VARIABLES speech,        \* what is said
          window,        \* the next window's first and first new sample
          misheard,      \* words heard wrong so far
          pending,       \* pending_
          language,      \* that of metadata_
          endTime,       \* end_time_
          uncertain,     \* uncertain_
          outputs,       \* the output() calls of the current accept() still to come
          id, revision,  \* id_ (0: empty), revision_
          uuids,         \* uuid()s drawn so far
          text,          \* tokens of all final segments emitted
          doubt,         \* some final segment was UNRESOLVED
          state          \* "open"; closed_ by "finish" or by an exception: "failed"

heard == <<speech, window, misheard>>
emitter == <<id, revision, uuids, text, doubt, transcripts>>
vars == <<heard, pending, language, endTime, uncertain, outputs, emitter, state>>

\* Words are shorter than the overlap, and none is said again within the tolerance
\* that decides whether two tokens may be the same.
ASSUME ReconcilerAssumption ==
    /\ \A l \in Lengths : l \in Nat /\ l > Overlap
    /\ {Overlap, Tolerance, Slack, Near, MaxMisheard} \subseteq Nat
    /\ \A s \in Speeches : \A i, j \in DOMAIN s :
          /\ s[i].start <= s[i].end /\ s[i].end <= Horizon
          /\ i < j => s[i].end <= s[j].start
          /\ s[i].word = s[j].word => s[j].end - s[i].start < Overlap
          /\ s[i].word < s[j].word /\ s[i].key = s[j].key => s[j].start - s[i].end > Tolerance

Key(tokens) == FlattenSeq([k \in DOMAIN tokens |-> tokens[k].key])

\* The text of these tokens is complete UTF-8.
Utf8(tokens) ==
    tokens = << >> \/ (~Head(tokens).cont /\ ~Last(tokens).open)

-----------------------------------------------------------------------------
(* Alignment: anchor().                                                        *)

TimedMatch(a, b) == Max({a.start, b.start}) - Min({a.end, b.end}) <= Tolerance

Same(a, b) ==
    /\ a.key = b.key
    /\ a.key = << >> \/ TimedMatch(a, b)
    /\ b.start <= endTime + Tolerance

\* The common run of two token sequences from i and j on: its length, its letters
\* and twice the distance of its tokens in time.
Run(old, fresh, i, j) ==
    LET fits(n) == \A d \in 0..(n - 1) : Same(old[i + d], fresh[j + d])
        count == Max({n \in 0..Min({Len(old) - i + 1, Len(fresh) - j + 1}) : fits(n)})
        apart(d) == LET a == old[i + d] b == fresh[j + d]
                        gap == (a.start + a.end) - (b.start + b.end)
                    IN  IF gap < 0 THEN -gap ELSE gap
    IN  [old |-> i - 1, new |-> j - 1, count |-> count, ambiguous |-> FALSE,
         score |-> Len(Key(SubSeq(old, i, i + count - 1))),
         distance |-> FoldSet(LAMBDA d, sum : sum + apart(d), 0, 0..(count - 1))]

\* The better of the best run so far and a candidate: more letters, more tokens,
\* clearly closer in time; one that is about as close makes the best ambiguous.
Better(best, run) ==
    LET delta == run.distance - best.distance
        about == 2 * Near * run.count
    IN  IF \/ run.score > best.score
           \/ run.score = best.score /\ run.count > best.count THEN run
        ELSE IF run.score # best.score \/ run.count # best.count \/ run.score = 0 THEN best
        ELSE IF delta < -about THEN run
        ELSE IF delta <= about THEN [best EXCEPT !.ambiguous = TRUE]
        ELSE best

NoRun == [old |-> 0, new |-> 0, count |-> 0, ambiguous |-> FALSE, score |-> 0, distance |-> 0]

\* All pairs of positions, from the back.
Anchor(old, fresh) ==
    LET n == Len(fresh)
        pair(p) == Run(old, fresh, Len(old) - (p \div n), n - (p % n))
        runs == [p \in 1..(Len(old) * n) |-> pair(p - 1)]
    IN  FoldLeft(Better, NoRun, SelectSeq(runs, LAMBDA r : r.count > 0))

\* The join is safe: enough letters, one place only, one language, and nothing that
\* contradicts before the anchor or after it.
Safe(fresh, tongue, m) ==
    LET before(tokens, n) == Key(SubSeq(tokens, 1, n))
        oldTail == Key(SubSeq(pending, m.old + m.count + 1, Len(pending)))
        newTail == Key(SubSeq(fresh, m.new + m.count + 1, Len(fresh)))
    IN  /\ m.score >= 2 /\ ~m.ambiguous /\ tongue = language
        /\ m.old > 0 /\ m.new > 0 => before(pending, m.old) = before(fresh, m.new)
        /\ m.old + m.count < Len(pending) =>
              /\ oldTail # << >> /\ IsPrefix(oldTail, newTail)
              /\ Last(pending).end >= endTime - Slack

\* Without old tokens before the anchor the new ones are kept.
Merged(fresh, m) ==
    SubSeq(pending, 1, m.old)
    \o SubSeq(fresh, IF m.old > 0 THEN m.new + 1 ELSE 1, Len(fresh))

-----------------------------------------------------------------------------
(* The stable prefix.                                                          *)

\* Faulty: the first pieces of a word whose rest may change are final.
BadWordBoundary(tokens, stable) == stable

\* A native word stays revisable as a whole; only Parakeet marks its words.
WordBoundary(tokens, stable) ==
    IF stable < Len(tokens) /\ tokens[stable + 1].mark = "inside"
    THEN Max({0} \cup {k - 1 : k \in {i \in 1..stable : tokens[i].mark = "start"}})
    ELSE stable

\* How many tokens no later window hears again, in complete characters and words.
Stable(tokens, cutoff) ==
    LET stable == Max({n \in 0..Len(tokens) : \A k \in 1..n : tokens[k].end <= cutoff})
        whole == Max({0} \cup {k \in 1..stable : ~tokens[k].open})
    IN  Min({whole, WordBoundary(tokens, stable)})

-----------------------------------------------------------------------------
(* accept() and finish(), as the output() calls they make.                     *)

Output(tokens, final, status) ==
    IF tokens = << >> THEN << >>
    ELSE <<[tokens |-> tokens, final |-> final, status |-> status]>>

\* A hypothesis: tokens with times clamped to the window, and whether any had to
\* be; first < new when the window overlaps the one before.  overlap is what the
\* next window will hear again.
Accept(fresh, tongue, clamped, first, new, end, overlap) ==
    LET beyond == ~clamped /\ \A k \in DOMAIN fresh : fresh[k].start > endTime + Tolerance
        closes == pending # << >> /\ (first >= new \/ beyond \/ fresh = << >>)
        match == Anchor(pending, fresh)
        joins == pending # << >> /\ ~closes /\ Safe(fresh, tongue, match)
        parts == pending # << >> /\ ~closes /\ ~joins
        old == IF closes \/ parts
               THEN Output(pending, TRUE, IF parts \/ uncertain THEN "UNRESOLVED" ELSE "DIRECT")
               ELSE << >>
        now == IF joins THEN Merged(fresh, match) ELSE fresh
        status == IF clamped \/ parts \/ (uncertain /\ ~closes) THEN "UNRESOLVED"
                  ELSE IF joins THEN "ALIGNED" ELSE "DIRECT"
        stable == Stable(now, IF overlap = 0 THEN Horizon ELSE end - overlap)
        rest == SubSeq(now, stable + 1, Len(now))
    IN  /\ outputs' = old \o Output(SubSeq(now, 1, stable), TRUE, status)
                          \o Output(rest, FALSE, "PENDING")
        /\ pending' = rest
        /\ uncertain' = (rest # << >> /\ status = "UNRESOLVED")
        /\ endTime' = end
        /\ language' = tongue

\* output(): the next segment goes to the registry under its id and revision.
Emit ==
    LET o == Head(outputs)
        next == IF id = 0 THEN uuids + 1 ELSE id
        number == IF id = 0 THEN 1 ELSE revision + 1
    IN  /\ outputs # << >> /\ Utf8(o.tokens)
        /\ Derived(Revision(next, number, o.final))
        /\ outputs' = Tail(outputs)
        /\ uuids' = Max({uuids, next})
        /\ id' = IF o.final THEN 0 ELSE next
        /\ revision' = IF o.final THEN 0 ELSE number
        /\ text' = IF o.final THEN text \o o.tokens ELSE text
        /\ doubt' = (doubt \/ (o.final /\ o.status = "UNRESOLVED"))
        /\ UNCHANGED <<heard, pending, language, endTime, uncertain, state>>

\* Input that does not validate, a limit, or an emit_ that throws: closed_.
Throws ==
    /\ state = "open" \/ outputs # << >>
    /\ state' = "failed"
    /\ outputs' = << >> /\ pending' = << >> /\ uncertain' = FALSE
    /\ UNCHANGED <<heard, language, endTime, emitter>>

\* Faulty: what is pending at the end stays provisional.
BadFinish ==
    /\ state = "open" /\ outputs = << >> /\ endTime = Horizon
    /\ state' = "finished"
    /\ UNCHANGED <<heard, pending, language, endTime, uncertain, outputs, emitter>>

Finish ==
    /\ state = "open" /\ outputs = << >> /\ endTime = Horizon
    /\ state' = "finished"
    /\ outputs' = Output(pending, TRUE, IF uncertain THEN "UNRESOLVED" ELSE "DIRECT")
    /\ pending' = << >>
    /\ UNCHANGED <<heard, language, endTime, uncertain, emitter>>

-----------------------------------------------------------------------------
(* What the model hears of a window: every word inside it; of a word that the  *)
(* window's start or end cuts, all of it, the pieces inside, or nothing.       *)

Words == {speech[i].word : i \in DOMAIN speech}
Pieces(w) == SelectSeq(speech, LAMBDA t : t.word = w)
Inside(t, first, end) == first <= t.start /\ t.end <= end
Clamp(n, first, end) == Max({first, Min({n, end})})
Clamped(t, first, end) == [t EXCEPT !.start = Clamp(@, first, end), !.end = Clamp(@, first, end)]
Garbled(tokens) == [k \in DOMAIN tokens |-> [tokens[k] EXCEPT !.key = <<"x", "x">>]]

\* Ways to hear a word.
Hearings(w, first, end) ==
    LET all == Pieces(w)
        in == SelectSeq(all, LAMBDA t : Inside(t, first, end))
    IN  IF in = all THEN {all} \cup (IF misheard < MaxMisheard THEN {Garbled(all)} ELSE {})
        ELSE IF Last(all).end <= first \/ Head(all).start >= end THEN {<< >>}
        ELSE {<< >>, all} \cup (IF Utf8(in) THEN {in} ELSE {})

\* Ways to hear a window.
Heard(first, end) ==
    {h \in [Words -> UNION {Hearings(w, first, end) : w \in Words}] :
        /\ \A w \in Words : h[w] \in Hearings(w, first, end)
        /\ misheard + Cardinality({w \in Words : h[w] # << >> /\ h[w] = Garbled(Pieces(w))})
              <= MaxMisheard}

\* The next window.  It ends at a pause or with the audio, without overlap, or at
\* its full length (Fixed, Forced) with one, even where no audio follows; the engine
\* may keep its own times inside it.
NextWindow ==
    /\ state = "open" /\ outputs = << >> /\ endTime < Horizon
    /\ \E length \in Lengths, overlap \in {0, Overlap},
          trims \in BOOLEAN, tongue \in Languages :
          LET end == Min({window.first + length, Horizon})
              quiet == \A w \in Words : Last(Pieces(w)).end <= end \/ Head(Pieces(w)).start >= end
          IN  /\ end > endTime
              /\ overlap = 0 => quiet
              /\ overlap > 0 => end = window.first + length
              /\ \E h \in Heard(window.first, end) :
                    LET raw == FlattenSeq([k \in 1..Max(Words) |-> h[k]])
                        fresh == [k \in DOMAIN raw |-> Clamped(raw[k], window.first, end)]
                    IN  /\ Accept(fresh, tongue, raw # fresh /\ ~trims, window.first, window.new,
                                  end, overlap)
                        /\ misheard' = misheard
                              + Cardinality({w \in Words : h[w] # << >> /\ h[w] = Garbled(Pieces(w))})
              /\ window' = [first |-> end - overlap, new |-> end]
    /\ UNCHANGED <<speech, state, emitter>>

Init ==
    /\ speech \in Speeches
    /\ window = [first |-> 0, new |-> 0]
    /\ misheard = 0
    /\ pending = << >> /\ language = "none" /\ endTime = 0 /\ uncertain = FALSE /\ outputs = << >>
    /\ id = 0 /\ revision = 0 /\ uuids = 0
    /\ text = << >> /\ doubt = FALSE
    /\ transcripts = << >>
    /\ state = "open"

Closed == state # "open" /\ outputs = << >> /\ UNCHANGED vars

Next == NextWindow \/ Emit \/ Throws \/ Finish \/ Closed

Spec == Init /\ [][Next]_vars

-----------------------------------------------------------------------------
(* Properties *)

Done == state = "finished" /\ outputs = << >>

\* The pieces of tokens, whatever was heard of them.
Said(tokens) == [k \in DOMAIN tokens |-> <<tokens[k].word, tokens[k].piece>>]

\* The positions in the text of pieces that come again later.
Repeated ==
    {k \in DOMAIN text : \E l \in DOMAIN text : l > k /\ Said(text)[l] = Said(text)[k]}

\* A finished transcript has every word that was said, even where windows heard it
\* differently.  When no final segment is marked UNRESOLVED and no word was heard
\* wrong, it is what was said, nothing dropped or out of order; and nothing comes
\* twice but the first pieces of a Whisper word that the stable prefix splits,
\* right before the word itself.
TranscriptIsWhole ==
    Done => /\ Words \subseteq {text[k].word : k \in DOMAIN text}
            /\ ~doubt /\ misheard = 0 =>
                  /\ LET kept == SetToSortSeq(DOMAIN text \ Repeated, <)
                     IN  [i \in DOMAIN kept |-> Said(text)[kept[i]]] = Said(speech)
                  /\ \A k \in Repeated :
                        text[k].mark = "none" /\ text[k + 1].word = text[k].word

\* The registry accepts every revision the reconciler emits (ids stay, revisions
\* count from one, nothing follows a final), and a finished transcript leaves no
\* segment behind without its final revision.
RevisionsAreAccepted ==
    /\ outputs # << >> =>
          /\ Utf8(Head(outputs).tokens)
          /\ Acceptable(Revision(IF id = 0 THEN uuids + 1 ELSE id,
                                 IF id = 0 THEN 1 ELSE revision + 1, Head(outputs).final))
    /\ Done => \A k \in DOMAIN transcripts : transcripts[k].final
=============================================================================
