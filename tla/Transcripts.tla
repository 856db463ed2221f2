----------------------------- MODULE Transcripts -----------------------------
(* The transcript part of a stream's snapshot in the registry: what            *)
(* Registry::derived asks of a transcript revision before it publishes it, and *)
(* what it keeps to compare the next one with.                                 *)
EXTENDS Naturals, Sequences

CONSTANT MaxTranscripts     \* how many segments a snapshot keeps

VARIABLE transcripts        \* snapshot.transcripts: newest revision of a segment each

\* A revision: segment_id, revision, final.
Revision(id, number, final) == [id |-> id, revision |-> number, final |-> final]

\* The require() calls of derived that compare a transcript with its past.
Acceptable(t) ==
    /\ t.revision > 0
    /\ \A k \in DOMAIN transcripts :
          transcripts[k].id = t.id => /\ ~transcripts[k].final
                                      /\ t.revision = transcripts[k].revision + 1

Others(t) == SelectSeq(transcripts, LAMBDA prior : prior.id # t.id)

\* The revision replaces its predecessor; the oldest segments are forgotten.
Derived(t) ==
    LET all == Append(Others(t), t)
    IN  /\ Acceptable(t)
        /\ transcripts' = IF Len(all) > MaxTranscripts THEN Tail(all) ELSE all
=============================================================================
