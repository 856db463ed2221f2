---------------------------- MODULE MCReconciler ----------------------------
(* Short utterances against windows of two lengths, in hundredths of a second. *)
EXTENDS Reconciler

Token(w, p, key, mark, start, end) ==
    [word |-> w, piece |-> p, key |-> key, mark |-> mark, start |-> start, end |-> end,
     cont |-> FALSE, open |-> FALSE]

\* Words of one piece, the later ones shifted by an offset.
Plain(shift) == <<Token(1, 1, <<"a", "b">>, "start", 5, 30),
                  Token(2, 1, <<"c", "d">>, "start", 35 + shift, 65 + shift),
                  Token(3, 1, <<"e">>, "start", 70 + shift, 85 + shift),
                  Token(4, 1, <<"a", "b">>, "start", 130 + shift, 150 + shift)>>
\* Words of two pieces, one with a character split between them.
Pieced(shift) == <<Token(1, 1, <<"a", "b">>, "start", 10, 30), Token(1, 2, <<"c">>, "inside", 30, 45),
                   [Token(2, 1, <<"d">>, "start", 50 + shift, 70 + shift) EXCEPT !.open = TRUE],
                   [Token(2, 2, <<"d", "e">>, "inside", 70 + shift, 90 + shift) EXCEPT !.cont = TRUE],
                   Token(3, 1, <<"f", "g">>, "start", 100 + shift, 130 + shift)>>

\* The same pieces as Whisper gives them, which marks no words.
Unmarked(said) == [i \in DOMAIN said |-> [said[i] EXCEPT !.mark = "none"]]

MCSpeeches == {Plain(s) : s \in {0, 10, 20, 30}} \cup {Pieced(s) : s \in {0, 10, 20, 30}}
              \cup {Unmarked(Pieced(s)) : s \in {0, 10, 20, 30}}
=============================================================================
