----------------------------- MODULE MCTimeline -----------------------------
(* Fixed windows and speech-aware windows, with and without overlap.          *)
EXTENDS Timeline

Fixed(target, overlap) ==
    [target |-> target, max |-> target, overlap |-> overlap, minPause |-> 0,
     padding |-> 0, speechAware |-> FALSE, failWithoutPause |-> FALSE]

SpeechAware(overlap, fail) ==
    [target |-> 2, max |-> 3, overlap |-> overlap, minPause |-> 1, padding |-> 0,
     speechAware |-> TRUE, failWithoutPause |-> fail]

MCPolicies == {Fixed(3, 1), Fixed(2, 0), SpeechAware(1, FALSE), SpeechAware(0, TRUE)}

MCJumps == {-3, 0, 1, 4}
=============================================================================
