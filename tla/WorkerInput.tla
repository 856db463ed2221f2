----------------------------- MODULE WorkerInput -----------------------------
(* What the speech worker accepts on one Transcribe stream: the checks that    *)
(* SpeechWorker::Transcribe makes on every window before it runs the model,    *)
(* and the position it keeps between windows.  It is the promise a window      *)
(* cutter has to keep; Windowing is shown to implement it.                     *)
EXTENDS Naturals

CONSTANT MaxWindowSamples    \* SpeechWorker::max_window_samples

VARIABLES count,                \* windows accepted so far
          end,                  \* first sample after the last accepted window
          afterDiscontinuity,   \* the last accepted window closed a timeline run
          afterEnd,             \* the last accepted window closed the audio
          window                \* the request being served

workerVars == <<count, end, afterDiscontinuity, afterEnd, window>>

Init ==
    /\ count = 0
    /\ end = 0
    /\ afterDiscontinuity = FALSE
    /\ afterEnd = FALSE

\* The require() calls of the window branch, in order.  (The position limit of
\* 10^14 samples, two centuries of audio, is left out.)
Acceptable(x) ==
    /\ ~afterEnd
    /\ x.number = count + 1
    /\ x.count > 0
    /\ x.count <= MaxWindowSamples
    /\ x.firstNew >= x.first
    /\ x.firstNew < x.first + x.count
    /\ IF count > 0 THEN x.firstNew = end ELSE x.firstNew = x.first
    /\ afterDiscontinuity => x.first = end

Accept ==
    /\ Acceptable(window')
    /\ count' = count + 1
    /\ end' = window'.first + window'.count
    /\ afterDiscontinuity' = (window'.boundary = "Discontinuity")
    /\ afterEnd' = (window'.boundary = "End")

Spec == Init /\ [][Accept]_workerVars
=============================================================================
