-------------------------- MODULE MCAsrTranscribe --------------------------
(* One call of Transcribe on bounded media: every interleaving of the RPC, *)
(* worker and keyframe threads with the client going away at any point.    *)
EXTENDS AsrTranscribe
=============================================================================
