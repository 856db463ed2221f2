---------------------------- MODULE MCTranscriber ----------------------------
(* Transcriber::run over short media: a few windows of three milliseconds, *)
(* two samples each, with every cut a decode can ask for.                  *)
EXTENDS Transcriber
=============================================================================
