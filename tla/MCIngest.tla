------------------------------ MODULE MCIngest ------------------------------
(* A call with one speech task beside another client of the worker, or with    *)
(* two tasks, with and without room for all of them in the worker.             *)
EXTENDS Ingest, TLC

CONSTANTS c1, rival

MCStreams == {<<c1, 1>>, <<c1, 2>>, rival}
=============================================================================
