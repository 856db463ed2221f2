----------------------------- MODULE MCModelPool -----------------------------
(* Instances of ModelPool for TLC.  The configurations give the constants  *)
(* as model values; streams are interchangeable, but the liveness          *)
(* properties rule symmetry out.                                           *)
EXTENDS ModelPool
=============================================================================
