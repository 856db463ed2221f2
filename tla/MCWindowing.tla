----------------------------- MODULE MCWindowing -----------------------------
(* Every valid policy over small lengths, fixed and speech-aware.              *)
EXTENDS Windowing

CONSTANTS MaxLength, MaxPadding

SmallPolicies ==
    [target : 1..MaxLength, max : 1..MaxLength, overlap : 0..2, minPause : 1..3,
     padding : 0..MaxPadding, speechAware : {TRUE}, failWithoutPause : BOOLEAN]
    \cup
    [target : 1..MaxLength, max : {MaxLength}, overlap : 0..2, minPause : {0},
     padding : {0}, speechAware : {FALSE}, failWithoutPause : {FALSE}]
=============================================================================
