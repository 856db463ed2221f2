----------------------------- MODULE MCRegistry -----------------------------
(* A small registry whose subscriber follows two of three streams and one kind *)
(* of payload while UUIDs are opened, closed, evicted and opened again.  A     *)
(* "packet" is larger than the retention budget.                               *)
EXTENDS Registry, TLC

CONSTANTS client, s1, s2, s3

MCPicks == client :> {s1, s2}
MCWants == client :> {"source"}
MCCharge == ("opened" :> 1) @@ ("closed" :> 1) @@ ("source" :> 1) @@ ("packet" :> 3)
=============================================================================
