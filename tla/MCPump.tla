------------------------------- MODULE MCPump -------------------------------
(***************************************************************************)
(* Instances of CallbackPump for TLC: two threads, the second of the       *)
(* higher priority, and two alarms, the first of which fires sooner.       *)
(***************************************************************************)
EXTENDS CallbackPump, TLC

CONSTANTS a, b, t1, t2

Urgent == (a :> 1) @@ (b :> 0)
Delays == (t1 :> 1) @@ (t2 :> 2)
=============================================================================
