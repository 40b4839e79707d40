------------------------------ MODULE MCNetwork ------------------------------
(***************************************************************************)
(* Instances of DeferredNetwork for TLC.                                   *)
(***************************************************************************)
EXTENDS DeferredNetwork, TLC
=============================================================================
