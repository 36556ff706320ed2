---------------------------- MODULE MCNodeStatus ----------------------------
(***************************************************************************)
(* One node that sleeps and one that listens.                              *)
(***************************************************************************)
EXTENDS NodeStatus

CONSTANTS sleeper, listener
=============================================================================
