------------------------- MODULE MCControllerRecovery -------------------------
(***************************************************************************)
(* A node with a command in either queue, another node with a command, and *)
(* a command to the controller.                                            *)
(***************************************************************************)
EXTENDS ControllerRecovery

CONSTANTS n1, n2, set, nonce, other, get

MCNodeOf == [c \in Send |-> IF c = other THEN n2 ELSE n1]
=============================================================================
