-------------------------- MODULE MCClientManager --------------------------
(* A small instance of ClientManager for TLC. *)
EXTENDS ClientManager

CONSTANTS p, r1, r2
=============================================================================
