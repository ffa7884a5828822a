------------------------------ MODULE MCRelay ------------------------------
(* A small instance of Relay.tla, with its account, for TLC.               *)
EXTENDS Relay, TLC

Symmetry == Permutations(Request)
=============================================================================
