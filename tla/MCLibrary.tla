----------------------------- MODULE MCLibrary -----------------------------
(* Small instances of Library.tla and Forms.tla for TLC. They share no     *)
(* state, so pairs of their states say nothing more: the forms are tried   *)
(* before the first request.                                               *)
EXTENDS Library, Forms, TLC

Symmetry == Permutations(Request)

SomeDays == {1, 31}
SomeSources == [lane : 0..2, length : 1..3]
Plans == {plan \in UNION {[1..n -> SomeSources] : n \in 1..3} : LanesValid(plan)}

MCInit == Init /\ form = Blank
MCNext ==
  \/ form = Blank /\ Next /\ UNCHANGED form
  \/ Init /\ FormNext /\ UNCHANGED vars
MCSpec == MCInit /\ [][MCNext]_<<vars, form>>
=============================================================================
