------------------------------ MODULE MCSeries ------------------------------
(* A small instance of Series.tla for TLC: a part of two pieces, then a    *)
(* part of one.                                                            *)
EXTENDS Series, TLC

TwoThenOne == <<2, 1>>
Symmetry == Permutations(Caller)
=============================================================================
