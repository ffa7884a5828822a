------------------------------ MODULE MCWorker ------------------------------
(* Small instances of Worker.tla for TLC. Keys and payloads are only       *)
(* compared for equality, so both are symmetric.                           *)
EXTENDS Worker, TLC

Symmetry == Permutations(Key) \cup Permutations(Payload)
=============================================================================
