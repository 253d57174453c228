---------------------------- MODULE MCRunCapacity ----------------------------
(* Small instances of RunCapacity. Creators are interchangeable (each       *)
(* starts with any limit), and so are deleters.                             *)
EXTENDS RunCapacity, TLC

Interchangeable == Permutations(Creators) \cup Permutations(Deleters)
=============================================================================
