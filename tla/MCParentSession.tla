--------------------------- MODULE MCParentSession ---------------------------
(* Two tasks; a node whose report is worth shortening, one whose report is  *)
(* small, one without that has diagnostics to show, and a blocked one,      *)
(* which is smaller than what is kept for it.                               *)
EXTENDS ParentSession, TLC

Symmetry == Permutations(Calls) \cup Permutations(Profiles) \cup Permutations(Tasks)

MCShapes ==
  {[reported |-> TRUE,  full |-> 5, brief |-> 4, unrounded |-> 3, bare |-> 2, base |-> 2],
   [reported |-> TRUE,  full |-> 2, brief |-> 2, unrounded |-> 2, bare |-> 1, base |-> 1],
   [reported |-> FALSE, full |-> 0, brief |-> 0, unrounded |-> 0, bare |-> 1, base |-> 3],
   [reported |-> FALSE, full |-> 0, brief |-> 0, unrounded |-> 0, bare |-> 2, base |-> 1]}
=============================================================================
