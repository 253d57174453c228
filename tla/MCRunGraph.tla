----------------------------- MODULE MCRunGraph -----------------------------
(* A task with two dependents, one on its own, and a join of one of each: a *)
(* frontier wider than the executions left, an indirect prerequisite, and   *)
(* two ways for the join to be blocked.                                     *)
EXTENDS RunGraph

CONSTANTS root, left, right, alone, join

MCTasks == {root, left, right, alone, join}
MCNeeds ==
  [t \in MCTasks |->
     CASE t \in {left, right} -> {root}
       [] t = join            -> {left, alone}
       [] OTHER               -> {}]
=============================================================================
