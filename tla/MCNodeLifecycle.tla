--------------------------- MODULE MCNodeLifecycle ---------------------------
(* The run: a join whose two branches can end differently, and a task after *)
(* it, so that a failure travels two edges while the other branch still     *)
(* runs. The requests: every graph of three tasks, two tasks with every     *)
(* confusion of their ids, and one task with every payload.                 *)
EXTENDS StoredRun, SequencesExt

CONSTANTS left, right, join, tail

MCTasks == {left, right, join, tail}
MCNeeds ==
  [t \in MCTasks |->
     CASE t = join -> {left, right}
       [] t = tail -> {join}
       [] OTHER    -> {}]

(* The join may start, be blocked or wait for a prerequisite: every history *)
(* a task's records have is one of its.                                     *)
MCAsked == {join}

(* Nothing tells the two prerequisites apart.                               *)
MCSymmetry == Permutations({left, right})

-----------------------------------------------------------------------------
Id(name) == [name |-> name, padded |-> FALSE]
Padded(name) == [name |-> name, padded |-> TRUE]

Plain == [profile |-> "worker", review |-> None, check |-> None, bytes |-> 1]
Submit(tasks, concurrency) == [via |-> "tool", tasks |-> tasks, concurrency |-> concurrency]

Join ==
  LET N == <<<<>>, <<>>, <<2, 1>>, <<3>>>>
  IN  Submit([i \in 1..4 |->
        [id |-> IF i = 3 THEN Padded(i) ELSE Id(i),
         needs |-> [j \in DOMAIN N[i] |-> Id(N[i][j])], payload |-> Plain]], 2)

AllGraphs ==
  {Submit([i \in 1..3 |->
      [id |-> Id(i), needs |-> SetToSeq({Id(j) : j \in needs[i]}), payload |-> Plain]], None)
    : needs \in [1..3 -> SUBSET (1..3)]}

Lists(n) == UNION {[1..k -> {Id(1), Padded(1), Id(2), Id(3), Padded(0)}] : k \in 0..n}
Confusions ==
  {[via |-> "library", concurrency |-> 1, tasks |->
      <<[id |-> a, needs |-> m, payload |-> Plain], [id |-> b, needs |-> n, payload |-> Plain]>>]
    : a \in {Id(0), Id(1), Padded(2)}, b \in {Padded(1), Id(2)},
      m \in Lists(2), n \in Lists(1)}

MCPayloads ==
  [profile : {"worker", "unknown"}, bytes : {1, 3},
   review : {None} \cup [profile : {"reviewer", "unknown"}, rounds : {0, 1, 2}, bytes : {1, 3}],
   check : {None} \cup [commands : {0, 1, 2}, rounds : {0, 1, 2}]]
OneTask ==
  {[via |-> via, concurrency |-> c, tasks |-> <<[id |-> Id(1), needs |-> <<>>, payload |-> p]>>]
    : via \in {"tool", "library"}, c \in {None, -1, 0, 2, 3}, p \in MCPayloads}

(* Payloads that fit one by one and not together, and too many tasks.       *)
Heavy ==
  {[via |-> via, concurrency |-> 1, tasks |->
      [i \in 1..n |-> [id |-> Id(i), needs |-> <<>>, payload |-> [Plain EXCEPT !.bytes = 2]]]]
    : via \in {"tool", "library"}, n \in {0, 2, 4, 5}}

MCFollowed == {Join}
MCRequests == MCFollowed \cup AllGraphs \cup Confusions \cup OneTask \cup Heavy
=============================================================================
