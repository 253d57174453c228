------------------------------ MODULE StoredRun ------------------------------
(****************************************************************************)
(* A request and what becomes of it: Admission decides whether there is a   *)
(* run at all and of which graph, RunReader follows the records of a run of *)
(* the graph Tasks and Needs stand for. Other admitted graphs stop there.   *)
(****************************************************************************)
EXTENDS RunReader, Admission

CONSTANT Followed   \* the requests of that graph, whose run is followed

ASSUME FollowedAssumption == Followed \subseteq Requests

StoredInit == AdmissionInit /\ ReaderInit

(* acquireRunOwnership: the run of the graph begins. Its first records were *)
(* written with the manifest.                                               *)
Begin ==
  /\ \E followed \in Followed : request.tasks = NormalTasks(followed.tasks)
  /\ Run
  /\ UNCHANGED vars

StoredNext ==
  \/ Admit /\ UNCHANGED vars
  \/ Begin
  \/ stage = "running" /\ ReaderNext /\ UNCHANGED admission

StoredSpec == StoredInit /\ [][StoredNext]_<<vars, admission>>
=============================================================================
