-------------------------- MODULE MCSimpleTaskQueue --------------------------
(* Small instances of the task queue: the loop thread and two client       *)
(* threads.  The configurations choose the tasks and the calls.            *)
EXTENDS SimpleTaskQueue, TLC

(* The client threads are interchangeable.                                 *)
ClientSymmetry == Permutations(Thread \ {Looper})
=============================================================================
