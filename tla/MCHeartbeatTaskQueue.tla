------------------------ MODULE MCHeartbeatTaskQueue ------------------------
(* The heartbeat queue with small sets of threads and tasks.               *)
EXTENDS HeartbeatTaskQueue, TLC

CONSTANTS once, twice, ever

(* The tasks by the number of their runs and by their intervals.           *)
TimesOf    == [x \in Task |-> CASE x = once -> 1 [] x = twice -> 2 [] OTHER -> -1]
Intervals  == [x \in Task |-> IF x = ever THEN 2 ELSE IF x = twice THEN 1 ELSE 0]
AlwaysDue  == [x \in Task |-> 0]
ClientSymmetry == Permutations(Thread \ {Looper})
=============================================================================
