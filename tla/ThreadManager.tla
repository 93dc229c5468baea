---------------------------- MODULE ThreadManager ----------------------------
(***************************************************************************)
(* simple_thread_manager and the task_threads it owns                      *)
(* (ddm/src/thread/thread_manager): a fast thread, up to                   *)
(* GetBlockTaskThreadCount threads for tasks that block, a heart beat      *)
(* thread, all started when first needed and stopped by stop_all.          *)
(*                                                                         *)
(* A task_thread's queue is what SimpleTaskQueue and HeartbeatTaskQueue    *)
(* show it to be: tasks are taken in order, and after stop() no more, so   *)
(* that the loop ends when the current task has returned.  A task is named *)
(* by what it does: nothing, or a call of the manager from its own thread. *)
(* Putting a heart beat task back is left to HeartbeatTaskQueue.           *)
(***************************************************************************)
EXTENDS Naturals, Sequences, Functions

CONSTANTS
  User,         \* the threads that use the manager
  Nobody,       \* no thread
  GetBlockTaskThreadCount,
  Calls,        \* the pushes that users make: calls and tasks
  MaxThreads,   \* bound: task_thread objects at a time
  MaxPushes     \* bound: how many tasks users push

Id   == 1 .. MaxThreads
NoId == 0           \* nullptr
Push == {"push_fast_task", "push_block_task", "push_heartbeat_task"}
Task == Push \union {"nothing"}

ASSUME ThreadManagerAssumption ==
  /\ User \intersect Id = {} /\ Nobody \notin User \union Id
  /\ GetBlockTaskThreadCount \in Nat \ {0}
  /\ Calls \subseteq Push \X Task
  /\ MaxThreads \in Nat /\ MaxPushes \in Nat

VARIABLES
  m_mutex,      \* its owner
  fast, blocks, heart,   \* m_spFastThreadTaskQueue and the others
  que,          \* the queue of each task_thread
  current,      \* ... its task, "none" between two
  m_stop,       \* the task_threads that were told to stop
  loop,         \* where the loop of each is
  at,           \* the call each thread is in
  want,         \* ... and the task it brings
  pick,         \* the search for the shortest queue
  pushes        \* how many tasks users have pushed

slots == <<fast, blocks, heart>>
queues == <<que, current, m_stop, loop>>
calls  == <<at, want, pushes>>
vars   == <<m_mutex, slots, queues, calls, pick>>

NoPick == [best |-> 0, next |-> 0, count |-> 0]

Init ==
  /\ m_mutex = Nobody
  /\ fast = NoId /\ blocks = <<>> /\ heart = NoId
  /\ que = [i \in Id |-> <<>>]
  /\ current = [i \in Id |-> "none"]
  /\ m_stop = {}
  /\ loop = [i \in Id |-> "none"]
  /\ at = [c \in User \union Id |-> "idle"]
  /\ want = [c \in User \union Id |-> "nothing"]
  /\ pick = NoPick
  /\ pushes = 0

get_task_count(i) == Len(que[i]) + (IF current[i] # "none" THEN 1 ELSE 0)

(* What the manager refers to, in the order in which stop_all goes.        *)
One(slot) == IF slot = NoId THEN <<>> ELSE <<slot>>

Order == One(fast) \o blocks \o One(heart)

Managed == Range(Order)
Unused  == {i \in Id : loop[i] = "none" /\ \A j \in 1 .. i - 1 : loop[j] # "none"}

-----------------------------------------------------------------------------
(* The calls                                                               *)

Call(u, op, task) ==
  /\ at[u] = "idle"
  /\ pushes < MaxPushes
  /\ pushes' = pushes + 1
  /\ at' = [at EXCEPT ![u] = op]
  /\ want' = [want EXCEPT ![u] = task]
  /\ UNCHANGED <<m_mutex, slots, queues, pick>>

(* push_task of thread i, which is started if it is new.                   *)
PushTo(i, c) ==
  /\ que' = [que EXCEPT ![i] = Append(@, want[c])]
  /\ loop' = [loop EXCEPT ![i] = "run"]
  /\ UNCHANGED <<current, m_stop>>

Returns(c) ==
  /\ at' = [at EXCEPT ![c] = IF c \in User THEN "idle" ELSE "back"]
  /\ want' = [want EXCEPT ![c] = "nothing"]
  /\ UNCHANGED pushes

(* The thread of a slot, or a new one.                                     *)
Started(slot) == IF slot # NoId THEN {slot} ELSE Unused

PushFastTask(c) ==
  /\ at[c] = "push_fast_task"
  /\ m_mutex = Nobody
  /\ \E i \in Started(fast) : fast' = i /\ PushTo(i, c)
  /\ Returns(c)
  /\ UNCHANGED <<m_mutex, blocks, heart, pick>>

(* What its caller does with the weak_ptr is left out.                     *)
GetFastThread(u) ==
  /\ at[u] = "idle"
  /\ m_mutex = Nobody
  /\ \E i \in Started(fast) : fast' = i /\ loop' = [loop EXCEPT ![i] = "run"]
  /\ UNCHANGED <<m_mutex, blocks, heart, que, current, m_stop, calls, pick>>

PushHeartbeatTask(c) ==
  /\ at[c] = "push_heartbeat_task"
  /\ m_mutex = Nobody
  /\ \E i \in Started(heart) : heart' = i /\ PushTo(i, c)
  /\ Returns(c)
  /\ UNCHANGED <<m_mutex, fast, blocks, pick>>

NewBlockThread(c) == \E i \in Unused : blocks' = Append(blocks, i) /\ PushTo(i, c)

(* push_block_task locks m_mutex and compares the queues' lengths, each of *)
(* which it reads with the queue's own lock only.                          *)
PushBlockTask(c) ==
  /\ at[c] = "push_block_task"
  /\ m_mutex = Nobody
  /\ m_mutex' = c
  /\ pick' = [best |-> 1, next |-> 2, count |-> 0]
  /\ at' = [at EXCEPT ![c] = "read"]
  /\ UNCHANGED <<slots, queues, want, pushes>>

ReadBest(c) ==
  /\ at[c] = "read" /\ pick.next <= Len(blocks)
  /\ pick' = [pick EXCEPT !.count = get_task_count(blocks[pick.best])]
  /\ at' = [at EXCEPT ![c] = "compare"]
  /\ UNCHANGED <<m_mutex, slots, queues, want, pushes>>

Compare(c) ==
  /\ at[c] = "compare"
  /\ pick' = [best  |-> IF pick.count > get_task_count(blocks[pick.next]) THEN pick.next ELSE pick.best,
              next  |-> pick.next + 1,
              count |-> 0]
  /\ at' = [at EXCEPT ![c] = "read"]
  /\ UNCHANGED <<m_mutex, slots, queues, want, pushes>>

(* Mutant: a thread that runs a task counts as free.                       *)
NeedsThreadQueued ==
  IF blocks = <<>> THEN TRUE ELSE que[blocks[pick.best]] # <<>> /\ Len(blocks) < GetBlockTaskThreadCount

(* The shortest queue has a task, waiting or running, and there may be     *)
(* another thread.                                                         *)
NeedsThread ==
  IF blocks = <<>> THEN TRUE ELSE get_task_count(blocks[pick.best]) # 0 /\ Len(blocks) < GetBlockTaskThreadCount

PushPicked(c) ==
  /\ at[c] = "read" /\ pick.next > Len(blocks)
  /\ \/ NeedsThread /\ NewBlockThread(c)
     \/ ~NeedsThread /\ PushTo(blocks[pick.best], c) /\ UNCHANGED blocks
  /\ m_mutex' = Nobody
  /\ pick' = NoPick
  /\ Returns(c)
  /\ UNCHANGED <<fast, heart>>

-----------------------------------------------------------------------------
(* stop_all keeps m_mutex to its end                                       *)

StopAll(u) ==
  /\ at[u] = "idle"
  /\ m_mutex = Nobody
  /\ m_mutex' = u
  /\ at' = [at EXCEPT ![u] = "stop_all"]
  /\ UNCHANGED <<slots, queues, pick, want, pushes>>

Ended(i) == i \in m_stop /\ loop[i] = "end"

(* Mutant: the queue is emptied and not told to stop.                      *)
StopOneClears(u) ==
  /\ at[u] = "stop_all"
  /\ \E k \in DOMAIN Order :
       /\ Order[k] \notin m_stop /\ \A j \in 1 .. k - 1 : Ended(Order[j])
       /\ que' = [que EXCEPT ![Order[k]] = <<>>]
  /\ UNCHANGED <<m_mutex, slots, current, m_stop, loop, calls, pick>>

(* One after the other: stop() of its queue, then the wait for its end.    *)
StopOne(u) ==
  /\ at[u] = "stop_all"
  /\ \E k \in DOMAIN Order :
       /\ Order[k] \notin m_stop /\ \A j \in 1 .. k - 1 : Ended(Order[j])
       /\ m_stop' = m_stop \union {Order[k]}
       /\ que' = [que EXCEPT ![Order[k]] = <<>>]
  /\ UNCHANGED <<m_mutex, slots, current, loop, calls, pick>>

(* Mutant: the heart beat thread is not forgotten.                         *)
ResetsButHeart == fast' = NoId /\ blocks' = <<>> /\ UNCHANGED heart

(* The resets, which nobody can tell from one at the end, m_mutex being    *)
(* locked: each task_thread's destructor joins a thread that is over.      *)
Resets == fast' = NoId /\ blocks' = <<>> /\ heart' = NoId

StopAllReturns(u) ==
  /\ at[u] = "stop_all"
  /\ \A i \in Managed : Ended(i)
  /\ Resets
  /\ loop' = [i \in Id |-> IF i \in Managed THEN "none" ELSE loop[i]]
  /\ m_stop' = m_stop \ Managed
  /\ m_mutex' = Nobody
  /\ at' = [at EXCEPT ![u] = "idle"]
  /\ UNCHANGED <<que, current, want, pushes, pick>>

-----------------------------------------------------------------------------
(* The loop of a task_thread                                               *)

TakeTask(i) ==
  /\ loop[i] = "run" /\ current[i] = "none"
  /\ i \notin m_stop /\ que[i] # <<>>
  /\ current' = [current EXCEPT ![i] = Head(que[i])]
  /\ que' = [que EXCEPT ![i] = Tail(@)]
  /\ UNCHANGED <<m_mutex, slots, m_stop, loop, calls, pick>>

TaskCalls(i) ==
  /\ current[i] \in Push /\ at[i] = "idle"
  /\ at' = [at EXCEPT ![i] = current[i]]
  /\ UNCHANGED <<m_mutex, slots, queues, want, pushes, pick>>

TaskReturns(i) ==
  /\ current[i] = "nothing" \/ at[i] = "back"
  /\ current' = [current EXCEPT ![i] = "none"]
  /\ at' = [at EXCEPT ![i] = "idle"]
  /\ UNCHANGED <<m_mutex, slots, que, m_stop, loop, want, pushes, pick>>

LoopEnds(i) ==
  /\ loop[i] = "run" /\ current[i] = "none"
  /\ i \in m_stop
  /\ loop' = [loop EXCEPT ![i] = "end"]
  /\ UNCHANGED <<m_mutex, slots, que, current, m_stop, calls, pick>>

-----------------------------------------------------------------------------
PushStep(c) == PushFastTask(c) \/ PushHeartbeatTask(c) \/ PushBlockTask(c) \/ ReadBest(c) \/ Compare(c) \/ PushPicked(c)

StopStep(u) == StopOne(u) \/ StopAllReturns(u)

LoopStep(i) == TakeTask(i) \/ TaskCalls(i) \/ TaskReturns(i) \/ LoopEnds(i)

Next ==
  \/ \E u \in User : GetFastThread(u) \/ StopAll(u) \/ StopStep(u) \/ \E c \in Calls : Call(u, c[1], c[2])
  \/ \E c \in User \union Id : PushStep(c)
  \/ \E i \in Id : LoopStep(i)

(* Threads run on, and a task ends.                                        *)
Fairness ==
  /\ \A c \in User \union Id : WF_vars(PushStep(c))
  /\ \A u \in User : WF_vars(StopStep(u))
  /\ \A i \in Id : WF_vars(LoopStep(i))

Safety == Init /\ [][Next]_vars

Spec == Safety /\ Fairness

-----------------------------------------------------------------------------
(* Whenever m_mutex is free, the threads that run are those the manager    *)
(* refers to, each from one place, and none of them was told to stop: no   *)
(* thread is left behind by stop_all, and a task pushed after it goes to a *)
(* thread that takes tasks (simple_thread_manager.cpp:14-124).             *)
ManagedRun ==
  m_mutex = Nobody =>
    IsInjective(Order) /\ Managed = {i \in Id : loop[i] = "run"} /\ m_stop = {}

(* A task that blocks is put behind another only when there are as many    *)
(* threads as allowed, although the lengths that push_block_task compares  *)
(* are out of date when it uses them (simple_thread_manager.cpp:72-104).   *)
BehindWhenFull ==
  [][\A i \in Range(blocks) :
       get_task_count(i)' > get_task_count(i) /\ get_task_count(i) > 0
         => Len(blocks) >= GetBlockTaskThreadCount]_vars

(* stop_all returns unless a task it has to wait for is itself before the  *)
(* lock of m_mutex, which stop_all keeps: the two then wait for each other *)
(* (simple_thread_manager.cpp:16, 52, 71, 108).                            *)
StopAllEnds ==
  \A u \in User :
    at[u] = "stop_all" ~> (at[u] = "idle" \/ (m_mutex = u /\ \E i \in Managed : at[i] \in Push))
=============================================================================
