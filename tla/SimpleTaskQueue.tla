--------------------------- MODULE SimpleTaskQueue ---------------------------
(***************************************************************************)
(* The bounded task queue ddm/src/thread/task/simple_task_queue.cpp, a     *)
(* simple_loop whose loop_core() takes tasks from the front of m_taskQue   *)
(* and runs them.  Any thread calls push_task, clear_queue, clear_all,     *)
(* stop_current, set_max_cnt and stop, a running task included.            *)
(*                                                                         *)
(* Every access to the queue is under the recursive m_mutex, so a locked   *)
(* section is one action; do_task(), the m_push_cv.notify_one() after it   *)
(* and the one that ends a direct clear_queue() are outside the lock and   *)
(* are steps of their own.  m_push_cv is the set of the pushers asleep on  *)
(* it; a pusher that is in push[t] = "wait..." and not in m_push_cv has    *)
(* been woken and has yet to lock m_mutex again.  m_dotask_cv needs no     *)
(* state: its only waiter sleeps at most 100 ms and does the same thing    *)
(* whatever ended its sleep.                                               *)
(***************************************************************************)
EXTENDS SimpleLoop, Naturals, Sequences, Functions

CONSTANTS
  Task,         \* the tasks; each object is pushed at most once
  NoTask,       \* nullptr, as the value of m_currentTask
  NullTask,     \* the pushed tasks that are null pointers
  Endless,      \* the tasks whose do_task() runs until their stop() is called
  MaxU32,       \* MAX_U32, the "unlimited" value of m_max_cnt
  InitMaxCnt,   \* the constructor's max_cnt
  MaxCnts,      \* the values set_max_cnt is called with
  Ops,          \* the operations other than push_task that threads call
  TaskOps       \* the operations a running task calls on its own queue

OpNames == {"stop", "stop_current", "clear_all", "clear_queue", "set_max_cnt"}

ASSUME QueueAssumption ==
  /\ NoTask \notin Task
  /\ NullTask \subseteq Task
  /\ Endless \subseteq Task
  /\ MaxU32 \in Nat
  /\ InitMaxCnt \in 0 .. MaxU32
  /\ MaxCnts \subseteq 0 .. MaxU32
  /\ Ops \subseteq OpNames
  /\ TaskOps \subseteq OpNames \union {"push_task"}

VARIABLES
  m_taskQue,
  m_currentTask,
  m_max_cnt,
  m_push_cv,
  core,         \* where the Looper is in loop_core()
  push,         \* where each thread is in push_task() or clear_queue()
  arg,          \* the task each thread is pushing
  asked,        \* the tasks whose stop() has been called
  accepted,     \* history: push_task returned true, in this order, ...
  refused,      \* ... returned false,
  started,      \* ... do_task() was called, in this order
  dropped,      \* ... the task was thrown away by a clear
  late          \* ... the tasks started after m_stop was set

queueVars == <<m_taskQue, m_currentTask, m_max_cnt, m_push_cv, core, push, arg, asked>>
history   == <<accepted, refused, started, dropped, late>>
vars      == <<queueVars, history, loopVars>>

CoreStates == {"top", "wait", "do_task", "notify", "reset"}
PushStates == {"idle", "wait", "wait_for", "timeout", "notify"}

TypeOK ==
  /\ LoopTypeOK
  /\ m_taskQue \in Seq(Task)
  /\ m_currentTask \in Task \union {NoTask}
  /\ m_max_cnt \in 0 .. MaxU32
  /\ m_push_cv \subseteq Thread
  /\ core \in CoreStates
  /\ push \in [Thread -> PushStates]
  /\ arg \in [Thread -> Task \union {NoTask}]
  /\ asked \subseteq Task
  /\ accepted \in Seq(Task)
  /\ refused \subseteq Task
  /\ started \in Seq(Task)
  /\ dropped \subseteq Task
  /\ late \subseteq Task

Init ==
  /\ LoopInit
  /\ m_taskQue = <<>>
  /\ m_currentTask = NoTask
  /\ m_max_cnt = InitMaxCnt
  /\ m_push_cv = {}
  /\ core = "top"
  /\ push = [t \in Thread |-> "idle"]
  /\ arg = [t \in Thread |-> NoTask]
  /\ asked = {}
  /\ accepted = <<>>
  /\ refused = {}
  /\ started = <<>>
  /\ dropped = {}
  /\ late = {}

-----------------------------------------------------------------------------
(* Thread t is free to call op: a client thread between calls, or the task *)
(* that the Looper is running.                                             *)
Free(t, op, ops) ==
  /\ push[t] = "idle"
  /\ MayCall(t)
  /\ IF t = Looper THEN core = "do_task" /\ op \in TaskOps ELSE op \in ops

(* m_push_cv.notify_one()                                                  *)
NotifyPushers ==
  \/ m_push_cv = {} /\ UNCHANGED m_push_cv
  \/ \E s \in m_push_cv : m_push_cv' = m_push_cv \ {s}

-----------------------------------------------------------------------------
(* push_task                                                               *)

HasRoom == m_max_cnt = MaxU32 \/ Len(m_taskQue) < m_max_cnt

Fresh(task) == task \notin Range(accepted) \union refused \union {arg[s] : s \in Thread}

PushReturnsTrue(t, task) ==
  /\ m_taskQue' = Append(m_taskQue, task)
  /\ accepted' = Append(accepted, task)
  /\ push' = [push EXCEPT ![t] = "idle"]
  /\ arg' = [arg EXCEPT ![t] = NoTask]
  /\ UNCHANGED <<m_push_cv, refused>>

PushReturnsFalse(t, task) ==
  /\ refused' = refused \union {task}
  /\ push' = [push EXCEPT ![t] = "idle"]
  /\ arg' = [arg EXCEPT ![t] = NoTask]
  /\ UNCHANGED <<m_taskQue, m_push_cv, accepted>>

PushSleeps(t, task, how) ==
  /\ m_push_cv' = m_push_cv \union {t}
  /\ push' = [push EXCEPT ![t] = how]
  /\ arg' = [arg EXCEPT ![t] = task]
  /\ UNCHANGED <<m_taskQue, accepted, refused>>

PushTask(t, task, how) ==
  /\ Free(t, "push_task", {"push_task"})
  /\ Fresh(task)
  /\ \/ m_stop /\ PushReturnsFalse(t, task)
     \/ ~m_stop /\ HasRoom /\ PushReturnsTrue(t, task)
     \/ ~m_stop /\ ~HasRoom /\ PushSleeps(t, task, how)
  /\ UNCHANGED <<m_currentTask, m_max_cnt, core, started, dropped, late, asked, loopVars>>

(* Mutant: "if" for "while", the size is not tested after the wait.        *)
PushWithoutRetest(t) ==
  /\ push[t] \in Sleeping
  /\ t \notin m_push_cv
  /\ PushReturnsTrue(t, arg[t])
  /\ UNCHANGED <<m_currentTask, m_max_cnt, core, started, dropped, late, asked, loopVars>>

(* A woken pusher tests the size again, but not m_stop.                    *)
PushResumes(t) ==
  /\ push[t] \in Sleeping
  /\ t \notin m_push_cv
  /\ \/ HasRoom /\ PushReturnsTrue(t, arg[t])
     \/ ~HasRoom /\ PushSleeps(t, arg[t], push[t])
  /\ UNCHANGED <<m_currentTask, m_max_cnt, core, started, dropped, late, asked, loopVars>>

PushTimeout(t) ==
  /\ push[t] = "wait_for"
  /\ t \in m_push_cv
  /\ m_push_cv' = m_push_cv \ {t}
  /\ push' = [push EXCEPT ![t] = "timeout"]
  /\ UNCHANGED <<m_taskQue, m_currentTask, m_max_cnt, core, arg, history, asked, loopVars>>

PushFails(t) ==
  /\ push[t] = "timeout"
  /\ PushReturnsFalse(t, arg[t])
  /\ UNCHANGED <<m_currentTask, m_max_cnt, core, started, dropped, late, asked, loopVars>>

PushSpuriousWakeup(t) ==
  /\ t \in m_push_cv
  /\ m_push_cv' = m_push_cv \ {t}
  /\ UNCHANGED <<m_taskQue, m_currentTask, m_max_cnt, core, push, arg, history, asked, loopVars>>

-----------------------------------------------------------------------------
(* set_max_cnt, clear_queue, clear_all, stop_current, stop                 *)

SetMaxCnt(t, max_cnt) ==
  /\ Free(t, "set_max_cnt", Ops)
  /\ m_max_cnt' = max_cnt
  /\ UNCHANGED <<m_taskQue, m_currentTask, m_push_cv, core, push, arg, history, asked, loopVars>>

(* Mutant: the tasks are released and stay in the queue.                   *)
DropWithoutSwap ==
  /\ m_taskQue' = m_taskQue
  /\ dropped' = dropped \union Range(m_taskQue)

(* m_taskQue.swap(tmp)                                                     *)
DropTasks ==
  /\ m_taskQue' = <<>>
  /\ dropped' = dropped \union Range(m_taskQue)

(* A direct call unlocks m_mutex before it notifies.                       *)
ClearQueue(t) ==
  /\ Free(t, "clear_queue", Ops)
  /\ DropTasks
  /\ push' = [push EXCEPT ![t] = "notify"]
  /\ UNCHANGED <<m_currentTask, m_max_cnt, m_push_cv, core, arg, accepted, refused, started, late, asked, loopVars>>

ClearQueueNotifies(t) ==
  /\ push[t] = "notify"
  /\ NotifyPushers
  /\ push' = [push EXCEPT ![t] = "idle"]
  /\ UNCHANGED <<m_taskQue, m_currentTask, m_max_cnt, core, arg, history, asked, loopVars>>

(* stop_current calls the running task's stop(), which is the user's code. *)
AskCurrent == asked' = asked \union ({m_currentTask} \ {NoTask})

StopCurrent(t) ==
  /\ Free(t, "stop_current", Ops)
  /\ AskCurrent
  /\ UNCHANGED <<m_taskQue, m_currentTask, m_max_cnt, m_push_cv, core, push, arg, history, loopVars>>

(* Mutant: clear_all forgets the running task.                             *)
ClearQueueOnly == DropTasks /\ NotifyPushers /\ UNCHANGED asked

(* clear_all holds the recursive mutex over stop_current and clear_queue.  *)
ClearBody == AskCurrent /\ DropTasks /\ NotifyPushers

ClearAll(t) ==
  /\ Free(t, "clear_all", Ops)
  /\ ClearBody
  /\ UNCHANGED <<m_currentTask, m_max_cnt, core, push, arg, accepted, refused, started, late,
                 loopVars>>

(* The first stop clears and sets m_stop in one locked section; then every *)
(* stop goes on in simple_loop::stop, whose m_stop = true changes nothing. *)
StopQueue(t, time) ==
  /\ Free(t, "stop", Ops)
  /\ Stop(t, time)
  /\ \/ ~m_stop /\ ClearBody
     \/ m_stop /\ UNCHANGED <<m_taskQue, dropped, m_push_cv, asked>>
  /\ UNCHANGED <<m_currentTask, m_max_cnt, core, push, arg, accepted, refused, started, late>>

-----------------------------------------------------------------------------
(* loop_core                                                               *)

InCore(where) == loop = "core" /\ core = where

(* Mutant: the newest task first.                                          *)
TakeBack ==
  /\ m_taskQue # <<>>
  /\ m_taskQue' = SubSeq(m_taskQue, 1, Len(m_taskQue) - 1)
  /\ m_currentTask' = m_taskQue[Len(m_taskQue)]
  /\ core' = "do_task"
  /\ started' = Append(started, m_taskQue[Len(m_taskQue)])
  /\ UNCHANGED late

(* front(), pop(): a null task is skipped with the lock's scope.           *)
TakeFront ==
  /\ m_taskQue # <<>>
  /\ m_taskQue' = Tail(m_taskQue)
  /\ \/ /\ Head(m_taskQue) \in NullTask
        /\ m_currentTask' = NoTask
        /\ core' = "top"
        /\ UNCHANGED <<started, late>>
     \/ /\ Head(m_taskQue) \notin NullTask
        /\ m_currentTask' = Head(m_taskQue)
        /\ core' = "do_task"
        /\ started' = Append(started, Head(m_taskQue))
        /\ late' = IF m_stop THEN late \union {Head(m_taskQue)} ELSE late

CoreTop ==
  /\ InCore("top")
  /\ ~m_stop
  /\ \/ TakeFront
     \/ /\ m_taskQue = <<>>
        /\ core' = "wait"
        /\ UNCHANGED <<m_taskQue, m_currentTask, started, late>>
  /\ UNCHANGED <<m_max_cnt, m_push_cv, push, arg, accepted, refused, dropped, asked, loopVars>>

(* Mutant: loop_core leaves an empty queue.                                *)
CoreBreaksIdle ==
  /\ InCore("top")
  /\ m_stop \/ m_taskQue = <<>>
  /\ loop' = "core_done"
  /\ UNCHANGED <<queueVars, history, m_stop, m_has_loop_beg, m_has_loop_end, call, waitTime, eventVars>>

CoreBreaks ==
  /\ InCore("top")
  /\ LoopCoreReturns
  /\ UNCHANGED <<queueVars, history>>

(* Mutant: the 100 ms limit is missing and only stop() notifies.           *)
CoreWakesOnStop ==
  /\ InCore("wait")
  /\ m_stop
  /\ core' = "top"
  /\ UNCHANGED <<m_taskQue, m_currentTask, m_max_cnt, m_push_cv, push, arg, asked, history, loopVars>>

(* m_dotask_cv.wait_for is over, by a notify, after 100 ms or spuriously.  *)
(* m_stop is not tested again before the next turn.                        *)
CoreWakes ==
  /\ InCore("wait")
  /\ \/ TakeFront
     \/ /\ m_taskQue = <<>>
        /\ core' = "top"
        /\ UNCHANGED <<m_taskQue, m_currentTask, started, late>>
  /\ UNCHANGED <<m_max_cnt, m_push_cv, push, arg, accepted, refused, dropped, asked, loopVars>>

(* do_task() of m_currentTask returns; the calls it makes are the Looper's own calls.       *)
DoTaskReturns ==
  /\ InCore("do_task")
  /\ m_currentTask \in Endless => m_currentTask \in asked
  /\ push[Looper] = "idle"
  /\ call[Looper] \in Returned
  /\ core' = "notify"
  /\ UNCHANGED <<m_taskQue, m_currentTask, m_max_cnt, m_push_cv, push, arg, history, asked, loopVars>>

(* Mutant: no pusher is woken after a task.                                *)
CoreForgetsPushers ==
  /\ InCore("notify")
  /\ core' = "reset"
  /\ UNCHANGED <<m_taskQue, m_currentTask, m_max_cnt, m_push_cv, push, arg, asked, history, loopVars>>

CoreNotifies ==
  /\ InCore("notify")
  /\ NotifyPushers
  /\ core' = "reset"
  /\ UNCHANGED <<m_taskQue, m_currentTask, m_max_cnt, push, arg, history, asked, loopVars>>

CoreResets ==
  /\ InCore("reset")
  /\ m_currentTask' = NoTask
  /\ core' = "top"
  /\ UNCHANGED <<m_taskQue, m_max_cnt, m_push_cv, push, arg, history, asked, loopVars>>

-----------------------------------------------------------------------------
Core == CoreTop \/ CoreBreaks \/ CoreWakes \/ DoTaskReturns \/ CoreNotifies \/ CoreResets

(* The part of loop() that simple_loop runs around loop_core().            *)
AroundCore ==
  /\ LoopBegin \/ LoopEnd \/ LoopSignalsEnd \/ LoopReturns
  /\ UNCHANGED <<queueVars, history>>

PushStep(t) == PushResumes(t) \/ PushFails(t) \/ ClearQueueNotifies(t)

StopStep(t) == CallStep(t) /\ UNCHANGED <<queueVars, history>>

Calls(t) ==
  \/ \E task \in Task, how \in Times : PushTask(t, task, how)
  \/ \E max_cnt \in MaxCnts : SetMaxCnt(t, max_cnt)
  \/ ClearQueue(t)
  \/ ClearAll(t)
  \/ StopCurrent(t)
  \/ \E time \in Times : StopQueue(t, time)

Environment(t) ==
  \/ PushTimeout(t)
  \/ PushSpuriousWakeup(t)
  \/ WaitEnvironment(t) /\ UNCHANGED <<queueVars, history>>

Next ==
  \/ Core
  \/ AroundCore
  \/ \E t \in Thread : PushStep(t) \/ StopStep(t) \/ Calls(t) \/ Environment(t)

Safety == Init /\ [][Next]_vars

(* Every thread runs on: the Looper through loop(), a thread inside a      *)
(* call, a task to its end.  As in SimpleLoop, strong fairness only for    *)
(* what spurious wakeups or a task's own calls can keep delaying.          *)
Fairness ==
  /\ WF_vars(Core \/ AroundCore)
  /\ SF_vars(DoTaskReturns)
  /\ \A t \in Thread :
       /\ WF_vars(PushStep(t))
       /\ WF_vars(StopStep(t))
       /\ SF_vars(PushTimeout(t))
       /\ SF_vars(WaitForExpires(t) /\ UNCHANGED <<queueVars, history>>)

Spec == Safety /\ Fairness

-----------------------------------------------------------------------------
(* Task x was accepted before task y.                                      *)
Before(x, y) == \E i, j \in DOMAIN accepted : i < j /\ accepted[i] = x /\ accepted[j] = y

(* Tasks start in the order in which push_task accepted them and at most   *)
(* once each, whatever clears, stops and blocked pushers come between      *)
(* (simple_task_queue.cpp:88, 121-123).                                    *)
FifoOnce ==
  /\ \A i, j \in DOMAIN started : i < j => Before(started[i], started[j]) /\ started[i] # started[j]
  /\ \A i \in DOMAIN started, j \in DOMAIN m_taskQue : Before(started[i], m_taskQue[j])

(* An accepted task is queued, started or thrown away by a clear, and one  *)
(* that a clear threw away never starts: push_task's true is not lost and  *)
(* a clear is not undone (simple_task_queue.cpp:60-69, 104-128).           *)
NoTaskLost ==
  /\ Range(accepted) \subseteq Range(m_taskQue) \union Range(started) \union dropped \union NullTask
  /\ dropped \intersect (Range(m_taskQue) \union Range(started)) = {}

(* The queue never grows beyond the limit in force, although a woken       *)
(* pusher races the running ones and the limit may change while it sleeps  *)
(* (simple_task_queue.cpp:78-88).                                          *)
RespectsMaxCnt ==
  [][Len(m_taskQue') > Len(m_taskQue) => m_max_cnt = MaxU32 \/ Len(m_taskQue') <= m_max_cnt]_vars

(* A stop() that finds a task running has asked it to stop, and after      *)
(* m_stop is set at most one more task starts, the one that a woken pusher *)
(* can slip to a loop asleep in m_dotask_cv (simple_task_queue.cpp:30-42,  *)
(* 114-119).                                                               *)
StopReachesTask ==
  /\ m_stop /\ m_currentTask # NoTask => m_currentTask \in asked \union late
  /\ \A x, y \in late : x = y

(* No lost wakeup of a pusher: while one sleeps there is a queued task, or *)
(* a notify is due, or another pusher has been woken and will push         *)
(* (simple_task_queue.cpp:68, 79-85, 132).  A null task leaves without the *)
(* notify (125), and a limit that is raised from 0 wakes nobody (27): both *)
(* are excluded.                                                           *)
NoLostPush ==
  Range(accepted) \intersect NullTask = {} /\ 0 \notin MaxCnts \union {InitMaxCnt} /\ m_push_cv # {} =>
    \/ m_taskQue # <<>>
    \/ core \in {"do_task", "notify"}
    \/ \E t \in Thread : push[t] = "notify"
    \/ \E t \in Thread : push[t] \in Sleeping /\ t \notin m_push_cv

(* Unless the queue is stopped, every pusher gets its answer...            *)
PushersProgress ==
  \A t \in Thread : push[t] \in Sleeping ~> (push[t] = "idle" \/ m_stop)

(* ... and every accepted task is started or thrown away by a clear.       *)
TasksProgress ==
  \A x \in Task : x \in Range(m_taskQue) ~> (x \notin Range(m_taskQue) \/ m_stop)

-----------------------------------------------------------------------------
(* What the header promises and the code does not keep.                    *)

(* simple_task_queue.h:59, 66: push_task returns, with false, once the     *)
(* queue is stopped.                                                       *)
StopReleasesPushers ==
  \A t \in Thread : (push[t] \in Sleeping /\ m_stop) ~> push[t] = "idle"
=============================================================================
