------------------------- MODULE HeartbeatTaskQueue -------------------------
(***************************************************************************)
(* The queue of periodic tasks ddm/src/thread/task/heartbeat_task_queue.cpp*)
(* with heartbeat_fun_task (i_heartbeat_task.h), a simple_loop whose       *)
(* loop_core() takes each task from the front of m_taskList, runs it if    *)
(* its interval has passed and puts it back at the end, until the task has *)
(* run m_times times.                                                      *)
(*                                                                         *)
(* A locked section is one action.  push_task reads m_stop before it locks *)
(* m_mutex, and loop_core puts a task back and forgets it in two locked    *)
(* sections.  Times are milliseconds of the system clock, read modulo U64. *)
(***************************************************************************)
EXTENDS SimpleLoop, Integers, Sequences, Functions

CONSTANTS
  Task,         \* the tasks; each object is pushed at most once
  NoTask,       \* nullptr, as the value of m_currentTask
  m_times,      \* how often each task is to run, -1 for ever
  m_timeOut,    \* the interval of each task
  NoCallback,   \* the tasks whose m_callback is nullptr
  U64,          \* the modulus of the clock arithmetic
  MaxNow,       \* bound of the clock, less than U64
  SetBack,      \* whether the system clock may be set back
  MaxRuns,      \* bound of the runs that are counted
  Ops,          \* the operations other than push_task that threads call
  TaskOps       \* the operations a running task calls on its own queue

OpNames == {"stop", "stop_current", "clear_all", "clear_queue"}

ASSUME HeartbeatAssumption ==
  /\ NoTask \notin Task
  /\ m_times \in [Task -> Nat \union {-1}]
  /\ m_timeOut \in [Task -> Nat]
  /\ NoCallback \subseteq Task
  /\ U64 \in Nat /\ MaxNow \in 0 .. U64 - 1
  /\ SetBack \in BOOLEAN
  /\ MaxRuns \in Nat /\ \A x \in Task : m_times[x] < MaxRuns
  /\ Ops \subseteq OpNames
  /\ TaskOps \subseteq OpNames \union {"push_task"}

VARIABLES
  m_taskList,
  m_currentTask,
  curCount,           \* loop_core's local
  m_preExecuteTime,   \* of each task's wrapper
  m_curTimes,         \* of each task
  core,               \* where the Looper is in loop_core()
  arg,                \* the task a thread has begun to push, NoTask if none
  now,                \* the system clock
  asked,              \* the tasks whose stop() has been called
  pushed,             \* history: the tasks that were put into the list
  cleared,            \* ... the queued tasks that a clear threw away,
  overdue,            \* ... the tasks pushed after m_stop was set
  elapsed             \* ... the true time since each task's last start or push

heartVars == <<m_taskList, m_currentTask, curCount, m_preExecuteTime, m_curTimes, core, arg, now,
               asked>>
history   == <<pushed, cleared, overdue, elapsed>>
vars      == <<heartVars, history, loopVars>>

CoreStates == {"top", "count", "take", "due", "do_task", "requeue", "reset", "sleep"}

HeartTypeOK ==
  /\ LoopTypeOK
  /\ m_taskList \in Seq(Task)
  /\ m_currentTask \in Task \union {NoTask}
  /\ curCount \in Nat
  /\ m_preExecuteTime \in [Task -> 0 .. MaxNow]
  /\ m_curTimes \in [Task -> 0 .. MaxRuns]
  /\ core \in CoreStates
  /\ arg \in [Thread -> Task \union {NoTask}]
  /\ now \in 0 .. MaxNow
  /\ asked \subseteq Task
  /\ pushed \subseteq Task /\ cleared \subseteq Task /\ overdue \subseteq Task
  /\ elapsed \in [Task -> Nat]

Init ==
  /\ LoopInit
  /\ m_taskList = <<>>
  /\ m_currentTask = NoTask
  /\ curCount = 0
  /\ m_preExecuteTime = [x \in Task |-> 0]
  /\ m_curTimes = [x \in Task |-> 0]
  /\ core = "top"
  /\ arg = [t \in Thread |-> NoTask]
  /\ now = 0
  /\ asked = {}
  /\ pushed = {} /\ cleared = {} /\ overdue = {}
  /\ elapsed = [x \in Task |-> 0]

-----------------------------------------------------------------------------
(* Thread t is free to call op: a client thread between calls, or the task *)
(* that the Looper is running.                                             *)
Free(t, op, ops) ==
  /\ arg[t] = NoTask
  /\ MayCall(t)
  /\ \/ t # Looper /\ op \in ops
     \/ t = Looper /\ core = "do_task" /\ m_currentTask \notin NoCallback /\ op \in TaskOps

(* push_task: m_stop is read first; a stopped queue ignores the task.      *)
PushTask(t, x) ==
  /\ Free(t, "push_task", {"push_task"})
  /\ x \notin pushed \union {arg[s] : s \in Thread}
  /\ ~m_stop
  /\ arg' = [arg EXCEPT ![t] = x]
  /\ UNCHANGED <<m_taskList, m_currentTask, curCount, m_preExecuteTime, m_curTimes, core, now, asked,
                 history, loopVars>>

(* The wrapper's constructor takes the time.                               *)
PushLocked(t) ==
  /\ arg[t] # NoTask
  /\ m_taskList' = Append(m_taskList, arg[t])
  /\ m_preExecuteTime' = [m_preExecuteTime EXCEPT ![arg[t]] = now]
  /\ elapsed' = [elapsed EXCEPT ![arg[t]] = 0]
  /\ pushed' = pushed \union {arg[t]}
  /\ overdue' = IF m_stop THEN overdue \union {arg[t]} ELSE overdue
  /\ arg' = [arg EXCEPT ![t] = NoTask]
  /\ UNCHANGED <<m_currentTask, curCount, m_curTimes, core, now, asked, cleared, loopVars>>

AskCurrent == asked' = asked \union ({m_currentTask} \ {NoTask})

(* Mutant: the list is copied, not swapped away.                           *)
DropCopies ==
  /\ UNCHANGED m_taskList
  /\ cleared' = cleared \union Range(m_taskList)

DropTasks ==
  /\ m_taskList' = <<>>
  /\ cleared' = cleared \union Range(m_taskList)

(* Mutant: the running task is not told to stop.                           *)
ClearOnlyQueue ==
  /\ UNCHANGED asked
  /\ DropTasks

ClearBody ==
  /\ AskCurrent
  /\ DropTasks

StopCurrent(t) ==
  /\ Free(t, "stop_current", Ops)
  /\ AskCurrent
  /\ UNCHANGED <<m_taskList, m_currentTask, curCount, m_preExecuteTime, m_curTimes, core, arg, now,
                 history, loopVars>>

ClearQueue(t) ==
  /\ Free(t, "clear_queue", Ops)
  /\ DropTasks
  /\ UNCHANGED <<m_currentTask, curCount, m_preExecuteTime, m_curTimes, core, arg, now, asked, pushed,
                 overdue, elapsed, loopVars>>

ClearAll(t) ==
  /\ Free(t, "clear_all", Ops)
  /\ ClearBody
  /\ UNCHANGED <<m_currentTask, curCount, m_preExecuteTime, m_curTimes, core, arg, now, pushed, overdue,
                 elapsed, loopVars>>

StopQueue(t, time) ==
  /\ Free(t, "stop", Ops)
  /\ Stop(t, time)
  /\ \/ ~m_stop /\ ClearBody
     \/ m_stop /\ UNCHANGED <<m_taskList, asked, cleared>>
  /\ UNCHANGED <<m_currentTask, curCount, m_preExecuteTime, m_curTimes, core, arg, now, pushed, overdue,
                 elapsed>>

-----------------------------------------------------------------------------
(* loop_core                                                               *)

CoreStep(from, to) == loop = "core" /\ core = from /\ core' = to

(* Mutant: loop_core() ends when there is nothing to do.                   *)
CoreBreaksWhenEmpty ==
  /\ core = "top" /\ loop = "core"
  /\ m_stop \/ m_taskList = <<>>
  /\ loop' = "core_done"
  /\ UNCHANGED <<heartVars, history, m_stop, m_has_loop_beg, m_has_loop_end, call, waitTime, eventVars>>

CoreBreaks ==
  /\ core = "top"
  /\ LoopCoreReturns
  /\ UNCHANGED <<heartVars, history>>

CoreTop ==
  /\ CoreStep("top", "count")
  /\ ~m_stop
  /\ UNCHANGED <<m_taskList, m_currentTask, curCount, m_preExecuteTime, m_curTimes, arg, now, asked,
                 history, loopVars>>

CoreCounts ==
  /\ CoreStep("count", "take")
  /\ curCount' = Len(m_taskList)
  /\ UNCHANGED <<m_taskList, m_currentTask, m_preExecuteTime, m_curTimes, arg, now, asked, history,
                 loopVars>>

(* Mutant: front() without pop_front().                                    *)
CoreTakesFront ==
  /\ \/ /\ CoreStep("take", "sleep")
        /\ curCount = 0 \/ m_taskList = <<>>
        /\ UNCHANGED <<m_currentTask, curCount>>
     \/ /\ CoreStep("take", "due")
        /\ curCount > 0 /\ m_taskList # <<>>
        /\ curCount' = curCount - 1
        /\ m_currentTask' = Head(m_taskList)
  /\ UNCHANGED <<m_taskList, m_preExecuteTime, m_curTimes, arg, now, asked, history, loopVars>>

(* The inner loop ends after curCount tasks, or when a clear came between. *)
CoreTakes ==
  /\ \/ /\ CoreStep("take", "sleep")
        /\ curCount = 0 \/ m_taskList = <<>>
        /\ UNCHANGED <<m_taskList, m_currentTask, curCount>>
     \/ /\ CoreStep("take", "due")
        /\ curCount > 0 /\ m_taskList # <<>>
        /\ curCount' = curCount - 1
        /\ m_currentTask' = Head(m_taskList)
        /\ m_taskList' = Tail(m_taskList)
  /\ UNCHANGED <<m_preExecuteTime, m_curTimes, arg, now, asked, history, loopVars>>

Due(x) == (now - m_preExecuteTime[x]) % U64 >= m_timeOut[x]

(* do_task counts the runs that are limited, up to MaxRuns.                *)
Counted(x) == x \notin NoCallback /\ m_times[x] # -1 /\ m_curTimes[x] < MaxRuns
DoTask(x)  == m_curTimes' = [m_curTimes EXCEPT ![x] = IF Counted(x) THEN @ + 1 ELSE @]

(* Mutant: CanExecute() does not take the time.                            *)
CoreTestsNoStamp ==
  /\ \/ /\ CoreStep("due", "requeue")
        /\ ~Due(m_currentTask)
        /\ UNCHANGED <<m_curTimes, elapsed>>
     \/ /\ CoreStep("due", "do_task")
        /\ Due(m_currentTask)
        /\ elapsed' = [elapsed EXCEPT ![m_currentTask] = 0]
        /\ DoTask(m_currentTask)
  /\ UNCHANGED <<m_taskList, m_currentTask, curCount, m_preExecuteTime, arg, now, asked, pushed, cleared,
                 overdue, loopVars>>

(* CanExecute(), and do_task() if it says so.                              *)
CoreTests ==
  /\ \/ /\ CoreStep("due", "requeue")
        /\ ~Due(m_currentTask)
        /\ UNCHANGED <<m_preExecuteTime, m_curTimes, elapsed>>
     \/ /\ CoreStep("due", "do_task")
        /\ Due(m_currentTask)
        /\ m_preExecuteTime' = [m_preExecuteTime EXCEPT ![m_currentTask] = now]
        /\ elapsed' = [elapsed EXCEPT ![m_currentTask] = 0]
        /\ DoTask(m_currentTask)
  /\ UNCHANGED <<m_taskList, m_currentTask, curCount, arg, now, asked, pushed, cleared, overdue,
                 loopVars>>

(* Mutant: one run too many.                                               *)
RemoveTooLate(x) == x \in NoCallback \/ (m_times[x] # -1 /\ m_curTimes[x] > m_times[x])

RemoveAfterExcute(x) == x \in NoCallback \/ (m_times[x] # -1 /\ m_curTimes[x] = m_times[x])

(* do_task() returns; the calls it made are the Looper's own calls.        *)
DoTaskReturns ==
  /\ arg[Looper] = NoTask
  /\ call[Looper] \in Returned
  /\ \/ CoreStep("do_task", "reset") /\ RemoveAfterExcute(m_currentTask)
     \/ CoreStep("do_task", "requeue") /\ ~RemoveAfterExcute(m_currentTask)
  /\ UNCHANGED <<m_taskList, m_currentTask, curCount, m_preExecuteTime, m_curTimes, arg, now, asked,
                 history, loopVars>>

(* Mutant: the task is put back at the front.                              *)
CoreRequeuesFront ==
  /\ CoreStep("requeue", "reset")
  /\ m_taskList' = <<m_currentTask>> \o m_taskList
  /\ UNCHANGED <<m_currentTask, curCount, m_preExecuteTime, m_curTimes, arg, now, asked, history,
                 loopVars>>

CoreRequeues ==
  /\ CoreStep("requeue", "reset")
  /\ m_taskList' = Append(m_taskList, m_currentTask)
  /\ UNCHANGED <<m_currentTask, curCount, m_preExecuteTime, m_curTimes, arg, now, asked, history,
                 loopVars>>

CoreResets ==
  /\ CoreStep("reset", "take")
  /\ m_currentTask' = NoTask
  /\ UNCHANGED <<m_taskList, curCount, m_preExecuteTime, m_curTimes, arg, now, asked, history, loopVars>>

CoreSleeps ==
  /\ CoreStep("sleep", "top")
  /\ UNCHANGED <<m_taskList, m_currentTask, curCount, m_preExecuteTime, m_curTimes, arg, now, asked,
                 history, loopVars>>

-----------------------------------------------------------------------------
(* A millisecond passes; elapsed is counted up to the longest interval.    *)
Tick ==
  /\ now < MaxNow
  /\ now' = now + 1
  /\ elapsed' = [x \in Task |-> IF elapsed[x] < m_timeOut[x] THEN elapsed[x] + 1 ELSE elapsed[x]]
  /\ UNCHANGED <<m_taskList, m_currentTask, curCount, m_preExecuteTime, m_curTimes, core, arg, asked,
                 pushed, cleared, overdue, loopVars>>

ClockSetBack ==
  /\ SetBack
  /\ now' \in 0 .. now - 1
  /\ UNCHANGED <<m_taskList, m_currentTask, curCount, m_preExecuteTime, m_curTimes, core, arg, asked,
                 history, loopVars>>

Core ==
  \/ CoreBreaks \/ CoreTop \/ CoreCounts \/ CoreTakes \/ CoreTests \/ DoTaskReturns
  \/ CoreRequeues \/ CoreResets \/ CoreSleeps

AroundCore ==
  /\ LoopBegin \/ LoopEnd \/ LoopSignalsEnd \/ LoopReturns
  /\ UNCHANGED <<heartVars, history>>

StopStep(t) == CallStep(t) /\ UNCHANGED <<heartVars, history>>

Calls(t) ==
  \/ \E x \in Task : PushTask(t, x)
  \/ StopCurrent(t)
  \/ ClearQueue(t)
  \/ ClearAll(t)
  \/ \E time \in Times : StopQueue(t, time)

Next ==
  \/ Core
  \/ AroundCore
  \/ Tick
  \/ ClockSetBack
  \/ \E t \in Thread :
       \/ PushLocked(t)
       \/ StopStep(t)
       \/ Calls(t)
       \/ WaitEnvironment(t) /\ UNCHANGED <<heartVars, history>>

Safety == Init /\ [][Next]_vars

(* As for the other queue: the Looper and a thread inside a call run on, a *)
(* task ends though it may keep calling stop(), a wait_for ends.           *)
Fairness ==
  /\ WF_vars(Core \/ AroundCore)
  /\ SF_vars(DoTaskReturns)
  /\ \A t \in Thread :
       /\ WF_vars(PushLocked(t))
       /\ WF_vars(StopStep(t))
       /\ SF_vars(WaitForExpires(t) /\ UNCHANGED <<heartVars, history>>)

Spec == Safety /\ Fairness

-----------------------------------------------------------------------------
InHand == IF core \in {"due", "do_task", "requeue"} THEN {m_currentTask} ELSE {}

(* A task is in one place: once in the list or in the Looper's hand, never *)
(* both, so it neither runs twice in a turn nor multiplies by being put    *)
(* back (heartbeat_task_queue.cpp:137-155).                                *)
EachOnce ==
  /\ IsInjective(m_taskList)
  /\ InHand \intersect Range(m_taskList) = {}

(* What a clear took out of the list never comes back, wherever the Looper *)
(* is between taking a task and putting it back                            *)
(* (heartbeat_task_queue.cpp:78-86, 126-163).                              *)
ClearedStaysOut == cleared \intersect (Range(m_taskList) \union InHand) = {}

(* A task that is to run n > 0 times runs n times at most and is not put   *)
(* back after the last one (i_heartbeat_task.h:67-96).                     *)
TimesKept ==
  \A x \in Task : m_times[x] > 0 =>
    /\ m_curTimes[x] <= m_times[x]
    /\ m_curTimes[x] = m_times[x] =>
         x \notin Range(m_taskList) /\ (x \in InHand => core = "do_task")

(* A task starts only when its whole interval has passed since it was      *)
(* pushed or last started (heartbeat_task_queue.cpp:17, 23-32).            *)
PeriodKept ==
  [][core = "due" /\ core' = "do_task" => elapsed[m_currentTask] >= m_timeOut[m_currentTask]]_vars

(* stop() has told the task in the Looper's hand to stop, unless a pusher  *)
(* that read m_stop before it was set added it later                       *)
(* (heartbeat_task_queue.cpp:49-69, 90-98).                                *)
StopReachesCurrent ==
  m_stop /\ m_currentTask # NoTask => m_currentTask \in asked \union overdue

(* Every queued task gets its turn: counting the tasks before the turn     *)
(* keeps those that are put back from overtaking the others.               *)
TurnsComeRound ==
  \A x \in Task :
    x \in Range(m_taskList) ~> (m_currentTask = x \/ x \notin Range(m_taskList) \/ m_stop)
=============================================================================
