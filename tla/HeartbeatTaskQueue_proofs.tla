--------------------- MODULE HeartbeatTaskQueue_proofs ---------------------
(***************************************************************************)
(* The heartbeat queue for any threads, tasks, numbers of runs and         *)
(* intervals: it implements its base class, keeps its types, holds every   *)
(* task once, never brings back what was cleared, keeps the number of runs *)
(* and, while nobody sets the clock back, the intervals.                   *)
(***************************************************************************)
EXTENDS HeartbeatTaskQueue, SimpleLoop_proofs

-----------------------------------------------------------------------------
(* Lists                                                                   *)

(* A list without repetitions stays one when its front is taken off, which *)
(* then is in it no more.                                                  *)
LEMMA InjectiveTail ==
  ASSUME NEW S, NEW s \in Seq(S), s # <<>>, IsInjective(s)
  PROVE  IsInjective(Tail(s)) /\ Head(s) \notin Range(Tail(s))
<1>1. Len(s) \in Nat \ {0} /\ DOMAIN s = 1 .. Len(s)
  BY LenProperties, EmptySeq
<1>2. /\ DOMAIN Tail(s) = 1 .. (Len(s) - 1)
      /\ \A i \in 1 .. (Len(s) - 1) : Tail(s)[i] = s[i + 1]
  <2>1. Tail(s) \in Seq(S) /\ Len(Tail(s)) = Len(s) - 1
    BY HeadTailProperties
  <2>2. QED
    BY <2>1, HeadTailProperties, LenProperties
<1>3. Head(s) = s[1]
  BY HeadTailProperties
<1>4. \A i, j \in 1 .. Len(s) : s[i] = s[j] => i = j
  BY <1>1 DEF IsInjective
<1>5. \A i \in 1 .. (Len(s) - 1) : i + 1 \in 1 .. Len(s) /\ i + 1 # 1
  BY <1>1
<1>6. \A i, j \in 1 .. (Len(s) - 1) : Tail(s)[i] = Tail(s)[j] => i = j
  <2> SUFFICES ASSUME NEW i \in 1 .. (Len(s) - 1), NEW j \in 1 .. (Len(s) - 1),
                      Tail(s)[i] = Tail(s)[j]
               PROVE  i = j
    OBVIOUS
  <2>1. i + 1 = j + 1
    BY <1>2, <1>4, <1>5
  <2>2. QED
    BY <2>1
<1>7. \A i \in 1 .. (Len(s) - 1) : Tail(s)[i] # Head(s)
  BY <1>1, <1>2, <1>3, <1>4, <1>5
<1>8. QED
  BY <1>2, <1>6, <1>7 DEF IsInjective, Range

-----------------------------------------------------------------------------
(* Refinement of the base class                                            *)

(* Every step of the queue is a step of simple_loop or leaves it alone.    *)
LEMMA HeartStepIsLoopStep == [Next]_vars => [LoopNext]_loopVars
<1> SUFFICES ASSUME [Next]_vars PROVE [LoopNext]_loopVars
  OBVIOUS
<1>1. CASE Core
  <2>1. CASE CoreBreaks
    BY <2>1 DEF CoreBreaks, LoopNext, LoopStep
  <2>2. CASE CoreTop \/ CoreCounts \/ CoreTakes \/ CoreTests
    BY <2>2 DEF CoreTop, CoreCounts, CoreTakes, CoreTests
  <2>3. CASE DoTaskReturns \/ CoreRequeues \/ CoreResets \/ CoreSleeps
    BY <2>3 DEF DoTaskReturns, CoreRequeues, CoreResets, CoreSleeps
  <2>4. QED
    BY <1>1, <2>1, <2>2, <2>3 DEF Core
<1>2. CASE AroundCore
  BY <1>2 DEF AroundCore, LoopNext, LoopStep
<1>3. CASE Tick \/ ClockSetBack
  BY <1>3 DEF Tick, ClockSetBack
<1>4. ASSUME NEW t \in Thread, PushLocked(t)
      PROVE  [LoopNext]_loopVars
  BY <1>4 DEF PushLocked
<1>5. ASSUME NEW t \in Thread, StopStep(t)
      PROVE  [LoopNext]_loopVars
  BY <1>5 DEF StopStep, LoopNext
<1>6. ASSUME NEW t \in Thread, Calls(t)
      PROVE  [LoopNext]_loopVars
  <2>1. ASSUME NEW time \in Times, StopQueue(t, time)
        PROVE  [LoopNext]_loopVars
    BY <2>1 DEF StopQueue, LoopNext
  <2>2. QED
    BY <1>6, <2>1 DEF Calls, PushTask, StopCurrent, ClearQueue, ClearAll
<1>7. ASSUME NEW t \in Thread, WaitEnvironment(t)
      PROVE  [LoopNext]_loopVars
  BY <1>7 DEF LoopNext
<1>8. CASE UNCHANGED vars
  BY <1>8 DEF vars
<1>9. QED
  BY <1>1, <1>2, <1>3, <1>4, <1>5, <1>6, <1>7, <1>8 DEF Next

(* heartbeat_task_queue implements simple_loop: its loop_core keeps the    *)
(* contract that the base class relies on.                                 *)
THEOREM HeartRefinesLoop == Safety => LoopSafety
<1>1. Init => LoopInit
  BY DEF Init
<1>2. QED
  BY <1>1, HeartStepIsLoopStep, PTL DEF Safety, LoopSafety

(* A true result of the queue's stop() means that no task runs any more,   *)
(* although a task may still be taken after m_stop was set.                *)
THEOREM HeartTrueMeansEnded == Safety => []TrueMeansEnded
BY HeartRefinesLoop, LoopTrueMeansEnded, PTL

-----------------------------------------------------------------------------
(* The inductive invariant                                                 *)

(* The Looper has a task from taking it until it forgets it.               *)
HasCurrent == core \in {"due", "do_task", "requeue", "reset"} <=> m_currentTask \in Task

(* A task is new until it is pushed, and pushed by one thread.             *)
PushedOnce ==
  /\ Range(m_taskList) \union InHand \union cleared \subseteq pushed
  /\ \A t \in Thread : arg[t] \notin pushed
  /\ \A s, t \in Thread : arg[s] = arg[t] /\ arg[s] \in Task => s = t

(* A task has not run before it is pushed.                                 *)
NewHasNotRun == \A x \in Task \ pushed : m_curTimes[x] = 0

(* After stop() every task in the list has been told or came late.         *)
StopReachesQueued == m_stop => Range(m_taskList) \subseteq asked \union overdue

TypeInv == HeartTypeOK /\ HasCurrent
ListInv == EachOnce /\ ClearedStaysOut /\ PushedOnce
RunsInv == TimesKept /\ NewHasNotRun
StopInv == StopReachesCurrent /\ StopReachesQueued

(* The wrapper's time stamp is never ahead of the clock and measures the   *)
(* true time.                                                              *)
ClockInv ==
  \A x \in Task :
    /\ m_preExecuteTime[x] <= now
    /\ elapsed[x] >= m_timeOut[x] \/ elapsed[x] = now - m_preExecuteTime[x]

-----------------------------------------------------------------------------
(* Types                                                                   *)

CoreWorks ==
  \/ CoreTop \/ CoreCounts \/ CoreTakes \/ CoreTests \/ DoTaskReturns \/ CoreRequeues \/ CoreResets
  \/ CoreSleeps

ThreadWorks(t) ==
  \/ PushLocked(t)
  \/ Calls(t)

(* The steps that change the queue or m_stop: loop_core's, the clock's and *)
(* those of a call of a thread.                                            *)
LEMMA HeartCases ==
  ASSUME [Next]_vars
  PROVE  \/ CoreWorks \/ Tick \/ ClockSetBack
         \/ \E t \in Thread : ThreadWorks(t)
         \/ UNCHANGED <<heartVars, history, m_stop>>
<1>1. CASE Core
  BY <1>1 DEF Core, CoreWorks, CoreBreaks, LoopCoreReturns
<1>2. CASE AroundCore
  BY <1>2 DEF AroundCore, LoopBegin, LoopEnd, LoopSignalsEnd, LoopReturns
<1>3. ASSUME NEW t \in Thread, StopStep(t)
      PROVE  UNCHANGED <<heartVars, history, m_stop>>
  BY <1>3 DEF StopStep, CallStep, CheckLoopEnd, WaitEndEvent, Renotify, WaitSucceeds, WaitTimesOut,
              InsideWait
<1>4. ASSUME NEW t \in Thread, WaitEnvironment(t) /\ UNCHANGED <<heartVars, history>>
      PROVE  UNCHANGED <<heartVars, history, m_stop>>
  BY <1>4 DEF WaitEnvironment
<1>5. CASE UNCHANGED vars
  BY <1>5 DEF vars, loopVars
<1>6. QED
  BY <1>1, <1>2, <1>3, <1>4, <1>5 DEF Next, ThreadWorks

(* Every step keeps the types.                                             *)
LEMMA TypeStep == TypeInv /\ [Next]_vars => TypeInv'
<1> SUFFICES ASSUME TypeInv, [Next]_vars PROVE TypeInv'
  OBVIOUS
<1>0. LoopTypeOK'
  BY HeartStepIsLoopStep, LoopTypeStep DEF TypeInv, HeartTypeOK
<1> USE <1>0, HeartbeatAssumption DEF TypeInv, HeartTypeOK, HasCurrent, CoreStates
<1>1. CASE CoreTop \/ CoreSleeps \/ CoreCounts
  <2>1. Len(m_taskList) \in Nat
    BY LenProperties
  <2>2. QED
    BY <1>1, <2>1 DEF CoreTop, CoreSleeps, CoreCounts, CoreStep, history
<1>2. CASE CoreTakes
  <2>1. m_taskList # <<>> => Head(m_taskList) \in Task /\ Tail(m_taskList) \in Seq(Task)
    BY HeadTailProperties
  <2>2. CASE core' = "due"
    <3>1. m_taskList' \in Seq(Task) /\ m_currentTask' \in Task
      BY <1>2, <2>1, <2>2 DEF CoreTakes, CoreStep
    <3>2. curCount' \in Nat
      BY <1>2, <2>2 DEF CoreTakes, CoreStep
    <3>3. UNCHANGED <<m_preExecuteTime, m_curTimes, arg, now, asked, pushed, cleared, overdue,
                      elapsed>>
      BY <1>2 DEF CoreTakes, history
    <3>4. QED
      BY <2>2, <3>1, <3>2, <3>3
  <2>3. CASE core' = "sleep"
    BY <1>2, <2>3 DEF CoreTakes, CoreStep, history
  <2>4. QED
    BY <1>2, <2>2, <2>3 DEF CoreTakes, CoreStep
<1>3. CASE CoreTests
  <2>1. m_currentTask \in Task
    BY <1>3 DEF CoreTests, CoreStep
  <2>2. Counted(m_currentTask) => m_curTimes[m_currentTask] + 1 \in 0 .. MaxRuns
    BY <2>1 DEF Counted
  <2>3. m_curTimes' \in [Task -> 0 .. MaxRuns]
    <3>1. CASE DoTask(m_currentTask)
      BY <2>1, <2>2, <3>1 DEF DoTask
    <3>2. QED
      BY <1>3, <3>1 DEF CoreTests
  <2>4. m_preExecuteTime' \in [Task -> 0 .. MaxNow] /\ elapsed' \in [Task -> Nat]
    <3>1. [m_preExecuteTime EXCEPT ![m_currentTask] = now] \in [Task -> 0 .. MaxNow]
      BY <2>1
    <3>2. [elapsed EXCEPT ![m_currentTask] = 0] \in [Task -> Nat]
      BY <2>1
    <3>3. QED
      BY <1>3, <3>1, <3>2 DEF CoreTests
  <2>5. core' \in {"due", "do_task", "requeue"}
    BY <1>3 DEF CoreTests, CoreStep
  <2>6. UNCHANGED <<m_taskList, m_currentTask, curCount, arg, now, asked, pushed, cleared, overdue>>
    BY <1>3 DEF CoreTests
  <2>7. QED
    BY <2>1, <2>3, <2>4, <2>5, <2>6
<1>4. CASE DoTaskReturns
  BY <1>4 DEF DoTaskReturns, CoreStep, history
<1>5. CASE CoreRequeues
  <2>1. core = "requeue" => Append(m_taskList, m_currentTask) \in Seq(Task)
    BY AppendProperties
  <2>2. QED
    BY <1>5, <2>1 DEF CoreRequeues, CoreStep, history
<1>6. CASE CoreResets
  BY <1>6 DEF CoreResets, CoreStep, history
<1>7. CASE Tick
  BY <1>7 DEF Tick
<1>8. CASE ClockSetBack
  BY <1>8 DEF ClockSetBack, history
<1>9. ASSUME NEW t \in Thread, NEW x \in Task, PushTask(t, x)
      PROVE  TypeInv'
  BY <1>9 DEF PushTask, history
<1>10. ASSUME NEW t \in Thread, PushLocked(t)
       PROVE  TypeInv'
  <2>1. arg[t] \in Task /\ Append(m_taskList, arg[t]) \in Seq(Task)
    BY <1>10, AppendProperties DEF PushLocked
  <2>2. QED
    BY <1>10, <2>1 DEF PushLocked
<1>11. ASSUME DropTasks
       PROVE  m_taskList' \in Seq(Task) /\ cleared' \subseteq Task
  BY <1>11, EmptySeq, RangeOfSeq DEF DropTasks
<1>12. ASSUME NEW t \in Thread, StopCurrent(t)
       PROVE  TypeInv'
  BY <1>12 DEF StopCurrent, AskCurrent, history
<1>13. ASSUME NEW t \in Thread, ClearQueue(t)
       PROVE  TypeInv'
  BY <1>11, <1>13 DEF ClearQueue
<1>14. ASSUME NEW t \in Thread, ClearAll(t)
       PROVE  TypeInv'
  BY <1>11, <1>14 DEF ClearAll, ClearBody, AskCurrent
<1>15. ASSUME NEW t \in Thread, NEW time \in Times, StopQueue(t, time)
       PROVE  TypeInv'
  BY <1>11, <1>15 DEF StopQueue, ClearBody, AskCurrent
<1>16. CASE UNCHANGED <<heartVars, history, m_stop>>
  BY <1>16 DEF heartVars, history
<1>17. QED
  BY HeartCases, <1>1, <1>2, <1>3, <1>4, <1>5, <1>6, <1>7, <1>8, <1>9, <1>10, <1>12, <1>13, <1>14,
     <1>15, <1>16 DEF CoreWorks, ThreadWorks, Calls

(* The types hold initially.                                               *)
LEMMA HeartTypeInit == Init => TypeInv
<1>1. LoopInit => LoopTypeOK
  BY DEF LoopInit, EventInit, LoopTypeOK, EventTypeOK, EvStates, Outside, Sleeping,
     LoopStates, CallStates, Returned
<1>2. QED
  BY <1>1, HeartbeatAssumption, EmptySeq DEF Init, TypeInv, HeartTypeOK, HasCurrent, CoreStates

(* The heartbeat queue keeps its types.                                    *)
THEOREM HeartTypeCorrect == Safety => []HeartTypeOK
<1>1. TypeInv => HeartTypeOK
  BY DEF TypeInv
<1>2. QED
  BY <1>1, HeartTypeInit, TypeStep, PTL DEF Safety

-----------------------------------------------------------------------------
(* Each task once, and what is cleared stays out                           *)

(* A step that keeps the list, the task in hand and the history keeps      *)
(* ListInv.                                                                *)
LEMMA ListUnchanged ==
  ASSUME ListInv, UNCHANGED <<m_taskList, arg, pushed, cleared>>, InHand' = InHand
  PROVE  ListInv'
BY DEF ListInv, EachOnce, ClearedStaysOut, PushedOnce

(* Every step keeps ListInv: a task moves from the list to the Looper's    *)
(* hand and back, and a clear takes it out for good.                       *)
LEMMA ListStep == TypeInv /\ ListInv /\ [Next]_vars => ListInv'
<1> SUFFICES ASSUME TypeInv, ListInv, [Next]_vars PROVE ListInv'
  OBVIOUS
<1> USE HeartbeatAssumption
<1>0. /\ m_taskList \in Seq(Task) /\ arg \in [Thread -> Task \union {NoTask}]
      /\ core \in {"due", "do_task", "requeue", "reset"} <=> m_currentTask \in Task
      /\ IsInjective(m_taskList) /\ InHand \intersect Range(m_taskList) = {}
      /\ cleared \intersect (Range(m_taskList) \union InHand) = {}
      /\ Range(m_taskList) \union InHand \union cleared \subseteq pushed
      /\ \A t \in Thread : arg[t] \notin pushed
      /\ \A s, t \in Thread : arg[s] = arg[t] /\ arg[s] \in Task => s = t
      /\ pushed \subseteq Task
  BY DEF TypeInv, HeartTypeOK, HasCurrent, ListInv, EachOnce, ClearedStaysOut, PushedOnce
<1>1. CASE CoreTop \/ CoreSleeps \/ CoreCounts
  BY <1>1, ListUnchanged DEF CoreTop, CoreSleeps, CoreCounts, CoreStep, InHand, history
<1>2. CASE CoreTakes
  <2>1. CASE core' = "sleep"
    BY <1>2, <2>1, ListUnchanged DEF CoreTakes, CoreStep, InHand, history
  <2>2. CASE core' = "due"
    <3>1. /\ m_taskList # <<>> /\ m_taskList' = Tail(m_taskList) /\ InHand' = {Head(m_taskList)}
          /\ UNCHANGED <<arg, pushed, cleared>>
      BY <1>2, <2>2 DEF CoreTakes, CoreStep, InHand, history
    <3>2. Range(m_taskList) = Range(m_taskList') \union InHand'
      BY <1>0, <3>1, RangeOfTail
    <3>3. IsInjective(m_taskList') /\ InHand' \intersect Range(m_taskList') = {}
      BY <1>0, <3>1, InjectiveTail
    <3>4. QED
      BY <1>0, <3>1, <3>2, <3>3 DEF ListInv, EachOnce, ClearedStaysOut, PushedOnce
  <2>3. QED
    BY <1>2, <2>1, <2>2 DEF CoreTakes, CoreStep
<1>3. CASE CoreTests
  BY <1>3, ListUnchanged DEF CoreTests, CoreStep, InHand
<1>4. CASE DoTaskReturns
  <2>1. CASE core' = "requeue"
    BY <1>4, <2>1, ListUnchanged DEF DoTaskReturns, CoreStep, InHand, history
  <2>2. CASE core' = "reset"
    <3>1. InHand' = {} /\ UNCHANGED <<m_taskList, arg, pushed, cleared>>
      BY <1>4, <2>2 DEF DoTaskReturns, InHand, history
    <3>2. QED
      BY <1>0, <3>1 DEF ListInv, EachOnce, ClearedStaysOut, PushedOnce
  <2>3. QED
    BY <1>4, <2>1, <2>2 DEF DoTaskReturns, CoreStep
<1>5. CASE CoreRequeues
  <2>1. /\ InHand = {m_currentTask} /\ InHand' = {} /\ m_currentTask \in Task
        /\ m_taskList' = Append(m_taskList, m_currentTask)
        /\ UNCHANGED <<arg, pushed, cleared>>
    BY <1>0, <1>5 DEF CoreRequeues, CoreStep, InHand, history
  <2>2. Range(m_taskList') = Range(m_taskList) \union InHand
    BY <1>0, <2>1, RangeOfAppend
  <2>3. IsInjective(m_taskList')
    BY <1>0, <2>1, InjectiveAppend
  <2>4. QED
    BY <1>0, <2>1, <2>2, <2>3 DEF ListInv, EachOnce, ClearedStaysOut, PushedOnce
<1>6. CASE CoreResets
  BY <1>6, ListUnchanged DEF CoreResets, CoreStep, InHand, history
<1>7. CASE Tick \/ ClockSetBack
  BY <1>7, ListUnchanged DEF Tick, ClockSetBack, InHand, history
<1>8. ASSUME NEW t \in Thread, NEW x \in Task, PushTask(t, x)
      PROVE  ListInv'
  <2>1. InHand' = InHand /\ UNCHANGED <<m_taskList, pushed, cleared>>
    BY <1>8 DEF PushTask, InHand, history
  <2>2. \A s \in Thread : arg'[s] = (IF s = t THEN x ELSE arg[s]) /\ arg[s] # x
    BY <1>0, <1>8 DEF PushTask
  <2>3. x \notin pushed
    BY <1>8 DEF PushTask
  <2>4. QED
    BY <1>0, <2>1, <2>2, <2>3 DEF ListInv, EachOnce, ClearedStaysOut, PushedOnce
<1>9. ASSUME NEW t \in Thread, PushLocked(t)
      PROVE  ListInv'
  <2>1. /\ arg[t] \in Task /\ arg[t] \notin pushed
        /\ m_taskList' = Append(m_taskList, arg[t])
        /\ pushed' = pushed \union {arg[t]} /\ cleared' = cleared /\ InHand' = InHand
    BY <1>0, <1>9 DEF PushLocked, InHand
  <2>2. \A s \in Thread : arg'[s] = (IF s = t THEN NoTask ELSE arg[s])
    BY <1>0, <1>9 DEF PushLocked
  <2>3. Range(m_taskList') = Range(m_taskList) \union {arg[t]}
    BY <1>0, <2>1, RangeOfAppend
  <2>4. arg[t] \notin Range(m_taskList) \union InHand \union cleared
    BY <1>0, <2>1
  <2>5. IsInjective(m_taskList')
    BY <1>0, <2>1, <2>4, InjectiveAppend
  <2>6. EachOnce' /\ ClearedStaysOut'
    BY <1>0, <2>1, <2>3, <2>4, <2>5 DEF EachOnce, ClearedStaysOut
  <2>7. PushedOnce'
    <3>1. (Range(m_taskList) \union InHand \union cleared)' \subseteq pushed'
      BY <1>0, <2>1, <2>3
    <3>2. \A s \in Thread : arg'[s] \notin pushed'
      BY <1>0, <2>1, <2>2
    <3>3. \A s, r \in Thread : arg'[s] = arg'[r] /\ arg'[s] \in Task => s = r
      BY <1>0, <2>2
    <3>4. QED
      BY <3>1, <3>2, <3>3 DEF PushedOnce
  <2>8. QED
    BY <2>6, <2>7 DEF ListInv
<1>10. ASSUME DropTasks, InHand' = InHand, UNCHANGED <<arg, pushed>>
       PROVE  ListInv'
  <2>1. m_taskList' = <<>> /\ Range(m_taskList') = {} /\ IsInjective(m_taskList')
    BY <1>10 DEF DropTasks, Range, IsInjective
  <2>2. cleared' = cleared \union Range(m_taskList)
    BY <1>10 DEF DropTasks
  <2>3. QED
    BY <1>0, <1>10, <2>1, <2>2 DEF ListInv, EachOnce, ClearedStaysOut, PushedOnce
<1>11. ASSUME NEW t \in Thread, StopCurrent(t) \/ ClearQueue(t) \/ ClearAll(t)
       PROVE  ListInv'
  BY <1>10, <1>11, ListUnchanged DEF StopCurrent, ClearQueue, ClearAll, ClearBody, InHand, history
<1>12. ASSUME NEW t \in Thread, NEW time \in Times, StopQueue(t, time)
       PROVE  ListInv'
  BY <1>10, <1>12, ListUnchanged DEF StopQueue, ClearBody, InHand
<1>13. CASE UNCHANGED <<heartVars, history, m_stop>>
  BY <1>13, ListUnchanged DEF heartVars, history, InHand
<1>14. QED
  BY HeartCases, <1>1, <1>2, <1>3, <1>4, <1>5, <1>6, <1>7, <1>8, <1>9, <1>11, <1>12, <1>13
     DEF CoreWorks, ThreadWorks, Calls

-----------------------------------------------------------------------------
(* The number of runs                                                      *)

(* Fewer places to be in, and the same runs, keep RunsInv.                 *)
LEMMA RunsUnchanged ==
  ASSUME RunsInv, m_curTimes' = m_curTimes, pushed \subseteq pushed',
         Range(m_taskList') \subseteq Range(m_taskList), InHand' \subseteq InHand,
         InHand' = {} \/ (core = "do_task" => core' = "do_task")
  PROVE  RunsInv'
BY DEF RunsInv, TimesKept, NewHasNotRun

(* Every step keeps RunsInv: a task is counted before it runs and looked   *)
(* at before it is put back.                                               *)
LEMMA RunsStep == TypeInv /\ ListInv /\ RunsInv /\ [Next]_vars => RunsInv'
<1> SUFFICES ASSUME TypeInv, ListInv, RunsInv, [Next]_vars PROVE RunsInv'
  OBVIOUS
<1> USE HeartbeatAssumption
<1>0. /\ m_taskList \in Seq(Task) /\ m_curTimes \in [Task -> 0 .. MaxRuns]
      /\ arg \in [Thread -> Task \union {NoTask}]
      /\ core \in {"due", "do_task", "requeue", "reset"} <=> m_currentTask \in Task
      /\ InHand \intersect Range(m_taskList) = {}
      /\ InHand \subseteq pushed
      /\ \A t \in Thread : arg[t] \notin pushed
      /\ \A x \in Task \ pushed : m_curTimes[x] = 0
  BY DEF TypeInv, HeartTypeOK, HasCurrent, ListInv, EachOnce, PushedOnce, RunsInv, NewHasNotRun
<1>1. CASE CoreTop \/ CoreSleeps \/ CoreCounts \/ CoreResets
  BY <1>1, RunsUnchanged DEF CoreTop, CoreSleeps, CoreCounts, CoreResets, CoreStep, InHand, history
<1>2. CASE CoreTakes
  <2>1. CASE core' = "sleep"
    BY <1>2, <2>1, RunsUnchanged DEF CoreTakes, CoreStep, InHand, history
  <2>2. CASE core' = "due"
    <3>1. /\ m_taskList # <<>> /\ m_taskList' = Tail(m_taskList) /\ InHand' = {Head(m_taskList)}
          /\ UNCHANGED <<pushed, m_curTimes>>
      BY <1>2, <2>2 DEF CoreTakes, CoreStep, InHand, history
    <3>2. Range(m_taskList) = Range(m_taskList') \union InHand'
      BY <1>0, <3>1, RangeOfTail
    <3>3. QED
      BY <3>1, <3>2 DEF RunsInv, TimesKept, NewHasNotRun
  <2>3. QED
    BY <1>2, <2>1, <2>2 DEF CoreTakes, CoreStep
<1>3. CASE CoreTests
  <2>1. CASE core' = "requeue"
    BY <1>3, <2>1, RunsUnchanged DEF CoreTests, CoreStep, InHand
  <2>2. CASE core' = "do_task"
    <3>1. /\ core = "due" /\ m_currentTask \in Task /\ InHand = {m_currentTask} /\ InHand' = InHand
          /\ UNCHANGED <<m_taskList, pushed>> /\ DoTask(m_currentTask)
      BY <1>0, <1>3, <2>2 DEF CoreTests, CoreStep, InHand
    <3>2. \A x \in Task \ {m_currentTask} : m_curTimes'[x] = m_curTimes[x]
      BY <1>0, <3>1 DEF DoTask
    <3>3. m_curTimes'[m_currentTask] \in {m_curTimes[m_currentTask], m_curTimes[m_currentTask] + 1}
      BY <1>0, <3>1 DEF DoTask
    <3>4. m_times[m_currentTask] > 0 => m_curTimes'[m_currentTask] <= m_times[m_currentTask]
      <4>1. m_times[m_currentTask] > 0 => m_curTimes[m_currentTask] <= m_times[m_currentTask]
                                          /\ m_curTimes[m_currentTask] # m_times[m_currentTask]
        BY <3>1 DEF RunsInv, TimesKept
      <4>2. m_curTimes[m_currentTask] \in Int /\ m_times[m_currentTask] \in Int
        BY <1>0, <3>1
      <4>3. QED
        BY <3>3, <4>1, <4>2
    <3>5. TimesKept'
      BY <1>0, <2>2, <3>1, <3>2, <3>4 DEF RunsInv, TimesKept
    <3>6. NewHasNotRun'
      BY <1>0, <3>1, <3>2 DEF NewHasNotRun
    <3>7. QED
      BY <3>5, <3>6 DEF RunsInv
  <2>3. QED
    BY <1>3, <2>1, <2>2 DEF CoreTests, CoreStep
<1>4. CASE DoTaskReturns
  <2>1. CASE core' = "requeue"
    <3>1. /\ InHand = {m_currentTask} /\ InHand' = InHand /\ ~RemoveAfterExcute(m_currentTask)
          /\ UNCHANGED <<m_taskList, pushed, m_curTimes>>
      BY <1>4, <2>1 DEF DoTaskReturns, CoreStep, InHand, history
    <3>2. m_times[m_currentTask] > 0 => m_curTimes[m_currentTask] # m_times[m_currentTask]
      BY <3>1 DEF RemoveAfterExcute
    <3>3. QED
      BY <3>1, <3>2 DEF RunsInv, TimesKept, NewHasNotRun
  <2>2. CASE core' = "reset"
    BY <1>4, <2>2, RunsUnchanged DEF DoTaskReturns, InHand, history
  <2>3. QED
    BY <1>4, <2>1, <2>2 DEF DoTaskReturns, CoreStep
<1>5. CASE CoreRequeues
  <2>1. /\ core = "requeue" /\ InHand = {m_currentTask} /\ InHand' = {} /\ m_currentTask \in Task
        /\ m_taskList' = Append(m_taskList, m_currentTask)
        /\ UNCHANGED <<pushed, m_curTimes>>
    BY <1>0, <1>5 DEF CoreRequeues, CoreStep, InHand, history
  <2>2. Range(m_taskList') = Range(m_taskList) \union {m_currentTask}
    BY <1>0, <2>1, RangeOfAppend
  <2>3. m_times[m_currentTask] > 0 => m_curTimes[m_currentTask] # m_times[m_currentTask]
    BY <2>1 DEF RunsInv, TimesKept
  <2>4. QED
    BY <2>1, <2>2, <2>3 DEF RunsInv, TimesKept, NewHasNotRun
<1>6. CASE Tick \/ ClockSetBack
  BY <1>6, RunsUnchanged DEF Tick, ClockSetBack, InHand, history
<1>7. ASSUME NEW t \in Thread, NEW x \in Task, PushTask(t, x)
      PROVE  RunsInv'
  BY <1>7, RunsUnchanged DEF PushTask, InHand, history
<1>8. ASSUME NEW t \in Thread, PushLocked(t)
      PROVE  RunsInv'
  <2>1. /\ arg[t] \in Task /\ arg[t] \notin pushed /\ m_curTimes[arg[t]] = 0
        /\ m_taskList' = Append(m_taskList, arg[t])
        /\ pushed' = pushed \union {arg[t]} /\ InHand' = InHand /\ UNCHANGED <<core, m_curTimes>>
    BY <1>0, <1>8 DEF PushLocked, InHand
  <2>2. Range(m_taskList') = Range(m_taskList) \union {arg[t]}
    BY <1>0, <2>1, RangeOfAppend
  <2>3. arg[t] \notin InHand
    BY <1>0, <2>1
  <2>4. QED
    BY <2>1, <2>2, <2>3 DEF RunsInv, TimesKept, NewHasNotRun
<1>9. ASSUME DropTasks PROVE Range(m_taskList') = {}
  BY <1>9 DEF DropTasks, Range
<1>10. ASSUME NEW t \in Thread, StopCurrent(t) \/ ClearQueue(t) \/ ClearAll(t)
       PROVE  RunsInv'
  BY <1>9, <1>10, RunsUnchanged DEF StopCurrent, ClearQueue, ClearAll, ClearBody, InHand, history
<1>11. ASSUME NEW t \in Thread, NEW time \in Times, StopQueue(t, time)
       PROVE  RunsInv'
  BY <1>9, <1>11, RunsUnchanged DEF StopQueue, ClearBody, InHand
<1>12. CASE UNCHANGED <<heartVars, history, m_stop>>
  BY <1>12, RunsUnchanged DEF heartVars, history, InHand
<1>13. QED
  BY HeartCases, <1>1, <1>2, <1>3, <1>4, <1>5, <1>6, <1>7, <1>8, <1>10, <1>11, <1>12
     DEF CoreWorks, ThreadWorks, Calls

-----------------------------------------------------------------------------
(* What stop() reaches                                                     *)

(* Every step keeps StopInv: what is in the list or in hand after stop()   *)
(* was in hand when it was called, or was pushed later.                    *)
LEMMA StopInvStep == TypeInv /\ StopInv /\ [Next]_vars => StopInv'
<1> SUFFICES ASSUME TypeInv, StopInv, [Next]_vars PROVE StopInv'
  OBVIOUS
<1> USE HeartbeatAssumption
<1>0. /\ m_taskList \in Seq(Task) /\ arg \in [Thread -> Task \union {NoTask}]
      /\ m_currentTask \in Task \union {NoTask}
      /\ core \in {"due", "do_task", "requeue", "reset"} <=> m_currentTask \in Task
      /\ m_stop /\ m_currentTask # NoTask => m_currentTask \in asked \union overdue
      /\ m_stop => Range(m_taskList) \subseteq asked \union overdue
  BY DEF TypeInv, HeartTypeOK, HasCurrent, StopInv, StopReachesCurrent, StopReachesQueued
<1>1. ASSUME m_stop' = m_stop, asked \subseteq asked', overdue \subseteq overdue',
             m_currentTask' \in {m_currentTask, NoTask}, Range(m_taskList') \subseteq Range(m_taskList)
      PROVE  StopInv'
  BY <1>0, <1>1 DEF StopInv, StopReachesCurrent, StopReachesQueued
<1>2. CASE CoreTop \/ CoreSleeps \/ CoreCounts \/ CoreResets \/ CoreTests \/ DoTaskReturns
  BY <1>1, <1>2
     DEF CoreTop, CoreSleeps, CoreCounts, CoreResets, CoreTests, DoTaskReturns, history, loopVars
<1>3. CASE CoreTakes
  <2>1. CASE core' = "sleep"
    BY <1>1, <1>3, <2>1 DEF CoreTakes, CoreStep, history, loopVars
  <2>2. CASE core' = "due"
    <3>1. /\ m_taskList # <<>> /\ m_taskList' = Tail(m_taskList) /\ m_currentTask' = Head(m_taskList)
          /\ UNCHANGED <<asked, overdue, m_stop>>
      BY <1>3, <2>2 DEF CoreTakes, CoreStep, history, loopVars
    <3>2. Range(m_taskList) = Range(m_taskList') \union {m_currentTask'}
      BY <1>0, <3>1, RangeOfTail
    <3>3. QED
      BY <1>0, <3>1, <3>2 DEF StopInv, StopReachesCurrent, StopReachesQueued
  <2>3. QED
    BY <1>3, <2>1, <2>2 DEF CoreTakes, CoreStep
<1>4. CASE CoreRequeues
  <2>1. /\ m_currentTask \in Task /\ m_taskList' = Append(m_taskList, m_currentTask)
        /\ UNCHANGED <<m_currentTask, asked, overdue, m_stop>>
    BY <1>0, <1>4 DEF CoreRequeues, CoreStep, history, loopVars
  <2>2. Range(m_taskList') = Range(m_taskList) \union {m_currentTask}
    BY <1>0, <2>1, RangeOfAppend
  <2>3. QED
    BY <1>0, <2>1, <2>2 DEF StopInv, StopReachesCurrent, StopReachesQueued
<1>5. CASE Tick \/ ClockSetBack
  BY <1>1, <1>5 DEF Tick, ClockSetBack, history, loopVars
<1>6. ASSUME NEW t \in Thread, NEW x \in Task, PushTask(t, x)
      PROVE  StopInv'
  BY <1>1, <1>6 DEF PushTask, history, loopVars
<1>7. ASSUME NEW t \in Thread, PushLocked(t)
      PROVE  StopInv'
  <2>1. /\ arg[t] \in Task /\ m_taskList' = Append(m_taskList, arg[t])
        /\ overdue' = IF m_stop THEN overdue \union {arg[t]} ELSE overdue
        /\ UNCHANGED <<m_currentTask, asked, m_stop>>
    BY <1>0, <1>7 DEF PushLocked, loopVars
  <2>2. Range(m_taskList') = Range(m_taskList) \union {arg[t]}
    BY <1>0, <2>1, RangeOfAppend
  <2>3. QED
    BY <1>0, <2>1, <2>2 DEF StopInv, StopReachesCurrent, StopReachesQueued
<1>8. ASSUME DropTasks PROVE Range(m_taskList') = {}
  BY <1>8 DEF DropTasks, Range
<1>9. ASSUME NEW t \in Thread, StopCurrent(t) \/ ClearQueue(t) \/ ClearAll(t)
      PROVE  StopInv'
  BY <1>1, <1>8, <1>9 DEF StopCurrent, ClearQueue, ClearAll, ClearBody, AskCurrent, history, loopVars
<1>10. ASSUME NEW t \in Thread, NEW time \in Times, StopQueue(t, time)
       PROVE  StopInv'
  <2>1. CASE m_stop
    BY <1>1, <1>10, <2>1 DEF StopQueue, Stop
  <2>2. CASE ~m_stop
    BY <1>0, <1>8, <1>10, <2>2
       DEF StopQueue, ClearBody, AskCurrent, StopInv, StopReachesCurrent, StopReachesQueued
  <2>3. QED
    BY <2>1, <2>2
<1>11. CASE UNCHANGED <<heartVars, history, m_stop>>
  BY <1>1, <1>11 DEF heartVars, history
<1>12. QED
  BY HeartCases, <1>2, <1>3, <1>4, <1>5, <1>6, <1>7, <1>9, <1>10, <1>11 DEF CoreWorks, ThreadWorks, Calls

HeartInv == TypeInv /\ ListInv /\ RunsInv /\ StopInv

(* All the invariants hold initially and are kept together.                *)
LEMMA HeartInvariant == Safety => []HeartInv
<1>1. Init => HeartInv
  <2> SUFFICES ASSUME Init PROVE HeartInv
    OBVIOUS
  <2>1. TypeInv
    BY HeartTypeInit
  <2>2. Range(m_taskList) = {} /\ InHand = {} /\ IsInjective(m_taskList)
    BY DEF Init, Range, InHand, IsInjective
  <2>3. ListInv
    BY <2>2, HeartbeatAssumption DEF Init, ListInv, EachOnce, ClearedStaysOut, PushedOnce
  <2>4. RunsInv
    BY <2>2, HeartbeatAssumption DEF Init, RunsInv, TimesKept, NewHasNotRun
  <2>5. StopInv
    BY <2>2 DEF Init, LoopInit, StopInv, StopReachesCurrent, StopReachesQueued
  <2>6. QED
    BY <2>1, <2>3, <2>4, <2>5 DEF HeartInv
<1>2. HeartInv /\ [Next]_vars => HeartInv'
  BY TypeStep, ListStep, RunsStep, StopInvStep DEF HeartInv
<1>3. QED
  BY <1>1, <1>2, PTL DEF Safety

(* A task is in one place at a time: it neither runs twice in a turn nor   *)
(* multiplies.                                                             *)
THEOREM HeartEachOnce == Safety => []EachOnce
<1>1. HeartInv => EachOnce
  BY DEF HeartInv, ListInv
<1>2. QED
  BY <1>1, HeartInvariant, PTL

(* A task that clear_queue, clear_all or stop took out of the list never   *)
(* runs again.                                                             *)
THEOREM HeartClearedStaysOut == Safety => []ClearedStaysOut
<1>1. HeartInv => ClearedStaysOut
  BY DEF HeartInv, ListInv
<1>2. QED
  BY <1>1, HeartInvariant, PTL

(* A task that is to run n > 0 times runs at most n times.                 *)
THEOREM HeartTimesKept == Safety => []TimesKept
<1>1. HeartInv => TimesKept
  BY DEF HeartInv, RunsInv
<1>2. QED
  BY <1>1, HeartInvariant, PTL

(* Whatever the Looper has in hand after stop() was told to stop, or was   *)
(* pushed by a thread that had passed the test of m_stop.                  *)
THEOREM HeartStopReachesCurrent == Safety => []StopReachesCurrent
<1>1. HeartInv => StopReachesCurrent
  BY DEF HeartInv, StopInv
<1>2. QED
  BY <1>1, HeartInvariant, PTL

-----------------------------------------------------------------------------
(* The intervals                                                           *)

(* A time below the modulus is not wrapped.                                *)
LEMMA NoWrap ==
  ASSUME NEW n \in Nat, NEW a \in 0 .. n - 1
  PROVE  a % n = a
OBVIOUS

(* Every step keeps ClockInv unless the clock is set back.                 *)
LEMMA ClockStep == ~SetBack /\ TypeInv /\ ClockInv /\ [Next]_vars => ClockInv'
<1> SUFFICES ASSUME ~SetBack, TypeInv, ClockInv, [Next]_vars PROVE ClockInv'
  OBVIOUS
<1> USE HeartbeatAssumption
<1>0. /\ m_preExecuteTime \in [Task -> 0 .. MaxNow] /\ elapsed \in [Task -> Nat] /\ now \in 0 .. MaxNow
      /\ core \in {"due", "do_task", "requeue", "reset"} <=> m_currentTask \in Task
      /\ arg \in [Thread -> Task \union {NoTask}]
  BY DEF TypeInv, HeartTypeOK, HasCurrent
<1>1. CASE UNCHANGED <<m_preExecuteTime, elapsed, now>>
  BY <1>1 DEF ClockInv
<1>2. ASSUME NEW x \in Task, now' = now,
             m_preExecuteTime' = [m_preExecuteTime EXCEPT ![x] = now],
             elapsed' = [elapsed EXCEPT ![x] = 0]
      PROVE  ClockInv'
  <2> SUFFICES ASSUME NEW y \in Task
               PROVE  /\ m_preExecuteTime'[y] <= now'
                      /\ elapsed'[y] >= m_timeOut[y] \/ elapsed'[y] = now' - m_preExecuteTime'[y]
    BY DEF ClockInv
  <2>1. CASE y = x
    BY <1>0, <1>2, <2>1
  <2>2. CASE y # x
    BY <1>0, <1>2, <2>2 DEF ClockInv
  <2>3. QED
    BY <2>1, <2>2
<1>3. CASE Tick
  <2> SUFFICES ASSUME NEW y \in Task
               PROVE  /\ m_preExecuteTime'[y] <= now'
                      /\ elapsed'[y] >= m_timeOut[y] \/ elapsed'[y] = now' - m_preExecuteTime'[y]
    BY DEF ClockInv
  <2>1. /\ m_preExecuteTime[y] \in Nat /\ elapsed[y] \in Nat /\ m_timeOut[y] \in Nat /\ now \in Nat
        /\ m_preExecuteTime[y] <= now
        /\ elapsed[y] >= m_timeOut[y] \/ elapsed[y] = now - m_preExecuteTime[y]
    BY <1>0 DEF ClockInv
  <2>2. /\ now' = now + 1 /\ m_preExecuteTime' = m_preExecuteTime
        /\ elapsed'[y] = IF elapsed[y] < m_timeOut[y] THEN elapsed[y] + 1 ELSE elapsed[y]
    BY <1>3 DEF Tick
  <2>3. QED
    BY <2>1, <2>2
<1>4. CASE CoreTests
  BY <1>0, <1>1, <1>2, <1>4 DEF CoreTests, CoreStep
<1>5. CASE CoreWorks /\ ~CoreTests
  BY <1>1, <1>5 DEF CoreWorks, CoreTop, CoreSleeps, CoreCounts, CoreResets, CoreTakes, CoreRequeues,
                    DoTaskReturns, history
<1>6. ASSUME NEW t \in Thread, PushLocked(t)
      PROVE  ClockInv'
  BY <1>0, <1>2, <1>6 DEF PushLocked
<1>7. ASSUME NEW t \in Thread, Calls(t)
      PROVE  ClockInv'
  BY <1>1, <1>7 DEF Calls, PushTask, StopCurrent, ClearQueue, ClearAll, StopQueue, history
<1>8. CASE UNCHANGED <<heartVars, history, m_stop>>
  BY <1>1, <1>8 DEF heartVars, history
<1>9. ~ClockSetBack
  BY DEF ClockSetBack
<1>10. QED
  BY HeartCases, <1>3, <1>4, <1>5, <1>6, <1>7, <1>8, <1>9 DEF ThreadWorks

(* While nobody sets the clock back, a task starts only when its whole     *)
(* interval has passed.  The condition is needed: when it is set back, the *)
(* unsigned difference of heartbeat_task_queue.cpp:26 wraps and the task   *)
(* starts at once.                                                         *)
THEOREM HeartPeriodKept ==
  ASSUME ~SetBack
  PROVE  Safety => PeriodKept
<1>1. Init => ClockInv
  BY HeartbeatAssumption DEF Init, ClockInv
<1>2. TypeInv /\ ClockInv /\ [Next]_vars
      => [core = "due" /\ core' = "do_task" => elapsed[m_currentTask] >= m_timeOut[m_currentTask]]_vars
  <2> SUFFICES ASSUME TypeInv, ClockInv, [Next]_vars, core = "due", core' = "do_task"
               PROVE  elapsed[m_currentTask] >= m_timeOut[m_currentTask]
    OBVIOUS
  <2>1. CoreTests
    BY HeartCases DEF CoreWorks, ThreadWorks, Calls, CoreTop, CoreSleeps, CoreCounts, CoreResets,
       CoreTakes, CoreRequeues, DoTaskReturns, CoreStep, Tick, ClockSetBack, PushLocked, PushTask,
       StopCurrent, ClearQueue, ClearAll, StopQueue, heartVars
  <2>2. Due(m_currentTask)
    BY <2>1 DEF CoreTests, CoreStep
  <2>3. m_currentTask \in Task
    BY DEF TypeInv, HasCurrent
  <2> DEFINE d == now - m_preExecuteTime[m_currentTask]
  <2>4. d \in 0 .. U64 - 1 /\ U64 \in Nat
    BY <2>3, HeartbeatAssumption DEF TypeInv, HeartTypeOK, ClockInv
  <2>5. d % U64 = d
    BY <2>4, NoWrap
  <2>6. d >= m_timeOut[m_currentTask]
    BY <2>2, <2>5 DEF Due
  <2>7. elapsed[m_currentTask] >= m_timeOut[m_currentTask] \/ elapsed[m_currentTask] = d
    BY <2>3 DEF ClockInv
  <2>8. QED
    BY <2>6, <2>7
<1>3. Safety => []TypeInv
  BY HeartTypeInit, TypeStep, PTL DEF Safety
<1>4. QED
  BY <1>1, <1>2, <1>3, ClockStep, PTL DEF Safety, PeriodKept
=============================================================================
