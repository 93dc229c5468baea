----------------------- MODULE SimpleTaskQueue_proofs -----------------------
(***************************************************************************)
(* The task queue for any threads, tasks and limits: it implements its     *)
(* base class (so what SimpleLoop_proofs shows holds of it), keeps its     *)
(* types and the limit, runs every task it accepted once and in order or   *)
(* drops it, wakes the pushers it has room for, and stops its task.        *)
(***************************************************************************)
EXTENDS SimpleTaskQueue, SimpleLoop_proofs

-----------------------------------------------------------------------------
(* Refinement of the base class                                            *)

(* Every step of the queue is a step of simple_loop or leaves it alone.    *)
LEMMA QueueStepIsLoopStep == [Next]_vars => [LoopNext]_loopVars
<1> SUFFICES ASSUME [Next]_vars PROVE [LoopNext]_loopVars
  OBVIOUS
<1>1. CASE Core
  <2>1. CASE CoreBreaks
    BY <2>1 DEF CoreBreaks, LoopNext, LoopStep
  <2>2. CASE CoreTop \/ CoreWakes \/ DoTaskReturns \/ CoreNotifies \/ CoreResets
    BY <2>2 DEF CoreTop, CoreWakes, DoTaskReturns, CoreNotifies, CoreResets
  <2>3. QED
    BY <1>1, <2>1, <2>2 DEF Core
<1>2. CASE AroundCore
  BY <1>2 DEF AroundCore, LoopNext, LoopStep
<1>3. ASSUME NEW t \in Thread, PushStep(t)
      PROVE  [LoopNext]_loopVars
  BY <1>3 DEF PushStep, PushResumes, PushFails, ClearQueueNotifies
<1>4. ASSUME NEW t \in Thread, StopStep(t)
      PROVE  [LoopNext]_loopVars
  BY <1>4 DEF StopStep, LoopNext
<1>5. ASSUME NEW t \in Thread, Calls(t)
      PROVE  [LoopNext]_loopVars
  <2>1. ASSUME NEW time \in Times, StopQueue(t, time)
        PROVE  [LoopNext]_loopVars
    BY <2>1 DEF StopQueue, LoopNext
  <2>2. QED
    BY <1>5, <2>1 DEF Calls, PushTask, SetMaxCnt, ClearQueue, ClearAll, StopCurrent
<1>6. ASSUME NEW t \in Thread, Environment(t)
      PROVE  [LoopNext]_loopVars
  BY <1>6 DEF Environment, PushTimeout, PushSpuriousWakeup, LoopNext
<1>7. CASE UNCHANGED vars
  BY <1>7 DEF vars
<1>8. QED
  BY <1>1, <1>2, <1>3, <1>4, <1>5, <1>6, <1>7 DEF Next

(* simple_task_queue implements simple_loop: loop_core keeps the contract  *)
(* that the base class relies on.                                          *)
THEOREM QueueRefinesLoop == Safety => LoopSafety
<1>1. Init => LoopInit
  BY DEF Init
<1>2. QED
  BY <1>1, QueueStepIsLoopStep, PTL DEF Safety, LoopSafety

(* A true result of the queue's stop() means that no task runs any more.   *)
THEOREM QueueTrueMeansEnded == Safety => []TrueMeansEnded
BY QueueRefinesLoop, LoopTrueMeansEnded, PTL

-----------------------------------------------------------------------------
(* Types                                                                   *)

(* A thread inside push_task has a task to push, each its own and none     *)
(* accepted yet.                                                           *)
Pending(t) == push[t] \in Sleeping \union {"timeout"}

ArgsPending ==
  /\ \A t \in Thread : Pending(t) => arg[t] \in Task
  /\ \A t \in Thread : arg[t] \in Task => Pending(t) /\ arg[t] \notin Range(accepted)
  /\ \A s, t \in Thread : arg[s] = arg[t] /\ arg[s] \in Task => s = t

TypeInv == TypeOK /\ ArgsPending

(* Every step keeps the types and the pending tasks apart.                 *)
LEMMA TypeStep == TypeInv /\ [Next]_vars => TypeInv'
<1> SUFFICES ASSUME TypeInv, [Next]_vars PROVE TypeInv'
  OBVIOUS
<1>0. LoopTypeOK'
  BY QueueStepIsLoopStep, LoopTypeStep DEF TypeInv, TypeOK
<1> USE <1>0, QueueAssumption, LooperAssumption
    DEF TypeInv, TypeOK, ArgsPending, Pending, CoreStates, PushStates, Sleeping
<1>1. ASSUME NEW t \in Thread, NEW task \in Task, t \notin m_push_cv \/ push[t] = "idle",
             arg[t] \in {task, NoTask}, task \notin Range(accepted),
             \A s \in Thread : arg[s] = task => s = t,
             PushReturnsTrue(t, task),
             UNCHANGED <<m_currentTask, m_max_cnt, core, started, dropped, late, asked>>
      PROVE  TypeInv'
  <2>1. Range(accepted') = Range(accepted) \union {task}
    BY <1>1, RangeOfAppend DEF PushReturnsTrue
  <2>2. TypeOK'
    BY <1>1 DEF PushReturnsTrue
  <2>3. ArgsPending'
    BY <1>1, <2>1 DEF PushReturnsTrue
  <2>4. QED
    BY <2>2, <2>3
<1>2. CASE Core
  <2>1. ASSUME TakeFront, UNCHANGED <<m_max_cnt, m_push_cv, push, arg, accepted, refused, dropped, asked>>
        PROVE  TypeInv'
    <3>1. Head(m_taskQue) \in Task /\ Tail(m_taskQue) \in Seq(Task)
      BY <2>1, HeadTailProperties DEF TakeFront
    <3>2. Append(started, Head(m_taskQue)) \in Seq(Task)
      BY <3>1, AppendProperties, Zenon
    <3>3. started' = started \/ started' = Append(started, Head(m_taskQue))
      BY <2>1 DEF TakeFront
    <3>4. started' \in Seq(Task)
      <4>1. CASE started' = started
        BY <4>1
      <4>2. CASE started' = Append(started, Head(m_taskQue))
        BY <3>2, <4>2, Zenon
      <4>3. QED
        BY <3>3, <4>1, <4>2
    <3>5. QED
      BY <2>1, <3>1, <3>4 DEF TakeFront
  <2>2. QED
    BY <1>2, <2>1 DEF Core, CoreTop, CoreBreaks, CoreWakes, DoTaskReturns, CoreNotifies, CoreResets,
       NotifyPushers, queueVars, history
<1>3. CASE AroundCore
  BY <1>3 DEF AroundCore, queueVars, history
<1>4. ASSUME NEW t \in Thread, PushStep(t)
      PROVE  TypeInv'
  <2>1. CASE PushResumes(t)
    <3>1. CASE PushReturnsTrue(t, arg[t])
      BY <1>1, <2>1, <3>1 DEF PushResumes
    <3>2. CASE PushSleeps(t, arg[t], push[t])
      BY <2>1, <3>2 DEF PushResumes, PushSleeps
    <3>3. QED
      BY <2>1, <3>1, <3>2 DEF PushResumes
  <2>2. CASE PushFails(t)
    BY <2>2 DEF PushFails, PushReturnsFalse
  <2>3. CASE ClearQueueNotifies(t)
    BY <2>3 DEF ClearQueueNotifies, NotifyPushers, history
  <2>4. QED
    BY <1>4, <2>1, <2>2, <2>3 DEF PushStep
<1>5. ASSUME NEW t \in Thread, StopStep(t)
      PROVE  TypeInv'
  BY <1>5 DEF StopStep, queueVars, history
<1>6. ASSUME NEW t \in Thread, NEW task \in Task, NEW how \in Times, PushTask(t, task, how)
      PROVE  TypeInv'
  <2>1. push[t] = "idle" /\ arg[t] = NoTask /\ task \notin Range(accepted) /\ ~\E s \in Thread : arg[s] = task
    BY <1>6 DEF PushTask, Free, Fresh
  <2>2. CASE PushReturnsTrue(t, task)
    BY <1>1, <1>6, <2>1, <2>2 DEF PushTask
  <2>3. CASE PushReturnsFalse(t, task)
    BY <1>6, <2>1, <2>3 DEF PushTask, PushReturnsFalse
  <2>4. CASE PushSleeps(t, task, how)
    BY <1>6, <2>1, <2>4 DEF PushTask, PushSleeps
  <2>5. QED
    BY <1>6, <2>2, <2>3, <2>4 DEF PushTask
<1>7. ASSUME NEW t \in Thread,
             \/ \E max_cnt \in MaxCnts : SetMaxCnt(t, max_cnt)
             \/ ClearQueue(t)
             \/ ClearAll(t)
             \/ StopCurrent(t)
             \/ \E time \in Times : StopQueue(t, time)
      PROVE  TypeInv'
  <2>1. DropTasks => m_taskQue' \in Seq(Task) /\ dropped' \subseteq Task
    BY DEF DropTasks, Range
  <2>2. NotifyPushers => m_push_cv' \subseteq Thread
    BY DEF NotifyPushers
  <2>3. QED
    BY <1>7, <2>1, <2>2
       DEF SetMaxCnt, ClearQueue, ClearAll, StopCurrent, StopQueue, ClearBody, AskCurrent, Free, history
<1>8. ASSUME NEW t \in Thread, Environment(t)
      PROVE  TypeInv'
  BY <1>8 DEF Environment, PushTimeout, PushSpuriousWakeup, queueVars, history
<1>9. CASE UNCHANGED vars
  BY <1>9 DEF vars, queueVars, history
<1>10. QED
  BY <1>2, <1>3, <1>4, <1>5, <1>6, <1>7, <1>8, <1>9 DEF Next, Calls

(* The queue keeps its types and its pending tasks.                        *)
LEMMA TypeInvariant == Safety => []TypeInv
<1>1. Init => TypeInv
  <2> SUFFICES ASSUME Init PROVE TypeInv
    OBVIOUS
  <2>1. LoopTypeOK
    BY DEF Init, LoopInit, EventInit, LoopTypeOK, EventTypeOK, EvStates, Outside, Sleeping,
       LoopStates, CallStates, Returned
  <2>2. ArgsPending
    BY QueueAssumption DEF Init, ArgsPending, Pending, Sleeping
  <2>3. TypeOK
    BY <2>1, QueueAssumption DEF Init, TypeOK, CoreStates, PushStates
  <2>4. QED
    BY <2>2, <2>3 DEF TypeInv
<1>2. QED
  BY <1>1, TypeStep, PTL DEF Safety

(* The queue keeps its types.                                              *)
THEOREM QueueTypeCorrect == Safety => []TypeOK
<1>1. TypeInv => TypeOK
  BY DEF TypeInv
<1>2. QED
  BY <1>1, TypeInvariant, PTL

-----------------------------------------------------------------------------
(* The order of the tasks                                                  *)

Accepts(task) ==
  /\ task \notin Range(accepted)
  /\ m_taskQue' = Append(m_taskQue, task)
  /\ accepted' = Append(accepted, task)
  /\ HasRoom
  /\ UNCHANGED <<started, dropped, m_max_cnt>>

(* What a step can do to the tasks: one is accepted, the front is taken, a *)
(* clear throws them away, or nothing.                                     *)
LEMMA QueueEffect ==
  ASSUME TypeInv, [Next]_vars
  PROVE  \/ \E task \in Task : Accepts(task)
         \/ TakeFront /\ UNCHANGED <<accepted, dropped>>
         \/ DropTasks /\ UNCHANGED <<accepted, started>>
         \/ UNCHANGED <<m_taskQue, accepted, started, dropped>>
<1> DEFINE Effect == \/ \E task \in Task : Accepts(task)
                     \/ TakeFront /\ UNCHANGED <<accepted, dropped>>
                     \/ DropTasks /\ UNCHANGED <<accepted, started>>
                     \/ UNCHANGED <<m_taskQue, accepted, started, dropped>>
<1>1. CASE Core
  BY <1>1 DEF Core, CoreTop, CoreBreaks, CoreWakes, DoTaskReturns, CoreNotifies, CoreResets, queueVars, history
<1>2. CASE AroundCore
  BY <1>2 DEF AroundCore, queueVars, history
<1>3. ASSUME NEW t \in Thread, PushStep(t)
      PROVE  Effect
  <2>1. CASE PushResumes(t)
    <3>1. Pending(t)
      BY <2>1 DEF PushResumes, Pending
    <3>2. arg[t] \in Task /\ arg[t] \notin Range(accepted)
      BY <3>1 DEF TypeInv, ArgsPending
    <3>3. CASE HasRoom /\ PushReturnsTrue(t, arg[t])
      BY <2>1, <3>2, <3>3 DEF PushResumes, PushReturnsTrue, Accepts
    <3>4. CASE PushSleeps(t, arg[t], push[t])
      BY <2>1, <3>4 DEF PushResumes, PushSleeps
    <3>5. QED
      BY <2>1, <3>3, <3>4 DEF PushResumes
  <2>2. CASE PushFails(t)
    BY <2>2 DEF PushFails, PushReturnsFalse
  <2>3. CASE ClearQueueNotifies(t)
    BY <2>3 DEF ClearQueueNotifies, history
  <2>4. QED
    BY <1>3, <2>1, <2>2, <2>3 DEF PushStep
<1>4. ASSUME NEW t \in Thread, StopStep(t)
      PROVE  Effect
  BY <1>4 DEF StopStep, queueVars, history
<1>5. ASSUME NEW t \in Thread, NEW task \in Task, NEW how \in Times, PushTask(t, task, how)
      PROVE  Effect
  <2>1. task \notin Range(accepted)
    BY <1>5 DEF PushTask, Fresh
  <2>2. CASE HasRoom /\ PushReturnsTrue(t, task)
    BY <1>5, <2>1, <2>2 DEF PushTask, PushReturnsTrue, Accepts
  <2>3. CASE PushReturnsFalse(t, task) \/ PushSleeps(t, task, how)
    BY <1>5, <2>3 DEF PushTask, PushReturnsFalse, PushSleeps
  <2>4. QED
    BY <1>5, <2>2, <2>3 DEF PushTask
<1>6. ASSUME NEW t \in Thread,
             \/ \E max_cnt \in MaxCnts : SetMaxCnt(t, max_cnt)
             \/ ClearQueue(t)
             \/ ClearAll(t)
             \/ StopCurrent(t)
             \/ \E time \in Times : StopQueue(t, time)
      PROVE  Effect
  BY <1>6 DEF SetMaxCnt, ClearQueue, ClearAll, StopCurrent, StopQueue, ClearBody, history
<1>7. ASSUME NEW t \in Thread, Environment(t)
      PROVE  Effect
  BY <1>7 DEF Environment, PushTimeout, PushSpuriousWakeup, queueVars, history
<1>8. CASE UNCHANGED vars
  BY <1>8 DEF vars, queueVars, history
<1>9. QED
  BY <1>1, <1>2, <1>3, <1>4, <1>5, <1>6, <1>7, <1>8 DEF Next, Calls

(* How many tasks have left the queue, by the loop or by a clear.          *)
Gone == Len(accepted) - Len(m_taskQue)

(* The queue is what was accepted last; what has started was accepted      *)
(* before that, in the order of the starts.                                *)
TasksInOrder ==
  /\ IsInjective(accepted)
  /\ Gone >= 0
  /\ \A j \in 1 .. Len(m_taskQue) : m_taskQue[j] = accepted[Gone + j]
  /\ \A i \in 1 .. Len(started) : \E p \in 1 .. Gone : accepted[p] = started[i]
  /\ \A i, j \in 1 .. Len(started) : i < j => Before(started[i], started[j])

(* No step breaks the order.                                               *)
LEMMA TasksInOrderStep == TypeInv /\ TasksInOrder /\ [Next]_vars => TasksInOrder'
<1> SUFFICES ASSUME TypeInv, TasksInOrder, [Next]_vars PROVE TasksInOrder'
  OBVIOUS
<1>0. /\ m_taskQue \in Seq(Task) /\ accepted \in Seq(Task) /\ started \in Seq(Task)
      /\ Len(m_taskQue) \in Nat /\ Len(accepted) \in Nat /\ Len(started) \in Nat
      /\ DOMAIN accepted = 1 .. Len(accepted)
  BY LenProperties DEF TypeInv, TypeOK
<1>1. ASSUME NEW task \in Task, Accepts(task)
      PROVE  TasksInOrder'
  <2>1. IsInjective(accepted')
    BY <1>0, <1>1, InjectiveAppend DEF Accepts, TasksInOrder
  <2>2. /\ Len(accepted') = Len(accepted) + 1 /\ DOMAIN accepted' = 1 .. Len(accepted) + 1
        /\ \A i \in 1 .. Len(accepted) : accepted'[i] = accepted[i]
        /\ accepted'[Len(accepted) + 1] = task
    <3>1. accepted' \in Seq(Task)
      BY <1>0, <1>1, AppendProperties DEF Accepts
    <3>2. QED
      BY <1>0, <1>1, <3>1, AppendProperties, LenProperties DEF Accepts
  <2>3. /\ Len(m_taskQue') = Len(m_taskQue) + 1
        /\ \A i \in 1 .. Len(m_taskQue) : m_taskQue'[i] = m_taskQue[i]
        /\ m_taskQue'[Len(m_taskQue) + 1] = task
    BY <1>0, <1>1, AppendProperties DEF Accepts
  <2>4. Gone' = Gone /\ Gone \in Nat
    BY <1>0, <2>2, <2>3 DEF Gone, TasksInOrder
  <2>5. \A j \in 1 .. Len(m_taskQue') : m_taskQue'[j] = accepted'[Gone' + j]
    <3> SUFFICES ASSUME NEW j \in 1 .. Len(m_taskQue) + 1
                 PROVE  m_taskQue'[j] = accepted'[Gone + j]
      BY <2>3, <2>4
    <3>1. CASE j \in 1 .. Len(m_taskQue)
      <4>1. Gone + j \in 1 .. Len(accepted)
        BY <1>0, <2>4, <3>1 DEF Gone
      <4>2. QED
        BY <2>2, <2>3, <3>1, <4>1 DEF TasksInOrder
    <3>2. CASE j = Len(m_taskQue) + 1
      BY <1>0, <2>2, <2>3, <3>2 DEF Gone
    <3>3. QED
      BY <1>0, <3>1, <3>2
  <2>6. started' = started
    BY <1>1 DEF Accepts
  <2>7. \A i \in 1 .. Len(started') : \E p \in 1 .. Gone' : accepted'[p] = started'[i]
    <3>1. 1 .. Gone \subseteq 1 .. Len(accepted)
      BY <1>0 DEF Gone
    <3>2. QED
      BY <2>2, <2>4, <2>6, <3>1 DEF TasksInOrder
  <2>8. \A i, j \in 1 .. Len(started') : i < j => Before(started[i], started[j])'
    BY <1>0, <2>2, <2>6 DEF TasksInOrder, Before
  <2>9. QED
    BY <2>1, <2>4, <2>5, <2>7, <2>8 DEF TasksInOrder
<1>2. CASE TakeFront /\ UNCHANGED <<accepted, dropped>>
  <2>1. /\ Len(m_taskQue') = Len(m_taskQue) - 1 /\ m_taskQue # <<>> /\ Len(m_taskQue) > 0
        /\ \A i \in 1 .. Len(m_taskQue) - 1 : m_taskQue'[i] = m_taskQue[i + 1]
        /\ Head(m_taskQue) = m_taskQue[1] /\ Head(m_taskQue) \in Task
    BY <1>0, <1>2, HeadTailProperties, EmptySeq DEF TakeFront
  <2>2. Gone' = Gone + 1 /\ Gone \in Nat /\ Gone' \in 1 .. Len(accepted)
    BY <1>0, <1>2, <2>1 DEF Gone, TasksInOrder
  <2>3. \A j \in 1 .. Len(m_taskQue') : m_taskQue'[j] = accepted'[Gone' + j]
    <3> SUFFICES ASSUME NEW j \in 1 .. Len(m_taskQue) - 1
                 PROVE  m_taskQue[j + 1] = accepted[(Gone + 1) + j]
      BY <1>0, <1>2, <2>1, <2>2
    <3>1. j + 1 \in 1 .. Len(m_taskQue) /\ (Gone + 1) + j = Gone + (j + 1)
      BY <1>0, <2>2
    <3>2. QED
      BY <3>1 DEF TasksInOrder
  <2>4. accepted[Gone'] = Head(m_taskQue)
    <3>1. 1 \in 1 .. Len(m_taskQue)
      BY <1>0, <2>1
    <3>2. QED
      BY <2>1, <2>2, <3>1 DEF TasksInOrder
  <2>5. \A x, y : Before(x, y)' <=> Before(x, y)
    BY <1>2 DEF Before
  <2>6. \A x : (\E p \in 1 .. Gone : accepted[p] = x) => \E p \in 1 .. Gone' : accepted'[p] = x
    BY <1>2, <2>2
  <2>7. IsInjective(accepted') /\ Gone' >= 0
    BY <1>2, <2>2 DEF TasksInOrder
  <2>8. CASE started' = started
    BY <2>3, <2>5, <2>6, <2>7, <2>8 DEF TasksInOrder
  <2>9. CASE started' = Append(started, Head(m_taskQue))
    <3>1. /\ Len(started') = Len(started) + 1
          /\ \A i \in 1 .. Len(started) : started'[i] = started[i]
          /\ started'[Len(started) + 1] = Head(m_taskQue)
      BY <1>0, <2>1, <2>9, AppendProperties
    <3>2. \A i \in 1 .. Len(started') : \E p \in 1 .. Gone' : accepted'[p] = started'[i]
      <4> SUFFICES ASSUME NEW i \in 1 .. Len(started) + 1
                   PROVE  \E p \in 1 .. Gone' : accepted'[p] = started'[i]
        BY <3>1
      <4>1. CASE i \in 1 .. Len(started)
        BY <2>6, <3>1, <4>1 DEF TasksInOrder
      <4>2. CASE i = Len(started) + 1
        BY <1>2, <2>2, <2>4, <3>1, <4>2
      <4>3. QED
        BY <1>0, <4>1, <4>2
    <3>3. ASSUME NEW i \in 1 .. Len(started'), NEW j \in 1 .. Len(started'), i < j
          PROVE  Before(started[i], started[j])'
      <4>1. CASE j \in 1 .. Len(started)
        <5>1. i \in 1 .. Len(started)
          BY <1>0, <3>3, <4>1
        <5>2. Before(started[i], started[j])
          BY <3>3, <4>1, <5>1 DEF TasksInOrder
        <5>3. Before(started[i], started[j])'
          BY <1>2, <2>5, <3>1, <4>1, <5>1, <5>2
        <5>4. QED
          BY <5>3
      <4>2. CASE j = Len(started) + 1
        <5>1. i \in 1 .. Len(started)
          BY <1>0, <3>1, <3>3, <4>2
        <5>2. PICK p \in 1 .. Gone : accepted[p] = started[i]
          BY <5>1 DEF TasksInOrder
        <5>3. p \in DOMAIN accepted /\ Gone' \in DOMAIN accepted /\ p < Gone'
          BY <1>0, <2>2
        <5>4. QED
          <6>1. Before(started[i], Head(m_taskQue))
            BY <1>2, <2>4, <5>2, <5>3 DEF Before
          <6>2. started'[i] = started[i] /\ started'[j] = Head(m_taskQue)
            BY <3>1, <4>2, <5>1
          <6>3. QED
            BY <2>5, <6>1, <6>2
      <4>3. QED
        BY <1>0, <3>1, <4>1, <4>2
    <3>4. QED
      BY <2>3, <2>7, <3>2, <3>3 DEF TasksInOrder
  <2>10. QED
    BY <1>2, <2>8, <2>9 DEF TakeFront
<1>3. CASE DropTasks /\ UNCHANGED <<accepted, started>>
  <2>1. Len(m_taskQue') = 0
    BY <1>3, EmptySeq DEF DropTasks
  <2>2. Gone' = Len(accepted) /\ 1 .. Gone \subseteq 1 .. Gone'
    BY <1>0, <1>3, <2>1 DEF Gone
  <2>3. \A x, y : Before(x, y)' <=> Before(x, y)
    BY <1>3 DEF Before
  <2>4. \A x : (\E p \in 1 .. Gone : accepted[p] = x) => \E p \in 1 .. Gone' : accepted'[p] = x
    BY <1>3, <2>2
  <2>5. IsInjective(accepted') /\ Gone' >= 0 /\ \A j \in 1 .. Len(m_taskQue') : FALSE
    BY <1>0, <1>3, <2>1, <2>2 DEF TasksInOrder
  <2>6. QED
    BY <1>3, <2>3, <2>4, <2>5 DEF TasksInOrder
<1>4. CASE UNCHANGED <<m_taskQue, accepted, started, dropped>>
  BY <1>4 DEF TasksInOrder, Gone, Before
<1>5. QED
  BY <1>1, <1>2, <1>3, <1>4, QueueEffect

(* TasksInOrder is what FifoOnce needs.                                    *)
LEMMA OrderIsFifo == TypeInv /\ TasksInOrder => FifoOnce
<1> SUFFICES ASSUME TypeInv, TasksInOrder PROVE FifoOnce
  OBVIOUS
<1>1. /\ Len(m_taskQue) \in Nat /\ Len(accepted) \in Nat
      /\ DOMAIN accepted = 1 .. Len(accepted)
      /\ DOMAIN m_taskQue = 1 .. Len(m_taskQue) /\ DOMAIN started = 1 .. Len(started)
  BY LenProperties DEF TypeInv, TypeOK
<1>2. ASSUME NEW i \in DOMAIN started, NEW j \in DOMAIN started, i < j
      PROVE  Before(started[i], started[j]) /\ started[i] # started[j]
  <2>1. Before(started[i], started[j])
    BY <1>1, <1>2 DEF TasksInOrder
  <2>2. PICK p, q \in DOMAIN accepted : p < q /\ accepted[p] = started[i] /\ accepted[q] = started[j]
    BY <2>1 DEF Before
  <2>3. p # q
    BY <1>1, <2>2
  <2>4. QED
    BY <2>1, <2>2, <2>3 DEF TasksInOrder, IsInjective
<1>3. ASSUME NEW i \in DOMAIN started, NEW j \in DOMAIN m_taskQue
      PROVE  Before(started[i], m_taskQue[j])
  <2>1. PICK p \in 1 .. Gone : accepted[p] = started[i]
    BY <1>1 DEF TasksInOrder
  <2>2. accepted[Gone + j] = m_taskQue[j]
    BY <1>1 DEF TasksInOrder
  <2>3. p \in DOMAIN accepted /\ Gone + j \in DOMAIN accepted /\ p < Gone + j
    BY <1>1 DEF Gone
  <2>4. QED
    BY <2>1, <2>2, <2>3 DEF Before
<1>4. QED
  BY <1>2, <1>3 DEF FifoOnce

(* Tasks are started in the order of their acceptance, at most once, for   *)
(* any tasks, limits and callers (simple_task_queue.cpp:88, 121-123).      *)
THEOREM QueueFifoOnce == Safety => []FifoOnce
<1>1. Init => TasksInOrder
  BY EmptySeq DEF Init, TasksInOrder, Gone, IsInjective
<1>2. QED
  BY <1>1, TypeInvariant, TasksInOrderStep, OrderIsFifo, PTL DEF Safety

-----------------------------------------------------------------------------
(* No task is lost                                                         *)

(* A task that has gone from the queue has started, was thrown away or is  *)
(* null; what was thrown away had been accepted.                           *)
TasksKept == NoTaskLost /\ dropped \subseteq Range(accepted)

(* The queue and the started tasks are apart and were all accepted.        *)
LEMMA OrderIsDisjoint ==
  ASSUME TypeInv, TasksInOrder
  PROVE  /\ Range(started) \intersect Range(m_taskQue) = {}
         /\ Range(started) \union Range(m_taskQue) \subseteq Range(accepted)
<1>1. /\ Len(m_taskQue) \in Nat /\ Len(accepted) \in Nat
      /\ DOMAIN accepted = 1 .. Len(accepted)
      /\ DOMAIN m_taskQue = 1 .. Len(m_taskQue) /\ DOMAIN started = 1 .. Len(started)
  BY LenProperties DEF TypeInv, TypeOK
<1>2. ASSUME NEW i \in DOMAIN started, NEW j \in DOMAIN m_taskQue
      PROVE  started[i] # m_taskQue[j]
  <2>1. Before(started[i], m_taskQue[j])
    BY OrderIsFifo DEF FifoOnce
  <2>2. PICK p, q \in DOMAIN accepted : p < q /\ accepted[p] = started[i] /\ accepted[q] = m_taskQue[j]
    BY <2>1 DEF Before
  <2>3. p # q
    BY <1>1, <2>2
  <2>4. QED
    BY <2>2, <2>3 DEF TasksInOrder, IsInjective
<1>3. ASSUME NEW i \in DOMAIN started
      PROVE  started[i] \in Range(accepted)
  <2>1. PICK p \in 1 .. Gone : accepted[p] = started[i]
    BY <1>1 DEF TasksInOrder
  <2>2. p \in DOMAIN accepted
    BY <1>1 DEF Gone
  <2>3. QED
    BY <2>1, <2>2 DEF Range
<1>4. ASSUME NEW j \in DOMAIN m_taskQue
      PROVE  m_taskQue[j] \in Range(accepted)
  <2>1. accepted[Gone + j] = m_taskQue[j] /\ Gone + j \in DOMAIN accepted
    BY <1>1 DEF TasksInOrder, Gone
  <2>2. QED
    BY <2>1 DEF Range
<1>5. QED
  BY <1>2, <1>3, <1>4 DEF Range

(* No step loses a task or brings one back.                                *)
LEMMA TasksKeptStep ==
  TypeInv /\ TasksInOrder /\ TasksKept /\ [Next]_vars => TasksKept'
<1> SUFFICES ASSUME TypeInv, TasksInOrder, TasksKept, [Next]_vars PROVE TasksKept'
  OBVIOUS
<1>0. m_taskQue \in Seq(Task) /\ accepted \in Seq(Task) /\ started \in Seq(Task)
  BY DEF TypeInv, TypeOK
<1>1. ASSUME NEW task \in Task, Accepts(task)
      PROVE  TasksKept'
  <2>1. /\ Range(accepted') = Range(accepted) \union {task}
        /\ Range(m_taskQue') = Range(m_taskQue) \union {task}
    BY <1>0, <1>1, RangeOfAppend DEF Accepts
  <2>2. task \notin dropped /\ UNCHANGED <<started, dropped>>
    BY <1>1 DEF Accepts, TasksKept
  <2>3. QED
    BY <2>1, <2>2 DEF TasksKept, NoTaskLost
<1>2. CASE TakeFront /\ UNCHANGED <<accepted, dropped>>
  <2>1. Range(m_taskQue) = Range(m_taskQue') \union {Head(m_taskQue)}
    BY <1>0, <1>2, RangeOfTail DEF TakeFront
  <2>2. CASE Head(m_taskQue) \in NullTask /\ UNCHANGED started
    BY <1>2, <2>1, <2>2 DEF TasksKept, NoTaskLost
  <2>3. CASE started' = Append(started, Head(m_taskQue))
    <3>1. Head(m_taskQue) \in Task
      BY <1>0, <1>2, HeadTailProperties DEF TakeFront
    <3>2. Range(started') = Range(started) \union {Head(m_taskQue)}
      BY <1>0, <2>3, <3>1, RangeOfAppend
    <3>3. QED
      BY <1>2, <2>1, <3>2 DEF TasksKept, NoTaskLost
  <2>4. QED
    BY <1>2, <2>2, <2>3 DEF TakeFront
<1>3. CASE DropTasks /\ UNCHANGED <<accepted, started>>
  <2>1. Range(m_taskQue') = {}
    BY <1>3 DEF DropTasks, Range
  <2>2. dropped' = dropped \union Range(m_taskQue)
    BY <1>3 DEF DropTasks
  <2>3. QED
    BY <1>3, <2>1, <2>2, OrderIsDisjoint DEF TasksKept, NoTaskLost
<1>4. CASE UNCHANGED <<m_taskQue, accepted, started, dropped>>
  BY <1>4 DEF TasksKept, NoTaskLost
<1>5. QED
  BY <1>1, <1>2, <1>3, <1>4, QueueEffect

(* What push_task accepted is queued, started or cleared, and what was     *)
(* cleared never starts (simple_task_queue.cpp:60-69, 104-128).            *)
THEOREM QueueNoTaskLost == Safety => []NoTaskLost
<1>1. Init => TasksInOrder /\ TasksKept
  BY EmptySeq DEF Init, TasksInOrder, Gone, IsInjective, TasksKept, NoTaskLost, Range
<1>2. TasksKept => NoTaskLost
  BY DEF TasksKept
<1>3. QED
  BY <1>1, <1>2, TypeInvariant, TasksInOrderStep, TasksKeptStep, PTL DEF Safety

-----------------------------------------------------------------------------
(* The limit                                                               *)

(* A queue grows only within the limit in force at that step.              *)
LEMMA GrowsWithinLimit ==
  ASSUME TypeInv, [Next]_vars, Len(m_taskQue') > Len(m_taskQue)
  PROVE  m_max_cnt = MaxU32 \/ Len(m_taskQue') <= m_max_cnt
<1>0. m_taskQue \in Seq(Task) /\ Len(m_taskQue) \in Nat /\ m_max_cnt \in Nat
  BY QueueAssumption, LenProperties DEF TypeInv, TypeOK
<1>1. ASSUME NEW task \in Task, Accepts(task)
      PROVE  m_max_cnt = MaxU32 \/ Len(m_taskQue') <= m_max_cnt
  <2>1. Len(m_taskQue') = Len(m_taskQue) + 1
    BY <1>0, <1>1, AppendProperties DEF Accepts
  <2>2. QED
    BY <1>0, <1>1, <2>1 DEF Accepts, HasRoom
<1>2. ~TakeFront
  <2>1. TakeFront => Len(m_taskQue') = Len(m_taskQue) - 1
    BY <1>0, HeadTailProperties DEF TakeFront
  <2>2. QED
    BY <1>0, <2>1
<1>3. ~DropTasks
  <2>1. DropTasks => Len(m_taskQue') = 0
    BY EmptySeq DEF DropTasks
  <2>2. QED
    BY <1>0, <2>1
<1>4. ~UNCHANGED m_taskQue
  BY <1>0
<1>5. QED
  BY <1>1, <1>2, <1>3, <1>4, QueueEffect

(* The queue never outgrows its limit, whichever pushers race for a place  *)
(* and whenever the limit changes (simple_task_queue.cpp:78-88).           *)
THEOREM QueueRespectsMaxCnt == Safety => RespectsMaxCnt
<1>1. TypeInv /\ [Next]_vars =>
        [Len(m_taskQue') > Len(m_taskQue) => m_max_cnt = MaxU32 \/ Len(m_taskQue') <= m_max_cnt]_vars
  BY GrowsWithinLimit
<1>2. QED
  BY <1>1, TypeInvariant, PTL DEF Safety, RespectsMaxCnt

-----------------------------------------------------------------------------
(* The reach of stop                                                       *)

(* A task starts after m_stop only out of the wait for m_dotask_cv, which  *)
(* the loop then does not reach any more.                                  *)
LateOnce ==
  /\ StopReachesTask
  /\ late # {} => m_stop /\ core # "wait"

(* Every step keeps it; only TakeFront and StopQueue touch its parts.      *)
LEMMA LateOnceStep == TypeInv /\ LateOnce /\ [Next]_vars => LateOnce'
<1> SUFFICES ASSUME TypeInv, LateOnce, [Next]_vars PROVE LateOnce'
  OBVIOUS
<1> USE DEF LateOnce, StopReachesTask
<1>1. CASE CoreTop
  BY <1>1 DEF CoreTop, TakeFront, InCore, loopVars
<1>2. CASE CoreWakes
  BY <1>2 DEF CoreWakes, TakeFront, InCore, loopVars
<1>3. CASE CoreBreaks
  BY <1>3 DEF CoreBreaks, LoopCoreReturns, queueVars, history
<1>4. CASE DoTaskReturns \/ CoreNotifies \/ CoreResets
  BY <1>4 DEF DoTaskReturns, CoreNotifies, CoreResets, InCore, loopVars, history
<1>5. CASE AroundCore
  BY <1>5 DEF AroundCore, LoopBegin, LoopEnd, LoopSignalsEnd, LoopReturns, queueVars, history
<1>6. ASSUME NEW t \in Thread, PushStep(t)
      PROVE  LateOnce'
  BY <1>6 DEF PushStep, PushResumes, PushFails, ClearQueueNotifies, loopVars, history
<1>7. ASSUME NEW t \in Thread, StopStep(t)
      PROVE  LateOnce'
  <2>1. UNCHANGED m_stop
    BY <1>7 DEF StopStep, CallStep, CheckLoopEnd, WaitEndEvent, Renotify, WaitSucceeds, WaitTimesOut, InsideWait
  <2>2. QED
    BY <1>7, <2>1 DEF StopStep, queueVars, history
<1>8. ASSUME NEW t \in Thread, NEW time \in Times, StopQueue(t, time)
      PROVE  LateOnce'
  BY <1>8 DEF StopQueue, Stop, ClearBody, AskCurrent
<1>9. ASSUME NEW t \in Thread,
             \/ \E task \in Task, how \in Times : PushTask(t, task, how)
             \/ \E max_cnt \in MaxCnts : SetMaxCnt(t, max_cnt)
             \/ ClearQueue(t)
             \/ ClearAll(t)
             \/ StopCurrent(t)
      PROVE  LateOnce'
  BY <1>9 DEF PushTask, SetMaxCnt, ClearQueue, ClearAll, StopCurrent, ClearBody, AskCurrent, loopVars, history
<1>10. ASSUME NEW t \in Thread, Environment(t)
       PROVE  LateOnce'
  BY <1>10 DEF Environment, PushTimeout, PushSpuriousWakeup, WaitEnvironment, loopVars, queueVars, history
<1>11. CASE UNCHANGED vars
  BY <1>11 DEF vars, loopVars, queueVars, history
<1>12. QED
  BY <1>1, <1>2, <1>3, <1>4, <1>5, <1>6, <1>7, <1>8, <1>9, <1>10, <1>11 DEF Next, Core, Calls

(* stop() has asked the task it finds running, and at most one task starts *)
(* after it (simple_task_queue.cpp:30-42, 114-119).                        *)
THEOREM QueueStopReachesTask == Safety => []StopReachesTask
<1>1. Init => LateOnce
  BY DEF Init, LoopInit, LateOnce, StopReachesTask
<1>2. LateOnce => StopReachesTask
  BY DEF LateOnce
<1>3. QED
  BY <1>1, <1>2, TypeInvariant, LateOnceStep, PTL DEF Safety

-----------------------------------------------------------------------------
(* Blocked pushers                                                         *)

(* Who is in m_push_cv is in its wait.                                     *)
PushersSleep == \A t \in m_push_cv : push[t] \in Sleeping

(* The limit is one of those it was ever set to.                           *)
LimitKnown == m_max_cnt \in MaxCnts \union {InitMaxCnt}

PushInv == NoLostPush /\ PushersSleep /\ LimitKnown

(* Who wakes a pusher leaves a woken one, which will look at the queue.    *)
LEMMA WokenPusher ==
  ASSUME TypeInv, PushersSleep, NotifyPushers, m_push_cv' # {}
  PROVE  \E s \in Thread : push[s] \in Sleeping /\ s \notin m_push_cv'
BY DEF NotifyPushers, PushersSleep, TypeInv, TypeOK

(* Each step that takes the reason away why a sleeper may sleep on gives   *)
(* another: the task taken will notify, the notify wakes a pusher, and a   *)
(* woken pusher leaves a task in the queue.                                *)
LEMMA PushInvStep == TypeInv /\ TasksInOrder /\ PushInv /\ [Next]_vars => PushInv'
<1> SUFFICES ASSUME TypeInv, TasksInOrder, PushInv, [Next]_vars PROVE PushInv'
  OBVIOUS
<1>0. m_taskQue \in Seq(Task) /\ accepted \in Seq(Task)
  BY DEF TypeInv, TypeOK
<1>a. ASSUME NEW task \in Task PROVE Append(m_taskQue, task) # <<>>
  BY <1>0, AppendProperties
<1>b. m_max_cnt # 0 /\ ~HasRoom => m_taskQue # <<>>
  BY <1>0, QueueAssumption, EmptySeq DEF HasRoom, TypeInv, TypeOK
<1>c. m_taskQue # <<>> => Head(m_taskQue) \in Range(accepted)
  BY <1>0, RangeOfTail, OrderIsDisjoint
<1> USE QueueAssumption DEF PushInv, NoLostPush, PushersSleep, LimitKnown, Sleeping
<1>1. CASE CoreTop
  BY <1>1, <1>c DEF CoreTop, TakeFront, InCore, TypeInv, TypeOK
<1>2. CASE CoreWakes
  BY <1>2, <1>c DEF CoreWakes, TakeFront, InCore, TypeInv, TypeOK
<1>3. CASE CoreBreaks
  BY <1>3 DEF CoreBreaks, queueVars, history
<1>4. CASE DoTaskReturns \/ CoreResets
  BY <1>4 DEF DoTaskReturns, CoreResets, InCore, history
<1>5. CASE CoreNotifies
  <2>1. PushersSleep' /\ LimitKnown'
    BY <1>5 DEF CoreNotifies, NotifyPushers
  <2>2. NoLostPush'
    BY <1>5, WokenPusher DEF CoreNotifies, history
  <2>3. QED
    BY <2>1, <2>2
<1>6. CASE AroundCore
  BY <1>6 DEF AroundCore, queueVars, history
<1>7. ASSUME NEW t \in Thread, PushResumes(t)
      PROVE  PushInv'
  <2>1. arg[t] \in Task /\ push[t] \in Sleeping /\ t \notin m_push_cv
    BY <1>7 DEF PushResumes, TypeInv, ArgsPending, Pending
  <2>2. CASE HasRoom /\ PushReturnsTrue(t, arg[t])
    BY <1>7, <1>a, <2>1, <2>2 DEF PushResumes, PushReturnsTrue, TypeInv, TypeOK
  <2>3. CASE ~HasRoom /\ PushSleeps(t, arg[t], push[t])
    BY <1>7, <1>b, <2>1, <2>3 DEF PushResumes, PushSleeps, TypeInv, TypeOK
  <2>4. QED
    BY <1>7, <2>2, <2>3 DEF PushResumes
<1>8. ASSUME NEW t \in Thread, PushFails(t)
      PROVE  PushInv'
  BY <1>8 DEF PushFails, PushReturnsFalse, TypeInv, TypeOK
<1>9. ASSUME NEW t \in Thread, ClearQueueNotifies(t)
      PROVE  PushInv'
  <2>1. PushersSleep' /\ LimitKnown'
    BY <1>9 DEF ClearQueueNotifies, NotifyPushers, TypeInv, TypeOK
  <2>2. ASSUME m_push_cv' # {}
        PROVE  \E s \in Thread : push'[s] \in Sleeping /\ s \notin m_push_cv'
    <3>1. PICK s \in Thread : push[s] \in Sleeping /\ s \notin m_push_cv'
      BY <1>9, <2>2, WokenPusher DEF ClearQueueNotifies
    <3>2. s # t
      BY <1>9, <3>1 DEF ClearQueueNotifies
    <3>3. QED
      BY <1>9, <3>1, <3>2 DEF ClearQueueNotifies, TypeInv, TypeOK
  <2>3. NoLostPush'
    BY <1>9, <2>2 DEF ClearQueueNotifies, history
  <2>4. QED
    BY <2>1, <2>3
<1>10. ASSUME NEW t \in Thread, StopStep(t)
       PROVE  PushInv'
  BY <1>10 DEF StopStep, queueVars, history
<1>11. ASSUME NEW t \in Thread, NEW task \in Task, NEW how \in Times, PushTask(t, task, how)
       PROVE  PushInv'
  <2>1. push[t] = "idle" /\ how \in Sleeping
    BY <1>11, LooperAssumption DEF PushTask, Free
  <2>2. CASE HasRoom /\ PushReturnsTrue(t, task)
    BY <1>11, <1>a, <2>1, <2>2 DEF PushTask, PushReturnsTrue, TypeInv, TypeOK
  <2>3. CASE ~HasRoom /\ PushSleeps(t, task, how)
    BY <1>11, <1>b, <2>1, <2>3 DEF PushTask, PushSleeps, TypeInv, TypeOK
  <2>4. CASE PushReturnsFalse(t, task)
    BY <1>11, <2>1, <2>4 DEF PushTask, PushReturnsFalse, TypeInv, TypeOK
  <2>5. QED
    BY <1>11, <2>2, <2>3, <2>4 DEF PushTask
<1>12. ASSUME NEW t \in Thread, NEW max_cnt \in MaxCnts, SetMaxCnt(t, max_cnt)
       PROVE  PushInv'
  BY <1>12 DEF SetMaxCnt, history
<1>13. ASSUME NEW t \in Thread, ClearQueue(t)
       PROVE  PushInv'
  BY <1>13 DEF ClearQueue, Free, TypeInv, TypeOK
<1>14. ASSUME NotifyPushers, UNCHANGED <<push, core, m_max_cnt, accepted>>
       PROVE  PushInv'
  <2>1. PushersSleep' /\ LimitKnown'
    BY <1>14 DEF NotifyPushers
  <2>2. QED
    BY <1>14, <2>1, WokenPusher
<1>15. ASSUME NEW t \in Thread, ClearAll(t) \/ \E time \in Times : StopQueue(t, time)
       PROVE  PushInv'
  BY <1>14, <1>15 DEF ClearAll, StopQueue, ClearBody
<1>16. ASSUME NEW t \in Thread, StopCurrent(t)
       PROVE  PushInv'
  BY <1>16 DEF StopCurrent, history
<1>17. ASSUME NEW t \in Thread, Environment(t)
       PROVE  PushInv'
  BY <1>17 DEF Environment, PushTimeout, PushSpuriousWakeup, queueVars, history, TypeInv, TypeOK
<1>18. CASE UNCHANGED vars
  BY <1>18 DEF vars, queueVars, history
<1>19. QED
  BY <1>1, <1>2, <1>3, <1>4, <1>5, <1>6, <1>7, <1>8, <1>9, <1>10, <1>11, <1>12, <1>13, <1>15, <1>16, <1>17, <1>18
     DEF Next, Core, PushStep, Calls

(* No wakeup of a blocked pusher is lost, for any number of pushers and    *)
(* any limits but 0 (simple_task_queue.cpp:68, 79-85, 132).                *)
THEOREM QueueNoLostPush == Safety => []NoLostPush
<1>1. Init => TasksInOrder /\ PushInv
  BY EmptySeq DEF Init, TasksInOrder, Gone, IsInjective, PushInv, NoLostPush, PushersSleep, LimitKnown
<1>2. PushInv => NoLostPush
  BY DEF PushInv
<1>3. QED
  BY <1>1, <1>2, TypeInvariant, TasksInOrderStep, PushInvStep, PTL DEF Safety
=============================================================================
