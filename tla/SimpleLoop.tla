----------------------------- MODULE SimpleLoop -----------------------------
(***************************************************************************)
(* The base class of every task loop, ddm/src/thread/loop/simple_loop.cpp: *)
(* one thread, Looper, runs loop(); any thread calls stop() and            *)
(* wait_loop_end(), the Looper too while it runs loop_core() (a task may   *)
(* stop the queue that runs it).                                           *)
(*                                                                         *)
(* loop_core() is pure virtual.  What it owes this class is modelled here: *)
(* it returns, once, after it has seen m_stop.  SimpleTaskQueue and        *)
(* HeartbeatTaskQueue give its body.                                       *)
(*                                                                         *)
(* The sections under m_mutex are single actions.  m_loopId is the Looper  *)
(* from LoopBegin on, and before that the Looper makes no call, so the     *)
(* test m_loopId == trdId is t = Looper.                                   *)
(***************************************************************************)
EXTENDS SimpleEvent

CONSTANTS
  Looper,       \* the thread that runs loop()
  Times         \* the waiting times callers pass: "wait" stands for MAX_U32,
                \* "wait_for" for any other

ASSUME LooperAssumption ==
  /\ Looper \in Thread
  /\ Times \subseteq Sleeping

VARIABLES
  m_stop,
  m_has_loop_beg,
  m_has_loop_end,
  loop,         \* where the Looper is in loop()
  call,         \* where each thread is in stop() / wait_loop_end()
  waitTime      \* each thread's argument of these calls

loopVars == <<m_stop, m_has_loop_beg, m_has_loop_end, loop, call, waitTime, eventVars>>

Returned   == {"idle", "true", "false"}
LoopStates == {"before", "core", "core_done", "end", "notify", "after"}
CallStates == Returned \union {"check", "event", "waiting", "renotify"}

LoopTypeOK ==
  /\ EventTypeOK
  /\ m_stop \in BOOLEAN
  /\ m_has_loop_beg \in BOOLEAN
  /\ m_has_loop_end \in BOOLEAN
  /\ loop \in LoopStates
  /\ call \in [Thread -> CallStates]
  /\ waitTime \in [Thread -> Sleeping]

LoopInit ==
  /\ EventInit
  /\ m_stop = FALSE
  /\ m_has_loop_beg = FALSE
  /\ m_has_loop_end = FALSE
  /\ loop = "before"
  /\ call = [t \in Thread |-> "idle"]
  /\ waitTime = [t \in Thread |-> "wait"]

-----------------------------------------------------------------------------
(* loop()                                                                  *)

LoopBegin ==
  /\ loop = "before"
  /\ m_has_loop_beg' = TRUE
  /\ loop' = IF m_has_loop_end THEN "after" ELSE "core"
  /\ UNCHANGED <<m_stop, m_has_loop_end, call, waitTime, eventVars>>

(* loop_core() leaves its loop.  It is not inside a call of its own.       *)
LoopCoreReturns ==
  /\ loop = "core"
  /\ m_stop
  /\ call[Looper] \in Returned
  /\ loop' = "core_done"
  /\ UNCHANGED <<m_stop, m_has_loop_beg, m_has_loop_end, call, waitTime, eventVars>>

LoopEnd ==
  /\ loop = "core_done"
  /\ m_has_loop_end' = TRUE
  /\ loop' = "end"
  /\ UNCHANGED <<m_stop, m_has_loop_beg, call, waitTime, eventVars>>

LoopSignalsEnd ==
  /\ loop = "end"
  /\ EventNotifyOne(Looper)
  /\ loop' = "notify"
  /\ UNCHANGED <<m_stop, m_has_loop_beg, m_has_loop_end, call, waitTime>>

(* Mutant: the end is flagged and the sleepers are left asleep.            *)
LoopReturnsSilently ==
  /\ loop = "notify"
  /\ loop' = "after"
  /\ UNCHANGED <<m_stop, m_has_loop_beg, m_has_loop_end, call, waitTime, eventVars>>

LoopReturns ==
  /\ loop = "notify"
  /\ ConNotifyOne(Looper)
  /\ loop' = "after"
  /\ UNCHANGED <<m_stop, m_has_loop_beg, m_has_loop_end, call, waitTime>>

-----------------------------------------------------------------------------
(* stop() and wait_loop_end()                                              *)

MayCall(t) == call[t] \in Returned /\ (t = Looper => loop = "core")

Enter(t, time) ==
  /\ MayCall(t)
  /\ call' = [call EXCEPT ![t] = "check"]
  /\ waitTime' = [waitTime EXCEPT ![t] = time]

Stop(t, time) ==
  /\ Enter(t, time)
  /\ m_stop' = TRUE
  /\ UNCHANGED <<m_has_loop_beg, m_has_loop_end, loop, eventVars>>

WaitLoopEnd(t, time) ==
  /\ Enter(t, time)
  /\ UNCHANGED <<m_stop, m_has_loop_beg, m_has_loop_end, loop, eventVars>>

(* Mutant: a loop that has not begun is not marked as ended.               *)
CheckWithoutCancel(t) ==
  /\ call[t] = "check"
  /\ \/ /\ m_has_loop_end \/ ~m_has_loop_beg
        /\ call' = [call EXCEPT ![t] = "true"]
        /\ UNCHANGED waitTime
     \/ /\ ~m_has_loop_end /\ m_has_loop_beg
        /\ call' = [call EXCEPT ![t] = "event"]
        /\ waitTime' = [waitTime EXCEPT ![t] = IF t = Looper THEN "wait_for" ELSE @]
  /\ UNCHANGED <<m_stop, m_has_loop_beg, m_has_loop_end, loop, eventVars>>

(* Mutant: the loop's own thread waits for the loop's end.                 *)
CheckOnLoopThread(t) ==
  /\ call[t] = "check"
  /\ \/ /\ m_has_loop_end \/ ~m_has_loop_beg
        /\ m_has_loop_end' = TRUE
        /\ call' = [call EXCEPT ![t] = "true"]
     \/ /\ ~m_has_loop_end /\ m_has_loop_beg
        /\ call' = [call EXCEPT ![t] = "event"]
        /\ UNCHANGED m_has_loop_end
  /\ UNCHANGED <<m_stop, m_has_loop_beg, loop, waitTime, eventVars>>

(* The locked section: a loop that has ended, or has not begun, needs no   *)
(* waiting; on the loop's own thread the waiting time becomes 0.           *)
CheckLoopEnd(t) ==
  /\ call[t] = "check"
  /\ \/ /\ m_has_loop_end \/ ~m_has_loop_beg
        /\ m_has_loop_end' = TRUE
        /\ call' = [call EXCEPT ![t] = "true"]
        /\ UNCHANGED waitTime
     \/ /\ ~m_has_loop_end /\ m_has_loop_beg
        /\ call' = [call EXCEPT ![t] = "event"]
        /\ waitTime' = [waitTime EXCEPT ![t] = IF t = Looper THEN "wait_for" ELSE @]
        /\ UNCHANGED m_has_loop_end
  /\ UNCHANGED <<m_stop, m_has_loop_beg, loop, eventVars>>

WaitEndEvent(t) ==
  /\ call[t] = "event"
  /\ EventWait(t, waitTime[t])
  /\ call' = [call EXCEPT ![t] = "waiting"]
  /\ UNCHANGED <<m_stop, m_has_loop_beg, m_has_loop_end, loop, waitTime>>

(* Mutant: the signal is not passed on.                                    *)
KeepSignal(t) ==
  /\ call[t] = "waiting"
  /\ ev[t] = "true"
  /\ call' = [call EXCEPT ![t] = "true"]
  /\ UNCHANGED <<m_stop, m_has_loop_beg, m_has_loop_end, loop, waitTime, eventVars>>

(* "防止重复调用wait_loop_end": who got the signal signals again, for the      *)
(* other waiters and for later calls.                                      *)
Renotify(t) ==
  /\ call[t] = "waiting"
  /\ ev[t] = "true"
  /\ EventNotifyOne(t)
  /\ call' = [call EXCEPT ![t] = "renotify"]
  /\ UNCHANGED <<m_stop, m_has_loop_beg, m_has_loop_end, loop, waitTime>>

WaitSucceeds(t) ==
  /\ call[t] = "renotify"
  /\ ConNotifyOne(t)
  /\ call' = [call EXCEPT ![t] = "true"]
  /\ UNCHANGED <<m_stop, m_has_loop_beg, m_has_loop_end, loop, waitTime>>

WaitTimesOut(t) ==
  /\ call[t] = "waiting"
  /\ ev[t] = "false"
  /\ call' = [call EXCEPT ![t] = "false"]
  /\ UNCHANGED <<m_stop, m_has_loop_beg, m_has_loop_end, loop, waitTime, eventVars>>

(* Inside m_loopEndEvent.wait().                                           *)
InsideWait(t) ==
  /\ EventResume(t) \/ EventWaitFails(t)
  /\ UNCHANGED <<m_stop, m_has_loop_beg, m_has_loop_end, loop, call, waitTime>>

WaitEnvironment(t) ==
  /\ SpuriousWakeup(t) \/ EventTimeout(t)
  /\ UNCHANGED <<m_stop, m_has_loop_beg, m_has_loop_end, loop, call, waitTime>>

-----------------------------------------------------------------------------
CallStep(t) ==
  \/ CheckLoopEnd(t)
  \/ WaitEndEvent(t)
  \/ Renotify(t)
  \/ WaitSucceeds(t)
  \/ WaitTimesOut(t)
  \/ InsideWait(t)

LoopStep == LoopBegin \/ LoopCoreReturns \/ LoopEnd \/ LoopSignalsEnd \/ LoopReturns

LoopNext ==
  \/ LoopStep
  \/ \E t \in Thread :
       \/ CallStep(t)
       \/ WaitEnvironment(t)
       \/ \E time \in Times : Stop(t, time) \/ WaitLoopEnd(t, time)

LoopSafety == LoopInit /\ [][LoopNext]_loopVars

WaitForExpires(t) == EventTimeout(t) /\ WaitEnvironment(t)

(* The Looper runs and a thread inside a call runs on.  Strong fairness    *)
(* for what spurious wakeups or a task calling stop() again and again can  *)
(* delay: a wait_for ends (each spurious wakeup starts its time afresh),   *)
(* and loop_core() returns in the end.                                     *)
LoopFairness ==
  /\ WF_loopVars(LoopStep)
  /\ SF_loopVars(LoopCoreReturns)
  /\ \A t \in Thread : WF_loopVars(CallStep(t))
  /\ \A t \in Thread : SF_loopVars(WaitForExpires(t))

LoopSpec == LoopSafety /\ LoopFairness

-----------------------------------------------------------------------------
(* stop() and wait_loop_end() return true only when loop_core() is not     *)
(* running and will not run any more, whatever the order in which the loop *)
(* thread and the callers get the mutex (simple_loop.cpp:18-69): a loop    *)
(* that has not begun is cancelled by the call that returned true.         *)
TrueMeansEnded ==
  (\E t \in Thread : call[t] = "true") =>
    /\ loop \notin {"core", "core_done"}
    /\ loop = "before" => m_has_loop_end

(* Nobody sleeps on m_loopEndEvent for good after the loop has ended: a    *)
(* signal is set or one of the threads that pass it on is under way.       *)
EndSignalKept ==
  loop = "after" /\ m_con # {} =>
    \/ m_hasSignal
    \/ \E t \in Thread : call[t] = "waiting" /\ ev[t] = "true"

(* Every call of stop() returns, however many threads call it at once and  *)
(* although notify_one() wakes a single one of them.                       *)
StopReturns ==
  \A t \in Thread : (m_stop /\ call[t] \notin Returned) ~> call[t] \in Returned

(* The loop ends after a stop(), also when its own thread called it with a *)
(* waiting time (simple_loop.cpp:29-33).                                   *)
StopEndsLoop == m_stop ~> loop = "after"
=============================================================================
