------------------------- MODULE SimpleLoop_proofs -------------------------
(***************************************************************************)
(* The event and the loop that waits on it, for any set of threads.        *)
(*                                                                         *)
(* The event never loses a signal beside a sleeper, provided reset() is    *)
(* never called with true: reset(true) sets the flag and wakes nobody.     *)
(*                                                                         *)
(* wait_loop_end() and stop() return true only when the loop is over for   *)
(* good, and a signal of m_loopEndEvent, once given, stays available to    *)
(* everyone who still waits.  The loop uses the event only through its     *)
(* methods (LoopRefinesEvent), which is how the event's theorems carry     *)
(* over.                                                                   *)
(***************************************************************************)
EXTENDS SimpleLoop, SequenceTheorems, TLAPS

-----------------------------------------------------------------------------
(* Lists                                                                   *)

(* What push_back adds to the elements of a list.                          *)
LEMMA RangeOfAppend ==
  ASSUME NEW S, NEW s \in Seq(S), NEW e \in S
  PROVE  Range(Append(s, e)) = Range(s) \union {e}
<1> DEFINE last == <<e>>
<1>1. Append(s, e) = s \o last
  BY AppendIsConcat
<1>2. last \in Seq(S) /\ Range(last) = {e}
  BY DEF Range
<1> HIDE DEF last
<1>3. Range(s \o last) = Range(s) \union Range(last)
  BY <1>2, RangeConcatenation
<1>4. QED
  BY <1>1, <1>2, <1>3

(* ... and what pop_front takes out of them: at most the front.            *)
LEMMA RangeOfTail ==
  ASSUME NEW S, NEW s \in Seq(S), s # <<>>
  PROVE  Range(s) = Range(Tail(s)) \union {Head(s)}
<1>1. Range(s) \subseteq Range(Tail(s)) \union {Head(s)}
  <2> SUFFICES ASSUME NEW i \in 1 .. Len(s), s[i] # Head(s)
               PROVE  s[i] \in Range(Tail(s))
    BY DEF Range
  <2>1. i - 1 \in DOMAIN Tail(s) /\ Tail(s)[i - 1] = s[i]
    BY HeadTailProperties
  <2>2. QED
    BY <2>1 DEF Range
<1>2. Range(Tail(s)) \subseteq Range(s)
  <2> SUFFICES ASSUME NEW i \in 1 .. Len(Tail(s))
               PROVE  Tail(s)[i] \in Range(s)
    BY HeadTailProperties, LenProperties DEF Range
  <2>1. i + 1 \in DOMAIN s /\ Tail(s)[i] = s[i + 1]
    BY HeadTailProperties, LenProperties
  <2>2. QED
    BY <2>1 DEF Range
<1>3. Head(s) \in Range(s)
  <2>1. 1 \in DOMAIN s /\ Head(s) = s[1]
    BY LenProperties, EmptySeq
  <2>2. QED
    BY <2>1 DEF Range
<1>4. QED
  BY <1>1, <1>2, <1>3

(* A list without repetitions stays one when a new element is put behind.  *)
LEMMA InjectiveAppend ==
  ASSUME NEW S, NEW s \in Seq(S), NEW e \in S, IsInjective(s), e \notin Range(s)
  PROVE  IsInjective(Append(s, e))
<1>1. DOMAIN Append(s, e) = 1 .. (Len(s) + 1) /\ DOMAIN s = 1 .. Len(s) /\ Len(s) \in Nat
  BY AppendProperties, LenProperties
<1>2. \A i \in 1 .. Len(s) : Append(s, e)[i] = s[i] /\ s[i] # e
  BY <1>1, AppendProperties DEF Range
<1>3. Append(s, e)[Len(s) + 1] = e
  BY AppendProperties
<1>4. SUFFICES ASSUME NEW i \in 1 .. (Len(s) + 1), NEW j \in 1 .. (Len(s) + 1),
                      Append(s, e)[i] = Append(s, e)[j]
               PROVE  i = j
  BY <1>1 DEF IsInjective
<1>5. CASE i \in 1 .. Len(s) /\ j \in 1 .. Len(s)
  BY <1>1, <1>2, <1>4, <1>5 DEF IsInjective
<1>6. CASE i = Len(s) + 1 \/ j = Len(s) + 1
  BY <1>1, <1>2, <1>3, <1>4, <1>6
<1>7. QED
  BY <1>1, <1>5, <1>6

-----------------------------------------------------------------------------
(* The event                                                               *)

(* Who is in m_con sleeps: it is in neither a notify nor a return.         *)
SleepersSleep == \A t \in m_con : ev[t] \in Sleeping

EventInv == EventTypeOK /\ SleepersSleep /\ NoLostSignal

(* Type correctness of the event, step by step.                            *)
LEMMA EventTypeStep == EventTypeOK /\ [EventNext]_eventVars => EventTypeOK'
<1> SUFFICES ASSUME EventTypeOK, [EventNext]_eventVars
             PROVE  EventTypeOK'
  OBVIOUS
<1> USE ResetAssumption DEF EventTypeOK, EvStates, Outside, Sleeping
<1>1. ASSUME NEW t \in Thread, EventStep(t)
      PROVE  EventTypeOK'
  BY <1>1 DEF EventStep, EventResume, WaitTurn, EventWaitFails, ConNotifyOne, ConNotifyAll
<1>2. ASSUME NEW t \in Thread, EventCall(t)
      PROVE  EventTypeOK'
  BY <1>2 DEF EventCall, EventWait, WaitTurn, EventNotifyOne, EventNotifyAll, EventReset
<1>3. ASSUME NEW t \in Thread, SpuriousWakeup(t) \/ EventTimeout(t)
      PROVE  EventTypeOK'
  BY <1>3 DEF SpuriousWakeup, EventTimeout
<1>4. CASE UNCHANGED eventVars
  BY <1>4 DEF eventVars
<1>5. QED
  BY <1>1, <1>2, <1>3, <1>4 DEF EventNext

(* The sleepers stay what SleepersSleep says they are.                     *)
LEMMA SleepersStep == EventTypeOK /\ SleepersSleep /\ [EventNext]_eventVars => SleepersSleep'
<1> SUFFICES ASSUME EventTypeOK, SleepersSleep, [EventNext]_eventVars
             PROVE  SleepersSleep'
  OBVIOUS
<1> USE DEF EventTypeOK, EvStates, Outside, Sleeping, SleepersSleep
<1>1. ASSUME NEW t \in Thread, EventStep(t)
      PROVE  SleepersSleep'
  BY <1>1 DEF EventStep, EventResume, WaitTurn, EventWaitFails, ConNotifyOne, ConNotifyAll
<1>2. ASSUME NEW t \in Thread, EventCall(t)
      PROVE  SleepersSleep'
  BY <1>2 DEF EventCall, EventWait, WaitTurn, EventNotifyOne, EventNotifyAll, EventReset
<1>3. ASSUME NEW t \in Thread, SpuriousWakeup(t) \/ EventTimeout(t)
      PROVE  SleepersSleep'
  BY <1>3 DEF SpuriousWakeup, EventTimeout
<1>4. CASE UNCHANGED eventVars
  BY <1>4 DEF eventVars
<1>5. QED
  BY <1>1, <1>2, <1>3, <1>4 DEF EventNext

(* The heart of the proof: whoever removes a reason for NoLostSignal, by   *)
(* taking the signal, by waking a thread or by notifying, leaves another.  *)
LEMMA NoLostSignalStep ==
  ASSUME TRUE \notin ResetValues, EventInv, [EventNext]_eventVars
  PROVE  NoLostSignal'
<1> USE ResetAssumption DEF EventInv, EventTypeOK, EvStates, Outside, Sleeping, SleepersSleep,
                            NoLostSignal, WakeupUnderWay
<1>1. ASSUME NEW t \in Thread, EventResume(t)
      PROVE  NoLostSignal'
  BY <1>1 DEF EventResume, WaitTurn
<1>2. ASSUME NEW t \in Thread, EventWaitFails(t)
      PROVE  NoLostSignal'
  BY <1>2 DEF EventWaitFails
<1>3. ASSUME NEW t \in Thread, ConNotifyOne(t)
      PROVE  NoLostSignal'
  <2>1. CASE m_con = {} /\ UNCHANGED m_con
    BY <1>3, <2>1 DEF ConNotifyOne
  <2>2. ASSUME NEW s \in m_con, m_con' = m_con \ {s}
        PROVE  NoLostSignal'
    \* s is awake now and has yet to test the flag
    BY <1>3, <2>2 DEF ConNotifyOne
  <2>3. QED
    BY <1>3, <2>1, <2>2 DEF ConNotifyOne
<1>4. ASSUME NEW t \in Thread, ConNotifyAll(t)
      PROVE  NoLostSignal'
  BY <1>4 DEF ConNotifyAll
<1>5. ASSUME NEW t \in Thread, NEW how \in Sleeping, EventWait(t, how)
      PROVE  NoLostSignal'
  BY <1>5 DEF EventWait, WaitTurn
<1>6. ASSUME NEW t \in Thread, EventNotifyOne(t)
      PROVE  NoLostSignal'
  BY <1>6 DEF EventNotifyOne
<1>7. ASSUME NEW t \in Thread, EventNotifyAll(t)
      PROVE  NoLostSignal'
  BY <1>7 DEF EventNotifyAll
<1>8. ASSUME NEW t \in Thread, NEW signal \in ResetValues, EventReset(t, signal)
      PROVE  NoLostSignal'
  BY <1>8 DEF EventReset
<1>9. ASSUME NEW t \in Thread, SpuriousWakeup(t)
      PROVE  NoLostSignal'
  BY <1>9 DEF SpuriousWakeup
<1>10. ASSUME NEW t \in Thread, EventTimeout(t)
       PROVE  NoLostSignal'
  BY <1>10 DEF EventTimeout
<1>11. CASE UNCHANGED eventVars
  BY <1>11 DEF eventVars
<1>12. QED
  BY <1>1, <1>2, <1>3, <1>4, <1>5, <1>6, <1>7, <1>8, <1>9, <1>10, <1>11
     DEF EventNext, EventStep, EventCall

(* The event of simple_event.h keeps its types.                            *)
THEOREM EventTypeCorrect == EventSafety => []EventTypeOK
<1>1. EventInit => EventTypeOK
  BY DEF EventInit, EventTypeOK, EvStates, Outside
<1>2. QED
  BY <1>1, EventTypeStep, PTL DEF EventSafety

(* No lost wakeup in wait()/notify_one()/notify_all(), for every set of    *)
(* threads, if reset(true) is not used.                                    *)
THEOREM EventNoLostSignal ==
  ASSUME TRUE \notin ResetValues
  PROVE  EventSafety => []NoLostSignal
<1>1. EventInit => EventInv
  BY DEF EventInit, EventInv, EventTypeOK, EvStates, Outside, SleepersSleep, NoLostSignal
<1>2. EventInv /\ [EventNext]_eventVars => EventInv'
  BY EventTypeStep, SleepersStep, NoLostSignalStep DEF EventInv
<1>3. EventInv => NoLostSignal
  BY DEF EventInv
<1>4. QED
  BY <1>1, <1>2, <1>3, PTL DEF EventSafety

-----------------------------------------------------------------------------
(* The loop                                                                *)

(* What the two flags say about the Looper.                                *)
EndPhase ==
  /\ m_has_loop_beg <=> loop # "before"
  /\ loop \in {"core", "core_done"} => ~m_has_loop_end
  /\ loop \in {"end", "notify", "after"} => m_has_loop_end

(* Every sign of the end that a caller can see comes after the end.        *)
EndSigns ==
  /\ ~m_notyfiall
  /\ m_hasSignal => m_has_loop_end
  /\ \A t \in Thread : ev[t] = "true" \/ call[t] \in {"true", "renotify"} => m_has_loop_end

InEvent == {"event", "waiting", "renotify"}

(* Who is inside m_loopEndEvent.wait() is in wait_loop_end(), of a loop    *)
(* that has begun.                                                         *)
CallsMatch ==
  \A t \in Thread :
    /\ ev[t] \in Sleeping \union {"timeout", "true"} => call[t] = "waiting"
    /\ call[t] \in InEvent => m_has_loop_beg

(* While a caller is anywhere in its wait, the end signal is set or in the *)
(* hands of a thread that will set it again.  It strengthens EndSignalKept *)
(* to the callers that have not gone to sleep yet.                         *)
SignalHeld ==
  loop \in {"notify", "after"} /\ (\E t \in Thread : call[t] \in InEvent) =>
    \/ m_hasSignal
    \/ \E t \in Thread : call[t] = "waiting" /\ ev[t] = "true"

LoopInv ==
  /\ LoopTypeOK
  /\ EndPhase
  /\ EndSigns
  /\ CallsMatch
  /\ SignalHeld
  /\ SleepersSleep

-----------------------------------------------------------------------------
(* Every step of the loop is a step of its event or leaves the event       *)
(* alone: simple_loop.cpp touches m_loopEndEvent through wait() and        *)
(* notify_one() only.                                                      *)
LEMMA LoopStepIsEventStep == LoopTypeOK /\ [LoopNext]_loopVars => [EventNext]_eventVars
<1> SUFFICES ASSUME LoopTypeOK, [LoopNext]_loopVars
             PROVE  [EventNext]_eventVars
  OBVIOUS
<1> USE LooperAssumption
<1>1. CASE LoopStep
  <2>1. CASE LoopBegin \/ LoopCoreReturns \/ LoopEnd
    BY <2>1 DEF LoopBegin, LoopCoreReturns, LoopEnd
  <2>2. CASE LoopSignalsEnd
    BY <2>2 DEF LoopSignalsEnd, EventNext, EventCall
  <2>3. CASE LoopReturns
    BY <2>3 DEF LoopReturns, EventNext, EventStep
  <2>4. QED
    BY <1>1, <2>1, <2>2, <2>3 DEF LoopStep
<1>2. ASSUME NEW t \in Thread, CallStep(t)
      PROVE  [EventNext]_eventVars
  <2>1. CASE CheckLoopEnd(t) \/ WaitTimesOut(t)
    BY <2>1 DEF CheckLoopEnd, WaitTimesOut
  <2>2. CASE WaitEndEvent(t)
    BY <2>2 DEF WaitEndEvent, EventNext, EventCall, LoopTypeOK
  <2>3. CASE Renotify(t)
    BY <2>3 DEF Renotify, EventNext, EventCall
  <2>4. CASE WaitSucceeds(t)
    BY <2>4 DEF WaitSucceeds, EventNext, EventStep
  <2>5. CASE InsideWait(t)
    BY <2>5 DEF InsideWait, EventNext, EventStep
  <2>6. QED
    BY <1>2, <2>1, <2>2, <2>3, <2>4, <2>5 DEF CallStep
<1>3. ASSUME NEW t \in Thread, WaitEnvironment(t)
      PROVE  [EventNext]_eventVars
  BY <1>3 DEF WaitEnvironment, EventNext
<1>4. ASSUME NEW t \in Thread, NEW time \in Times, Stop(t, time) \/ WaitLoopEnd(t, time)
      PROVE  [EventNext]_eventVars
  BY <1>4 DEF Stop, WaitLoopEnd
<1>5. CASE UNCHANGED loopVars
  BY <1>5 DEF loopVars
<1>6. QED
  BY <1>1, <1>2, <1>3, <1>4, <1>5 DEF LoopNext

(* Type correctness of the loop, step by step.                             *)
LEMMA LoopTypeStep == LoopTypeOK /\ [LoopNext]_loopVars => LoopTypeOK'
<1> SUFFICES ASSUME LoopTypeOK, [LoopNext]_loopVars
             PROVE  LoopTypeOK'
  OBVIOUS
<1>0. EventTypeOK'
  BY LoopStepIsEventStep, EventTypeStep DEF LoopTypeOK
<1> USE <1>0, LooperAssumption DEF LoopTypeOK, LoopStates, CallStates, Returned, Sleeping
<1>1. CASE LoopStep
  BY <1>1 DEF LoopStep, LoopBegin, LoopCoreReturns, LoopEnd, LoopSignalsEnd, LoopReturns
<1>2. ASSUME NEW t \in Thread, CallStep(t)
      PROVE  LoopTypeOK'
  BY <1>2 DEF CallStep, CheckLoopEnd, WaitTimesOut, WaitEndEvent, Renotify, WaitSucceeds, InsideWait
<1>3. ASSUME NEW t \in Thread, WaitEnvironment(t)
      PROVE  LoopTypeOK'
  BY <1>3 DEF WaitEnvironment
<1>4. ASSUME NEW t \in Thread, NEW time \in Times, Stop(t, time) \/ WaitLoopEnd(t, time)
      PROVE  LoopTypeOK'
  BY <1>4 DEF Stop, WaitLoopEnd, Enter, MayCall
<1>5. CASE UNCHANGED loopVars
  BY <1>5 DEF loopVars
<1>6. QED
  BY <1>1, <1>2, <1>3, <1>4, <1>5 DEF LoopNext

(* Each action keeps the parts of LoopInv that speak of flags and calls.   *)
LEMMA LoopInvStep ==
  ASSUME LoopInv, [LoopNext]_loopVars
  PROVE  EndPhase' /\ EndSigns' /\ CallsMatch' /\ SignalHeld'
<1> DEFINE Goal == EndPhase /\ EndSigns /\ CallsMatch /\ SignalHeld
<1> USE LooperAssumption
    DEF LoopInv, LoopTypeOK, EventTypeOK, EvStates, Outside, Sleeping, LoopStates, CallStates,
        Returned, EndPhase, EndSigns, CallsMatch, SignalHeld, InEvent
<1>1. CASE LoopBegin
  BY <1>1 DEF LoopBegin, eventVars
<1>2. CASE LoopCoreReturns
  BY <1>2 DEF LoopCoreReturns, eventVars
<1>3. CASE LoopEnd
  BY <1>3 DEF LoopEnd, eventVars
<1>4. CASE LoopSignalsEnd
  BY <1>4 DEF LoopSignalsEnd, EventNotifyOne
<1>5. CASE LoopReturns
  BY <1>5 DEF LoopReturns, ConNotifyOne
<1>6. ASSUME NEW t \in Thread, CheckLoopEnd(t)
      PROVE  Goal'
  BY <1>6 DEF CheckLoopEnd, eventVars
<1>7. ASSUME NEW t \in Thread, WaitEndEvent(t)
      PROVE  Goal'
  BY <1>7 DEF WaitEndEvent, EventWait, WaitTurn
<1>8. ASSUME NEW t \in Thread, Renotify(t)
      PROVE  Goal'
  BY <1>8 DEF Renotify, EventNotifyOne
<1>9. ASSUME NEW t \in Thread, WaitSucceeds(t)
      PROVE  Goal'
  BY <1>9 DEF WaitSucceeds, ConNotifyOne
<1>10. ASSUME NEW t \in Thread, WaitTimesOut(t)
       PROVE  Goal'
  BY <1>10 DEF WaitTimesOut, eventVars
<1>11. ASSUME NEW t \in Thread, InsideWait(t)
       PROVE  Goal'
  BY <1>11 DEF InsideWait, EventResume, EventWaitFails, WaitTurn
<1>12. ASSUME NEW t \in Thread, WaitEnvironment(t)
       PROVE  Goal'
  BY <1>12 DEF WaitEnvironment, SpuriousWakeup, EventTimeout
<1>13. ASSUME NEW t \in Thread, NEW time \in Times, Stop(t, time) \/ WaitLoopEnd(t, time)
       PROVE  Goal'
  BY <1>13 DEF Stop, WaitLoopEnd, Enter, MayCall, eventVars
<1>14. CASE UNCHANGED loopVars
  BY <1>14 DEF loopVars, eventVars
<1>15. QED
  BY <1>1, <1>2, <1>3, <1>4, <1>5, <1>6, <1>7, <1>8, <1>9, <1>10, <1>11, <1>12, <1>13, <1>14
     DEF LoopNext, LoopStep, CallStep

(* LoopInv is inductive.                                                   *)
LEMMA LoopInvariant == LoopSafety => []LoopInv
<1>1. LoopInit => LoopInv
  BY DEF LoopInit, EventInit, LoopInv, LoopTypeOK, EventTypeOK, EvStates, Outside, Sleeping,
         LoopStates, CallStates, Returned, EndPhase, EndSigns, CallsMatch, SignalHeld, InEvent,
         SleepersSleep
<1>2. LoopInv /\ [LoopNext]_loopVars => LoopInv'
  <2> SUFFICES ASSUME LoopInv, [LoopNext]_loopVars
               PROVE  LoopInv'
    OBVIOUS
  <2>1. LoopTypeOK'
    BY LoopTypeStep DEF LoopInv
  <2>2. SleepersSleep'
    BY LoopStepIsEventStep, SleepersStep DEF LoopInv, LoopTypeOK
  <2>3. QED
    BY <2>1, <2>2, LoopInvStep DEF LoopInv
<1>3. QED
  BY <1>1, <1>2, PTL DEF LoopSafety

-----------------------------------------------------------------------------
(* The loop keeps its types.                                               *)
THEOREM LoopTypeCorrect == LoopSafety => []LoopTypeOK
<1>1. LoopInv => LoopTypeOK
  BY DEF LoopInv
<1>2. QED
  BY <1>1, LoopInvariant, PTL

(* The loop implements its event's specification.                          *)
THEOREM LoopRefinesEvent == LoopSafety => EventSafety
<1>1. LoopInit => EventInit
  BY DEF LoopInit
<1>2. QED
  BY <1>1, LoopStepIsEventStep, LoopTypeCorrect, PTL DEF LoopSafety, EventSafety

(* A true result of stop() or wait_loop_end() means that loop_core() is    *)
(* not running and never will.                                             *)
THEOREM LoopTrueMeansEnded == LoopSafety => []TrueMeansEnded
<1>1. LoopInv => TrueMeansEnded
  BY DEF LoopInv, EndPhase, EndSigns, TrueMeansEnded, LoopTypeOK, LoopStates
<1>2. QED
  BY <1>1, LoopInvariant, PTL

(* After the loop has ended nobody sleeps on m_loopEndEvent without a      *)
(* signal or a thread that is about to give it.                            *)
THEOREM LoopEndSignalKept == LoopSafety => []EndSignalKept
<1>1. LoopInv => EndSignalKept
  BY DEF LoopInv, LoopTypeOK, EventTypeOK, SleepersSleep, CallsMatch, SignalHeld, InEvent,
         EndSignalKept
<1>2. QED
  BY <1>1, LoopInvariant, PTL
=============================================================================
