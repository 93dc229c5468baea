---------------------------- MODULE SimpleEvent ----------------------------
(***************************************************************************)
(* The auto-reset event ddm/src/thread/async/simple_event.h: a flag, a     *)
(* "notify all" flag, a mutex and a condition variable.                    *)
(*                                                                         *)
(* The mutex is held from the entry of every method until its last         *)
(* statement or until the thread sleeps, so the code between two of these  *)
(* points is one action.  notify_one() and notify_all() signal m_con after *)
(* they have released the mutex: they are two actions each.                *)
(*                                                                         *)
(* m_con is the set of the threads asleep in m_con.wait or wait_for.  A    *)
(* thread whose ev is one of Sleeping and that is not in m_con any more    *)
(* has been woken and has yet to lock the mutex again.                     *)
(***************************************************************************)
CONSTANTS
  Thread,       \* the threads that use the event
  ResetValues   \* the arguments reset() is called with, a subset of BOOLEAN

ASSUME ResetAssumption == ResetValues \subseteq BOOLEAN

VARIABLES
  m_hasSignal,
  m_notyfiall,
  m_con,
  ev            \* where each thread is in a call of the event

eventVars == <<m_hasSignal, m_notyfiall, m_con, ev>>

Outside  == {"idle", "true", "false"}    \* before a call, or after wait returned
Sleeping == {"wait", "wait_for"}         \* in m_con.wait, in m_con.wait_for
EvStates == Outside \union Sleeping \union {"timeout", "notify_one", "notify_all"}

EventTypeOK ==
  /\ m_hasSignal \in BOOLEAN
  /\ m_notyfiall \in BOOLEAN
  /\ m_con \subseteq Thread
  /\ ev \in [Thread -> EvStates]

EventInit ==
  /\ m_hasSignal = FALSE
  /\ m_notyfiall = FALSE
  /\ m_con = {}
  /\ ev = [t \in Thread |-> "idle"]

-----------------------------------------------------------------------------
(* One turn of wait()'s while loop, ending in a return or asleep.          *)
WaitTurn(t, how) ==
  \/ /\ m_hasSignal \/ m_notyfiall
     /\ m_hasSignal' = (m_hasSignal /\ m_notyfiall)
     /\ ev' = [ev EXCEPT ![t] = "true"]
     /\ UNCHANGED m_con
  \/ /\ ~m_hasSignal /\ ~m_notyfiall
     /\ m_con' = m_con \union {t}
     /\ ev' = [ev EXCEPT ![t] = how]
     /\ UNCHANGED m_hasSignal

(* wait(timeOut) is called: how is "wait" for MAX_U32, else "wait_for".    *)
EventWait(t, how) ==
  /\ ev[t] \in Outside
  /\ WaitTurn(t, how)
  /\ UNCHANGED m_notyfiall

(* A woken thread has the mutex again and tests the loop's condition.      *)
EventResume(t) ==
  /\ ev[t] \in Sleeping
  /\ t \notin m_con
  /\ WaitTurn(t, ev[t])
  /\ UNCHANGED m_notyfiall

(* The condition variable lets a thread go that nobody notified.           *)
SpuriousWakeup(t) ==
  /\ t \in m_con
  /\ m_con' = m_con \ {t}
  /\ UNCHANGED <<m_hasSignal, m_notyfiall, ev>>

(* wait_for gives up; the thread has still to lock the mutex...            *)
EventTimeout(t) ==
  /\ ev[t] = "wait_for"
  /\ t \in m_con
  /\ m_con' = m_con \ {t}
  /\ ev' = [ev EXCEPT ![t] = "timeout"]
  /\ UNCHANGED <<m_hasSignal, m_notyfiall>>

(* ... and returns false whatever has been signalled meanwhile.            *)
EventWaitFails(t) ==
  /\ ev[t] = "timeout"
  /\ ev' = [ev EXCEPT ![t] = "false"]
  /\ UNCHANGED <<m_hasSignal, m_notyfiall, m_con>>

(* Mutant: the flag is set and m_con is not notified.                      *)
NotifyFlagOnly(t) ==
  /\ ev[t] \in Outside
  /\ m_hasSignal' = TRUE
  /\ ev' = [ev EXCEPT ![t] = "idle"]
  /\ UNCHANGED <<m_notyfiall, m_con>>

EventNotifyOne(t) ==
  /\ ev[t] \in Outside
  /\ m_hasSignal' = TRUE
  /\ ev' = [ev EXCEPT ![t] = "notify_one"]
  /\ UNCHANGED <<m_notyfiall, m_con>>

(* m_con.notify_one() wakes one sleeper, any, if there is one.             *)
ConNotifyOne(t) ==
  /\ ev[t] = "notify_one"
  /\ \/ m_con = {} /\ UNCHANGED m_con
     \/ \E s \in m_con : m_con' = m_con \ {s}
  /\ ev' = [ev EXCEPT ![t] = "idle"]
  /\ UNCHANGED <<m_hasSignal, m_notyfiall>>

EventNotifyAll(t) ==
  /\ ev[t] \in Outside
  /\ m_notyfiall' = TRUE
  /\ m_hasSignal' = TRUE
  /\ ev' = [ev EXCEPT ![t] = "notify_all"]
  /\ UNCHANGED m_con

ConNotifyAll(t) ==
  /\ ev[t] = "notify_all"
  /\ m_con' = {}
  /\ ev' = [ev EXCEPT ![t] = "idle"]
  /\ UNCHANGED <<m_hasSignal, m_notyfiall>>

EventReset(t, signal) ==
  /\ ev[t] \in Outside
  /\ m_notyfiall' = FALSE
  /\ m_hasSignal' = signal
  /\ UNCHANGED <<m_con, ev>>

-----------------------------------------------------------------------------
(* What a thread inside a call does next, and the calls it can make.       *)
EventStep(t) ==
  \/ EventResume(t)
  \/ EventWaitFails(t)
  \/ ConNotifyOne(t)
  \/ ConNotifyAll(t)

EventCall(t) ==
  \/ \E how \in Sleeping : EventWait(t, how)
  \/ EventNotifyOne(t)
  \/ EventNotifyAll(t)
  \/ \E signal \in ResetValues : EventReset(t, signal)

EventNext ==
  \E t \in Thread : EventStep(t) \/ EventCall(t) \/ SpuriousWakeup(t) \/ EventTimeout(t)

EventSafety == EventInit /\ [][EventNext]_eventVars

(* A thread inside a call runs on; nothing is assumed of spurious wakeups, *)
(* time-outs or new calls.                                                 *)
EventFairness == \A t \in Thread : WF_eventVars(EventStep(t))

EventSpec == EventSafety /\ EventFairness

-----------------------------------------------------------------------------
(* Somebody is on the way to look at, or to pass on, the signal.           *)
WakeupUnderWay ==
  \/ \E t \in Thread : ev[t] \in {"notify_one", "notify_all"}
  \/ \E t \in Thread : ev[t] \in Sleeping /\ t \notin m_con

(* No lost wakeup: a thread never sleeps beside a set signal unless a      *)
(* notifier between its unlock and its m_con.notify, or a woken thread     *)
(* that has yet to test the flag, is under way (simple_event.h:31-60).     *)
(* Under notify_all only the pending m_con.notify_all() excuses a sleeper. *)
NoLostSignal ==
  m_con # {} =>
    /\ m_hasSignal => WakeupUnderWay
    /\ m_notyfiall => \E t \in Thread : ev[t] = "notify_all"
=============================================================================
