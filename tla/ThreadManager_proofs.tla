------------------------ MODULE ThreadManager_proofs ------------------------
(***************************************************************************)
(* The thread manager for any threads, tasks and numbers: it refers to the *)
(* threads that run and to no others, and puts a task behind another only  *)
(* when all the threads it may have are there.                             *)
(***************************************************************************)
EXTENDS ThreadManager, SequenceTheorems, TLAPS

-----------------------------------------------------------------------------
(* Lists                                                                   *)

(* What push_back adds to the elements of a list.                          *)
LEMMA RangeOfAppend ==
  ASSUME NEW S, NEW s \in Seq(S), NEW e \in S
  PROVE  Range(Append(s, e)) = Range(s) \union {e}
<1> DEFINE last == <<e>>
<1>1. Append(s, e) = s \o last
  BY AppendIsConcat
<1>2. last \in Seq(S) /\ Range(last) = {e}
  BY DEF Range
<1> HIDE DEF last
<1>3. Range(s \o last) = Range(s) \union Range(last)
  BY <1>2, RangeConcatenation
<1>4. QED
  BY <1>1, <1>2, <1>3

(* A list without repetitions stays one when a new element is put behind.  *)
LEMMA InjectiveAppend ==
  ASSUME NEW S, NEW s \in Seq(S), NEW e \in S, IsInjective(s), e \notin Range(s)
  PROVE  IsInjective(Append(s, e))
<1>1. DOMAIN Append(s, e) = 1 .. (Len(s) + 1) /\ DOMAIN s = 1 .. Len(s) /\ Len(s) \in Nat
  BY AppendProperties, LenProperties
<1>2. \A i \in 1 .. Len(s) : Append(s, e)[i] = s[i] /\ s[i] # e
  BY <1>1, AppendProperties DEF Range
<1>3. Append(s, e)[Len(s) + 1] = e
  BY AppendProperties
<1>4. SUFFICES ASSUME NEW i \in 1 .. (Len(s) + 1), NEW j \in 1 .. (Len(s) + 1),
                      Append(s, e)[i] = Append(s, e)[j]
               PROVE  i = j
  BY <1>1 DEF IsInjective
<1>5. CASE i \in 1 .. Len(s) /\ j \in 1 .. Len(s)
  BY <1>1, <1>2, <1>4, <1>5 DEF IsInjective
<1>6. CASE i = Len(s) + 1 \/ j = Len(s) + 1
  BY <1>1, <1>2, <1>3, <1>4, <1>6
<1>7. QED
  BY <1>1, <1>5, <1>6

(* share nothing.                                                          *)
LEMMA InjectiveConcat ==
  ASSUME NEW S, NEW s \in Seq(S), NEW t \in Seq(S),
         IsInjective(s), IsInjective(t), Range(s) \intersect Range(t) = {}
  PROVE  IsInjective(s \o t)
<1>1. /\ Len(s) \in Nat /\ Len(t) \in Nat
      /\ DOMAIN s = 1 .. Len(s) /\ DOMAIN t = 1 .. Len(t)
      /\ DOMAIN (s \o t) = 1 .. (Len(s) + Len(t))
  BY ConcatProperties, LenProperties
<1>2. \A i \in 1 .. Len(s) : (s \o t)[i] = s[i] /\ s[i] \in Range(s)
  BY <1>1, ConcatProperties DEF Range
<1>3. \A i \in 1 .. (Len(s) + Len(t)) : i > Len(s) =>
        i - Len(s) \in DOMAIN t /\ (s \o t)[i] = t[i - Len(s)] /\ t[i - Len(s)] \in Range(t)
  BY <1>1, ConcatProperties DEF Range
<1>4. SUFFICES ASSUME NEW i \in 1 .. (Len(s) + Len(t)), NEW j \in 1 .. (Len(s) + Len(t)),
                      (s \o t)[i] = (s \o t)[j]
               PROVE  i = j
  BY <1>1 DEF IsInjective
<1>5. CASE i <= Len(s) /\ j <= Len(s)
  BY <1>1, <1>2, <1>4, <1>5 DEF IsInjective
<1>6. CASE i > Len(s) /\ j > Len(s)
  <2>1. i - Len(s) = j - Len(s)
    BY <1>3, <1>4, <1>6 DEF IsInjective
  <2>2. QED
    BY <1>1, <2>1
<1>7. CASE i <= Len(s) /\ j > Len(s)
  BY <1>1, <1>2, <1>3, <1>4, <1>7
<1>8. CASE i > Len(s) /\ j <= Len(s)
  BY <1>1, <1>2, <1>3, <1>4, <1>8
<1>9. QED
  BY <1>1, <1>5, <1>6, <1>7, <1>8

Caller == User \union Id

-----------------------------------------------------------------------------
(* The invariant                                                           *)

(* The types of the variables.                                             *)
TypeOK ==
  /\ m_mutex \in Caller \union {Nobody}
  /\ fast \in Id \union {NoId} /\ heart \in Id \union {NoId}
  /\ blocks \in Seq(Id)
  /\ que \in [Id -> Seq(Task)]
  /\ current \in [Id -> Task \union {"none"}]
  /\ m_stop \subseteq Id
  /\ loop \in [Id -> {"none", "run", "end"}]
  /\ at \in [Caller -> Push \union {"idle", "read", "compare", "stop_all", "back"}]
  /\ want \in [Caller -> Task]
  /\ pick \in [best : Nat, next : Nat, count : Nat]

(* A slot is of one thread, and the slots are of different threads.        *)
SlotsInv ==
  /\ IsInjective(blocks)
  /\ fast \notin Range(blocks) /\ heart \notin Range(blocks)
  /\ fast = heart => fast = NoId

(* The threads in the slots, whatever their order.                         *)
InSlots == Range(blocks) \union ({fast, heart} \ {NoId})

(* They are the threads that have been started and not forgotten; only     *)
(* stop_all stops them, and nobody else ends them.                         *)
ThreadsInv ==
  /\ InSlots = {i \in Id : loop[i] # "none"}
  /\ m_stop \subseteq InSlots
  /\ \A i \in Id : loop[i] = "end" => i \in m_stop
  /\ m_stop # {} => m_mutex \in User /\ at[m_mutex] = "stop_all"

(* Whoever is inside push_block_task or stop_all has m_mutex; a thread is  *)
(* inside a call only while its task is one that calls.                    *)
CallsInv ==
  /\ \A c \in Caller : at[c] \in {"read", "compare", "stop_all"} => m_mutex = c
  /\ \A i \in Id : at[i] # "stop_all" /\ (at[i] # "idle" => current[i] \in Push)
  /\ \A u \in User : at[u] # "back"

(* The search of push_block_task looks at threads that are in blocks.      *)
PickInv ==
  /\ \A c \in Caller :
       at[c] \in {"read", "compare"} =>
         pick.best > 0 /\ pick.next > 0 /\ (blocks = <<>> \/ pick.best \in DOMAIN blocks)
  /\ \A c \in Caller : at[c] = "compare" => pick.next \in DOMAIN blocks

ManagerInv == TypeOK /\ SlotsInv /\ ThreadsInv /\ CallsInv /\ PickInv

-----------------------------------------------------------------------------
(* The operators                                                           *)

(* A new thread is in no slot.                                             *)
LEMMA UnusedIsNew ==
  ASSUME ThreadsInv, NEW i \in Unused
  PROVE  i \in Id /\ loop[i] = "none" /\ i \notin InSlots /\ i # NoId
BY DEF Unused, ThreadsInv, Id, NoId

(* The thread a push starts or finds is in no slot but its own.            *)
LEMMA OfStarted ==
  ASSUME TypeOK, ThreadsInv, SlotsInv, NEW slot \in {fast, heart}, NEW i \in Started(slot)
  PROVE  /\ i \in Id /\ i # NoId
         /\ i \notin Range(blocks)
         /\ \/ i = slot /\ loop[i] # "none"
            \/ i \notin InSlots /\ loop[i] = "none" /\ slot = NoId
<1>1. CASE slot = NoId
  BY <1>1, UnusedIsNew DEF Started, InSlots
<1>2. CASE slot # NoId
  <2>1. i = slot /\ i \in InSlots
    BY <1>2 DEF Started, InSlots
  <2>2. i \in Id /\ loop[i] # "none"
    BY <2>1 DEF ThreadsInv
  <2>3. i \notin Range(blocks)
    BY <2>1 DEF SlotsInv
  <2>4. QED
    BY <1>2, <2>1, <2>2, <2>3
<1>3. QED
  BY <1>1, <1>2

(* The order in which stop_all goes names each slot's thread once.         *)
LEMMA OrderOfSlots ==
  ASSUME TypeOK, SlotsInv
  PROVE  Order \in Seq(Id) /\ IsInjective(Order) /\ Managed = InSlots
<1>1. ASSUME NEW slot \in Id \union {NoId}
      PROVE  One(slot) \in Seq(Id) /\ IsInjective(One(slot)) /\ Range(One(slot)) = {slot} \ {NoId}
  <2>1. CASE slot = NoId
    BY <2>1 DEF One, IsInjective, Range
  <2>2. CASE slot # NoId
    BY <2>2 DEF One, IsInjective, Range
  <2>3. QED
    BY <2>1, <2>2
<1>2. /\ One(fast) \in Seq(Id) /\ IsInjective(One(fast)) /\ Range(One(fast)) = {fast} \ {NoId}
      /\ One(heart) \in Seq(Id) /\ IsInjective(One(heart)) /\ Range(One(heart)) = {heart} \ {NoId}
      /\ blocks \in Seq(Id) /\ IsInjective(blocks)
  BY <1>1 DEF TypeOK, SlotsInv
<1>3. /\ One(fast) \o blocks \in Seq(Id)
      /\ Range(One(fast) \o blocks) = ({fast} \ {NoId}) \union Range(blocks)
  BY <1>2, ConcatProperties, RangeConcatenation
<1>4. IsInjective(One(fast) \o blocks)
  <2>1. Range(One(fast)) \intersect Range(blocks) = {}
    BY <1>2 DEF SlotsInv
  <2>2. QED
    BY <1>2, <2>1, InjectiveConcat
<1>5. Order \in Seq(Id) /\ Range(Order) = ({fast} \ {NoId}) \union Range(blocks) \union ({heart} \ {NoId})
  <2>1. /\ (One(fast) \o blocks) \o One(heart) \in Seq(Id)
        /\ Range((One(fast) \o blocks) \o One(heart)) = Range(One(fast) \o blocks) \union Range(One(heart))
    <3> DEFINE front == One(fast) \o blocks
    <3>1. front \in Seq(Id) /\ One(heart) \in Seq(Id)
      BY <1>2, <1>3
    <3> HIDE DEF front
    <3>2. front \o One(heart) \in Seq(Id) /\ Range(front \o One(heart)) = Range(front) \union Range(One(heart))
      BY <3>1, ConcatProperties, RangeConcatenation
    <3>3. QED
      BY <3>2 DEF front
  <2>2. QED
    BY <1>2, <1>3, <2>1 DEF Order
<1>6. IsInjective(Order)
  <2>1. Range(One(fast) \o blocks) \intersect Range(One(heart)) = {}
    BY <1>2, <1>3 DEF SlotsInv
  <2>2. QED
    BY <1>2, <1>3, <1>4, <2>1, InjectiveConcat DEF Order
<1>7. QED
  BY <1>5, <1>6 DEF Managed, InSlots

-----------------------------------------------------------------------------
(* The steps                                                               *)

(* Every step keeps the types.                                             *)
LEMMA TypeStep == ManagerInv /\ [Next]_vars => TypeOK'
<1> SUFFICES ASSUME ManagerInv, [Next]_vars PROVE TypeOK'
  OBVIOUS
<1> USE ThreadManagerAssumption
    DEF ManagerInv, TypeOK, Caller, slots, queues, calls
<1>1. ASSUME NEW u \in User, GetFastThread(u)
      PROVE  TypeOK'
  BY <1>1, OfStarted DEF GetFastThread
<1>2. ASSUME NEW u \in User, StopAll(u)
      PROVE  TypeOK'
  BY <1>2 DEF StopAll
<1>3. ASSUME NEW u \in User, StopOne(u)
      PROVE  TypeOK'
  <2>1. PICK k \in DOMAIN Order :
          m_stop' = m_stop \union {Order[k]} /\ que' = [que EXCEPT ![Order[k]] = <<>>]
    BY <1>3 DEF StopOne
  <2>2. Order[k] \in Id
    BY OrderOfSlots, LenProperties, ElementOfSeq
  <2>3. QED
    BY <1>3, <2>1, <2>2 DEF StopOne
<1>4. ASSUME NEW u \in User, StopAllReturns(u)
      PROVE  TypeOK'
  BY <1>4 DEF StopAllReturns, Resets
<1>5. ASSUME NEW u \in User, NEW op \in Push, NEW task \in Task, Call(u, op, task)
      PROVE  TypeOK'
  BY <1>5 DEF Call
<1>6. ASSUME NEW c \in Caller, PushFastTask(c)
      PROVE  TypeOK'
  <2>1. PICK i \in Started(fast) : fast' = i /\ PushTo(i, c)
    BY <1>6 DEF PushFastTask
  <2>2. i \in Id
    BY <2>1, OfStarted
  <2>3. que' \in [Id -> Seq(Task)]
    BY <2>1, <2>2, AppendProperties DEF PushTo
  <2>4. QED
    BY <1>6, <2>1, <2>2, <2>3 DEF PushFastTask, PushTo, Returns, Task
<1>7. ASSUME NEW c \in Caller, PushHeartbeatTask(c)
      PROVE  TypeOK'
  <2>1. PICK i \in Started(heart) : heart' = i /\ PushTo(i, c)
    BY <1>7 DEF PushHeartbeatTask
  <2>2. i \in Id
    BY <2>1, OfStarted
  <2>3. que' \in [Id -> Seq(Task)]
    BY <2>1, <2>2, AppendProperties DEF PushTo
  <2>4. QED
    BY <1>7, <2>1, <2>2, <2>3 DEF PushHeartbeatTask, PushTo, Returns, Task
<1>8. ASSUME NEW c \in Caller, PushBlockTask(c)
      PROVE  TypeOK'
  BY <1>8 DEF PushBlockTask
<1>9. ASSUME NEW c \in Caller, ReadBest(c)
      PROVE  TypeOK'
  <2>1. \A i \in Id : get_task_count(i) \in Nat
    BY LenProperties DEF get_task_count
  <2>2. blocks[pick.best] \in Id
    BY <1>9, LenProperties DEF ReadBest, PickInv
  <2>3. QED
    BY <1>9, <2>1, <2>2 DEF ReadBest
<1>10. ASSUME NEW c \in Caller, Compare(c)
      PROVE  TypeOK'
  BY <1>10 DEF Compare
<1>11. ASSUME NEW c \in Caller, PushPicked(c)
      PROVE  TypeOK'
  <2>1. CASE NeedsThread /\ NewBlockThread(c)
    <3>1. PICK i \in Unused : blocks' = Append(blocks, i) /\ PushTo(i, c)
      BY <2>1 DEF NewBlockThread
    <3>2. i \in Id
      BY <3>1, UnusedIsNew
    <3>3. que' \in [Id -> Seq(Task)] /\ blocks' \in Seq(Id)
      BY <3>1, <3>2, AppendProperties DEF PushTo
    <3>4. QED
      BY <1>11, <3>1, <3>2, <3>3 DEF PushPicked, PushTo, Returns, NoPick, Task
  <2>2. CASE ~NeedsThread /\ PushTo(blocks[pick.best], c) /\ UNCHANGED blocks
    <3>1. blocks[pick.best] \in Id
      BY <1>11, <2>2, LenProperties DEF PushPicked, NeedsThread, PickInv
    <3>2. que' \in [Id -> Seq(Task)]
      BY <2>2, <3>1, AppendProperties DEF PushTo
    <3>3. QED
      BY <1>11, <2>2, <3>1, <3>2 DEF PushPicked, PushTo, Returns, NoPick, Task
  <2>3. QED
    BY <1>11, <2>1, <2>2 DEF PushPicked
<1>12. ASSUME NEW i \in Id, TakeTask(i)
      PROVE  TypeOK'
  <2>1. Head(que[i]) \in Task /\ Tail(que[i]) \in Seq(Task)
    BY <1>12, HeadTailProperties DEF TakeTask
  <2>2. QED
    BY <1>12, <2>1 DEF TakeTask
<1>13. ASSUME NEW i \in Id, TaskCalls(i)
      PROVE  TypeOK'
  BY <1>13 DEF TaskCalls
<1>14. ASSUME NEW i \in Id, TaskReturns(i)
      PROVE  TypeOK'
  BY <1>14 DEF TaskReturns
<1>15. ASSUME NEW i \in Id, LoopEnds(i)
      PROVE  TypeOK'
  BY <1>15 DEF LoopEnds
<1>16. CASE UNCHANGED vars
  BY <1>16 DEF vars
<1>17. QED
  <2>1. \A c \in Calls : c[1] \in Push /\ c[2] \in Task
    BY ThreadManagerAssumption
  <2>2. QED
    BY <2>1, <1>1, <1>2, <1>3, <1>4, <1>5, <1>6, <1>7, <1>8, <1>9, <1>10, <1>11, <1>12, <1>13,
       <1>14, <1>15, <1>16
       DEF Next, PushStep, StopStep, LoopStep, Caller

(* Every step keeps who is inside which call.                              *)
LEMMA CallsStep == ManagerInv /\ [Next]_vars => CallsInv'
<1> SUFFICES ASSUME ManagerInv, [Next]_vars PROVE CallsInv'
  OBVIOUS
<1> USE ThreadManagerAssumption
    DEF ManagerInv, TypeOK, CallsInv, Caller, slots, queues, calls
<1>1. ASSUME NEW u \in User, GetFastThread(u)
      PROVE  CallsInv'
  BY <1>1 DEF Push, GetFastThread
<1>2. ASSUME NEW u \in User, StopAll(u)
      PROVE  CallsInv'
  BY <1>2 DEF Push, StopAll
<1>3. ASSUME NEW u \in User, StopOne(u)
      PROVE  CallsInv'
  BY <1>3 DEF Push, StopOne
<1>4. ASSUME NEW u \in User, StopAllReturns(u)
      PROVE  CallsInv'
  BY <1>4 DEF Push, StopAllReturns
<1>5. ASSUME NEW u \in User, NEW op \in Push, NEW task \in Task, Call(u, op, task)
      PROVE  CallsInv'
  BY <1>5 DEF Push, Call
<1>6. ASSUME NEW c \in Caller, PushFastTask(c)
      PROVE  CallsInv'
  BY <1>6 DEF Push, PushFastTask, PushTo, Returns
<1>7. ASSUME NEW c \in Caller, PushHeartbeatTask(c)
      PROVE  CallsInv'
  BY <1>7 DEF Push, PushHeartbeatTask, PushTo, Returns
<1>8. ASSUME NEW c \in Caller, PushBlockTask(c)
      PROVE  CallsInv'
  BY <1>8 DEF Push, PushBlockTask
<1>9. ASSUME NEW c \in Caller, ReadBest(c)
      PROVE  CallsInv'
  BY <1>9 DEF Push, ReadBest
<1>10. ASSUME NEW c \in Caller, Compare(c)
      PROVE  CallsInv'
  BY <1>10 DEF Push, Compare
<1>11. ASSUME NEW c \in Caller, PushPicked(c)
      PROVE  CallsInv'
  <2>1. current' = current
    BY <1>11 DEF Push, PushPicked, NewBlockThread, PushTo
  <2>2. QED
    BY <1>11, <2>1 DEF PushPicked, Returns
<1>12. ASSUME NEW i \in Id, TakeTask(i)
      PROVE  CallsInv'
  BY <1>12 DEF Push, TakeTask
<1>13. ASSUME NEW i \in Id, TaskCalls(i)
      PROVE  CallsInv'
  BY <1>13 DEF Push, TaskCalls
<1>14. ASSUME NEW i \in Id, TaskReturns(i)
      PROVE  CallsInv'
  BY <1>14 DEF Push, TaskReturns
<1>15. ASSUME NEW i \in Id, LoopEnds(i)
      PROVE  CallsInv'
  BY <1>15 DEF Push, LoopEnds
<1>16. CASE UNCHANGED vars
  BY <1>16 DEF vars
<1>17. QED
  <2>1. \A c \in Calls : c[1] \in Push /\ c[2] \in Task
    BY ThreadManagerAssumption
  <2>2. QED
    BY <2>1, <1>1, <1>2, <1>3, <1>4, <1>5, <1>6, <1>7, <1>8, <1>9, <1>10, <1>11, <1>12, <1>13,
       <1>14, <1>15, <1>16
       DEF Next, PushStep, StopStep, LoopStep, Caller

(* Every step keeps the slots apart: each action fills at most one, with a thread  *)
(* that no other refers to.                                                *)
LEMMA SlotsStep == ManagerInv /\ [Next]_vars => SlotsInv'
<1> SUFFICES ASSUME ManagerInv, [Next]_vars PROVE SlotsInv'
  OBVIOUS
<1> USE DEF ManagerInv
<1>a. ASSUME UNCHANGED slots
      PROVE  SlotsInv'
  BY <1>a DEF slots, SlotsInv
<1>b. ASSUME NEW i \in Started(fast), fast' = i, UNCHANGED <<blocks, heart>>
      PROVE  SlotsInv'
  BY <1>b, OfStarted DEF SlotsInv, InSlots
<1>1. ASSUME NEW u \in User, GetFastThread(u)
      PROVE  SlotsInv'
  BY <1>1, <1>b DEF GetFastThread
<1>2. ASSUME NEW u \in User, StopAll(u)
      PROVE  SlotsInv'
  BY <1>2, <1>a DEF StopAll
<1>3. ASSUME NEW u \in User, StopOne(u)
      PROVE  SlotsInv'
  BY <1>3, <1>a DEF StopOne
<1>4. ASSUME NEW u \in User, StopAllReturns(u)
      PROVE  SlotsInv'
  <2>1. fast' = NoId /\ blocks' = <<>> /\ heart' = NoId
    BY <1>4 DEF StopAllReturns, Resets
  <2>2. IsInjective(<<>>) /\ Range(<<>>) = {}
    BY DEF IsInjective, Range
  <2>3. QED
    BY <2>1, <2>2 DEF SlotsInv
<1>5. ASSUME NEW u \in User, NEW op \in Push, NEW task \in Task, Call(u, op, task)
      PROVE  SlotsInv'
  BY <1>5, <1>a DEF Call
<1>6. ASSUME NEW c \in Caller, PushFastTask(c)
      PROVE  SlotsInv'
  BY <1>6, <1>b DEF PushFastTask
<1>7. ASSUME NEW c \in Caller, PushHeartbeatTask(c)
      PROVE  SlotsInv'
  <2>1. PICK i \in Started(heart) : heart' = i
    BY <1>7 DEF PushHeartbeatTask
  <2>2. QED
    BY <1>7, <2>1, OfStarted DEF PushHeartbeatTask, SlotsInv, InSlots
<1>8. ASSUME NEW c \in Caller, PushBlockTask(c)
      PROVE  SlotsInv'
  BY <1>8, <1>a DEF PushBlockTask
<1>9. ASSUME NEW c \in Caller, ReadBest(c)
      PROVE  SlotsInv'
  BY <1>9, <1>a DEF ReadBest
<1>10. ASSUME NEW c \in Caller, Compare(c)
      PROVE  SlotsInv'
  BY <1>10, <1>a DEF Compare
<1>11. ASSUME NEW c \in Caller, PushPicked(c)
      PROVE  SlotsInv'
  <2>1. CASE NeedsThread /\ NewBlockThread(c)
    <3>1. PICK i \in Unused : blocks' = Append(blocks, i)
      BY <2>1 DEF NewBlockThread
    <3>2. i \in Id /\ i # NoId /\ i \notin InSlots
      BY UnusedIsNew
    <3>3. blocks \in Seq(Id) /\ IsInjective(blocks) /\ i \notin Range(blocks)
      BY <3>2 DEF TypeOK, SlotsInv, InSlots
    <3>4. IsInjective(blocks') /\ Range(blocks') = Range(blocks) \union {i}
      BY <3>1, <3>2, <3>3, InjectiveAppend, RangeOfAppend
    <3>5. fast' = fast /\ heart' = heart
      BY <1>11 DEF PushPicked
    <3>6. QED
      BY <3>2, <3>4, <3>5 DEF SlotsInv, InSlots
  <2>2. CASE UNCHANGED blocks
    BY <1>11, <2>2, <1>a DEF PushPicked, slots
  <2>3. QED
    BY <1>11, <2>1, <2>2 DEF PushPicked
<1>12. ASSUME NEW i \in Id, TakeTask(i)
      PROVE  SlotsInv'
  BY <1>12, <1>a DEF TakeTask
<1>13. ASSUME NEW i \in Id, TaskCalls(i)
      PROVE  SlotsInv'
  BY <1>13, <1>a DEF TaskCalls
<1>14. ASSUME NEW i \in Id, TaskReturns(i)
      PROVE  SlotsInv'
  BY <1>14, <1>a DEF TaskReturns
<1>15. ASSUME NEW i \in Id, LoopEnds(i)
      PROVE  SlotsInv'
  BY <1>15, <1>a DEF LoopEnds
<1>16. CASE UNCHANGED vars
  BY <1>16, <1>a DEF vars
<1>17. QED
  <2>1. \A c \in Calls : c[1] \in Push /\ c[2] \in Task
    BY ThreadManagerAssumption
  <2>2. QED
    BY <2>1, <1>1, <1>2, <1>3, <1>4, <1>5, <1>6, <1>7, <1>8, <1>9, <1>10, <1>11, <1>12, <1>13,
       <1>14, <1>15, <1>16
       DEF Next, PushStep, StopStep, LoopStep, Caller

(* Nobody is told to stop while m_mutex is free or a push has it.          *)
LEMMA NoneStopped ==
  ASSUME ManagerInv, m_mutex = Nobody \/ \E c \in Caller : at[c] \in {"read", "compare"}
  PROVE  m_stop = {} /\ \A i \in Id : loop[i] # "none" => loop[i] = "run"
<1>1. m_stop = {}
  BY ThreadManagerAssumption DEF ManagerInv, ThreadsInv, CallsInv, Caller
<1>2. QED
  BY <1>1 DEF ManagerInv, ThreadsInv, TypeOK

(* A push that runs the thread of a slot leaves the right threads running. *)
LEMMA ThreadRuns ==
  ASSUME ManagerInv, m_stop = {}, NEW i \in Id, loop[i] # "none" \/ i \notin InSlots,
         InSlots' = InSlots \union {i},
         loop' = [loop EXCEPT ![i] = "run"], m_stop' = m_stop
  PROVE  ThreadsInv'
BY DEF ManagerInv, ThreadsInv, TypeOK

(* Every step keeps the slots' threads the ones that are not forgotten.    *)
LEMMA ThreadsStep == ManagerInv /\ [Next]_vars => ThreadsInv'
<1> SUFFICES ASSUME ManagerInv, [Next]_vars PROVE ThreadsInv'
  OBVIOUS
<1> USE ThreadManagerAssumption DEF ManagerInv
<1>a. ASSUME UNCHANGED <<slots, m_stop, loop>>,
             m_mutex \in User /\ at[m_mutex] = "stop_all" =>
               m_mutex' = m_mutex /\ at'[m_mutex] = "stop_all"
      PROVE  ThreadsInv'
  <2>1. InSlots' = InSlots
    BY <1>a DEF InSlots, slots
  <2>2. QED
    BY <1>a, <2>1 DEF ThreadsInv
<1>b. ASSUME NEW i \in Started(fast), fast' = i, UNCHANGED <<blocks, heart>>, m_mutex = Nobody,
             loop' = [loop EXCEPT ![i] = "run"], m_stop' = m_stop
      PROVE  ThreadsInv'
  <2>1. InSlots' = InSlots \union {i}
    BY <1>b, OfStarted DEF InSlots
  <2>2. QED
    BY <1>b, <2>1, OfStarted, NoneStopped, ThreadRuns
<1>1. ASSUME NEW u \in User, GetFastThread(u)
      PROVE  ThreadsInv'
  BY <1>1, <1>b DEF GetFastThread
<1>2. ASSUME NEW u \in User, StopAll(u)
      PROVE  ThreadsInv'
  BY <1>2, <1>a DEF StopAll, queues
<1>3. ASSUME NEW u \in User, StopOne(u)
      PROVE  ThreadsInv'
  <2>1. PICK k \in DOMAIN Order : m_stop' = m_stop \union {Order[k]}
    BY <1>3 DEF StopOne
  <2>2. Order[k] \in InSlots
    BY OrderOfSlots DEF Managed, Range
  <2>3. InSlots' = InSlots
    BY <1>3 DEF StopOne, InSlots, slots
  <2>4. m_mutex = u
    BY <1>3 DEF StopOne, CallsInv, Caller
  <2>5. QED
    BY <1>3, <2>1, <2>2, <2>3, <2>4 DEF StopOne, ThreadsInv, calls
<1>4. ASSUME NEW u \in User, StopAllReturns(u)
      PROVE  ThreadsInv'
  <2>1. InSlots' = {}
    BY <1>4 DEF StopAllReturns, Resets, InSlots, Range
  <2>2. Managed = InSlots
    BY OrderOfSlots
  <2>3. loop' = [i \in Id |-> IF i \in InSlots THEN "none" ELSE loop[i]] /\ m_stop' = {}
    BY <1>4, <2>2 DEF StopAllReturns, ThreadsInv
  <2>4. QED
    BY <2>1, <2>3 DEF ThreadsInv
<1>5. ASSUME NEW u \in User, NEW op \in Push, NEW task \in Task, Call(u, op, task)
      PROVE  ThreadsInv'
  BY <1>5, <1>a DEF Call, queues, TypeOK, Caller
<1>6. ASSUME NEW c \in Caller, PushFastTask(c)
      PROVE  ThreadsInv'
  BY <1>6, <1>b DEF PushFastTask, PushTo
<1>7. ASSUME NEW c \in Caller, PushHeartbeatTask(c)
      PROVE  ThreadsInv'
  <2>1. PICK i \in Started(heart) : heart' = i /\ PushTo(i, c)
    BY <1>7 DEF PushHeartbeatTask
  <2>2. InSlots' = InSlots \union {i}
    BY <1>7, <2>1, OfStarted DEF PushHeartbeatTask, InSlots
  <2>3. QED
    BY <1>7, <2>1, <2>2, OfStarted, NoneStopped, ThreadRuns DEF PushHeartbeatTask, PushTo
<1>8. ASSUME NEW c \in Caller, PushBlockTask(c)
      PROVE  ThreadsInv'
  BY <1>8, <1>a DEF PushBlockTask, queues
<1>9. ASSUME NEW c \in Caller, ReadBest(c)
      PROVE  ThreadsInv'
  BY <1>9, <1>a DEF ReadBest, queues, TypeOK
<1>10. ASSUME NEW c \in Caller, Compare(c)
      PROVE  ThreadsInv'
  BY <1>10, <1>a DEF Compare, queues, TypeOK
<1>11. ASSUME NEW c \in Caller, PushPicked(c)
      PROVE  ThreadsInv'
  <2>1. m_stop = {} /\ \A i \in Id : loop[i] # "none" => loop[i] = "run"
    BY <1>11, NoneStopped DEF PushPicked
  <2>2. CASE NeedsThread /\ NewBlockThread(c)
    <3>1. PICK i \in Unused : blocks' = Append(blocks, i) /\ PushTo(i, c)
      BY <2>2 DEF NewBlockThread
    <3>2. i \in Id /\ i # NoId /\ i \notin InSlots /\ blocks \in Seq(Id)
      BY UnusedIsNew DEF TypeOK
    <3>3. Range(blocks') = Range(blocks) \union {i}
      BY <3>1, <3>2, RangeOfAppend
    <3>4. InSlots' = InSlots \union {i}
      BY <1>11, <3>2, <3>3 DEF PushPicked, InSlots
    <3>5. QED
      BY <2>1, <3>1, <3>2, <3>4, ThreadRuns DEF PushTo
  <2>3. CASE ~NeedsThread /\ PushTo(blocks[pick.best], c) /\ UNCHANGED blocks
    <3>1. blocks[pick.best] \in Range(blocks)
      BY <1>11, <2>3 DEF PushPicked, NeedsThread, PickInv, Range
    <3>2. blocks[pick.best] \in Id /\ loop[blocks[pick.best]] # "none" /\ blocks[pick.best] \in InSlots
      BY <3>1 DEF InSlots, ThreadsInv
    <3>3. InSlots' = InSlots
      BY <1>11, <2>3 DEF PushPicked, InSlots
    <3>4. QED
      BY <2>1, <2>3, <3>2, <3>3, ThreadRuns DEF PushTo
  <2>4. QED
    BY <1>11, <2>2, <2>3 DEF PushPicked
<1>12. ASSUME NEW i \in Id, TakeTask(i)
      PROVE  ThreadsInv'
  BY <1>12, <1>a DEF TakeTask, calls
<1>13. ASSUME NEW i \in Id, TaskCalls(i)
      PROVE  ThreadsInv'
  BY <1>13, <1>a DEF TaskCalls, queues, TypeOK, Caller
<1>14. ASSUME NEW i \in Id, TaskReturns(i)
      PROVE  ThreadsInv'
  BY <1>14, <1>a DEF TaskReturns, TypeOK, Caller
<1>15. ASSUME NEW i \in Id, LoopEnds(i)
      PROVE  ThreadsInv'
  <2>1. InSlots' = InSlots
    BY <1>15 DEF LoopEnds, InSlots, slots
  <2>2. QED
    BY <1>15, <2>1 DEF LoopEnds, ThreadsInv, TypeOK, calls
<1>16. CASE UNCHANGED vars
  BY <1>16, <1>a DEF vars, queues, calls
<1>17. QED
  <2>1. \A c \in Calls : c[1] \in Push /\ c[2] \in Task
    BY ThreadManagerAssumption
  <2>2. QED
    BY <2>1, <1>1, <1>2, <1>3, <1>4, <1>5, <1>6, <1>7, <1>8, <1>9, <1>10, <1>11, <1>12, <1>13,
       <1>14, <1>15, <1>16
       DEF Next, PushStep, StopStep, LoopStep, Caller

(* Every step keeps the search inside blocks: m_mutex, which the searcher  *)
(* has, is what blocks changes under.                                      *)
LEMMA PickStep == ManagerInv /\ [Next]_vars => PickInv'
<1> SUFFICES ASSUME ManagerInv, [Next]_vars PROVE PickInv'
  OBVIOUS
<1> USE ThreadManagerAssumption DEF ManagerInv
<1>a. ASSUME UNCHANGED <<blocks, pick>>,
             \A c \in Caller : at'[c] \in {"read", "compare"} => at'[c] = at[c]
      PROVE  PickInv'
  BY <1>a DEF PickInv
<1>b. ASSUME NEW c \in Caller, at'[c] \notin {"read", "compare"},
             \A d \in Caller \ {c} : at'[d] = at[d],
             m_mutex = Nobody \/ m_mutex = c
      PROVE  PickInv'
  <2>1. \A d \in Caller : at'[d] \notin {"read", "compare"}
    BY <1>b DEF CallsInv, Caller
  <2>2. QED
    BY <2>1 DEF PickInv
<1> USE DEF TypeOK
<1>1. ASSUME NEW u \in User, GetFastThread(u)
      PROVE  PickInv'
  BY <1>1, <1>a DEF GetFastThread, calls
<1>2. ASSUME NEW u \in User, StopAll(u)
      PROVE  PickInv'
  BY <1>2, <1>a DEF StopAll, slots, Caller
<1>3. ASSUME NEW u \in User, StopOne(u)
      PROVE  PickInv'
  BY <1>3, <1>a DEF StopOne, slots, calls
<1>4. ASSUME NEW u \in User, StopAllReturns(u)
      PROVE  PickInv'
  <2>1. m_mutex = u /\ u \in Caller
    BY <1>4 DEF StopAllReturns, CallsInv, Caller
  <2>2. QED
    BY <1>4, <2>1, <1>b DEF StopAllReturns
<1>5. ASSUME NEW u \in User, NEW op \in Push, NEW task \in Task, Call(u, op, task)
      PROVE  PickInv'
  BY <1>5, <1>a DEF Call, slots, Push, Caller
<1>6. ASSUME NEW c \in Caller, PushFastTask(c)
      PROVE  PickInv'
  BY <1>6, <1>a DEF PushFastTask, Returns
<1>7. ASSUME NEW c \in Caller, PushHeartbeatTask(c)
      PROVE  PickInv'
  BY <1>7, <1>a DEF PushHeartbeatTask, Returns
<1>8. ASSUME NEW c \in Caller, PushBlockTask(c)
      PROVE  PickInv'
  <2>1. \A d \in Caller : at'[d] \in {"read", "compare"} => at'[d] = "read"
    BY <1>8 DEF PushBlockTask, CallsInv, Caller
  <2>2. blocks = <<>> \/ 1 \in DOMAIN blocks
    BY EmptySeq, LenProperties
  <2>3. QED
    BY <1>8, <2>1, <2>2 DEF PushBlockTask, PickInv, slots
<1>9. ASSUME NEW c \in Caller, ReadBest(c)
      PROVE  PickInv'
  <2>1. m_mutex = c
    BY <1>9 DEF ReadBest, CallsInv
  <2>2. \A d \in Caller : at'[d] \in {"read", "compare"} => d = c
    BY <1>9, <2>1 DEF ReadBest, CallsInv
  <2>3. pick.next \in DOMAIN blocks
    BY <1>9, LenProperties DEF ReadBest, PickInv
  <2>4. pick'.best = pick.best /\ pick'.next = pick.next /\ blocks' = blocks
    BY <1>9 DEF ReadBest, slots
  <2>5. QED
    BY <1>9, <2>2, <2>3, <2>4 DEF ReadBest, PickInv
<1>10. ASSUME NEW c \in Caller, Compare(c)
      PROVE  PickInv'
  <2>1. m_mutex = c
    BY <1>10 DEF Compare, CallsInv
  <2>2. \A d \in Caller : at'[d] \in {"read", "compare"} => d = c
    BY <1>10, <2>1 DEF Compare, CallsInv
  <2>3. at'[c] = "read"
    BY <1>10 DEF Compare
  <2>4. pick'.best \in {pick.best, pick.next} /\ pick'.next = pick.next + 1 /\ blocks' = blocks
    BY <1>10 DEF Compare, slots
  <2>5. QED
    BY <1>10, <2>2, <2>3, <2>4 DEF Compare, PickInv
<1>11. ASSUME NEW c \in Caller, PushPicked(c)
      PROVE  PickInv'
  <2>1. m_mutex = c
    BY <1>11 DEF PushPicked, CallsInv
  <2>2. QED
    BY <1>11, <2>1, <1>b DEF PushPicked, Returns
<1>12. ASSUME NEW i \in Id, TakeTask(i)
      PROVE  PickInv'
  BY <1>12, <1>a DEF TakeTask, slots, calls
<1>13. ASSUME NEW i \in Id, TaskCalls(i)
      PROVE  PickInv'
  BY <1>13, <1>a DEF TaskCalls, slots, Push, Caller
<1>14. ASSUME NEW i \in Id, TaskReturns(i)
      PROVE  PickInv'
  BY <1>14, <1>a DEF TaskReturns, slots, Caller
<1>15. ASSUME NEW i \in Id, LoopEnds(i)
      PROVE  PickInv'
  BY <1>15, <1>a DEF LoopEnds, slots, calls
<1>16. CASE UNCHANGED vars
  BY <1>16, <1>a DEF vars, slots, calls
<1>17. QED
  <2>1. \A c \in Calls : c[1] \in Push /\ c[2] \in Task
    BY ThreadManagerAssumption
  <2>2. QED
    BY <2>1, <1>1, <1>2, <1>3, <1>4, <1>5, <1>6, <1>7, <1>8, <1>9, <1>10, <1>11, <1>12, <1>13,
       <1>14, <1>15, <1>16
       DEF Next, PushStep, StopStep, LoopStep, Caller

(* The invariant holds.                                                    *)
LEMMA ManagerInvariant == Safety => []ManagerInv
<1>1. Init => ManagerInv
  <2> SUFFICES ASSUME Init PROVE ManagerInv
    OBVIOUS
  <2>1. blocks = <<>> /\ IsInjective(<<>>) /\ Range(<<>>) = {}
    BY DEF Init, IsInjective, Range
  <2>2. TypeOK
    BY DEF Init, TypeOK, NoPick, Caller, Task
  <2>3. SlotsInv /\ CallsInv /\ PickInv
    BY <2>1, <2>2 DEF Init, SlotsInv, CallsInv, PickInv, Caller
  <2>4. InSlots = {}
    BY <2>1 DEF Init, InSlots
  <2>5. ThreadsInv
    BY <2>4 DEF Init, ThreadsInv
  <2>6. QED
    BY <2>2, <2>3, <2>5 DEF ManagerInv
<1>2. ManagerInv /\ [Next]_vars => ManagerInv'
  BY TypeStep, CallsStep, SlotsStep, ThreadsStep, PickStep DEF ManagerInv
<1>3. QED
  BY <1>1, <1>2, PTL DEF Safety

(* The manager keeps the types of its variables.                           *)
THEOREM ManagerTypeCorrect == Safety => []TypeOK
<1>1. ManagerInv => TypeOK
  BY DEF ManagerInv
<1>2. QED
  BY <1>1, ManagerInvariant, PTL

(* Whenever m_mutex is free, the threads in the slots are those that run.  *)
THEOREM ManagerKnowsItsThreads == Safety => []ManagedRun
<1>1. ManagerInv => ManagedRun
  <2> SUFFICES ASSUME ManagerInv, m_mutex = Nobody
               PROVE  IsInjective(Order) /\ Managed = {i \in Id : loop[i] = "run"} /\ m_stop = {}
    BY DEF ManagedRun
  <2>1. IsInjective(Order) /\ Managed = InSlots
    BY OrderOfSlots DEF ManagerInv
  <2>2. m_stop = {} /\ \A i \in Id : loop[i] # "none" => loop[i] = "run"
    BY NoneStopped
  <2>3. InSlots = {i \in Id : loop[i] = "run"}
    BY <2>2 DEF ManagerInv, ThreadsInv
  <2>4. QED
    BY <2>1, <2>2, <2>3
<1>2. QED
  BY <1>1, ManagerInvariant, PTL

-----------------------------------------------------------------------------
(* Tasks behind others                                                     *)

(* No step but the last of push_block_task makes a block thread's queue    *)
(* longer, and that one looks at the length as it is then.                 *)
LEMMA BehindStep ==
  ManagerInv /\ [Next]_vars =>
    \A i \in Range(blocks) :
      get_task_count(i)' > get_task_count(i) /\ get_task_count(i) > 0
        => Len(blocks) >= GetBlockTaskThreadCount
<1> SUFFICES ASSUME ManagerInv, [Next]_vars, NEW b \in Range(blocks),
                    get_task_count(b)' > get_task_count(b), get_task_count(b) > 0
             PROVE  Len(blocks) >= GetBlockTaskThreadCount
  OBVIOUS
<1> USE ThreadManagerAssumption DEF ManagerInv
<1>a. b \in Id /\ que[b] \in Seq(Task) /\ que \in [Id -> Seq(Task)]
  BY RangeOfSeq DEF TypeOK
<1>0. PICK busy, busier \in {0, 1} :
        /\ busy = 1 <=> current[b] # "none"
        /\ busier = 1 <=> current'[b] # "none"
        /\ Len(que[b]) + busy > 0
        /\ Len(que'[b]) + busier > Len(que[b]) + busy
  <2> DEFINE before == IF current[b] # "none" THEN 1 ELSE 0
             after == IF current'[b] # "none" THEN 1 ELSE 0
  <2>1. Len(que[b]) + before > 0 /\ Len(que'[b]) + after > Len(que[b]) + before
    BY DEF get_task_count
  <2>2. /\ before \in {0, 1}
        /\ before = 1 <=> current[b] # "none"
        /\ after \in {0, 1}
        /\ after = 1 <=> current'[b] # "none"
    OBVIOUS
  <2> HIDE DEF before, after
  <2>3. QED
    BY <2>1, <2>2
<1>b. ASSUME current'[b] = current[b], que'[b] = que[b] \/ que'[b] = <<>> PROVE FALSE
  <2>1. Len(que[b]) \in Nat /\ Len(<<>>) = 0
    BY <1>a, LenProperties, EmptySeq
  <2>2. CASE que'[b] = que[b]
    BY <1>0, <1>b, <2>1, <2>2
  <2>3. CASE que'[b] = <<>>
    BY <1>0, <1>b, <2>1, <2>3
  <2>4. QED
    BY <1>b, <2>2, <2>3
<1>c. ASSUME NEW i \in Id, i # b, NEW c \in Caller, PushTo(i, c) PROVE FALSE
  BY <1>a, <1>b, <1>c DEF PushTo
<1>1. ASSUME NEW u \in User, GetFastThread(u)
      PROVE  Len(blocks) >= GetBlockTaskThreadCount
  BY <1>1, <1>b DEF GetFastThread
<1>2. ASSUME NEW u \in User, StopAll(u)
      PROVE  Len(blocks) >= GetBlockTaskThreadCount
  BY <1>2, <1>b DEF StopAll, queues
<1>3. ASSUME NEW u \in User, StopOne(u)
      PROVE  Len(blocks) >= GetBlockTaskThreadCount
  <2>1. PICK k \in DOMAIN Order : que' = [que EXCEPT ![Order[k]] = <<>>]
    BY <1>3 DEF StopOne
  <2>2. QED
    BY <1>3, <1>a, <1>b, <2>1 DEF StopOne
<1>4. ASSUME NEW u \in User, StopAllReturns(u)
      PROVE  Len(blocks) >= GetBlockTaskThreadCount
  BY <1>4, <1>b DEF StopAllReturns, queues
<1>5. ASSUME NEW u \in User, NEW op \in Push, NEW task \in Task, Call(u, op, task)
      PROVE  Len(blocks) >= GetBlockTaskThreadCount
  BY <1>5, <1>b DEF Call, queues
<1>6. ASSUME NEW c \in Caller, PushFastTask(c)
      PROVE  Len(blocks) >= GetBlockTaskThreadCount
  <2>1. PICK i \in Started(fast) : PushTo(i, c)
    BY <1>6 DEF PushFastTask
  <2>2. QED
    BY <1>c, <2>1, OfStarted
<1>7. ASSUME NEW c \in Caller, PushHeartbeatTask(c)
      PROVE  Len(blocks) >= GetBlockTaskThreadCount
  <2>1. PICK i \in Started(heart) : PushTo(i, c)
    BY <1>7 DEF PushHeartbeatTask
  <2>2. QED
    BY <1>c, <2>1, OfStarted
<1>8. ASSUME NEW c \in Caller, PushBlockTask(c)
      PROVE  Len(blocks) >= GetBlockTaskThreadCount
  BY <1>8, <1>b DEF PushBlockTask, queues
<1>9. ASSUME NEW c \in Caller, ReadBest(c)
      PROVE  Len(blocks) >= GetBlockTaskThreadCount
  BY <1>9, <1>b DEF ReadBest, queues
<1>10. ASSUME NEW c \in Caller, Compare(c)
      PROVE  Len(blocks) >= GetBlockTaskThreadCount
  BY <1>10, <1>b DEF Compare, queues
<1>11. ASSUME NEW c \in Caller, PushPicked(c)
      PROVE  Len(blocks) >= GetBlockTaskThreadCount
  <2>1. CASE NewBlockThread(c)
    BY <1>c, <2>1, UnusedIsNew DEF NewBlockThread, InSlots
  <2>2. CASE ~NeedsThread /\ PushTo(blocks[pick.best], c)
    <3>1. blocks # <<>> /\ pick.best \in DOMAIN blocks
      BY <1>11, <2>2 DEF PushPicked, NeedsThread, PickInv
    <3>2. blocks[pick.best] \in Id
      BY <3>1, LenProperties DEF TypeOK
    <3>3. blocks[pick.best] = b
      BY <1>c, <2>2, <3>2
    <3>4. get_task_count(b) = 0 \/ ~(Len(blocks) < GetBlockTaskThreadCount)
      BY <2>2, <3>1, <3>3 DEF NeedsThread
    <3>5. QED
      BY <3>4, LenProperties DEF TypeOK
  <2>3. QED
    BY <1>11, <2>1, <2>2 DEF PushPicked
<1>12. ASSUME NEW i \in Id, TakeTask(i)
      PROVE  Len(blocks) >= GetBlockTaskThreadCount
  <2>1. CASE i = b
    <3>1. Len(que[b]) \in Nat \ {0} /\ Len(Tail(que[b])) = Len(que[b]) - 1
      BY <1>12, <1>a, <2>1, HeadTailProperties, EmptySeq DEF TakeTask
    <3>2. que'[b] = Tail(que[b]) /\ current[b] = "none"
      BY <1>12, <1>a, <2>1 DEF TakeTask
    <3>3. QED
      BY <1>0, <3>1, <3>2
  <2>2. CASE i # b
    BY <1>12, <1>a, <1>b, <2>2 DEF TakeTask, TypeOK
  <2>3. QED
    BY <2>1, <2>2
<1>13. ASSUME NEW i \in Id, TaskCalls(i)
      PROVE  Len(blocks) >= GetBlockTaskThreadCount
  BY <1>13, <1>b DEF TaskCalls, queues
<1>14. ASSUME NEW i \in Id, TaskReturns(i)
      PROVE  Len(blocks) >= GetBlockTaskThreadCount
  <2>1. CASE i = b
    <3>1. que'[b] = que[b] /\ current'[b] = "none" /\ Len(que[b]) \in Nat
      BY <1>14, <1>a, <2>1, LenProperties DEF TaskReturns, TypeOK
    <3>2. QED
      BY <1>0, <3>1
  <2>2. CASE i # b
    BY <1>14, <1>a, <1>b, <2>2 DEF TaskReturns, TypeOK
  <2>3. QED
    BY <2>1, <2>2
<1>15. ASSUME NEW i \in Id, LoopEnds(i)
      PROVE  Len(blocks) >= GetBlockTaskThreadCount
  BY <1>15, <1>b DEF LoopEnds
<1>16. CASE UNCHANGED vars
  BY <1>16, <1>b DEF vars, queues
<1>17. QED
  <2>1. \A c \in Calls : c[1] \in Push /\ c[2] \in Task
    BY ThreadManagerAssumption
  <2>2. QED
    BY <2>1, <1>1, <1>2, <1>3, <1>4, <1>5, <1>6, <1>7, <1>8, <1>9, <1>10, <1>11, <1>12, <1>13,
       <1>14, <1>15, <1>16
       DEF Next, PushStep, StopStep, LoopStep, Caller

(* A blocking task is put behind another only when no thread may be added. *)
THEOREM ManagerBehindWhenFull == Safety => BehindWhenFull
<1>1. ManagerInv /\ [Next]_vars =>
        [\A i \in Range(blocks) :
           get_task_count(i)' > get_task_count(i) /\ get_task_count(i) > 0
             => Len(blocks) >= GetBlockTaskThreadCount]_vars
  BY BehindStep
<1>2. QED
  BY <1>1, ManagerInvariant, PTL DEF Safety, BehindWhenFull
=============================================================================
