------------------------- MODULE PipeManager_proofs -------------------------
(***************************************************************************)
(* The pipe manager and its message loop for any threads, names and calls: *)
(* they keep their types, no task is left without a wakeup, the tasks are  *)
(* run as TaskPump says, and no open pipe is lost.                         *)
(***************************************************************************)
EXTENDS PipeManager, SequenceTheorems, TLAPS

-----------------------------------------------------------------------------
(* Lists                                                                   *)

(* What push_back adds to the elements of a list.                          *)
LEMMA RangeOfAppend ==
  ASSUME NEW S, NEW s \in Seq(S), NEW e \in S
  PROVE  Range(Append(s, e)) = Range(s) \union {e}
<1> DEFINE last == <<e>>
<1>1. Append(s, e) = s \o last
  BY AppendIsConcat
<1>2. last \in Seq(S) /\ Range(last) = {e}
  BY DEF Range
<1> HIDE DEF last
<1>3. Range(s \o last) = Range(s) \union Range(last)
  BY <1>2, RangeConcatenation
<1>4. QED
  BY <1>1, <1>2, <1>3

(* ... and what pop_front takes out of them: at most the front.            *)
LEMMA RangeOfTail ==
  ASSUME NEW S, NEW s \in Seq(S), s # <<>>
  PROVE  Range(s) = Range(Tail(s)) \union {Head(s)}
<1>1. Range(s) \subseteq Range(Tail(s)) \union {Head(s)}
  <2> SUFFICES ASSUME NEW i \in 1 .. Len(s), s[i] # Head(s)
               PROVE  s[i] \in Range(Tail(s))
    BY DEF Range
  <2>1. i - 1 \in DOMAIN Tail(s) /\ Tail(s)[i - 1] = s[i]
    BY HeadTailProperties
  <2>2. QED
    BY <2>1 DEF Range
<1>2. Range(Tail(s)) \subseteq Range(s)
  <2> SUFFICES ASSUME NEW i \in 1 .. Len(Tail(s))
               PROVE  Tail(s)[i] \in Range(s)
    BY HeadTailProperties, LenProperties DEF Range
  <2>1. i + 1 \in DOMAIN s /\ Tail(s)[i] = s[i + 1]
    BY HeadTailProperties, LenProperties
  <2>2. QED
    BY <2>1 DEF Range
<1>3. Head(s) \in Range(s)
  <2>1. 1 \in DOMAIN s /\ Head(s) = s[1]
    BY LenProperties, EmptySeq
  <2>2. QED
    BY <2>1 DEF Range
<1>4. QED
  BY <1>1, <1>2, <1>3

-----------------------------------------------------------------------------
(* The invariants                                                          *)

(* A caller that unlocked m_mutex has the task it is about to post; the    *)
(* loop thread has a task while it is in DoWork().                         *)
HoldInv ==
  /\ \A t \in Thread : IF at[t] = "post" THEN held[t] \in Task ELSE held[t] = NoTask
  /\ run = "task" <=> current # NoTask

(* The loop thread is about to wait, or waits already.                     *)
Sleepy == run = "wait" \/ (run = "poll" /\ ~more)

(* have_work_ says that a packet is on its way, and there is one for every *)
(* task that comes too late for the loop's last look at the queues.        *)
WorkInv ==
  /\ have_work_ => \E i \in DOMAIN port : port[i] = "work"
  /\ Sleepy => work_queue_ = <<>> /\ (incoming_queue_ # <<>> => have_work_)

(* StopLoop and the heart beat have m_mutex while they wait, and the loop  *)
(* thread has ended when it can be started again.                          *)
MutexInv ==
  /\ \A t \in Thread : at[t] \in {"join_loop", "join_heart"} => m_mutex = t
  /\ heart = "wait" => m_mutex = Heart
  /\ m_isLoopStart \/ run \in {"none", "ended"} \/ \E t \in Thread : at[t] = "join_loop"

(* A pipe in the map is there under its own name, and no task has it.      *)
MapInv ==
  /\ \A n \in Name : m_msgPipe[n] # 0 => pipe[m_msgPipe[n]].name = n
  /\ \A task \in Tasks : task.pipe \notin Mapped \/ task.pipe = 0

(* A task that creates has no pipe, or one that is closed by then.         *)
CreateInv ==
  /\ \A task \in Tasks : task.op = "CreatePipe" => task.pipe = 0
  /\ closed => /\ run = "task" /\ current.op = "CloseAndReCreate"
               /\ current.pipe # 0 => IsClosed(current.pipe)

PipesInv == MapInv /\ CreateInv /\ NoOrphan

-----------------------------------------------------------------------------
(* The operators                                                           *)

(* PostTask puts a task behind all others, whichever queue they are in.    *)
LEMMA QueueOfPost ==
  ASSUME TypeOK, NEW task \in Task, PostTask(task)
  PROVE  /\ incoming_queue_' \in Seq(Task) /\ Queue \in Seq(Task)
         /\ Queue' = Append(Queue, task)
<1>1. incoming_queue_ \in Seq(Task) /\ work_queue_ \in Seq(Task) /\ Queue \in Seq(Task)
  BY ConcatProperties DEF TypeOK, Queue
<1>2. incoming_queue_' = Append(incoming_queue_, task) /\ work_queue_' = work_queue_
  BY DEF PostTask
<1>3. <<task>> \in Seq(Task)
  OBVIOUS
<1>4. Append(Queue, task) = (work_queue_ \o incoming_queue_) \o <<task>>
  BY <1>1, AppendIsConcat DEF Queue
<1>5. Append(incoming_queue_, task) = incoming_queue_ \o <<task>>
  BY <1>1, AppendIsConcat
<1>6. (work_queue_ \o incoming_queue_) \o <<task>> = work_queue_ \o (incoming_queue_ \o <<task>>)
  BY <1>1, <1>3, ConcatAssociative
<1>7. Queue' = Append(Queue, task)
  BY <1>2, <1>4, <1>5, <1>6 DEF Queue
<1>8. QED
  BY <1>1, <1>2, <1>7, AppendProperties

(* The loop takes the task that was posted first of those in both queues.  *)
LEMMA QueueOfTake ==
  ASSUME TypeOK, TakeTask
  PROVE  /\ Queue \in Seq(Task) /\ Queue # <<>>
         /\ work_queue_' \in Seq(Task) /\ incoming_queue_' \in Seq(Task)
         /\ current' \in Task
         /\ current' = Head(Queue) /\ Queue' = Tail(Queue)
<1>1. incoming_queue_ \in Seq(Task) /\ work_queue_ \in Seq(Task) /\ Queue \in Seq(Task)
  BY ConcatProperties DEF TypeOK, Queue
<1>2. Queue # <<>>
  BY DEF TakeTask, Queue
<1>3. CASE work_queue_ = <<>>
  <2>1. Queue = incoming_queue_
    BY <1>1, <1>3, ConcatEmptySeq DEF Queue
  <2>2. current' = Head(Queue) /\ work_queue_' = Tail(Queue) /\ incoming_queue_' = <<>>
    BY <1>3, <2>1 DEF TakeTask
  <2>3. Head(Queue) \in Task /\ Tail(Queue) \in Seq(Task) /\ <<>> \in Seq(Task)
    BY <1>1, <1>2, HeadTailProperties
  <2>4. Queue' = Tail(Queue)
    BY <2>2, <2>3, ConcatEmptySeq DEF Queue
  <2>5. QED
    BY <1>1, <1>2, <2>2, <2>3, <2>4
<1>4. CASE work_queue_ # <<>>
  <2>1. current' = Head(work_queue_) /\ work_queue_' = Tail(work_queue_) /\ incoming_queue_' = incoming_queue_
    BY <1>4 DEF TakeTask
  <2>2. PICK first \in Task, rest \in Seq(Task) :
          first = Head(work_queue_) /\ rest = Tail(work_queue_)
    BY <1>1, <1>4, HeadTailProperties
  <2>3. Head(Queue) = first /\ Tail(Queue) = rest \o incoming_queue_
    <3>1. Len(work_queue_) \in Nat \ {0} /\ Len(incoming_queue_) \in Nat
      BY <1>1, <1>4, EmptySeq, LenProperties
    <3>2. /\ rest \o incoming_queue_ \in Seq(Task)
          /\ Len(rest \o incoming_queue_) = Len(work_queue_) - 1 + Len(incoming_queue_)
          /\ \A i \in 1 .. (Len(work_queue_) - 1 + Len(incoming_queue_)) :
               (rest \o incoming_queue_)[i] =
                 IF i <= Len(work_queue_) - 1 THEN rest[i] ELSE incoming_queue_[i - (Len(work_queue_) - 1)]
      <4>1. Len(rest) = Len(work_queue_) - 1
        BY <1>1, <1>4, <2>2, HeadTailProperties
      <4>2. /\ rest \o incoming_queue_ \in Seq(Task)
            /\ Len(rest \o incoming_queue_) = Len(rest) + Len(incoming_queue_)
            /\ \A i \in 1 .. Len(rest) + Len(incoming_queue_) :
                 (rest \o incoming_queue_)[i] =
                   IF i <= Len(rest) THEN rest[i] ELSE incoming_queue_[i - Len(rest)]
        BY <1>1, <2>2, ConcatProperties
      <4>3. QED
        BY <4>1, <4>2
    <3>3. /\ Len(Queue) = Len(work_queue_) + Len(incoming_queue_)
          /\ \A i \in 1 .. Len(work_queue_) + Len(incoming_queue_) :
               Queue[i] = IF i <= Len(work_queue_) THEN work_queue_[i] ELSE incoming_queue_[i - Len(work_queue_)]
      BY <1>1, ConcatProperties DEF Queue
    <3>4. /\ Tail(Queue) \in Seq(Task) /\ Head(Queue) = Queue[1]
          /\ Len(Tail(Queue)) = Len(Queue) - 1
          /\ \A i \in 1 .. Len(Tail(Queue)) : Tail(Queue)[i] = Queue[i + 1]
      BY <1>1, <1>2, HeadTailProperties
    <3>5. /\ first = work_queue_[1]
          /\ \A i \in 1 .. (Len(work_queue_) - 1) : rest[i] = work_queue_[i + 1]
      BY <1>1, <1>4, <2>2, HeadTailProperties
    <3>6. Head(Queue) = first
      BY <3>1, <3>3, <3>4, <3>5
    <3>7. Len(Tail(Queue)) = Len(rest \o incoming_queue_)
      BY <3>1, <3>2, <3>3, <3>4
    <3>8. ASSUME NEW i \in 1 .. Len(Tail(Queue))
          PROVE  Tail(Queue)[i] = (rest \o incoming_queue_)[i]
      <4>1. Tail(Queue)[i] = Queue[i + 1] /\ i + 1 \in 1 .. Len(work_queue_) + Len(incoming_queue_)
        BY <3>1, <3>3, <3>4
      <4>2. CASE i <= Len(work_queue_) - 1
        BY <3>1, <3>2, <3>3, <3>4, <3>5, <4>1, <4>2
      <4>3. CASE i > Len(work_queue_) - 1
        <5>1. Queue[i + 1] = incoming_queue_[i + 1 - Len(work_queue_)]
          BY <3>1, <3>3, <4>1, <4>3
        <5>2. (rest \o incoming_queue_)[i] = incoming_queue_[i - (Len(work_queue_) - 1)]
          BY <3>1, <3>2, <3>7, <4>3
        <5>3. i + 1 - Len(work_queue_) = i - (Len(work_queue_) - 1)
          BY <3>1
        <5>4. QED
          BY <4>1, <5>1, <5>2, <5>3
      <4>4. i <= Len(work_queue_) - 1 \/ i > Len(work_queue_) - 1
        BY <3>1
      <4>5. QED
        BY <4>2, <4>3, <4>4
    <3>9. QED
      BY <3>2, <3>4, <3>6, <3>7, <3>8, SeqEqual
  <2>4. QED
    BY <1>1, <1>2, <2>1, <2>2, <2>3 DEF Queue
<1>5. QED
  BY <1>3, <1>4

-----------------------------------------------------------------------------
(* Types and threads                                                       *)

(* What PostTask posts and what the thread calls return, in their types.   *)
LEMMA PostTypes ==
  ASSUME TypeOK, NEW task \in Task, PostTask(task)
  PROVE  LoopTypeOK' /\ incoming_queue_' \in Seq(Task) /\ work_queue_' = work_queue_ /\ current' = current
<1>1. incoming_queue_' \in Seq(Task)
  BY QueueOfPost
<1>2. port' \in Seq(Packets)
  <2>1. port \in Seq(Packets) /\ "work" \in Packets
    BY DEF TypeOK, LoopTypeOK, Packets
  <2>2. port' \in {port, Append(port, "work")}
    BY DEF PostTask
  <2>3. QED
    BY <2>1, <2>2, AppendProperties
<1>3. have_work_' \in BOOLEAN
  BY DEF PostTask, TypeOK, LoopTypeOK
<1>4. QED
  BY <1>1, <1>2, <1>3 DEF PostTask, TypeOK, LoopTypeOK

(* A task made from a call, with the number of a pipe or with none.        *)
LEMMA NewTaskType ==
  ASSUME NEW c \in Call, NEW p \in 0 .. MaxPipes
  PROVE  NewTask(c, p) \in Task /\ NewTask(c, p).op = c.op /\ NewTask(c, p).pipe = p
BY DEF NewTask, Call, Task

(* The calls of the heart beat are calls.                                  *)
LEMMA HeartCallType ==
  ASSUME NEW op \in Ops, NEW server \in BOOLEAN, NEW sync \in BOOLEAN
  PROVE  HeartCall(op, server, sync) \in Call /\ HeartCall(op, server, sync).op = op
BY ManagerAssumption DEF HeartCall, Call

(* The registration pipe's task, whether it is created or replaced.        *)
LEMMA HeartTask ==
  ASSUME TypeOK
  PROVE  /\ HeartBeatCreates => \E task \in Task :
              PostTask(task) /\ task.op = "CreatePipe" /\ task.pipe = 0
         /\ HeartBeatReplaces => \E task \in Task :
              PostTask(task) /\ task.op # "CreatePipe" /\ task.pipe = m_msgPipe[Regist]
<1>1. ASSUME HeartBeatCreates
      PROVE  \E task \in Task : PostTask(task) /\ task.op = "CreatePipe" /\ task.pipe = 0
  <2>1. 0 \in 0 .. MaxPipes
    BY ManagerAssumption
  <2>2. HeartCall("CreatePipe", TRUE, TRUE) \in Call /\ HeartCall("CreatePipe", TRUE, TRUE).op = "CreatePipe"
    <3>1. "CreatePipe" \in Ops /\ TRUE \in BOOLEAN
      BY DEF Ops
    <3>2. QED
      BY <3>1, HeartCallType, Zenon
  <2>3. PostTask(NewTask(HeartCall("CreatePipe", TRUE, TRUE), 0))
    BY <1>1 DEF HeartBeatCreates
  <2>4. QED
    BY <2>1, <2>2, <2>3, NewTaskType
<1>2. ASSUME HeartBeatReplaces
      PROVE  \E task \in Task : PostTask(task) /\ task.op # "CreatePipe" /\ task.pipe = m_msgPipe[Regist]
  <2> DEFINE p == m_msgPipe[Regist]
             op == IF pipe[p].server THEN "CloseAndReCreate" ELSE "Close"
  <2>1. p \in 0 .. MaxPipes /\ p # 0
    BY <1>2, ManagerAssumption DEF TypeOK, HeartBeatReplaces
  <2>2. pipe[p].server \in BOOLEAN
    BY <2>1, ManagerAssumption DEF TypeOK, Pipe
  <2>3. op \in Ops /\ op # "CreatePipe"
    BY DEF Ops
  <2>4. PostTask(NewTask(HeartCall(op, pipe[p].server, FALSE), p))
    BY <1>2 DEF HeartBeatReplaces
  <2> HIDE DEF op, p
  <2>5. HeartCall(op, pipe[p].server, FALSE) \in Call /\ HeartCall(op, pipe[p].server, FALSE).op = op
    BY <2>2, <2>3, HeartCallType
  <2>6. QED
    BY <2>1, <2>3, <2>4, <2>5, NewTaskType DEF p
<1>3. QED
  BY <1>1, <1>2

(* TaskReturns gives the loop's variables values of their types.           *)
LEMMA ReturnTypes ==
  ASSUME TypeOK, TaskReturns
  PROVE  /\ LoopTypeOK' /\ current' = NoTask
         /\ UNCHANGED <<incoming_queue_, work_queue_, have_work_, port>>
BY DEF TaskReturns, Unless, TypeOK, LoopTypeOK, RunStates

(* Every step keeps the types.                                             *)
LEMMA TypeStep == TypeOK /\ HoldInv /\ [Next]_vars => TypeOK'
<1> SUFFICES ASSUME TypeOK, HoldInv, [Next]_vars PROVE TypeOK'
  OBVIOUS
<1> USE ManagerAssumption DEF TypeOK, LoopTypeOK, RunStates, flags, pipeVars, userVars, managerVars
<1>a. ASSUME LoopTypeOK', UNCHANGED managerVars,
             incoming_queue_' \in Seq(Task), work_queue_' \in Seq(Task), current' \in Task \union {NoTask}
      PROVE  TypeOK'
  BY <1>a
<1>b. ASSUME NEW pipes
      PROVE  [p \in Pipe |-> IF p \in pipes THEN Unused ELSE pipe[p]]
               \in [Pipe -> [state : {"waiting", "connected", "closed"}, name : Name, server : BOOLEAN]]
  BY DEF Unused
<1>c. ASSUME NEW t \in Thread, NEW c \in Calls, MayCall(t)
      PROVE  calls' \in 0 .. MaxCalls /\ c \in Call
  BY <1>c DEF MayCall
<1>1. ASSUME StartLoop
      PROVE  TypeOK'
  BY <1>1 DEF StartLoop, StartThread
<1>2. ASSUME TakeTask, UNCHANGED managerVars
      PROVE  TypeOK'
  BY <1>2, <1>a, QueueOfTake DEF TakeTask
<1>3. ASSUME NothingToDo, UNCHANGED managerVars
      PROVE  TypeOK'
  BY <1>3, <1>a DEF NothingToDo, Unless
<1>4. ASSUME TakePacket, UNCHANGED managerVars
      PROVE  TypeOK'
  <2>1. port' \in Seq(Packets)
    BY <1>4, HeadTailProperties DEF TakePacket
  <2>2. QED
    BY <1>4, <1>a, <2>1 DEF TakePacket, AfterItem, Unless
<1>5. ASSUME PollFindsNothing, UNCHANGED managerVars
      PROVE  TypeOK'
  BY <1>5, <1>a DEF PollFindsNothing
<1>6. ASSUME WaitTimesOut, UNCHANGED managerVars
      PROVE  TypeOK'
  BY <1>6, <1>a DEF WaitTimesOut, Unless
<1>7. ASSUME OnClose
      PROVE  TypeOK'
  BY <1>7, <1>b, ReturnTypes DEF OnClose, CloseAll
<1>8. ASSUME OnCloseAndReCreate
      PROVE  TypeOK'
  BY <1>8, <1>b DEF OnCloseAndReCreate, CloseAll, loopVars
<1>9. ASSUME OnCreate
      PROVE  TypeOK'
  <2> DEFINE n == current.name
  <2>1. current \in Task /\ n \in Name /\ current.server \in BOOLEAN
    BY <1>9 DEF OnCreate, WantsToCreate, Running, HoldInv, Task
  <2>2. \/ UNCHANGED pipe /\ m_msgPipe' \in {m_msgPipe, [m_msgPipe EXCEPT ![n] = 0]}
        \/ \E p \in FreePipes :
             /\ pipe' = [pipe EXCEPT ![p] = [state |-> IF current.server THEN "waiting" ELSE "connected",
                                             name |-> n, server |-> current.server]]
             /\ m_msgPipe' = [m_msgPipe EXCEPT ![n] = p]
    BY <1>9 DEF OnCreate
  <2>3. /\ m_msgPipe' \in [Name -> 0 .. MaxPipes]
        /\ pipe' \in [Pipe -> [state : {"waiting", "connected", "closed"}, name : Name, server : BOOLEAN]]
    <3> HIDE DEF n
    <3>1. CASE UNCHANGED pipe /\ m_msgPipe' \in {m_msgPipe, [m_msgPipe EXCEPT ![n] = 0]}
      <4>1. [m_msgPipe EXCEPT ![n] = 0] \in [Name -> 0 .. MaxPipes]
        <5>1. 0 \in 0 .. MaxPipes /\ m_msgPipe \in [Name -> 0 .. MaxPipes]
          OBVIOUS
        <5> HIDE DEF TypeOK
        <5>2. QED
          BY <5>1
      <4>2. m_msgPipe' \in [Name -> 0 .. MaxPipes]
        BY <3>1, <4>1
      <4>3. QED
        BY <3>1, <4>2
    <3>2. ASSUME NEW p \in FreePipes,
                 pipe' = [pipe EXCEPT ![p] = [state |-> IF current.server THEN "waiting" ELSE "connected",
                                              name |-> n, server |-> current.server]],
                 m_msgPipe' = [m_msgPipe EXCEPT ![n] = p]
          PROVE  /\ m_msgPipe' \in [Name -> 0 .. MaxPipes]
                 /\ pipe' \in [Pipe -> [state : {"waiting", "connected", "closed"}, name : Name, server : BOOLEAN]]
      <4>1. p \in Pipe /\ p \in 0 .. MaxPipes
        BY DEF FreePipes, Pipe
      <4>2. [state |-> IF current.server THEN "waiting" ELSE "connected", name |-> n, server |-> current.server]
              \in [state : {"waiting", "connected", "closed"}, name : Name, server : BOOLEAN]
        BY <2>1
      <4>3. QED
        BY <2>1, <3>2, <4>1, <4>2
    <3>3. QED
      BY <2>2, <3>1, <3>2
  <2>4. QED
    BY <1>9, <2>3, ReturnTypes DEF OnCreate
<1>10. ASSUME HeartBeatCallBack
      PROVE  TypeOK'
  BY <1>10 DEF HeartBeatCallBack, loopVars
<1>11. ASSUME HeartBeatClosedPipe
      PROVE  TypeOK'
  BY <1>11, <1>b DEF HeartBeatClosedPipe, CloseAll, loopVars
<1>12. ASSUME HeartBeatCreates
      PROVE  TypeOK'
  BY <1>12, HeartTask, PostTypes DEF HeartBeatCreates, Caller
<1>13. ASSUME HeartWaitEnds
      PROVE  TypeOK'
  BY <1>13 DEF HeartWaitEnds, loopVars
<1>14. ASSUME HeartBeatReplaces
      PROVE  TypeOK'
  BY <1>14, HeartTask, PostTypes DEF HeartBeatReplaces
<1>15. ASSUME HeartBeatLeaves
      PROVE  TypeOK'
  BY <1>15 DEF HeartBeatLeaves, loopVars
<1>16. ASSUME NEW p \in Pipe, ChannelCompletes(p)
      PROVE  TypeOK'
  <2>1. pipe' \in [Pipe -> [state : {"waiting", "connected", "closed"}, name : Name, server : BOOLEAN]]
    BY <1>16 DEF ChannelCompletes
  <2>2. QED
    BY <1>16, <2>1 DEF ChannelCompletes, TakeCompletion, AfterItem, Unless
<1>17. ASSUME NEW t \in Thread, PostRest(t)
      PROVE  TypeOK'
  <2>1. held[t] \in Task /\ PostTask(held[t])
    BY <1>17 DEF PostRest, PostAndWait, HoldInv
  <2>2. QED
    BY <1>17, <2>1, PostTypes DEF PostRest, PostAndWait, Goes
<1>18. ASSUME NEW t \in Thread, WaitEnds(t)
      PROVE  TypeOK'
  BY <1>18 DEF WaitEnds, Goes, loopVars
<1>19. ASSUME NEW t \in Thread, JoinLoop(t)
      PROVE  TypeOK'
  BY <1>19 DEF JoinLoop, Goes, loopVars
<1>20. ASSUME NEW t \in Thread, JoinHeart(t)
      PROVE  TypeOK'
  BY <1>20, <1>b DEF JoinHeart, Goes, CloseAll, loopVars
<1>21. ASSUME NEW t \in Thread, NEW c \in Calls, CreatePipe(t, c)
      PROVE  TypeOK'
  <2>1. NewTask(c, 0) \in Task /\ PostTask(NewTask(c, 0)) /\ calls' \in 0 .. MaxCalls
    BY <1>21, <1>c, NewTaskType DEF CreatePipe, PostAndWait
  <2>2. QED
    BY <1>21, <2>1, PostTypes DEF CreatePipe, PostAndWait, Goes
<1>22. ASSUME NEW t \in Thread, NEW c \in Calls, TakeOut(t, c)
      PROVE  TypeOK'
  <2>1. c.name \in Name /\ m_msgPipe[c.name] \in 0 .. MaxPipes /\ calls' \in 0 .. MaxCalls
    BY <1>22, <1>c DEF TakeOut, Call
  <2>2. NewTask(c, m_msgPipe[c.name]) \in Task
    BY <2>1, NewTaskType
  <2>3. m_msgPipe' = [m_msgPipe EXCEPT ![c.name] = 0]
    BY <1>22 DEF TakeOut
  <2>4. /\ at' \in {at, [at EXCEPT ![t] = "post"]}
        /\ held' \in {held, [held EXCEPT ![t] = NewTask(c, m_msgPipe[c.name])]}
    BY <1>22 DEF TakeOut, Goes
  <2>5. m_msgPipe' \in [Name -> 0 .. MaxPipes]
    BY <2>1, <2>3
  <2>6. /\ at' \in [Thread -> {"idle", "post", "wait", "join_loop", "join_heart"}]
        /\ held' \in [Thread -> Task \union {NoTask}]
    BY <2>2, <2>4
  <2>7. QED
    BY <1>22, <2>1, <2>5, <2>6 DEF TakeOut, loopVars
<1>23. ASSUME NEW t \in Thread, NEW c \in Calls, StopLoop(t, c)
      PROVE  TypeOK'
  <2>1. calls' \in 0 .. MaxCalls
    BY <1>23, <1>c DEF StopLoop
  <2>2. Append(port, "quit") \in Seq(Packets)
    BY AppendProperties DEF Packets
  <2>3. CASE m_isLoopStart
    <3>1. /\ m_mutex' = t /\ m_isLoopStart' = FALSE
          /\ Quit
          /\ at' = [at EXCEPT ![t] = "join_loop"]
      BY <1>23, <2>3 DEF StopLoop, Goes
    <3>2. LoopTypeOK' /\ UNCHANGED <<incoming_queue_, work_queue_, current>>
      BY <2>2, <3>1 DEF Quit
    <3>3. QED
      BY <1>23, <2>1, <3>1, <3>2 DEF StopLoop, Caller
  <2>4. CASE ~m_isLoopStart
    BY <1>23, <2>1, <2>4 DEF StopLoop, loopVars
  <2>5. QED
    BY <2>3, <2>4
<1>24. CASE UNCHANGED vars
  BY <1>24 DEF vars, loopVars
<1>25. QED
  BY <1>1, <1>2, <1>3, <1>4, <1>5, <1>6, <1>7, <1>8, <1>9, <1>10, <1>11, <1>12, <1>13,
     <1>14, <1>15, <1>16, <1>17, <1>18, <1>19, <1>20, <1>21, <1>22, <1>23, <1>24
     DEF Next, LoopStep, Pumping, HeartStep, CallStep

(* Every step keeps what the threads hold, and who has m_mutex.            *)
LEMMA HoldStep == TypeOK /\ HoldInv /\ MutexInv /\ [Next]_vars => HoldInv' /\ MutexInv'
<1> SUFFICES ASSUME TypeOK, HoldInv, MutexInv, [Next]_vars PROVE HoldInv' /\ MutexInv'
  OBVIOUS
<1> USE ManagerAssumption DEF TypeOK, HoldInv, MutexInv, flags, pipeVars, userVars, managerVars
<1>1. ASSUME StartLoop
      PROVE  HoldInv' /\ MutexInv'
  BY <1>1 DEF StartLoop, StartThread
<1>2. ASSUME TakeTask, UNCHANGED managerVars
      PROVE  HoldInv' /\ MutexInv'
  BY <1>2, QueueOfTake DEF TakeTask
<1>3. ASSUME NothingToDo, UNCHANGED managerVars
      PROVE  HoldInv' /\ MutexInv'
  BY <1>3 DEF NothingToDo, Unless
<1>4. ASSUME TakePacket, UNCHANGED managerVars
      PROVE  HoldInv' /\ MutexInv'
  BY <1>4 DEF TakePacket, AfterItem, Unless
<1>5. ASSUME PollFindsNothing, UNCHANGED managerVars
      PROVE  HoldInv' /\ MutexInv'
  BY <1>5 DEF PollFindsNothing
<1>6. ASSUME WaitTimesOut, UNCHANGED managerVars
      PROVE  HoldInv' /\ MutexInv'
  BY <1>6 DEF WaitTimesOut, Unless
<1>7. ASSUME OnClose
      PROVE  HoldInv' /\ MutexInv'
  BY <1>7 DEF OnClose, TaskReturns, Unless, Running
<1>8. ASSUME OnCloseAndReCreate
      PROVE  HoldInv' /\ MutexInv'
  BY <1>8 DEF OnCloseAndReCreate, loopVars
<1>9. ASSUME OnCreate
      PROVE  HoldInv' /\ MutexInv'
  BY <1>9 DEF OnCreate, TaskReturns, Unless, WantsToCreate, Running
<1>10. ASSUME HeartBeatCallBack
      PROVE  HoldInv' /\ MutexInv'
  BY <1>10 DEF HeartBeatCallBack, HeartLocks, loopVars
<1>11. ASSUME HeartBeatClosedPipe
      PROVE  HoldInv' /\ MutexInv'
  BY <1>11 DEF HeartBeatClosedPipe, HeartLocks, loopVars
<1>12. ASSUME HeartBeatCreates
      PROVE  HoldInv' /\ MutexInv'
  BY <1>12 DEF HeartBeatCreates, HeartLocks, PostTask
<1>13. ASSUME HeartWaitEnds
      PROVE  HoldInv' /\ MutexInv'
  BY <1>13 DEF HeartWaitEnds, HeartLocks, loopVars
<1>14. ASSUME HeartBeatReplaces
      PROVE  HoldInv' /\ MutexInv'
  BY <1>14 DEF HeartBeatReplaces, HeartLocks, PostTask
<1>15. ASSUME HeartBeatLeaves
      PROVE  HoldInv' /\ MutexInv'
  BY <1>15 DEF HeartBeatLeaves, HeartLocks, loopVars
<1>16. ASSUME NEW p \in Pipe, ChannelCompletes(p)
      PROVE  HoldInv' /\ MutexInv'
  BY <1>16 DEF ChannelCompletes, TakeCompletion, AfterItem, Unless
<1>17. ASSUME NEW t \in Thread, PostRest(t)
      PROVE  HoldInv' /\ MutexInv'
  BY <1>17 DEF PostRest, PostAndWait, PostTask, Goes
<1>18. ASSUME NEW t \in Thread, WaitEnds(t)
      PROVE  HoldInv' /\ MutexInv'
  BY <1>18 DEF WaitEnds, Goes, loopVars
<1>19. ASSUME NEW t \in Thread, JoinLoop(t)
      PROVE  HoldInv' /\ MutexInv'
  BY <1>19 DEF JoinLoop, Goes, loopVars
<1>20. ASSUME NEW t \in Thread, JoinHeart(t)
      PROVE  HoldInv' /\ MutexInv'
  BY <1>20 DEF JoinHeart, Goes, loopVars
<1>21. ASSUME NEW t \in Thread, NEW c \in Calls, CreatePipe(t, c)
      PROVE  HoldInv' /\ MutexInv'
  BY <1>21 DEF CreatePipe, MayCall, PostAndWait, PostTask, Goes
<1>22. ASSUME NEW t \in Thread, NEW c \in Calls, TakeOut(t, c)
      PROVE  HoldInv' /\ MutexInv'
  <2>1. NewTask(c, m_msgPipe[c.name]) \in Task
    BY NewTaskType DEF Call
  <2>2. QED
    BY <1>22, <2>1 DEF TakeOut, MayCall, Goes, loopVars
<1>23. ASSUME NEW t \in Thread, NEW c \in Calls, StopLoop(t, c)
      PROVE  HoldInv' /\ MutexInv'
  BY <1>23 DEF StopLoop, MayCall, Goes, Quit, loopVars
<1>24. CASE UNCHANGED vars
  BY <1>24 DEF vars, loopVars
<1>25. QED
  BY <1>1, <1>2, <1>3, <1>4, <1>5, <1>6, <1>7, <1>8, <1>9, <1>10, <1>11, <1>12, <1>13,
     <1>14, <1>15, <1>16, <1>17, <1>18, <1>19, <1>20, <1>21, <1>22, <1>23, <1>24
     DEF Next, LoopStep, Pumping, HeartStep, CallStep

-----------------------------------------------------------------------------
(* Wakeups                                                                 *)

(* Every step keeps a packet on its way for whoever comes too late.        *)
LEMMA WorkStep == TypeOK /\ WorkInv /\ [Next]_vars => WorkInv'
<1> SUFFICES ASSUME TypeOK, WorkInv, [Next]_vars PROVE WorkInv'
  OBVIOUS
<1> USE DEF Sleepy
<1>0. port \in Seq(Packets) /\ incoming_queue_ \in Seq(Task)
  BY DEF TypeOK, LoopTypeOK
<1>a. ASSUME UNCHANGED loopVars PROVE WorkInv'
  BY <1>a DEF loopVars, WorkInv
<1>b. ASSUME UNCHANGED <<port, have_work_>>, run' \notin {"poll", "wait"} PROVE WorkInv'
  BY <1>b DEF WorkInv
<1>c. ASSUME NEW packet \in Packets, port' = Append(port, packet)
      PROVE  /\ \A i \in DOMAIN port : i \in DOMAIN port' /\ port'[i] = port[i]
             /\ \E i \in DOMAIN port' : port'[i] = packet
  <2>1. /\ Len(port) \in Nat /\ DOMAIN port = 1 .. Len(port)
        /\ DOMAIN port' = 1 .. (Len(port) + 1) /\ port'[Len(port) + 1] = packet
        /\ \A i \in 1 .. Len(port) : port'[i] = port[i]
    BY <1>0, <1>c, AppendProperties, LenProperties
  <2>2. QED
    BY <2>1
<1>d. ASSUME NEW task, PostTask(task) PROVE WorkInv'
  <2>1. CASE incoming_queue_ = <<>> /\ ~have_work_
    <3>1. "work" \in Packets /\ port' = Append(port, "work") /\ have_work_' = TRUE
      BY <1>d, <2>1 DEF PostTask, Packets
    <3>2. \E i \in DOMAIN port' : port'[i] = "work"
      BY <1>c, <3>1
    <3>3. QED
      BY <1>d, <3>1, <3>2 DEF PostTask, WorkInv
  <2>2. CASE ~(incoming_queue_ = <<>> /\ ~have_work_)
    BY <1>d, <2>2 DEF PostTask, WorkInv
  <2>3. QED
    BY <2>1, <2>2
<1>1. ASSUME StartLoop
      PROVE  WorkInv'
  BY <1>1, <1>b DEF StartLoop, StartThread
<1>2. ASSUME TakeTask, UNCHANGED managerVars
      PROVE  WorkInv'
  BY <1>2, <1>b DEF TakeTask
<1>3. ASSUME NothingToDo, UNCHANGED managerVars
      PROVE  WorkInv'
  <2>1. work_queue_ = <<>> /\ incoming_queue_ = <<>>
    BY <1>3, <1>0, ConcatEqualIffEmpty DEF NothingToDo, TypeOK
  <2>2. QED
    BY <1>3, <2>1 DEF NothingToDo, WorkInv
<1>4. ASSUME TakePacket, UNCHANGED managerVars
      PROVE  WorkInv'
  <2>1. run' \in {"ended", "work"}
    BY <1>4 DEF TakePacket, AfterItem, Unless
  <2>2. have_work_' => \E i \in DOMAIN port' : port'[i] = "work"
    <3> SUFFICES ASSUME have_work_' PROVE \E i \in DOMAIN port' : port'[i] = "work"
      OBVIOUS
    <3>1. have_work_ /\ Head(port) # "work" /\ port # <<>> /\ port' = Tail(port)
      BY <1>4 DEF TakePacket
    <3>2. PICK i \in DOMAIN port : port[i] = "work"
      BY <3>1 DEF WorkInv
    <3>3. /\ Len(port) \in Nat \ {0} /\ DOMAIN port = 1 .. Len(port) /\ Head(port) = port[1]
          /\ port' \in Seq(Packets) /\ Len(port') = Len(port) - 1
          /\ \A j \in 1 .. Len(port') : port'[j] = port[j + 1]
      BY <1>0, <3>1, HeadTailProperties, LenProperties, EmptySeq
    <3>4. DOMAIN port' = 1 .. Len(port')
      BY <3>3, LenProperties
    <3>5. i - 1 \in 1 .. Len(port') /\ port'[i - 1] = "work"
      BY <3>1, <3>2, <3>3
    <3>6. QED
      BY <3>4, <3>5
  <2>3. QED
    BY <2>1, <2>2 DEF WorkInv
<1>5. ASSUME PollFindsNothing, UNCHANGED managerVars
      PROVE  WorkInv'
  BY <1>5 DEF PollFindsNothing, WorkInv
<1>6. ASSUME WaitTimesOut, UNCHANGED managerVars
      PROVE  WorkInv'
  BY <1>6, <1>b DEF WaitTimesOut, Unless
<1>7. ASSUME OnClose
      PROVE  WorkInv'
  BY <1>7 DEF OnClose, TaskReturns, Unless, WorkInv
<1>8. ASSUME OnCloseAndReCreate
      PROVE  WorkInv'
  BY <1>8, <1>a DEF OnCloseAndReCreate
<1>9. ASSUME OnCreate
      PROVE  WorkInv'
  BY <1>9 DEF OnCreate, TaskReturns, Unless, WorkInv
<1>10. ASSUME HeartBeatCallBack
      PROVE  WorkInv'
  BY <1>10, <1>a DEF HeartBeatCallBack
<1>11. ASSUME HeartBeatClosedPipe
      PROVE  WorkInv'
  BY <1>11, <1>a DEF HeartBeatClosedPipe
<1>12. ASSUME HeartBeatCreates
      PROVE  WorkInv'
  BY <1>12, <1>d DEF HeartBeatCreates
<1>13. ASSUME HeartWaitEnds
      PROVE  WorkInv'
  BY <1>13, <1>a DEF HeartWaitEnds
<1>14. ASSUME HeartBeatReplaces
      PROVE  WorkInv'
  BY <1>14, <1>d DEF HeartBeatReplaces
<1>15. ASSUME HeartBeatLeaves
      PROVE  WorkInv'
  BY <1>15, <1>a DEF HeartBeatLeaves
<1>16. ASSUME NEW p \in Pipe, ChannelCompletes(p)
      PROVE  WorkInv'
  BY <1>16, <1>b DEF ChannelCompletes, TakeCompletion, AfterItem, Unless
<1>17. ASSUME NEW t \in Thread, PostRest(t)
      PROVE  WorkInv'
  BY <1>17, <1>d DEF PostRest, PostAndWait
<1>18. ASSUME NEW t \in Thread, WaitEnds(t)
      PROVE  WorkInv'
  BY <1>18, <1>a DEF WaitEnds
<1>19. ASSUME NEW t \in Thread, JoinLoop(t)
      PROVE  WorkInv'
  BY <1>19, <1>a DEF JoinLoop
<1>20. ASSUME NEW t \in Thread, JoinHeart(t)
      PROVE  WorkInv'
  BY <1>20, <1>a DEF JoinHeart
<1>21. ASSUME NEW t \in Thread, NEW c \in Calls, CreatePipe(t, c)
      PROVE  WorkInv'
  BY <1>21, <1>d DEF CreatePipe, PostAndWait
<1>22. ASSUME NEW t \in Thread, NEW c \in Calls, TakeOut(t, c)
      PROVE  WorkInv'
  BY <1>22, <1>a DEF TakeOut
<1>23. ASSUME NEW t \in Thread, NEW c \in Calls, StopLoop(t, c)
      PROVE  WorkInv'
  <2>1. CASE Quit
    <3>1. "quit" \in Packets /\ port' = Append(port, "quit")
      BY <2>1 DEF Quit, Packets
    <3>2. QED
      BY <1>c, <2>1, <3>1 DEF Quit, WorkInv
  <2>2. CASE UNCHANGED loopVars
    BY <1>a, <2>2
  <2>3. QED
    BY <1>23, <2>1, <2>2 DEF StopLoop
<1>24. CASE UNCHANGED vars
  BY <1>24, <1>a DEF vars
<1>25. QED
  BY <1>1, <1>2, <1>3, <1>4, <1>5, <1>6, <1>7, <1>8, <1>9, <1>10, <1>11, <1>12, <1>13,
     <1>14, <1>15, <1>16, <1>17, <1>18, <1>19, <1>20, <1>21, <1>22, <1>23, <1>24
     DEF Next, LoopStep, Pumping, HeartStep, CallStep

(* The types, the threads and the wakeups.                                 *)
LEMMA LoopInvariant == Safety => [](TypeOK /\ HoldInv /\ MutexInv /\ WorkInv)
<1>1. Init => TypeOK /\ HoldInv /\ MutexInv /\ WorkInv
  <2> SUFFICES ASSUME Init PROVE TypeOK /\ HoldInv /\ MutexInv /\ WorkInv
    OBVIOUS
  <2> USE ManagerAssumption DEF Init, LoopInit
  <2>1. TypeOK
    <3>1. incoming_queue_ \in Seq(Task) /\ work_queue_ \in Seq(Task) /\ port \in Seq(Packets)
      BY EmptySeq
    <3>0. LoopTypeOK /\ current = NoTask
      BY <3>1 DEF LoopTypeOK, RunStates
    <3>2. m_msgPipe \in [Name -> 0 .. MaxPipes] /\ calls \in 0 .. MaxCalls
      OBVIOUS
    <3>3. pipe \in [Pipe -> [state : {"waiting", "connected", "closed"}, name : Name, server : BOOLEAN]]
      BY DEF Unused
    <3>4. QED
      BY <3>0, <3>1, <3>2, <3>3 DEF TypeOK
  <2>2. HoldInv /\ MutexInv
    BY DEF HoldInv, MutexInv
  <2>3. WorkInv
    BY DEF WorkInv, Sleepy
  <2>4. QED
    BY <2>1, <2>2, <2>3
<1>2. QED
  BY <1>1, TypeStep, HoldStep, WorkStep, PTL DEF Safety

(* The manager and its loop keep the types of their variables.             *)
THEOREM PipeTypeCorrect == Safety => []TypeOK
BY LoopInvariant, PTL

(* The loop thread does not wait beside a task without a packet.           *)
THEOREM PipeNoLostWork == Safety => []NoLostWork
<1>1. TypeOK /\ WorkInv => NoLostWork
  BY DEF WorkInv, NoLostWork, Sleepy
<1>2. QED
  BY <1>1, LoopInvariant, PTL

-----------------------------------------------------------------------------
(* The order of the tasks                                                  *)

(* Every step of the loop is one of TaskPump's, and no other step matters. *)
LEMMA PumpStep ==
  TypeOK /\ HoldInv /\ MutexInv /\ [Next]_vars => [Pump!PumpNext]_(Pump!pumpVars)
<1> SUFFICES ASSUME TypeOK, HoldInv, MutexInv, [Next]_vars PROVE [Pump!PumpNext]_(Pump!pumpVars)
  OBVIOUS
<1> USE ManagerAssumption DEF Pump!pumpVars
<1>a. ASSUME UNCHANGED <<work_queue_, incoming_queue_, current>>,
             (run' \notin {"none", "ended"}) = (run \notin {"none", "ended"})
      PROVE  [Pump!PumpNext]_(Pump!pumpVars)
  BY <1>a DEF Queue
<1>b. ASSUME NEW task \in Task, PostTask(task)
      PROVE  [Pump!PumpNext]_(Pump!pumpVars)
  <2>1. Queue' = Append(Queue, task)
    BY <1>b, QueueOfPost
  <2>2. UNCHANGED <<current, run>>
    BY <1>b DEF PostTask
  <2>3. Pump!Post
    BY <2>1, <2>2 DEF Pump!Post
  <2>4. QED
    BY <2>3 DEF Pump!PumpNext
<1>c. ASSUME TaskReturns
      PROVE  [Pump!PumpNext]_(Pump!pumpVars)
  <2>1. current # NoTask /\ current' = NoTask /\ Queue' = Queue
    BY <1>c DEF TaskReturns, HoldInv, Queue
  <2>2. run = "task" /\ run' \in {"ended", "poll"}
    BY <1>c DEF TaskReturns, Unless
  <2>3. Pump!Done
    BY <2>1, <2>2 DEF Pump!Done
  <2>4. QED
    BY <2>3 DEF Pump!PumpNext
<1>d. ASSUME UNCHANGED <<work_queue_, incoming_queue_, current>>, current = NoTask,
             (run' \notin {"none", "ended"}) = (run \in {"none", "ended"})
      PROVE  [Pump!PumpNext]_(Pump!pumpVars)
  <2>1. Pump!Switch
    BY <1>d DEF Pump!Switch, Queue
  <2>2. QED
    BY <2>1 DEF Pump!PumpNext
<1>e. ASSUME UNCHANGED <<work_queue_, incoming_queue_, current>>, current = NoTask,
             run \notin {"none", "ended"}
      PROVE  [Pump!PumpNext]_(Pump!pumpVars)
  BY <1>a, <1>d, <1>e
<1>1. ASSUME StartLoop
      PROVE  [Pump!PumpNext]_(Pump!pumpVars)
  <2>1. run \in {"none", "ended"} /\ current = NoTask
    BY <1>1 DEF StartLoop, MutexInv, HoldInv
  <2>2. QED
    BY <1>1, <1>d, <2>1 DEF StartLoop, StartThread
<1>2. ASSUME TakeTask, UNCHANGED managerVars
      PROVE  [Pump!PumpNext]_(Pump!pumpVars)
  <2>1. Queue # <<>> /\ current' = Head(Queue) /\ Queue' = Tail(Queue)
    BY <1>2, QueueOfTake
  <2>2. run = "work" /\ run' = "task" /\ current = NoTask
    BY <1>2 DEF TakeTask, HoldInv
  <2>3. Pump!Take
    BY <2>1, <2>2 DEF Pump!Take
  <2>4. QED
    BY <2>3 DEF Pump!PumpNext
<1>3. ASSUME NothingToDo, UNCHANGED managerVars
      PROVE  [Pump!PumpNext]_(Pump!pumpVars)
  BY <1>3, <1>e DEF NothingToDo, HoldInv
<1>4. ASSUME TakePacket, UNCHANGED managerVars
      PROVE  [Pump!PumpNext]_(Pump!pumpVars)
  BY <1>4, <1>e DEF TakePacket, HoldInv
<1>5. ASSUME PollFindsNothing, UNCHANGED managerVars
      PROVE  [Pump!PumpNext]_(Pump!pumpVars)
  BY <1>5, <1>e DEF PollFindsNothing, HoldInv
<1>6. ASSUME WaitTimesOut, UNCHANGED managerVars
      PROVE  [Pump!PumpNext]_(Pump!pumpVars)
  BY <1>6, <1>e DEF WaitTimesOut, HoldInv
<1>7. ASSUME OnClose
      PROVE  [Pump!PumpNext]_(Pump!pumpVars)
  BY <1>7, <1>c DEF OnClose
<1>8. ASSUME OnCloseAndReCreate
      PROVE  [Pump!PumpNext]_(Pump!pumpVars)
  BY <1>8, <1>a DEF OnCloseAndReCreate, loopVars
<1>9. ASSUME OnCreate
      PROVE  [Pump!PumpNext]_(Pump!pumpVars)
  BY <1>9, <1>c DEF OnCreate
<1>10. ASSUME HeartBeatCallBack
      PROVE  [Pump!PumpNext]_(Pump!pumpVars)
  BY <1>10, <1>a DEF HeartBeatCallBack, loopVars
<1>11. ASSUME HeartBeatClosedPipe
      PROVE  [Pump!PumpNext]_(Pump!pumpVars)
  BY <1>11, <1>a DEF HeartBeatClosedPipe, loopVars
<1>12. ASSUME HeartBeatCreates
      PROVE  [Pump!PumpNext]_(Pump!pumpVars)
  BY <1>12, <1>b, HeartTask DEF HeartBeatCreates
<1>13. ASSUME HeartWaitEnds
      PROVE  [Pump!PumpNext]_(Pump!pumpVars)
  BY <1>13, <1>a DEF HeartWaitEnds, loopVars
<1>14. ASSUME HeartBeatReplaces
      PROVE  [Pump!PumpNext]_(Pump!pumpVars)
  BY <1>14, <1>b, HeartTask DEF HeartBeatReplaces
<1>15. ASSUME HeartBeatLeaves
      PROVE  [Pump!PumpNext]_(Pump!pumpVars)
  BY <1>15, <1>a DEF HeartBeatLeaves, loopVars
<1>16. ASSUME NEW p \in Pipe, ChannelCompletes(p)
      PROVE  [Pump!PumpNext]_(Pump!pumpVars)
  BY <1>16, <1>e DEF ChannelCompletes, TakeCompletion, HoldInv
<1>17. ASSUME NEW t \in Thread, PostRest(t)
      PROVE  [Pump!PumpNext]_(Pump!pumpVars)
  BY <1>17, <1>b DEF PostRest, PostAndWait, HoldInv
<1>18. ASSUME NEW t \in Thread, WaitEnds(t)
      PROVE  [Pump!PumpNext]_(Pump!pumpVars)
  BY <1>18, <1>a DEF WaitEnds, loopVars
<1>19. ASSUME NEW t \in Thread, JoinLoop(t)
      PROVE  [Pump!PumpNext]_(Pump!pumpVars)
  BY <1>19, <1>a DEF JoinLoop, loopVars
<1>20. ASSUME NEW t \in Thread, JoinHeart(t)
      PROVE  [Pump!PumpNext]_(Pump!pumpVars)
  BY <1>20, <1>a DEF JoinHeart, loopVars
<1>21. ASSUME NEW t \in Thread, NEW c \in Calls, CreatePipe(t, c)
      PROVE  [Pump!PumpNext]_(Pump!pumpVars)
  <2>1. c \in Call /\ 0 \in 0 .. MaxPipes
    OBVIOUS
  <2>2. QED
    BY <1>21, <1>b, <2>1, NewTaskType DEF CreatePipe, PostAndWait
<1>22. ASSUME NEW t \in Thread, NEW c \in Calls, TakeOut(t, c)
      PROVE  [Pump!PumpNext]_(Pump!pumpVars)
  BY <1>22, <1>a DEF TakeOut, loopVars
<1>23. ASSUME NEW t \in Thread, NEW c \in Calls, StopLoop(t, c)
      PROVE  [Pump!PumpNext]_(Pump!pumpVars)
  BY <1>23, <1>a DEF StopLoop, Quit, loopVars
<1>24. CASE UNCHANGED vars
  BY <1>24, <1>a DEF vars, loopVars
<1>25. QED
  BY <1>1, <1>2, <1>3, <1>4, <1>5, <1>6, <1>7, <1>8, <1>9, <1>10, <1>11, <1>12, <1>13,
     <1>14, <1>15, <1>16, <1>17, <1>18, <1>19, <1>20, <1>21, <1>22, <1>23, <1>24
     DEF Next, LoopStep, Pumping, HeartStep, CallStep

(* The loop runs the posted tasks one at a time in the order of posting.   *)
THEOREM PipeTasksInOrder == Safety => Pump!PumpSafety
<1>1. Init => Pump!PumpInit
  <2> SUFFICES ASSUME Init PROVE Pump!PumpInit
    OBVIOUS
  <2>1. Queue = <<>>
    BY ConcatEmptySeq, EmptySeq DEF Init, LoopInit, Queue
  <2>2. QED
    BY <2>1 DEF Init, LoopInit, Pump!PumpInit
<1>2. QED
  BY <1>1, PumpStep, LoopInvariant, PTL DEF Safety, Pump!PumpSafety

-----------------------------------------------------------------------------
(* The pipes                                                               *)

(* The tasks as the elements of the queues, before and after a step.       *)
LEMMA TasksAre ==
  /\ Tasks = (Range(Queue) \union {current} \union {held[t] : t \in Thread}) \ {NoTask}
  /\ Tasks' = (Range(Queue') \union {current'} \union {held'[t] : t \in Thread}) \ {NoTask}
BY DEF Tasks, Range

(* A posted task is one more, unless it is the one a caller held.          *)
LEMMA TasksOfPost ==
  ASSUME TypeOK, NEW task \in Task, PostTask(task),
         \A t \in Thread : held'[t] = held[t] \/ (held[t] = task /\ held'[t] = NoTask)
  PROVE  Tasks' = Tasks \union {task}
<1>1. Range(Queue') = Range(Queue) \union {task}
  <2>1. Queue \in Seq(Task) /\ Queue' = Append(Queue, task)
    BY QueueOfPost
  <2>2. Range(Append(Queue, task)) = Range(Queue) \union {task}
    BY <2>1, RangeOfAppend
  <2>3. QED
    BY <2>1, <2>2
<1>2. current' = current /\ task # NoTask
  BY ManagerAssumption DEF PostTask
<1>3. QED
  BY <1>1, <1>2, TasksAre

(* Taking a task from the queues leaves the tasks what they are.           *)
LEMMA TasksOfTake ==
  ASSUME TypeOK, HoldInv, TakeTask, held' = held
  PROVE  Tasks' = Tasks
<1>1. Range(Queue) = Range(Queue') \union {current'}
  BY QueueOfTake, RangeOfTail
<1>2. current = NoTask
  BY DEF TakeTask, HoldInv
<1>3. QED
  BY <1>1, <1>2, TasksAre

(* A task that returns is the only one to go.                              *)
LEMMA TasksOfReturn ==
  ASSUME TaskReturns, held' = held
  PROVE  Tasks' \subseteq Tasks /\ Tasks \subseteq Tasks' \union {current}
<1>1. Queue' = Queue /\ current' = NoTask
  BY DEF TaskReturns, Queue
<1>2. QED
  BY <1>1, TasksAre

(* Whatever leaves the queues, the loop and the callers alone.             *)
LEMMA TasksSame ==
  ASSUME UNCHANGED <<work_queue_, incoming_queue_, current, held>>
  PROVE  Tasks' = Tasks
BY DEF Tasks, Queue

(* Every step keeps each open pipe in the map or with a task that closes   *)
(* it.                                                                     *)
LEMMA PipesStep ==
  TypeOK /\ HoldInv /\ MutexInv /\ PipesInv /\ [Next]_vars => PipesInv'
<1> SUFFICES ASSUME TypeOK, HoldInv, MutexInv, PipesInv, [Next]_vars PROVE PipesInv'
  OBVIOUS
<1> USE ManagerAssumption DEF PipesInv, flags, pipeVars, userVars, managerVars
<1>0. /\ m_msgPipe \in [Name -> 0 .. MaxPipes]
      /\ pipe \in [Pipe -> [state : {"waiting", "connected", "closed"}, name : Name, server : BOOLEAN]]
      /\ Pipe = 1 .. MaxPipes
  BY DEF TypeOK, Pipe
<1>a. ASSUME UNCHANGED <<m_msgPipe, pipe, closed>>, closed => UNCHANGED <<run, current>>, Tasks' = Tasks
      PROVE  PipesInv'
  BY <1>a DEF MapInv, CreateInv, NoOrphan, Mapped, IsClosed
<1>b. ASSUME NEW task \in Task, PostTask(task), task.pipe = 0, held' = held,
             UNCHANGED <<m_msgPipe, pipe, closed>>
      PROVE  PipesInv'
  <2>1. Tasks' = Tasks \union {task} /\ UNCHANGED <<run, current>>
    BY <1>b, TasksOfPost DEF PostTask
  <2>2. QED
    BY <1>b, <2>1 DEF MapInv, CreateInv, NoOrphan, Mapped, IsClosed
<1>c. ASSUME NEW n \in Name, NEW task \in Task, task.pipe = m_msgPipe[n], task.op # "CreatePipe",
             m_msgPipe' = [m_msgPipe EXCEPT ![n] = 0], Tasks' = Tasks \union {task},
             UNCHANGED <<pipe, closed, run, current>>
      PROVE  PipesInv'
  <2>1. \A m \in Name : m_msgPipe'[m] = IF m = n THEN 0 ELSE m_msgPipe[m]
    BY <1>0, <1>c
  <2>2. MapInv'
    BY <1>c, <2>1 DEF MapInv, Mapped
  <2>3. CreateInv'
    BY <1>c DEF CreateInv, IsClosed
  <2>4. NoOrphan'
    <3>1. \A p \in Pipe : pipe[p].name \in Name
      BY <1>0
    <3>2. QED
      BY <1>c, <2>1, <3>1 DEF NoOrphan, IsClosed
  <2>5. QED
    BY <2>2, <2>3, <2>4
<1>d. ASSUME NEW pipes, CloseAll(pipes)
      PROVE  \A p \in Pipe : /\ pipe'[p] = IF p \in pipes THEN Unused ELSE pipe[p]
                             /\ p \in pipes => pipe'[p].state = "closed"
  BY <1>d DEF CloseAll, Unused
<1>1. ASSUME StartLoop
      PROVE  PipesInv'
  <2>1. run \in {"none", "ended"} /\ ~closed
    BY <1>1 DEF StartLoop, MutexInv, CreateInv
  <2>2. QED
    BY <1>1, <1>a, <2>1, TasksSame DEF StartLoop, StartThread
<1>2. ASSUME TakeTask, UNCHANGED managerVars
      PROVE  PipesInv'
  <2>1. ~closed
    BY <1>2 DEF TakeTask, CreateInv
  <2>2. QED
    BY <1>2, <1>a, <2>1, TasksOfTake DEF TakeTask
<1>3. ASSUME NothingToDo, UNCHANGED managerVars
      PROVE  PipesInv'
  BY <1>3, <1>a, TasksSame DEF NothingToDo, CreateInv
<1>4. ASSUME TakePacket, UNCHANGED managerVars
      PROVE  PipesInv'
  BY <1>4, <1>a, TasksSame DEF TakePacket, CreateInv
<1>5. ASSUME PollFindsNothing, UNCHANGED managerVars
      PROVE  PipesInv'
  BY <1>5, <1>a, TasksSame DEF PollFindsNothing, CreateInv
<1>6. ASSUME WaitTimesOut, UNCHANGED managerVars
      PROVE  PipesInv'
  BY <1>6, <1>a, TasksSame DEF WaitTimesOut, CreateInv
<1>7. ASSUME OnClose
      PROVE  PipesInv'
  <2>1. /\ Tasks' \subseteq Tasks /\ Tasks \subseteq Tasks' \union {current} /\ current \in Tasks
        /\ m_msgPipe' = m_msgPipe /\ ~closed /\ ~closed'
    BY <1>7, TasksOfReturn, TasksAre DEF OnClose, Running, HoldInv
  <2>2. \A p \in Pipe : IF p = current.pipe THEN pipe'[p].state = "closed" ELSE pipe'[p] = pipe[p]
    BY <1>7, <1>d DEF OnClose
  <2>3. \A n \in Name : m_msgPipe[n] # 0 => m_msgPipe[n] \in Pipe /\ m_msgPipe[n] # current.pipe
    BY <1>0, <2>1 DEF MapInv, Mapped
  <2>4. MapInv'
    BY <2>1, <2>2, <2>3 DEF MapInv, Mapped
  <2>5. CreateInv'
    BY <2>1 DEF CreateInv
  <2>6. NoOrphan'
    BY <2>1, <2>2 DEF NoOrphan, IsClosed
  <2>7. QED
    BY <2>4, <2>5, <2>6
<1>8. ASSUME OnCloseAndReCreate
      PROVE  PipesInv'
  <2>1. /\ Tasks' = Tasks /\ current \in Tasks /\ m_msgPipe' = m_msgPipe
        /\ UNCHANGED <<run, current>> /\ run = "task" /\ current.op = "CloseAndReCreate"
    BY <1>8, TasksSame, TasksAre DEF OnCloseAndReCreate, Running, HoldInv, loopVars
  <2>2. \A p \in Pipe : IF p = current.pipe THEN pipe'[p].state = "closed" ELSE pipe'[p] = pipe[p]
    BY <1>8, <1>d DEF OnCloseAndReCreate
  <2>3. \A n \in Name : m_msgPipe[n] # 0 => m_msgPipe[n] \in Pipe /\ m_msgPipe[n] # current.pipe
    BY <1>0, <2>1 DEF MapInv, Mapped
  <2>4. MapInv'
    BY <2>1, <2>2, <2>3 DEF MapInv, Mapped
  <2>5. CreateInv'
    <3>1. current.pipe \in 0 .. MaxPipes
      BY <2>1, <1>8 DEF OnCloseAndReCreate, Running, HoldInv, TypeOK, Task
    <3>2. current.pipe # 0 => current.pipe \in Pipe
      BY <1>0, <3>1
    <3>3. QED
      BY <2>1, <2>2, <3>2 DEF CreateInv, IsClosed
  <2>6. NoOrphan'
    BY <2>1, <2>2 DEF NoOrphan, IsClosed
  <2>7. QED
    BY <2>4, <2>5, <2>6
<1>9. ASSUME OnCreate
      PROVE  PipesInv'
  <2> DEFINE n == current.name
  <2>1. /\ Tasks' \subseteq Tasks /\ Tasks \subseteq Tasks' \union {current} /\ current \in Tasks
        /\ current \in Task /\ n \in Name /\ ~closed'
    BY <1>9, TasksOfReturn, TasksAre DEF OnCreate, WantsToCreate, Running, HoldInv, TypeOK, Task
  <2>2. \A p \in Pipe : p = current.pipe => IsClosed(p)
    BY <1>9, <1>0, <2>1 DEF OnCreate, WantsToCreate, Running, CreateInv
  <2>3. CreateInv'
    BY <2>1 DEF CreateInv
  <2>4. ASSUME UNCHANGED pipe,
               \/ UNCHANGED m_msgPipe
               \/ Vacant(current) /\ m_msgPipe' = [m_msgPipe EXCEPT ![n] = 0]
        PROVE  MapInv' /\ NoOrphan'
    <3>1. \A m \in Name : \/ m_msgPipe'[m] = m_msgPipe[m]
                          \/ /\ m_msgPipe'[m] = 0
                             /\ m_msgPipe[m] = 0 \/ IsClosed(m_msgPipe[m])
      BY <1>0, <2>1, <2>4 DEF Vacant
    <3>2. MapInv'
      BY <2>1, <2>4, <3>1 DEF MapInv, Mapped
    <3>3. \A p \in Pipe : pipe[p].name \in Name /\ p # 0
      BY <1>0
    <3>4. NoOrphan'
      <4> SUFFICES ASSUME NEW p \in Pipe, ~IsClosed(p), m_msgPipe'[pipe[p].name] # p
                   PROVE  \E task \in Tasks' : task.pipe = p
        BY <2>4 DEF NoOrphan, IsClosed
      <4>1. m_msgPipe[pipe[p].name] # p
        BY <3>1, <3>3
      <4>2. PICK task \in Tasks : task.pipe = p
        BY <4>1 DEF NoOrphan
      <4>3. task # current
        BY <2>2, <4>2
      <4>4. QED
        BY <2>1, <4>2, <4>3
    <3>5. QED
      BY <3>2, <3>4
  <2>5. ASSUME NEW p \in FreePipes, Vacant(current),
               NEW new, new.name = n, pipe' = [pipe EXCEPT ![p] = new],
               m_msgPipe' = [m_msgPipe EXCEPT ![n] = p]
        PROVE  MapInv' /\ NoOrphan'
    <3>1. p \in Pipe /\ p # 0 /\ p \notin Mapped /\ \A task \in Tasks : task.pipe # p
      BY <1>0 DEF FreePipes
    <3>2. \A m \in Name : m_msgPipe'[m] = IF m = n THEN p ELSE m_msgPipe[m]
      BY <1>0, <2>1, <2>5
    <3>3. \A q \in Pipe : pipe'[q] = IF q = p THEN new ELSE pipe[q]
      BY <1>0, <2>5
    <3>4. \A m \in Name : m_msgPipe[m] # 0 => m_msgPipe[m] \in Pipe /\ m_msgPipe[m] # p
      BY <1>0, <3>1 DEF Mapped
    <3>5. MapInv'
      BY <2>1, <2>5, <3>1, <3>2, <3>3, <3>4 DEF MapInv, Mapped
    <3>6. NoOrphan'
      <4> SUFFICES ASSUME NEW q \in Pipe, pipe'[q].state # "closed", m_msgPipe'[pipe'[q].name] # q
                   PROVE  \E task \in Tasks' : task.pipe = q
        BY DEF NoOrphan, IsClosed
      <4>1. q # p
        BY <2>1, <2>5, <3>1, <3>2, <3>3
      <4>2. ~IsClosed(q) /\ pipe'[q] = pipe[q] /\ pipe[q].name \in Name /\ q # 0
        BY <1>0, <3>3, <4>1 DEF IsClosed
      <4>3. m_msgPipe[pipe[q].name] # q
        BY <2>5, <3>2, <4>2 DEF Vacant
      <4>4. PICK task \in Tasks : task.pipe = q
        BY <4>2, <4>3 DEF NoOrphan
      <4>5. task # current
        BY <2>2, <4>2, <4>4
      <4>6. QED
        BY <2>1, <4>4, <4>5
    <3>7. QED
      BY <3>5, <3>6
  <2>6. \/ UNCHANGED pipe /\ UNCHANGED m_msgPipe
        \/ UNCHANGED pipe /\ Vacant(current) /\ m_msgPipe' = [m_msgPipe EXCEPT ![n] = 0]
        \/ \E p \in FreePipes :
             /\ Vacant(current)
             /\ pipe' = [pipe EXCEPT ![p] = [state |-> IF current.server THEN "waiting" ELSE "connected",
                                             name |-> n, server |-> current.server]]
             /\ m_msgPipe' = [m_msgPipe EXCEPT ![n] = p]
    BY <1>9 DEF OnCreate
  <2>7. MapInv' /\ NoOrphan'
    <3>1. [state |-> IF current.server THEN "waiting" ELSE "connected",
           name |-> n, server |-> current.server].name = n
      OBVIOUS
    <3> HIDE DEF n
    <3>2. QED
      BY <2>4, <2>5, <2>6, <3>1
  <2>8. QED
    BY <2>3, <2>7
<1>10. ASSUME HeartBeatCallBack
      PROVE  PipesInv'
  BY <1>10, <1>a, TasksSame DEF HeartBeatCallBack, loopVars
<1>11. ASSUME HeartBeatClosedPipe
      PROVE  PipesInv'
  <2> DEFINE gone == {p \in Mapped \ {0} : IsClosed(p)}
  <2>1. /\ Tasks' = Tasks /\ UNCHANGED <<run, current, closed>>
        /\ \A n \in Name : m_msgPipe'[n] = IF m_msgPipe[n] \in gone THEN 0 ELSE m_msgPipe[n]
    BY <1>11, TasksSame DEF HeartBeatClosedPipe, loopVars
  <2>2. \A p \in Pipe : IF p \in gone THEN pipe'[p].state = "closed" ELSE pipe'[p] = pipe[p]
    BY <1>11, <1>d DEF HeartBeatClosedPipe
  <2>3. \A p \in gone : IsClosed(p)
    OBVIOUS
  <2> HIDE DEF gone
  <2>4. \A n \in Name : m_msgPipe[n] # 0 => m_msgPipe[n] \in Pipe
    BY <1>0
  <2>5. MapInv'
    BY <2>1, <2>2, <2>4 DEF MapInv, Mapped
  <2>6. CreateInv'
    <3>1. closed => current.pipe \in 0 .. MaxPipes
      BY DEF CreateInv, HoldInv, TypeOK, Task
    <3>2. closed => (current.pipe # 0 => current.pipe \in Pipe)
      BY <1>0, <3>1
    <3>3. QED
      BY <2>1, <2>2, <3>2 DEF CreateInv, IsClosed
  <2>7. NoOrphan'
    <3>1. \A p \in Pipe : pipe[p].name \in Name
      BY <1>0
    <3>2. QED
      BY <2>1, <2>2, <2>3, <3>1 DEF NoOrphan, IsClosed
  <2>8. QED
    BY <2>5, <2>6, <2>7
<1>12. ASSUME HeartBeatCreates
      PROVE  PipesInv'
  BY <1>12, <1>b, HeartTask DEF HeartBeatCreates
<1>13. ASSUME HeartWaitEnds
      PROVE  PipesInv'
  BY <1>13, <1>a, TasksSame DEF HeartWaitEnds, loopVars
<1>14. ASSUME HeartBeatReplaces
      PROVE  PipesInv'
  <2>1. PICK task \in Task : PostTask(task) /\ task.op # "CreatePipe" /\ task.pipe = m_msgPipe[Regist]
    BY <1>14, HeartTask
  <2>2. Tasks' = Tasks \union {task}
    BY <1>14, <2>1, TasksOfPost DEF HeartBeatReplaces
  <2>3. QED
    BY <1>14, <1>c, <2>1, <2>2 DEF HeartBeatReplaces, PostTask
<1>15. ASSUME HeartBeatLeaves
      PROVE  PipesInv'
  BY <1>15, <1>a, TasksSame DEF HeartBeatLeaves, loopVars
<1>16. ASSUME NEW p \in Pipe, ChannelCompletes(p)
      PROVE  PipesInv'
  <2>1. /\ Tasks' = Tasks /\ m_msgPipe' = m_msgPipe /\ ~closed /\ ~closed'
    BY <1>16, TasksSame DEF ChannelCompletes, TakeCompletion, CreateInv
  <2>2. \A q \in Pipe : pipe'[q].name = pipe[q].name /\ (q # p => pipe'[q] = pipe[q])
    BY <1>16, <1>0 DEF ChannelCompletes
  <2>3. \A n \in Name : m_msgPipe[n] # 0 => m_msgPipe[n] \in Pipe
    BY <1>0
  <2>4. MapInv'
    BY <2>1, <2>2, <2>3 DEF MapInv, Mapped
  <2>5. CreateInv'
    BY <2>1 DEF CreateInv
  <2>6. NoOrphan'
    BY <1>16, <2>1, <2>2 DEF ChannelCompletes, NoOrphan, IsClosed
  <2>7. QED
    BY <2>4, <2>5, <2>6
<1>17. ASSUME NEW t \in Thread, PostRest(t)
      PROVE  PipesInv'
  <2>1. held[t] \in Task /\ PostTask(held[t]) /\ held' = [held EXCEPT ![t] = NoTask]
    BY <1>17 DEF PostRest, PostAndWait, HoldInv
  <2>2. Tasks' = Tasks \union {held[t]}
    BY <2>1, TasksOfPost DEF TypeOK
  <2>3. held[t] \in Tasks
    BY <2>1, TasksAre
  <2>4. QED
    BY <1>17, <1>a, <2>1, <2>2, <2>3 DEF PostRest, PostTask
<1>18. ASSUME NEW t \in Thread, WaitEnds(t)
      PROVE  PipesInv'
  BY <1>18, <1>a, TasksSame DEF WaitEnds, loopVars
<1>19. ASSUME NEW t \in Thread, JoinLoop(t)
      PROVE  PipesInv'
  BY <1>19, <1>a, TasksSame DEF JoinLoop, loopVars
<1>20. ASSUME NEW t \in Thread, JoinHeart(t)
      PROVE  PipesInv'
  <2>1. /\ Tasks' = Tasks /\ UNCHANGED <<run, current, closed>>
        /\ \A n \in Name : m_msgPipe'[n] = 0
    BY <1>20, TasksSame DEF JoinHeart, loopVars
  <2>2. \A p \in Pipe : IF p \in Mapped THEN pipe'[p].state = "closed" ELSE pipe'[p] = pipe[p]
    BY <1>20, <1>d DEF JoinHeart
  <2>3. MapInv'
    BY <2>1 DEF MapInv, Mapped
  <2>4. CreateInv'
    <3>1. closed => current.pipe \in 0 .. MaxPipes
      BY DEF CreateInv, HoldInv, TypeOK, Task
    <3>2. closed => (current.pipe # 0 => current.pipe \in Pipe)
      BY <1>0, <3>1
    <3>3. QED
      BY <2>1, <2>2, <3>2 DEF CreateInv, IsClosed
  <2>5. NoOrphan'
    <3>1. \A p \in Pipe : pipe[p].name \in Name
      BY <1>0
    <3>2. QED
      BY <2>1, <2>2, <3>1 DEF NoOrphan, IsClosed, Mapped
  <2>6. QED
    BY <2>3, <2>4, <2>5
<1>21. ASSUME NEW t \in Thread, NEW c \in Calls, CreatePipe(t, c)
      PROVE  PipesInv'
  <2>1. c \in Call /\ 0 \in 0 .. MaxPipes
    OBVIOUS
  <2>2. QED
    BY <1>21, <1>b, <2>1, NewTaskType DEF CreatePipe, PostAndWait
<1>22. ASSUME NEW t \in Thread, NEW c \in Calls, TakeOut(t, c)
      PROVE  PipesInv'
  <2>1. c \in Call /\ c.name \in Name /\ m_msgPipe[c.name] \in 0 .. MaxPipes /\ c.op # "CreatePipe"
    BY <1>22, <1>0 DEF TakeOut, Call
  <2> DEFINE task == NewTask(c, m_msgPipe[c.name])
  <2>2. task \in Task /\ task.op # "CreatePipe" /\ task.pipe = m_msgPipe[c.name] /\ task # NoTask
    BY <2>1, NewTaskType
  <2>3. m_msgPipe' = [m_msgPipe EXCEPT ![c.name] = 0] /\ UNCHANGED <<pipe, closed, loopVars>>
    BY <1>22 DEF TakeOut
  <2>4. CASE held' = held
    <3>1. m_msgPipe[c.name] = 0
      BY <1>22, <2>2, <2>4 DEF TakeOut, MayCall, HoldInv, TypeOK
    <3>2. m_msgPipe' = m_msgPipe
      BY <1>0, <2>3, <3>1
    <3>3. QED
      BY <1>a, <2>3, <2>4, <3>2, TasksSame DEF loopVars
  <2>5. CASE held' # held
    <3>1. held' = [held EXCEPT ![t] = task] /\ held[t] = NoTask
      BY <1>22, <2>5 DEF TakeOut, MayCall, HoldInv
    <3> HIDE DEF task
    <3>2. \A u \in Thread : held'[u] = IF u = t THEN task ELSE held[u]
      BY <3>1 DEF TypeOK
    <3>3. Queue' = Queue /\ UNCHANGED <<run, current>>
      BY <2>3 DEF loopVars, Queue
    <3>4. Tasks' = Tasks \union {task}
      BY <2>2, <3>1, <3>2, <3>3, TasksAre
    <3>5. QED
      BY <1>c, <2>1, <2>2, <2>3, <3>3, <3>4
  <2>6. QED
    BY <2>4, <2>5
<1>23. ASSUME NEW t \in Thread, NEW c \in Calls, StopLoop(t, c)
      PROVE  PipesInv'
  BY <1>23, <1>a, TasksSame DEF StopLoop, Quit, loopVars
<1>24. CASE UNCHANGED vars
  BY <1>24, <1>a, TasksSame DEF vars, loopVars
<1>25. QED
  BY <1>1, <1>2, <1>3, <1>4, <1>5, <1>6, <1>7, <1>8, <1>9, <1>10, <1>11, <1>12, <1>13,
     <1>14, <1>15, <1>16, <1>17, <1>18, <1>19, <1>20, <1>21, <1>22, <1>23, <1>24
     DEF Next, LoopStep, Pumping, HeartStep, CallStep

(* No open pipe is lost: it is in the map, or a task closes it.            *)
THEOREM PipeNoOrphan == Safety => []NoOrphan
<1>1. Init => PipesInv
  <2> SUFFICES ASSUME Init PROVE PipesInv
    OBVIOUS
  <2>1. MapInv
    <3>1. Tasks = {} /\ \A n \in Name : m_msgPipe[n] = 0
      <4>1. Queue = <<>> /\ DOMAIN <<>> = {}
        BY ConcatEmptySeq, EmptySeq DEF Init, LoopInit, Queue
      <4>2. QED
        BY <4>1 DEF Init, LoopInit, Tasks
    <3>2. QED
      BY <3>1 DEF MapInv
  <2>2. CreateInv
    <3>1. Tasks = {}
      <4>1. Queue = <<>> /\ DOMAIN <<>> = {}
        BY ConcatEmptySeq, EmptySeq DEF Init, LoopInit, Queue
      <4>2. QED
        BY <4>1 DEF Init, LoopInit, Tasks
    <3>2. QED
      BY <3>1 DEF Init, CreateInv
  <2>3. NoOrphan
    BY DEF Init, NoOrphan, IsClosed, Unused
  <2>4. QED
    BY <2>1, <2>2, <2>3 DEF PipesInv
<1>2. PipesInv => NoOrphan
  BY DEF PipesInv
<1>3. QED
  BY <1>1, <1>2, PipesStep, LoopInvariant, PTL DEF Safety
=============================================================================
