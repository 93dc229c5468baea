----------------------------- MODULE PipeManager -----------------------------
(***************************************************************************)
(* 3rd/IPC/source/ipc/PipeManager.cpp over MessageLoop: the map of named   *)
(* pipes, the calls that post their work to the loop thread and may wait   *)
(* for it, the heart beat thread that purges closed pipes and keeps the    *)
(* registration pipe of a server alive, StartLoop and StopLoop.            *)
(*                                                                         *)
(* m_mutex is a variable because two callers keep it while they wait: the  *)
(* heart beat inside HeartBeatRegistPipe and StopLoop.  Other locked       *)
(* sections are single actions.  A SyncChannelPipe is what PipeChannel     *)
(* says it is; here it is waiting, connected or closed.  Pipes are         *)
(* numbered; a number that nobody refers to is free again.  A synchronous  *)
(* call waits for the answer of its task or for the time-out, so its wait  *)
(* may end at any time; what it returns is left out.                       *)
(***************************************************************************)
EXTENDS MessageLoop

CONSTANTS
  Thread,       \* the user threads
  Heart,        \* the heart beat thread
  Nobody,       \* no thread
  Name,         \* the pipes' names
  Regist,       \* REGIST_PIPE_NAME
  Calls,        \* the calls that user threads make
  MaxCalls,     \* bound: how many
  MaxTasks,     \* bound: the heart beat posts while fewer tasks are queued
  MaxPipes      \* bound: pipe objects at a time

Ops  == {"CreatePipe", "Close", "CloseAndReCreate", "StopLoop"}
Call == [op : Ops, name : Name, server : BOOLEAN, sync : BOOLEAN]
Task == [op : Ops, name : Name, server : BOOLEAN, sync : BOOLEAN, pipe : 0 .. MaxPipes]

ASSUME ManagerAssumption ==
  /\ Heart \notin Thread /\ Nobody \notin Thread \union {Heart}
  /\ Regist \in Name
  /\ Calls \subseteq Call
  /\ NoTask \notin Task
  /\ MaxCalls \in Nat /\ MaxTasks \in Nat /\ MaxPipes \in Nat

VARIABLES
  m_msgPipe,
  m_isServer,   \* set before the loop is started
  m_mutex,      \* its owner
  m_isLoopStart,
  m_isHeartBeatRunning,
  pipe,         \* the state, name and kind of each SyncChannelPipe
  closed,       \* the loop thread is past the Close() of OnCloseAndReCreate
  heart,        \* where the heart beat thread is
  at,           \* where each thread is in its call
  held,         \* the task each thread is about to post
  calls         \* how many calls were made

flags       == <<m_isServer, m_isLoopStart, m_isHeartBeatRunning>>
pipeVars    == <<m_msgPipe, pipe>>
userVars    == <<at, held, calls>>
managerVars == <<flags, pipeVars, m_mutex, closed, heart, userVars>>
vars        == <<managerVars, loopVars>>

Pipe   == 1 .. MaxPipes
Caller == Thread \union {Heart}
Unused == [state |-> "closed", name |-> Regist, server |-> FALSE]

TypeOK ==
  /\ LoopTypeOK
  /\ incoming_queue_ \in Seq(Task) /\ work_queue_ \in Seq(Task)
  /\ current \in Task \union {NoTask}
  /\ m_msgPipe \in [Name -> 0 .. MaxPipes]
  /\ m_isServer \in BOOLEAN
  /\ m_mutex \in Caller \union {Nobody}
  /\ m_isLoopStart \in BOOLEAN /\ m_isHeartBeatRunning \in BOOLEAN
  /\ pipe \in [Pipe -> [state : {"waiting", "connected", "closed"}, name : Name, server : BOOLEAN]]
  /\ closed \in BOOLEAN
  /\ heart \in {"none", "top", "purge", "regist", "wait", "ended"}
  /\ at \in [Thread -> {"idle", "post", "wait", "join_loop", "join_heart"}]
  /\ held \in [Thread -> Task \union {NoTask}]
  /\ calls \in 0 .. MaxCalls

Init ==
  /\ LoopInit
  /\ m_msgPipe = [n \in Name |-> 0]
  /\ m_isServer \in BOOLEAN
  /\ m_mutex = Nobody
  /\ m_isLoopStart = FALSE
  /\ m_isHeartBeatRunning = FALSE
  /\ pipe = [p \in Pipe |-> Unused]
  /\ closed = FALSE
  /\ heart = "none"
  /\ at = [t \in Thread |-> "idle"]
  /\ held = [t \in Thread |-> NoTask]
  /\ calls = 0

-----------------------------------------------------------------------------
(* The tasks that are queued, running or about to be posted.               *)
Queue == work_queue_ \o incoming_queue_
Tasks == ({Queue[i] : i \in DOMAIN Queue} \union {current} \union {held[t] : t \in Thread}) \ {NoTask}

Mapped    == {m_msgPipe[n] : n \in Name}
FreePipes == Pipe \ ({task.pipe : task \in Tasks} \union Mapped)
IsClosed(p) == pipe[p].state = "closed"

(* Close() of pipes that nobody can find in the map any more.              *)
CloseAll(pipes) == pipe' = [p \in Pipe |-> IF p \in pipes THEN Unused ELSE pipe[p]]

NewTask(c, p) == [op |-> c.op, name |-> c.name, server |-> c.server, sync |-> c.sync, pipe |-> p]

MayCall(t) ==
  /\ at[t] = "idle"
  /\ calls < MaxCalls
  /\ calls' = calls + 1

Goes(t, to) == at' = [at EXCEPT ![t] = to]

(* PostTask, and for a synchronous call the wait for the task.             *)
PostAndWait(t, task) == PostTask(task) /\ Goes(t, IF task.sync THEN "wait" ELSE "idle")

-----------------------------------------------------------------------------
(* The calls                                                               *)

StartLoop ==
  /\ m_mutex = Nobody
  /\ ~m_isLoopStart
  /\ StartThread
  /\ m_isHeartBeatRunning' = TRUE
  /\ heart' = "top"
  /\ m_isLoopStart' = TRUE
  /\ UNCHANGED <<m_isServer, pipeVars, m_mutex, closed, userVars>>

CreatePipe(t, c) ==
  /\ c.op = "CreatePipe"
  /\ MayCall(t)
  /\ PostAndWait(t, NewTask(c, 0))
  /\ UNCHANGED <<flags, pipeVars, m_mutex, closed, heart, held>>

(* Close and CloseAndReCreate take the pipe out of the map first, ...      *)
TakeOut(t, c) ==
  /\ c.op \in {"Close", "CloseAndReCreate"}
  /\ MayCall(t)
  /\ m_mutex = Nobody
  /\ m_msgPipe' = [m_msgPipe EXCEPT ![c.name] = 0]
  /\ \/ /\ m_msgPipe[c.name] = 0 /\ c.op = "Close"
        /\ UNCHANGED <<at, held>>
     \/ /\ m_msgPipe[c.name] # 0 \/ c.op = "CloseAndReCreate"
        /\ held' = [held EXCEPT ![t] = NewTask(c, m_msgPipe[c.name])]
        /\ Goes(t, "post")
  /\ UNCHANGED <<flags, m_mutex, pipe, closed, heart, loopVars>>

(* ... unlock, and post the rest.                                          *)
PostRest(t) ==
  /\ at[t] = "post"
  /\ PostAndWait(t, held[t])
  /\ held' = [held EXCEPT ![t] = NoTask]
  /\ UNCHANGED <<flags, pipeVars, m_mutex, closed, heart, calls>>

(* spWaitEvent->wait(PIPE_DEFAULT_TIMEOUT): an answer or a time-out.       *)
WaitEnds(t) ==
  /\ at[t] = "wait"
  /\ Goes(t, "idle")
  /\ UNCHANGED <<flags, pipeVars, m_mutex, closed, heart, held, calls, loopVars>>

-----------------------------------------------------------------------------
(* StopLoop keeps m_mutex to its end                                       *)

StopLoop(t, c) ==
  /\ c.op = "StopLoop"
  /\ MayCall(t)
  /\ m_mutex = Nobody
  /\ \/ /\ m_isLoopStart
        /\ m_mutex' = t
        /\ m_isLoopStart' = FALSE
        /\ Quit
        /\ Goes(t, "join_loop")
     \/ /\ ~m_isLoopStart
        /\ UNCHANGED <<m_mutex, m_isLoopStart, at, loopVars>>
  /\ UNCHANGED <<m_isServer, pipeVars, m_isHeartBeatRunning, closed, heart, held>>

JoinLoop(t) ==
  /\ at[t] = "join_loop"
  /\ run = "ended"
  /\ m_isHeartBeatRunning' = FALSE
  /\ Goes(t, "join_heart")
  /\ UNCHANGED <<m_isServer, pipeVars, m_mutex, m_isLoopStart, closed, heart, held, calls, loopVars>>

JoinHeart(t) ==
  /\ at[t] = "join_heart"
  /\ heart = "ended"
  /\ CloseAll(Mapped)
  /\ m_msgPipe' = [n \in Name |-> 0]
  /\ m_mutex' = Nobody
  /\ Goes(t, "idle")
  /\ UNCHANGED <<flags, closed, heart, held, calls, loopVars>>

-----------------------------------------------------------------------------
(* The loop thread                                                         *)

Running(op, past) == run = "task" /\ current.op = op /\ closed = past

OnClose ==
  /\ Running("Close", FALSE)
  /\ CloseAll({current.pipe})
  /\ TaskReturns
  /\ UNCHANGED <<flags, m_msgPipe, m_mutex, closed, heart, userVars>>

OnCloseAndReCreate ==
  /\ Running("CloseAndReCreate", FALSE)
  /\ CloseAll({current.pipe})
  /\ closed' = TRUE
  /\ UNCHANGED <<flags, m_msgPipe, m_mutex, heart, userVars, loopVars>>

(* The system allows one server end of a name; whether a client finds its  *)
(* server is the other process's affair.                                   *)
NameInUse(n) == \E p \in Pipe : ~IsClosed(p) /\ pipe[p].server /\ pipe[p].name = n

(* Mutant: whatever is in the map is replaced.                             *)
VacantAlways(task) == TRUE

(* No pipe of the name is in the map, or a client's that is closed.        *)
Vacant(task) == m_msgPipe[task.name] # 0 => (~task.server /\ IsClosed(m_msgPipe[task.name]))

WantsToCreate == Running("CreatePipe", FALSE) \/ Running("CloseAndReCreate", TRUE)

OnCreate ==
  /\ WantsToCreate
  /\ m_mutex = Nobody
  /\ LET n     == current.name
         tried == m_isLoopStart /\ Vacant(current)
     IN \/ /\ tried /\ (current.server => ~NameInUse(n))
           /\ \E p \in FreePipes :
                /\ \A r \in FreePipes : p <= r
                /\ pipe' = [pipe EXCEPT ![p] = [state |-> IF current.server THEN "waiting" ELSE "connected",
                                                name |-> n, server |-> current.server]]
                /\ m_msgPipe' = [m_msgPipe EXCEPT ![n] = p]
        \/ /\ tried /\ (current.server => NameInUse(n))
           /\ m_msgPipe' = [m_msgPipe EXCEPT ![n] = 0]
           /\ UNCHANGED pipe
        \/ /\ ~tried
           /\ UNCHANGED pipeVars
  /\ closed' = FALSE
  /\ TaskReturns
  /\ UNCHANGED <<flags, m_mutex, heart, userVars>>

(* A client comes, or the other end goes and the channel closes itself.    *)
ChannelCompletes(p) ==
  /\ ~IsClosed(p)
  /\ TakeCompletion
  /\ pipe' = [pipe EXCEPT ![p].state = IF @ = "waiting" THEN "connected" ELSE "closed"]
  /\ UNCHANGED <<flags, m_msgPipe, m_mutex, closed, heart, userVars>>

Pumping ==
  /\ TakeTask \/ NothingToDo \/ TakePacket \/ PollFindsNothing \/ WaitTimesOut
  /\ UNCHANGED managerVars

-----------------------------------------------------------------------------
(* The heart beat thread                                                   *)

HeartBeatCallBack ==
  /\ heart = "top"
  /\ heart' = IF m_isHeartBeatRunning THEN "purge" ELSE "ended"
  /\ UNCHANGED <<flags, pipeVars, m_mutex, closed, userVars, loopVars>>

HeartBeatClosedPipe ==
  /\ heart = "purge"
  /\ m_mutex = Nobody
  /\ LET gone == {p \in Mapped \ {0} : IsClosed(p)}
     IN  /\ m_msgPipe' = [n \in Name |-> IF m_msgPipe[n] \in gone THEN 0 ELSE m_msgPipe[n]]
         /\ CloseAll(gone)
  /\ heart' = "regist"
  /\ UNCHANGED <<flags, m_mutex, closed, userVars, loopVars>>

HeartLocks == heart = "regist" /\ m_mutex = Nobody

HeartCall(op, server, sync) == [op |-> op, name |-> Regist, server |-> server, sync |-> sync]

(* The registration pipe of a server is missing: created again, by a call  *)
(* that waits while HeartBeatRegistPipe keeps m_mutex.                     *)
HeartBeatCreates ==
  /\ HeartLocks
  /\ m_isServer /\ m_msgPipe[Regist] = 0
  /\ Len(Queue) < MaxTasks
  /\ PostTask(NewTask(HeartCall("CreatePipe", TRUE, TRUE), 0))
  /\ m_mutex' = Heart
  /\ heart' = "wait"
  /\ UNCHANGED <<flags, pipeVars, closed, userVars>>

(* Mutant: the heart beat waits for the task without a time-out.           *)
HeartWaitsForAnswer ==
  /\ heart = "wait"
  /\ Queue = <<>> /\ current = NoTask
  /\ m_mutex' = Nobody
  /\ heart' = "top"
  /\ UNCHANGED <<flags, pipeVars, closed, userVars, loopVars>>

HeartWaitEnds ==
  /\ heart = "wait"
  /\ m_mutex' = Nobody
  /\ heart' = "top"
  /\ UNCHANGED <<flags, pipeVars, closed, userVars, loopVars>>

(* It is closed, or open for too long (10 s connected, 60 s waiting): a    *)
(* server closes it and creates it again, a client closes it.              *)
HeartBeatReplaces ==
  /\ HeartLocks
  /\ m_msgPipe[Regist] # 0
  /\ Len(Queue) < MaxTasks
  /\ LET p == m_msgPipe[Regist]
     IN  PostTask(NewTask(HeartCall(IF pipe[p].server THEN "CloseAndReCreate" ELSE "Close", pipe[p].server, FALSE), p))
  /\ m_msgPipe' = [m_msgPipe EXCEPT ![Regist] = 0]
  /\ heart' = "top"
  /\ UNCHANGED <<flags, m_mutex, pipe, closed, userVars>>

HeartBeatLeaves ==
  /\ HeartLocks
  /\ \/ m_msgPipe[Regist] # 0 /\ ~IsClosed(m_msgPipe[Regist])
     \/ m_msgPipe[Regist] = 0 /\ ~m_isServer
     \/ Len(Queue) >= MaxTasks
  /\ heart' = "top"
  /\ UNCHANGED <<flags, pipeVars, m_mutex, closed, userVars, loopVars>>

-----------------------------------------------------------------------------
LoopStep == Pumping \/ OnClose \/ OnCloseAndReCreate \/ OnCreate

HeartStep == HeartBeatCallBack \/ HeartBeatClosedPipe \/ HeartBeatCreates \/ HeartWaitEnds \/ HeartBeatReplaces \/ HeartBeatLeaves

CallStep(t) == PostRest(t) \/ WaitEnds(t) \/ JoinLoop(t) \/ JoinHeart(t)

Next ==
  \/ StartLoop
  \/ LoopStep
  \/ HeartStep
  \/ \E p \in Pipe : ChannelCompletes(p)
  \/ \E t \in Thread : CallStep(t) \/ \E c \in Calls : CreatePipe(t, c) \/ TakeOut(t, c) \/ StopLoop(t, c)

(* Threads run on.  Between two beats the heart beat thread sleeps without *)
(* m_mutex, so whoever waits for m_mutex gets it in the end; and a pipe    *)
(* that stays open reaches its time limit.                                 *)
Fairness ==
  /\ WF_vars(LoopStep) /\ SF_vars(OnCreate)
  /\ WF_vars(HeartStep) /\ SF_vars(HeartBeatClosedPipe) /\ SF_vars(HeartLocks /\ HeartStep) /\ SF_vars(HeartBeatReplaces)
  /\ \A t \in Thread : WF_vars(CallStep(t))

Safety == Init /\ [][Next]_vars

Spec == Safety /\ Fairness

-----------------------------------------------------------------------------
(* Every pipe that is open is in the map under its name, or its closing is *)
(* posted or about to be: a pipe that falls out of both could never be     *)
(* closed, and its name would stay taken (PipeManager.cpp:157-361).        *)
NoOrphan ==
  \A p \in Pipe : ~IsClosed(p) => m_msgPipe[pipe[p].name] = p \/ \E task \in Tasks : task.pipe = p

(* The registration pipe is ready for a client again and again, whatever   *)
(* clients do with it and whichever of the calls and beats that close and  *)
(* create it overtake each other (PipeManager.cpp:399-468).                *)
RegistComesBack ==
  (m_isLoopStart /\ m_isServer) ~>
    ((m_msgPipe[Regist] # 0 /\ pipe[m_msgPipe[Regist]].state = "waiting") \/ should_quit_)

(* StopLoop joins two threads under m_mutex (PipeManager.cpp:60-96).  The  *)
(* join of the loop thread ends unless it is before OnCreate's lock, and   *)
(* the join of the heart beat unless it is before one of its own: in these *)
(* cases only, StopLoop and the thread wait for each other.                *)
StopReturns ==
  \A t \in Thread :
    at[t] = "join_loop" ~>
      \/ at[t] = "idle"
      \/ at[t] = "join_loop" /\ WantsToCreate
      \/ at[t] = "join_heart" /\ heart \in {"purge", "regist"}

Pump == INSTANCE TaskPump WITH
  queue <- Queue, running <- current, on <- run \notin {"none", "ended"}

(* Tasks are run one at a time and in the order of posting, although they  *)
(* pass through two queues (ipc_message_loop.cpp:59-110).                  *)
PumpSpec == Pump!PumpSpec
=============================================================================
