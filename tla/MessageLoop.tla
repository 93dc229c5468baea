----------------------------- MODULE MessageLoop -----------------------------
(***************************************************************************)
(* MessageLoopForIPC (3rd/IPC/source/ipc_win/ipc_message_loop.cpp) and the *)
(* thread that runs it.  Any thread posts tasks; the loop thread takes     *)
(* them one at a time and asks the completion port between two tasks.      *)
(* port holds the packets of ScheduleWork and Quit; the completions of     *)
(* overlapped operations come from the channels and need no state here.    *)
(***************************************************************************)
EXTENDS Naturals, Sequences

CONSTANT NoTask

VARIABLES
  incoming_queue_,
  work_queue_,
  have_work_,
  should_quit_,
  port,         \* the internal packets in the completion port
  run,          \* where the loop thread is in Run()
  more,         \* more_work_is_plausible
  current       \* the task that DoWork() is running

loopVars == <<incoming_queue_, work_queue_, have_work_, should_quit_, port, run, more, current>>

Packets   == {"work", "quit"}
RunStates == {"none", "work", "task", "poll", "wait", "ended"}

LoopTypeOK ==
  /\ have_work_ \in BOOLEAN
  /\ should_quit_ \in BOOLEAN
  /\ port \in Seq(Packets)
  /\ run \in RunStates
  /\ more \in BOOLEAN

LoopInit ==
  /\ incoming_queue_ = <<>>
  /\ work_queue_ = <<>>
  /\ have_work_ = FALSE
  /\ should_quit_ = FALSE
  /\ port = <<>>
  /\ run = "none"
  /\ more = FALSE
  /\ current = NoTask

-----------------------------------------------------------------------------
(* AddToIncomingQueue and ScheduleWork, under incoming_queue_lock_: the    *)
(* first task of a batch sends a packet, unless one is on its way.         *)
PostTask(task) ==
  /\ incoming_queue_' = Append(incoming_queue_, task)
  /\ IF incoming_queue_ = <<>> /\ ~have_work_
     THEN have_work_' = TRUE /\ port' = Append(port, "work")
     ELSE UNCHANGED <<have_work_, port>>
  /\ UNCHANGED <<work_queue_, should_quit_, run, more, current>>

(* Thread::Start.  should_quit_ is the singleton's and stays as it is.     *)
StartThread ==
  /\ run' = "work"
  /\ UNCHANGED <<incoming_queue_, work_queue_, have_work_, should_quit_, port, more, current>>

(* Mutant: only the packet is sent.                                        *)
QuitWithoutFlag ==
  /\ port' = Append(port, "quit")
  /\ UNCHANGED <<incoming_queue_, work_queue_, have_work_, should_quit_, run, more, current>>

Quit ==
  /\ should_quit_' = TRUE
  /\ port' = Append(port, "quit")
  /\ UNCHANGED <<incoming_queue_, work_queue_, have_work_, run, more, current>>

-----------------------------------------------------------------------------
(* The loop thread                                                         *)

Unless(quit, next) == run' = IF quit THEN "ended" ELSE next

(* Mutant: the incoming tasks are put in front of those that wait.         *)
TakeTaskReloads ==
  /\ run = "work"
  /\ work_queue_ \o incoming_queue_ # <<>>
  /\ current' = Head(incoming_queue_ \o work_queue_)
  /\ work_queue_' = Tail(incoming_queue_ \o work_queue_)
  /\ incoming_queue_' = <<>>
  /\ run' = "task"
  /\ UNCHANGED <<have_work_, should_quit_, port, more>>

(* ReloadWorkQueue, then the task in front; DoWork returns after it.       *)
TakeTask ==
  /\ run = "work"
  /\ work_queue_ \o incoming_queue_ # <<>>
  /\ LET batch == IF work_queue_ = <<>> THEN incoming_queue_ ELSE work_queue_
     IN  current' = Head(batch) /\ work_queue_' = Tail(batch)
  /\ incoming_queue_' = IF work_queue_ = <<>> THEN <<>> ELSE incoming_queue_
  /\ run' = "task"
  /\ UNCHANGED <<have_work_, should_quit_, port, more>>

TaskReturns ==
  /\ run = "task"
  /\ current' = NoTask
  /\ more' = TRUE
  /\ Unless(should_quit_, "poll")
  /\ UNCHANGED <<incoming_queue_, work_queue_, have_work_, should_quit_, port>>

NothingToDo ==
  /\ run = "work"
  /\ work_queue_ \o incoming_queue_ = <<>>
  /\ more' = FALSE
  /\ Unless(should_quit_, "poll")
  /\ UNCHANGED <<incoming_queue_, work_queue_, have_work_, should_quit_, port, current>>

(* WaitForIOCompletion returned true: from the poll the loop goes on, from *)
(* the long wait it looks at should_quit_ first.                           *)
AfterItem == Unless(run = "wait" /\ should_quit_, "work")

(* Mutant: have_work_ is not reset when its packet is taken.               *)
TakePacketKeepsFlag ==
  /\ run \in {"poll", "wait"}
  /\ port # <<>>
  /\ port' = Tail(port)
  /\ AfterItem
  /\ UNCHANGED <<incoming_queue_, work_queue_, have_work_, should_quit_, more, current>>

TakePacket ==
  /\ run \in {"poll", "wait"}
  /\ port # <<>>
  /\ port' = Tail(port)
  /\ have_work_' = IF Head(port) = "work" THEN FALSE ELSE have_work_
  /\ AfterItem
  /\ UNCHANGED <<incoming_queue_, work_queue_, should_quit_, more, current>>

(* The completion of a channel's operation; its handler is the channel's.  *)
TakeCompletion ==
  /\ run \in {"poll", "wait"}
  /\ AfterItem
  /\ UNCHANGED <<incoming_queue_, work_queue_, have_work_, should_quit_, port, more, current>>

PollFindsNothing ==
  /\ run = "poll"
  /\ port = <<>>
  /\ run' = IF more THEN "work" ELSE IF should_quit_ THEN "ended" ELSE "wait"
  /\ UNCHANGED <<incoming_queue_, work_queue_, have_work_, should_quit_, port, more, current>>

(* GetQueuedCompletionStatus gives up after a second.                      *)
WaitTimesOut ==
  /\ run = "wait"
  /\ Unless(should_quit_, "work")
  /\ UNCHANGED <<incoming_queue_, work_queue_, have_work_, should_quit_, port, more, current>>

-----------------------------------------------------------------------------
(* No lost wakeup: the loop thread is not in its long wait beside a task   *)
(* that nobody has sent it a packet for (ipc_message_loop.cpp:77-134).     *)
(* Otherwise the task would wait for the time-out of a second.             *)
NoLostWork ==
  run = "wait" /\ port = <<>> => work_queue_ = <<>> /\ incoming_queue_ = <<>>
=============================================================================
