----------------------------- MODULE PipeChannel -----------------------------
(***************************************************************************)
(* One named pipe of 3rd/IPC between a server and a client process: the    *)
(* ChannelPipe at each end (ipc_channel_pipe.cpp) and the SyncChannelPipe  *)
(* around it that waits for replies (ipc_sync_channel_pipe.cpp).           *)
(*                                                                         *)
(* Each process has a loop thread that runs posted tasks in order and the  *)
(* completions of the pipe's overlapped operations; a handler of it is one *)
(* action.  User threads post messages and wait for replies.  The kernel's *)
(* byte stream is a sequence of cells: message m is written as the cells   *)
(* <<m, 1>> .. <<m, Size[m]>>, and its header, which the first Header      *)
(* cells hold, says Size[m].  A read may end anywhere between two cells.   *)
(***************************************************************************)
EXTENDS Naturals, Sequences, SequencesExt

CONSTANTS
  Message,              \* the users' messages, each sent at most once
  Hello,                \* the message with which every stream begins
  From,                 \* the end that sends each message
  Size,                 \* the length of each message, in cells
  Header,               \* the length of a header
  Request,              \* the synchronous messages
  Reply,                \* the message that answers each of them
  TimeLimited,          \* the requests with a sync_send_timeout
  CloseTask,            \* the posted PipeManager::OnClose
  kReadBufferSize,
  kMaximumMessageSize

End == {"server", "client"}

ASSUME ChannelAssumption ==
  /\ Hello \notin Message /\ CloseTask \notin Message
  /\ From \in [Message -> End]
  /\ Header \in Nat \ {0}
  /\ Size \in [Message \union {Hello} -> Nat]
  /\ \A m \in Message \union {Hello} : Size[m] >= Header
  /\ Request \subseteq Message /\ TimeLimited \subseteq Request
  /\ Reply \in [Request -> Message \ Request]
  /\ \A r \in Request : From[Reply[r]] # From[r]
  /\ kReadBufferSize \in Nat \ {0} /\ kMaximumMessageSize \in Nat

(* A reply carries the id of its request, which set_sync took from the     *)
(* counter of the process (ipc_message.cpp:232-235, 257-262).  The counter *)
(* has no lock: two threads that get the same id from it are left out.     *)
ASSUME RepliesDiffer == \A r, s \in Request : Reply[r] = Reply[s] => r = s

VARIABLES
  channel,      \* the ChannelPipe of each end
  work,         \* the tasks posted to each end's loop
  loop,         \* where each end's loop thread is in a handler of several steps
  pending_sync_messages_,
  replay_messages_,
  done_event,   \* the requests whose event is signalled
  call,         \* where the sender of each request is
  posted,       \* history: the messages posted at each end, in order,
  received,     \* ... the cells of each message dispatched at each end,
  listened,     \* ... the messages the listener was given,
  fetched,      \* ... the requests whose reply was fetched,
  deleted,      \* ... the replies that an error has deleted,
  failed        \* ... the ends that an error has closed

ioVars   == <<channel, loop>>
syncVars == <<pending_sync_messages_, replay_messages_, done_event, call>>
history  == <<posted, received, listened, fetched, deleted, failed>>
vars     == <<ioVars, work, syncVars, history>>

Peer(e) == IF e = "server" THEN "client" ELSE "server"

Wire(m) == [k \in 1 .. Size[m] |-> <<m, k>>]

Cells == UNION {{<<m, k>> : k \in 1 .. Size[m]} : m \in Message \union {Hello}}

(* wire: what this end has written and the other has not read yet.         *)
Channel ==
  [pipe_ : {"none", "open", "closed"}, waiting_connect_ : BOOLEAN,
   input_pending : BOOLEAN, output_pending : BOOLEAN,
   output_queue_ : Seq(Message \union {Hello}), input_overflow_buf_ : Seq(Cells), wire : Seq(Cells)]

TypeOK ==
  /\ channel \in [End -> Channel]
  /\ work \in [End -> Seq(Message \union {CloseTask})]
  /\ loop \in [End -> {"run", "connect", "delete", "clear", "signal"}]
  /\ pending_sync_messages_ \subseteq Request
  /\ replay_messages_ \in [End -> SUBSET {Reply[r] : r \in Request}]
  /\ done_event \subseteq Request
  /\ call \in [Request -> {"idle", "send", "wait", "erase", "reply", "done"}]
  /\ posted \in [End -> Seq(Message)]
  /\ received \in [End -> Seq(Seq(Cells))]
  /\ listened \subseteq Message
  /\ fetched \subseteq Request
  /\ deleted \subseteq Message
  /\ failed \subseteq End

Init ==
  /\ channel = [e \in End |->
       [pipe_ |-> "none", waiting_connect_ |-> e = "server", input_pending |-> FALSE,
        output_pending |-> FALSE, output_queue_ |-> <<>>, input_overflow_buf_ |-> <<>>, wire |-> <<>>]]
  /\ work = [e \in End |-> <<>>]
  /\ loop = [e \in End |-> "run"]
  /\ pending_sync_messages_ = {}
  /\ replay_messages_ = [e \in End |-> {}]
  /\ done_event = {}
  /\ call = [r \in Request |-> "idle"]
  /\ posted = [e \in End |-> <<>>]
  /\ received = [e \in End |-> <<>>]
  /\ listened = {}
  /\ fetched = {}
  /\ deleted = {}
  /\ failed = {}

-----------------------------------------------------------------------------
(* The kernel's answers: a read fails when nothing is left and the other   *)
(* end is closed, a write when the other end is closed.                    *)
ReadPossible(ch, e) == ch[Peer(e)].wire # <<>> \/ ch[Peer(e)].pipe_ # "closed"
WritePossible(e)    == channel[Peer(e)].pipe_ = "open"

(* The tail of ProcessOutgoingMessages: the front of the queue is written. *)
StartsWrite(e, c) ==
  IF c.output_queue_ # <<>> /\ c.pipe_ = "open" /\ WritePossible(e)
  THEN [c EXCEPT !.output_pending = TRUE, !.wire = @ \o Wire(Head(c.output_queue_))]
  ELSE c

(* Close().  Cells of a write that had not completed may be lost.          *)
Closed(c, lost) ==
  [c EXCEPT !.pipe_ = "closed", !.output_queue_ = <<>>, !.wire = SubSeq(@, 1, Len(@) - lost)]

Unwritten(c) ==
  0 .. IF c.output_pending /\ Len(c.wire) <= Size[Head(c.output_queue_)] THEN Len(c.wire)
       ELSE IF c.output_pending THEN Size[Head(c.output_queue_)] ELSE 0

(* The end of OnIOCompleted after a failure: Close(), then OnChannelError. *)
Fails(ch, e) ==
  /\ \E lost \in Unwritten(ch[e]) : channel' = [ch EXCEPT ![e] = Closed(@, lost)]
  /\ loop' = [loop EXCEPT ![e] = "delete"]
  /\ failed' = failed \union {e}

Succeeds(ch) == channel' = ch /\ UNCHANGED <<loop, failed>>

-----------------------------------------------------------------------------
(* Creating the two ends                                                   *)

(* The client's CreateFile needs the server's pipe; there is one instance. *)
CreatePipe(e) ==
  /\ channel[e].pipe_ = "none"
  /\ e = "client" => channel["server"].pipe_ = "open"
  /\ channel' = [channel EXCEPT ![e].pipe_ = "open", ![e].output_queue_ = <<Hello>>]
  /\ loop' = [loop EXCEPT ![e] = "connect"]
  /\ UNCHANGED <<work, syncVars, history>>

(* ProcessConnection by what ConnectNamedPipe finds: no client yet, a      *)
(* client, or a client that has come and gone (ERROR_NO_DATA), after which *)
(* nothing is pending.  With a client the first read and write follow.     *)
ProcessConnection(c) ==
  CASE channel["client"].pipe_ = "none"   -> [c EXCEPT !.input_pending = TRUE]
    [] channel["client"].pipe_ = "closed" -> [c EXCEPT !.input_pending = FALSE]
    [] OTHER -> StartsWrite("server", [c EXCEPT !.waiting_connect_ = FALSE, !.input_pending = TRUE])

Connect(e) ==
  /\ loop[e] = "connect"
  /\ \/ /\ e = "server"
        /\ channel' = [channel EXCEPT ![e] = ProcessConnection(@)]
        /\ loop' = [loop EXCEPT ![e] = "run"]
        /\ UNCHANGED failed
     \/ /\ e = "client" /\ ReadPossible(channel, e)
        /\ channel' = [channel EXCEPT ![e] = StartsWrite(e, [@ EXCEPT !.input_pending = TRUE])]
        /\ loop' = [loop EXCEPT ![e] = "run"]
        /\ UNCHANGED failed
     \/ /\ e = "client" /\ ~ReadPossible(channel, e)
        /\ Fails(channel, e)
  /\ UNCHANGED <<work, syncVars, posted, received, listened, fetched, deleted>>

(* OnIOCompleted runs for handlers that Close has not removed.             *)
Completes(e) == loop[e] = "run" /\ channel[e].pipe_ = "open"

ConnectionCompletes ==
  /\ Completes("server")
  /\ channel["server"].waiting_connect_ /\ channel["server"].input_pending
  /\ channel["client"].pipe_ # "none"
  /\ Succeeds([channel EXCEPT !["server"] = ProcessConnection(@)])
  /\ UNCHANGED <<work, syncVars, posted, received, listened, fetched, deleted>>

-----------------------------------------------------------------------------
(* Reading                                                                 *)

(* FindNext, again and again: where the whole messages of buf begin.       *)
Starts(buf) ==
  LET from[i \in 1 .. Len(buf) + 1] ==
        IF i <= Len(buf) /\ i + Size[buf[i][1]] - 1 <= Len(buf)
        THEN <<i>> \o from[i + Size[buf[i][1]]]
        ELSE <<>>
  IN  from[1]

WholeMessages(buf) ==
  LET starts == Starts(buf)
  IN  [j \in DOMAIN starts |-> SubSeq(buf, starts[j], starts[j] + Size[buf[starts[j]][1]] - 1)]

(* Mutant: what is left of a chunk is not kept for the next.               *)
PartialDropped(buf) == <<>>

Partial(buf) ==
  LET starts == Starts(buf)
  IN  IF starts = <<>> THEN buf ELSE SubSeq(buf, Last(starts) + Size[buf[Last(starts)][1]], Len(buf))

(* CheckMessageSize, before the cells are parsed and after.                *)
Oversized(overflow, buf, partial) ==
  \/ overflow # <<>> /\ Len(buf) > kMaximumMessageSize
  \/ Len(partial) >= Header /\ Size[partial[1][1]] > kMaximumMessageSize

(* SyncChannelPipe::OnMessageReceived: a reply somebody waits for is kept  *)
(* for him and his event set; the rest goes to the listener.               *)
AwaitedBy(m) == {r \in pending_sync_messages_ : Reply[r] = m}

DispatchIPCMessages(e, messages) ==
  LET arrived == {messages[j][1][1] : j \in DOMAIN messages} \ {Hello}
      awaited == {m \in arrived : AwaitedBy(m) # {}}
  IN  /\ received' = [received EXCEPT ![e] = @ \o messages]
      /\ replay_messages_' = [replay_messages_ EXCEPT ![e] = @ \union awaited]
      /\ done_event' = done_event \union UNION {AwaitedBy(m) : m \in awaited}
      /\ listened' = listened \union (arrived \ awaited)
      /\ UNCHANGED <<pending_sync_messages_, call>>

(* TranslateInputData on a chunk of n cells, then the next ReadData.       *)
ReadCompletes(e, n) ==
  /\ Completes(e)
  /\ ~channel[e].waiting_connect_ /\ channel[e].input_pending
  /\ n <= Len(channel[Peer(e)].wire)
  /\ LET overflow == channel[e].input_overflow_buf_
         buf      == overflow \o SubSeq(channel[Peer(e)].wire, 1, n)
         tooLong  == overflow # <<>> /\ Len(buf) > kMaximumMessageSize
         partial  == Partial(buf)
         refused  == Oversized(overflow, buf, partial)
         read     == [channel EXCEPT ![Peer(e)].wire = SubSeq(@, n + 1, Len(@)),
                                     ![e].input_overflow_buf_ = IF refused THEN <<>> ELSE partial]
     IN /\ DispatchIPCMessages(e, IF tooLong THEN <<>> ELSE WholeMessages(buf))
        /\ \/ ~refused /\ ReadPossible(read, e) /\ Succeeds(read)
           \/ /\ refused \/ ~ReadPossible(read, e)
              /\ Fails([read EXCEPT ![e].input_pending = FALSE], e)
  /\ UNCHANGED <<work, posted, fetched, deleted>>

ReadFails(e) ==
  /\ Completes(e)
  /\ ~channel[e].waiting_connect_ /\ channel[e].input_pending
  /\ ~ReadPossible(channel, e)
  /\ Fails([channel EXCEPT ![e].input_pending = FALSE], e)
  /\ UNCHANGED <<work, syncVars, posted, received, listened, fetched, deleted>>

-----------------------------------------------------------------------------
(* Writing                                                                 *)

(* ProcessOutgoingMessages after a completion: the message written leaves  *)
(* the queue and the next is written.                                      *)
Popped(c) == [c EXCEPT !.output_pending = FALSE, !.output_queue_ = Tail(@)]

WriteCompletes(e) ==
  /\ Completes(e)
  /\ channel[e].output_pending
  /\ LET written == [channel EXCEPT ![e] = Popped(@)]
     IN \/ /\ written[e].output_queue_ = <<>> \/ WritePossible(e)
           /\ Succeeds([written EXCEPT ![e] = StartsWrite(e, @)])
        \/ /\ written[e].output_queue_ # <<>> /\ ~WritePossible(e)
           /\ Fails(written, e)
  /\ UNCHANGED <<work, syncVars, posted, received, listened, fetched, deleted>>

WriteFails(e) ==
  /\ Completes(e)
  /\ channel[e].output_pending
  /\ ~WritePossible(e)
  /\ Fails([channel EXCEPT ![e].output_pending = FALSE], e)
  /\ UNCHANGED <<work, syncVars, posted, received, listened, fetched, deleted>>

(* Mutant: the message is queued and a write never started.                *)
SendDataQueues(e, m) == [channel[e] EXCEPT !.output_queue_ = Append(@, m)]

(* SendData: a write is started unless one is pending or nobody listens.   *)
SendData(e, m) ==
  LET c == [channel[e] EXCEPT !.output_queue_ = Append(@, m)]
  IN  IF c.waiting_connect_ \/ c.output_pending THEN c ELSE StartsWrite(e, c)

(* The loop runs the task in front: OnSendMessage or OnClose.              *)
RunTask(e) ==
  /\ loop[e] = "run"
  /\ work[e] # <<>>
  /\ work' = [work EXCEPT ![e] = Tail(@)]
  /\ \/ /\ Head(work[e]) # CloseTask
        /\ channel' = [channel EXCEPT ![e] = SendData(e, Head(work[e]))]
     \/ /\ Head(work[e]) = CloseTask /\ channel[e].pipe_ = "open"
        /\ \E lost \in Unwritten(channel[e]) : channel' = [channel EXCEPT ![e] = Closed(@, lost)]
     \/ /\ Head(work[e]) = CloseTask /\ channel[e].pipe_ # "open"
        /\ UNCHANGED channel
  /\ UNCHANGED <<loop, syncVars, history>>

-----------------------------------------------------------------------------
(* SyncChannelPipe::OnChannelError, on the loop thread and without mutex_  *)
(* until SignalAllEvents: the replies are deleted, then the set cleared.   *)

DeleteReplays(e) ==
  /\ loop[e] = "delete"
  /\ deleted' = deleted \union replay_messages_[e]
  /\ loop' = [loop EXCEPT ![e] = "clear"]
  /\ UNCHANGED <<channel, work, syncVars, posted, received, listened, fetched, failed>>

ClearReplays(e) ==
  /\ loop[e] = "clear"
  /\ replay_messages_' = [replay_messages_ EXCEPT ![e] = {}]
  /\ loop' = [loop EXCEPT ![e] = "signal"]
  /\ UNCHANGED <<channel, work, pending_sync_messages_, done_event, call, history>>

(* Mutant: the waiting callers are not told of the error.                  *)
SignalsNobody(e) ==
  /\ loop[e] = "signal"
  /\ loop' = [loop EXCEPT ![e] = "run"]
  /\ UNCHANGED <<channel, work, syncVars, history>>

SignalAllEvents(e) ==
  /\ loop[e] = "signal"
  /\ done_event' = done_event \union {r \in pending_sync_messages_ : From[r] = e}
  /\ loop' = [loop EXCEPT ![e] = "run"]
  /\ UNCHANGED <<channel, work, pending_sync_messages_, replay_messages_, call, history>>

-----------------------------------------------------------------------------
(* What user threads do                                                    *)

Post(e, task) == work' = [work EXCEPT ![e] = Append(@, task)]

(* Send of a message without a reply, or of a reply to a request received. *)
Send(m) ==
  /\ m \notin Request
  /\ channel[From[m]].pipe_ = "open"
  /\ m \notin Range(posted[From[m]])
  /\ \A r \in Request : Reply[r] = m => r \in listened
  /\ Post(From[m], m)
  /\ posted' = [posted EXCEPT ![From[m]] = Append(@, m)]
  /\ UNCHANGED <<ioVars, syncVars, received, listened, fetched, deleted, failed>>

CloseChannel(e) ==
  /\ channel[e].pipe_ = "open"
  /\ CloseTask \notin Range(work[e])
  /\ Post(e, CloseTask)
  /\ UNCHANGED <<ioVars, syncVars, history>>

Goes(r, from, to) == call[r] = from /\ call' = [call EXCEPT ![r] = to]

(* A synchronous Send: pending first, ...                                  *)
InsertPending(r) ==
  /\ channel[From[r]].pipe_ = "open"
  /\ Goes(r, "idle", "send")
  /\ pending_sync_messages_' = pending_sync_messages_ \union {r}
  /\ UNCHANGED <<ioVars, work, replay_messages_, done_event, history>>

(* ... then posted, unless the pipe has been closed meanwhile, ...         *)
SendRequest(r) ==
  /\ \/ /\ channel[From[r]].pipe_ = "open"
        /\ Goes(r, "send", "wait")
        /\ Post(From[r], r)
        /\ posted' = [posted EXCEPT ![From[r]] = Append(@, r)]
     \/ /\ channel[From[r]].pipe_ # "open"
        /\ Goes(r, "send", "erase")
        /\ UNCHANGED <<work, posted>>
  /\ UNCHANGED <<ioVars, pending_sync_messages_, replay_messages_, done_event, received, listened, fetched, deleted, failed>>

(* ... and the event waited for, for the time-out if there is one.         *)
WaitEnds(r) ==
  /\ r \in done_event \union TimeLimited
  /\ Goes(r, "wait", "erase")
  /\ UNCHANGED <<ioVars, work, pending_sync_messages_, replay_messages_, done_event, history>>

(* Mutant: a caller that has given up stays in the pending set.            *)
LeavesPending(r) ==
  /\ Goes(r, "erase", "reply")
  /\ UNCHANGED <<ioVars, work, pending_sync_messages_, replay_messages_, done_event, history>>

ErasePending(r) ==
  /\ Goes(r, "erase", "reply")
  /\ pending_sync_messages_' = pending_sync_messages_ \ {r}
  /\ UNCHANGED <<ioVars, work, replay_messages_, done_event, history>>

GetReplayMessage(r) ==
  /\ Goes(r, "reply", "done")
  /\ fetched' = IF Reply[r] \in replay_messages_[From[r]] THEN fetched \union {r} ELSE fetched
  /\ replay_messages_' = [replay_messages_ EXCEPT ![From[r]] = @ \ {Reply[r]}]
  /\ UNCHANGED <<ioVars, work, pending_sync_messages_, done_event, posted, received, listened, deleted, failed>>

-----------------------------------------------------------------------------
ErrorStep(e) == DeleteReplays(e) \/ ClearReplays(e) \/ SignalAllEvents(e)

Completion(e) ==
  \/ e = "server" /\ ConnectionCompletes
  \/ \E n \in 1 .. kReadBufferSize : ReadCompletes(e, n)
  \/ ReadFails(e)

WriteCompletion(e) == WriteCompletes(e) \/ WriteFails(e)

CallStep(r) == SendRequest(r) \/ WaitEnds(r) \/ ErasePending(r) \/ GetReplayMessage(r)

Next ==
  \/ \E e \in End :
       \/ CreatePipe(e) \/ Connect(e) \/ Completion(e) \/ WriteCompletion(e)
       \/ RunTask(e) \/ ErrorStep(e) \/ CloseChannel(e)
  \/ \E m \in Message : Send(m)
  \/ \E r \in Request : InsertPending(r) \/ CallStep(r)

(* The loop thread turns to tasks and completions by turns, and the kernel *)
(* completes what is pending.                                              *)
Fairness ==
  \A e \in End :
    /\ WF_vars(Connect(e) \/ ErrorStep(e))
    /\ WF_vars(Completion(e))
    /\ WF_vars(WriteCompletion(e))
    /\ WF_vars(RunTask(e))

Spec == Init /\ [][Next]_vars /\ Fairness

-----------------------------------------------------------------------------
(* However the stream is cut into reads, and whoever closes when, an end   *)
(* dispatches whole messages only, in the order in which the other end     *)
(* posted them, none twice and none left out, its HELLO first              *)
(* (ipc_channel_pipe.cpp:205-310).                                         *)
DeliveredInOrder ==
  \A e \in End :
    IsPrefix(received[e], [j \in 1 .. Len(posted[Peer(e)]) + 1 |-> Wire((<<Hello>> \o posted[Peer(e)])[j])])

(* An open channel always has the operation pending that keeps it going: a *)
(* read, or the wait for a client unless the client is gone already, and a *)
(* write while messages are queued and the other end is there              *)
(* (ipc_channel_pipe.cpp:146-245, 371-384, 428-461).                       *)
NeverIdle ==
  \A e \in End : Completes(e) =>
    /\ channel[e].input_pending \/ (channel[e].waiting_connect_ /\ channel["client"].pipe_ = "closed")
    /\ channel[e].output_queue_ # <<>> /\ ~channel[e].waiting_connect_ /\ WritePossible(e) => channel[e].output_pending

(* A reply that arrived is with the listener, kept, fetched or deleted by  *)
(* an error, and in one of these places only; none is kept for a caller    *)
(* that has gone (ipc_sync_channel_pipe.cpp:18-48, 106-142).               *)
ReplyAccounted ==
  \A r \in Request :
    /\ Wire(Reply[r]) \in Range(received[From[r]]) =>
         \/ Reply[r] \in listened /\ Reply[r] \notin replay_messages_[From[r]] /\ r \notin fetched
         \/ Reply[r] \notin listened /\ (r \in fetched \/ Reply[r] \in replay_messages_[From[r]] \union deleted)
    /\ call[r] = "done" => Reply[r] \notin replay_messages_[From[r]]

(* A message posted while the pipe is open at both ends is delivered, or   *)
(* the pipe is closed: no message waits behind a write that nobody starts. *)
EventuallyDelivered ==
  \A m \in Message :
    m \in Range(posted[From[m]]) ~>
      \/ Wire(m) \in Range(received[Peer(From[m])])
      \/ \E e \in End : channel[e].pipe_ # "open"

(* When the channel has failed, the event of every caller that waits is    *)
(* set, although the error may fall between its insertion into the pending *)
(* set and its wait (ipc_sync_channel_pipe.cpp:24-36, 144-161).            *)
ErrorReleasesCallers ==
  \A r \in Request : From[r] \in failed /\ loop[From[r]] = "run" /\ call[r] = "wait" => r \in done_event
=============================================================================
