--------------------------- MODULE SharedMemoryIpc ---------------------------
(***************************************************************************)
(* The channel ddm/src/ipc/shared_memory_ipc.cpp: a section of shared      *)
(* memory that holds one message, the auto-reset event recv_event (there   *)
(* is a message) and the auto-reset event send_event (the memory is free). *)
(* Any number of client processes send, one server process receives.       *)
(*                                                                         *)
(* Whoever has consumed one of the two signals holds the channel's token   *)
(* until it sets the other event.  Each statement that another process can *)
(* observe is an action.  The three kernel objects have names: an object   *)
(* exists while some process has a handle of it, and create() opens what   *)
(* exists or makes it afresh, with recv_event clear and send_event set.    *)
(* handles[p] are the objects process p has open.  A process may end       *)
(* between any two steps; the system then closes its handles.              *)
(***************************************************************************)
EXTENDS Naturals, Sequences

CONSTANTS
  Client, Server,   \* the processes
  Nobody,           \* no process
  Message,          \* the messages; each is sent at most once
  NoMessage,        \* what zeroed memory holds
  Size,             \* the size of each message
  MaxSize,          \* the size each process passes to create()
  Header,           \* sizeof(u32), the size field before the message
  TimeLimited,      \* the processes that call send or recv with a time limit
  MaxEnds           \* bound: how often processes end in the middle

Proc == Client \union Server

ASSUME IpcAssumption ==
  /\ Client \intersect Server = {}
  /\ Nobody \notin Proc
  /\ NoMessage \notin Message
  /\ Size \in [Message -> Nat]
  /\ MaxSize \in [Proc -> Nat]
  /\ Header \in Nat
  /\ TimeLimited \subseteq Proc
  /\ MaxEnds \in Nat

VARIABLES
  pc,           \* where each process is in create, close, send or recv
  handles,      \* the objects each process has open
  limited,      \* the process that holds the server's single_limited mutex
  recv_event, send_event,   \* signalled or not; an object that is gone is not
  memSize, memData,         \* the size field and the message in the memory
  arg,          \* the message each client sends
  size,         \* the size the server has read
  sent,         \* history: the messages that send() returned true for, in order
  delivered,    \* ... what read() has copied out, in order
  paired,       \* ... somebody has opened a send_event since recv_event was made
  mixed,        \* ... one event has been older than the other, see OpenSendEvent
  ends          \* how often a process has ended in the middle

kernel  == <<handles, limited, recv_event, send_event, paired, mixed>>
memory  == <<memSize, memData>>
local   == <<arg, size>>
results == <<sent, delivered>>
vars    == <<pc, kernel, memory, local, results, ends>>

Objects    == {"memory", "recv_event", "send_event"}
Creating   == {"memory", "recv_event", "send_event"}
Sending    == {"write_size", "write_data", "set_recv"}
Reading    == {"read_size", "read_data", "set_send"}
Closing    == {"close_recv", "close_send", "close_memory"}
PcStates   == {"closed", "open", "wait_send", "wait_recv"} \union Creating \union Sending
                \union Reading \union Closing

(* What read() makes of the memory.                                        *)
Copy == [size : Nat, data : Message \union {NoMessage}]

TypeOK ==
  /\ pc \in [Proc -> PcStates]
  /\ handles \in [Proc -> SUBSET Objects]
  /\ limited \in Server \union {Nobody}
  /\ recv_event \in BOOLEAN /\ send_event \in BOOLEAN
  /\ memSize \in Nat
  /\ memData \in Message \union {NoMessage}
  /\ arg \in [Client -> Message \union {NoMessage}]
  /\ size \in [Server -> Nat]
  /\ sent \in Seq(Message)
  /\ delivered \in Seq(Copy)
  /\ paired \in BOOLEAN /\ mixed \in BOOLEAN
  /\ ends \in 0 .. MaxEnds

Init ==
  /\ pc = [p \in Proc |-> "closed"]
  /\ handles = [p \in Proc |-> {}]
  /\ limited = Nobody
  /\ recv_event = FALSE /\ send_event = FALSE
  /\ memSize = 0 /\ memData = NoMessage
  /\ arg = [c \in Client |-> NoMessage]
  /\ size = [s \in Server |-> 0]
  /\ sent = <<>> /\ delivered = <<>>
  /\ paired = FALSE /\ mixed = FALSE
  /\ ends = 0

-----------------------------------------------------------------------------
Goto(p, to) == pc' = [pc EXCEPT ![p] = to]
Step(p, from, to) == pc[p] = from /\ Goto(p, to)

Exists(obj) == \E p \in Proc : obj \in handles[p]
Open(p, obj) == handles' = [handles EXCEPT ![p] = @ \union {obj}]

(* CloseHandle: the last handle of an object takes the object with it.     *)
Drop(p, objs) ==
  /\ handles' = [handles EXCEPT ![p] = @ \ objs]
  /\ recv_event' = (recv_event /\ \E q \in Proc : "recv_event" \in handles'[q])
  /\ send_event' = (send_event /\ \E q \in Proc : "send_event" \in handles'[q])
  /\ UNCHANGED <<paired, mixed>>

-----------------------------------------------------------------------------
(* create: a server must first be the only holder of its mutex, which it   *)
(* keeps until it is destroyed; a refused create() changes nothing.        *)

(* Mutant: the mutex exists already and the server goes on.                *)
CreateUnlimited(p) ==
  /\ Step(p, "closed", "memory")
  /\ \/ p \in Client /\ UNCHANGED limited
     \/ p \in Server /\ limited' = p
  /\ UNCHANGED <<handles, recv_event, send_event, paired, mixed, memory, local, results, ends>>

Create(p) ==
  /\ Step(p, "closed", "memory")
  /\ \/ p \in Client /\ UNCHANGED limited
     \/ p \in Server /\ limited = Nobody /\ limited' = p
  /\ UNCHANGED <<handles, recv_event, send_event, paired, mixed, memory, local, results, ends>>

OpenMemory(p) ==
  /\ Step(p, "memory", "recv_event")
  /\ Open(p, "memory")
  /\ memSize' = IF Exists("memory") THEN memSize ELSE 0
  /\ memData' = IF Exists("memory") THEN memData ELSE NoMessage
  /\ UNCHANGED <<limited, recv_event, send_event, paired, mixed, local, results, ends>>

OpenRecvEvent(p) ==
  /\ Step(p, "recv_event", "send_event")
  /\ Open(p, "recv_event")
  /\ \/ Exists("recv_event") /\ UNCHANGED <<recv_event, paired, mixed>>
     \/ /\ ~Exists("recv_event")
        /\ recv_event' = FALSE
        /\ paired' = FALSE
        /\ mixed' = (mixed \/ Exists("send_event"))
  /\ UNCHANGED <<limited, send_event, memory, local, results, ends>>

(* The events are mixed when one was made anew and the other was not: a    *)
(* process closed its handles while this one was between the two.          *)
OpenSendEvent(p) ==
  /\ Step(p, "send_event", "open")
  /\ Open(p, "send_event")
  /\ paired' = TRUE
  /\ \/ Exists("send_event") /\ UNCHANGED <<send_event, mixed>>
     \/ /\ ~Exists("send_event")
        /\ send_event' = TRUE
        /\ mixed' = (mixed \/ paired)
  /\ UNCHANGED <<limited, recv_event, memory, local, results, ends>>

(* A system call fails: create() closes what it has opened.                *)
CreateFails(p) ==
  /\ pc[p] \in Creating
  /\ Goto(p, "close_recv")
  /\ UNCHANGED <<kernel, memory, local, results, ends>>

-----------------------------------------------------------------------------
(* close() and the destructors                                             *)

Close(p) ==
  /\ Step(p, "open", "close_recv")
  /\ UNCHANGED <<kernel, memory, local, results, ends>>

(* The server's destructor gives up the mutex before the base class closes.*)
Destroy(s) ==
  /\ limited = s
  /\ pc[s] \in {"open", "closed"}
  /\ Goto(s, "close_recv")
  /\ limited' = Nobody
  /\ UNCHANGED <<handles, recv_event, send_event, paired, mixed, memory, local, results, ends>>

CloseHandles(p) ==
  /\ \/ Step(p, "close_recv", "close_send") /\ Drop(p, {"recv_event"})
     \/ Step(p, "close_send", "close_memory") /\ Drop(p, {"send_event"})
     \/ Step(p, "close_memory", "closed") /\ Drop(p, {"memory"})
  /\ UNCHANGED <<limited, memory, local, results, ends>>

(* The process ends; a new one may take its place.                         *)
ProcessEnds(p) ==
  /\ pc[p] # "closed"
  /\ ends < MaxEnds
  /\ Goto(p, "closed")
  /\ Drop(p, Objects)
  /\ limited' = IF limited = p THEN Nobody ELSE limited
  /\ ends' = ends + 1
  /\ arg' = [c \in Client |-> IF c = p THEN NoMessage ELSE arg[c]]
  /\ size' = [s \in Server |-> IF s = p THEN 0 ELSE size[s]]
  /\ UNCHANGED <<memory, results>>

-----------------------------------------------------------------------------
(* send                                                                    *)

Unsent(m) ==
  /\ \A i \in DOMAIN sent : sent[i] # m
  /\ \A c \in Client : arg[c] # m

Send(c, m) ==
  /\ Step(c, "open", "wait_send")
  /\ Unsent(m)
  /\ arg' = [arg EXCEPT ![c] = m]
  /\ UNCHANGED <<kernel, memory, size, results, ends>>

(* Mutant: send_event is a manual-reset event.                             *)
SendWaitManual(c) ==
  /\ Step(c, "wait_send", "write_size")
  /\ send_event
  /\ UNCHANGED <<kernel, memory, local, results, ends>>

SendWaitOk(c) ==
  /\ Step(c, "wait_send", "write_size")
  /\ send_event
  /\ send_event' = FALSE
  /\ UNCHANGED <<handles, limited, recv_event, paired, mixed, memory, local, results, ends>>

SendTimesOut(c) ==
  /\ c \in TimeLimited
  /\ Step(c, "wait_send", "open")
  /\ arg' = [arg EXCEPT ![c] = NoMessage]
  /\ UNCHANGED <<kernel, memory, size, results, ends>>

Fits(p, n) == n + Header <= MaxSize[p]

(* A message that is too large returns false with the token in hand.       *)
WriteSize(c) ==
  /\ pc[c] = "write_size"
  /\ \/ /\ Fits(c, Size[arg[c]])
        /\ Goto(c, "write_data")
        /\ memSize' = Size[arg[c]]
        /\ UNCHANGED arg
     \/ /\ ~Fits(c, Size[arg[c]])
        /\ Goto(c, "open")
        /\ arg' = [arg EXCEPT ![c] = NoMessage]
        /\ UNCHANGED memSize
  /\ UNCHANGED <<kernel, memData, size, results, ends>>

WriteData(c) ==
  /\ Step(c, "write_data", "set_recv")
  /\ memData' = arg[c]
  /\ UNCHANGED <<kernel, memSize, local, results, ends>>

SetRecvEvent(c) ==
  /\ Step(c, "set_recv", "open")
  /\ recv_event' = TRUE
  /\ sent' = Append(sent, arg[c])
  /\ arg' = [arg EXCEPT ![c] = NoMessage]
  /\ UNCHANGED <<handles, limited, send_event, paired, mixed, memory, size, delivered, ends>>

-----------------------------------------------------------------------------
(* recv and read                                                           *)

Recv(s) ==
  /\ Step(s, "open", "wait_recv")
  /\ UNCHANGED <<kernel, memory, local, results, ends>>

RecvTimesOut(s) ==
  /\ s \in TimeLimited
  /\ Step(s, "wait_recv", "open")
  /\ UNCHANGED <<kernel, memory, local, results, ends>>

RecvWaitOk(s) ==
  /\ Step(s, "wait_recv", "read_size")
  /\ recv_event
  /\ recv_event' = FALSE
  /\ UNCHANGED <<handles, limited, send_event, paired, mixed, memory, local, results, ends>>

(* Mutant: the memory is offered before the message is copied.             *)
ReadSizeAcks(s) ==
  /\ pc[s] = "read_size"
  /\ \/ Fits(s, memSize) /\ Goto(s, "read_data") /\ size' = [size EXCEPT ![s] = memSize]
     \/ ~Fits(s, memSize) /\ Goto(s, "open") /\ UNCHANGED size
  /\ send_event' = TRUE
  /\ UNCHANGED <<handles, limited, recv_event, paired, mixed, memory, arg, results, ends>>

(* A size beyond the server's own limit returns false with the token.      *)
ReadSize(s) ==
  /\ pc[s] = "read_size"
  /\ \/ Fits(s, memSize) /\ Goto(s, "read_data") /\ size' = [size EXCEPT ![s] = memSize]
     \/ ~Fits(s, memSize) /\ Goto(s, "open") /\ UNCHANGED size
  /\ UNCHANGED <<kernel, memory, arg, results, ends>>

ReadData(s) ==
  /\ Step(s, "read_data", "set_send")
  /\ delivered' = Append(delivered, [size |-> size[s], data |-> memData])
  /\ size' = [size EXCEPT ![s] = 0]
  /\ UNCHANGED <<kernel, memory, arg, sent, ends>>

(* Mutant: the memory is not offered again.                                *)
KeepMemory(s) ==
  /\ Step(s, "set_send", "open")
  /\ UNCHANGED <<kernel, memory, local, results, ends>>

SetSendEvent(s) ==
  /\ Step(s, "set_send", "open")
  /\ send_event' = TRUE
  /\ UNCHANGED <<handles, limited, recv_event, paired, mixed, memory, local, results, ends>>

-----------------------------------------------------------------------------
Running(p) ==
  \/ OpenMemory(p)
  \/ OpenRecvEvent(p)
  \/ OpenSendEvent(p)
  \/ CloseHandles(p)

ClientStep(c) == SendWaitOk(c) \/ WriteSize(c) \/ WriteData(c) \/ SetRecvEvent(c)
ServerStep(s) == RecvWaitOk(s) \/ ReadSize(s) \/ ReadData(s) \/ SetSendEvent(s)

Next ==
  \/ \E p \in Proc :
       \/ Create(p) \/ CreateFails(p) \/ Close(p)
       \/ Running(p)
       \/ ProcessEnds(p)
  \/ \E c \in Client : ClientStep(c) \/ SendTimesOut(c) \/ \E m \in Message : Send(c, m)
  \/ \E s \in Server : ServerStep(s) \/ RecvTimesOut(s) \/ Recv(s) \/ Destroy(s)

Safety == Init /\ [][Next]_vars

(* A process inside a call runs on, and the server's program calls recv    *)
(* again and again.  Several clients may wait for send_event: the system   *)
(* serves each of them in the end, hence strong fairness.                  *)
Fairness ==
  /\ \A p \in Proc : WF_vars(Running(p))
  /\ \A c \in Client : WF_vars(ClientStep(c)) /\ SF_vars(SendWaitOk(c))
  /\ \A s \in Server : WF_vars(ServerStep(s)) /\ WF_vars(Recv(s))

Spec == Safety /\ Fairness

-----------------------------------------------------------------------------
Holding(p) == pc[p] \in Sending \union Reading

(* There is never more than one token: at most one process writes or reads *)
(* the memory, and none while an event offers it to another, through       *)
(* opens, closes and ends of processes at any step                         *)
(* (shared_memory_ipc.cpp:28-34, 80, 102, 113, 129).  The one exception is *)
(* the race between a create() and the close() of the last other user that *)
(* leaves a new event beside an old one.                                   *)
OneToken ==
  mixed \/ /\ ~(recv_event /\ send_event)
           /\ \A p \in Proc : Holding(p) => ~recv_event /\ ~send_event
           /\ \A p, q \in Proc : Holding(p) /\ Holding(q) => p = q

(* What the server copies is what some client sent, whole, in the order    *)
(* and at most as often as it was sent: no write of the two-part message   *)
(* meets a read (shared_memory_ipc.cpp:95-101, 127-128).                   *)
DeliveredAsSent ==
  mixed \/
    /\ \A i \in DOMAIN delivered :
         /\ \E a \in DOMAIN sent : sent[a] = delivered[i].data
         /\ delivered[i].size = Size[delivered[i].data]
    /\ \A i, j \in DOMAIN delivered : i < j =>
         \E a, b \in DOMAIN sent : a < b /\ sent[a] = delivered[i].data /\ sent[b] = delivered[j].data

Receiving(s) == pc[s] \in {"open", "wait_recv"} \union Reading

(* The server's mutex leaves one receiver at a time, although the          *)
(* destructor gives it up before the handles are closed and a process may  *)
(* end with it (shared_memory_ipc.cpp:67, single_limited.h:38-53).         *)
OneReceiver == \A s, t \in Server : Receiving(s) /\ Receiving(t) => s = t

Token == recv_event \/ send_event \/ \E p \in Proc : Holding(p)

(* The token passes from hand to hand and is lost in four ways only: a     *)
(* message that the client or the server finds too large, a process that   *)
(* ends with it, and the last handle of an event that is closed            *)
(* (shared_memory_ipc.cpp:47-63, 80-104, 113-129).                         *)
TokenKept ==
  [][Token /\ ~Token' =>
       \/ \E c \in Client : pc[c] = "write_size" /\ pc'[c] = "open"
       \/ \E s \in Server : pc[s] = "read_size" /\ pc'[s] = "open"
       \/ ends' # ends
       \/ ~(Exists("recv_event") /\ Exists("send_event"))']_vars

(* A send() without a time limit returns as long as the server receives:   *)
(* the token comes back (shared_memory_ipc.cpp:102, 113).                  *)
SendReturns ==
  \A c \in Client :
    pc[c] = "wait_send" ~> (pc[c] # "wait_send" \/ mixed \/ \A s \in Server : ~Receiving(s))
=============================================================================
