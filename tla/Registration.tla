---------------------------- MODULE Registration ----------------------------
(***************************************************************************)
(* The three-way handshake of 3rd/IPC/source/ipc/PipeHelper.cpp: a client  *)
(* process asks over the registration pipe, the server answers with the    *)
(* name of a pipe it has created for the client, the client confirms and   *)
(* opens that pipe.                                                        *)
(*                                                                         *)
(* Every wait has a time-out, so it may end at any time and CreatePipe may *)
(* answer false for a pipe that its task creates later.  Clients end and   *)
(* start again.  Message ids count from 0 in every process, so the ids of  *)
(* two clients are equal.  The server has one registration pipe at a time  *)
(* (PipeManager) and runs OnRegist in one task thread; what is in flight   *)
(* when an end closes is lost, or was delivered before.                    *)
(***************************************************************************)
EXTENDS Naturals, Sequences

CONSTANTS
  Client,       \* the client processes
  Nobody,       \* no client
  MaxIds,       \* bound: requests of a client process
  MaxNames,     \* bound: names the server makes up
  MaxEnds       \* bound: how often clients end

ASSUME RegistrationAssumption ==
  /\ Nobody \notin Client
  /\ MaxIds \in Nat /\ MaxNames \in Nat /\ MaxEnds \in Nat

NoName == 0
NewName == 1 .. MaxNames
Id == 0 .. MaxIds
NoId == MaxIds + 1

VARIABLES
  regist,       \* the server's registration pipe
  pipe,         \* the pipe of each name, and the client at its other end
  tasks,        \* the requests posted to the server's task thread
  server,       \* OnRegist: where it is, the id it answers, the new name
  client,       \* the state of each client's Regist task, and its m_name
  told,         \* history: which client has read which name,
  accepted,     \* ... the names for which OnRegist has returned true,
  ends          \* ... how often clients have ended

vars == <<regist, pipe, tasks, server, client, told, accepted, ends>>

NoPipe == [state |-> "none", mapped |-> FALSE, peer |-> Nobody, up |-> <<>>, down |-> <<>>, awaited |-> NoId, kept |-> FALSE]

(* conn: its end of the registration pipe; cut, until it finds out that    *)
(* the server has closed.  reply: the answer that is kept for it.          *)
NewClient ==
  [pc |-> "idle", tries |-> 0, next_id |-> 0, asked |-> NoId, conn |-> "none", reply |-> NoName, newName |-> NoName, m_name |-> NoName]

Init ==
  /\ regist = NoPipe
  /\ pipe = [n \in NewName |-> [state |-> "none", holder |-> Nobody]]
  /\ tasks = <<>>
  /\ server = [pc |-> "idle", id |-> NoId, newName |-> NoName]
  /\ client = [c \in Client |-> NewClient]
  /\ told = {}
  /\ accepted = {}
  /\ ends = 0

-----------------------------------------------------------------------------
(* The registration pipe, as PipeManager keeps it                          *)

CreateRegist ==
  /\ regist.state = "none"
  /\ regist' = [NoPipe EXCEPT !.state = "waiting", !.mapped = TRUE]
  /\ UNCHANGED <<pipe, tasks, server, client, told, accepted, ends>>

(* CloseAndReCreate, here from the heart beat: out of the map now, ...     *)
TakeOutRegist ==
  /\ regist.mapped
  /\ regist' = [regist EXCEPT !.mapped = FALSE]
  /\ UNCHANGED <<pipe, tasks, server, client, told, accepted, ends>>

(* ... closed by the loop thread later; so is a pipe whose client is gone. *)
CloseRegist ==
  /\ regist.state # "none"
  /\ ~regist.mapped \/ regist.state = "broken"
  /\ regist' = NoPipe
  /\ client' = [c \in Client |-> IF regist.peer = c /\ client[c].conn = "open" THEN [client[c] EXCEPT !.conn = "cut"] ELSE client[c]]
  /\ UNCHANGED <<pipe, tasks, server, told, accepted, ends>>

(* OnMessageReceived at the server: a request goes to the task thread, a   *)
(* confirmation to the OnRegist that waits for its id, if one does.        *)
ServerReceives ==
  /\ regist.up # <<>>
  /\ LET m == Head(regist.up)
     IN  /\ tasks' = IF m.kind = "ask" THEN Append(tasks, m.id) ELSE tasks
         /\ regist' = [regist EXCEPT !.up = Tail(@), !.kept = @ \/ (m.kind = "got" /\ m.id = regist.awaited)]
  /\ UNCHANGED <<pipe, server, client, told, accepted, ends>>

(* At the client: an answer to the id it waits for is kept.                *)
ClientReceives(c) ==
  /\ regist.peer = c /\ client[c].conn = "open"
  /\ regist.down # <<>>
  /\ LET m == Head(regist.down)
     IN  client' = [client EXCEPT ![c].reply = IF client[c].asked = m.id THEN m.name ELSE @]
  /\ regist' = [regist EXCEPT !.down = Tail(@)]
  /\ UNCHANGED <<pipe, tasks, server, told, accepted, ends>>

(* OnChannelError at a client: what was kept is deleted.                   *)
ClientSeesError(c) ==
  /\ client[c].conn = "cut"
  /\ client' = [client EXCEPT ![c].conn = "none", ![c].reply = NoName]
  /\ UNCHANGED <<regist, pipe, tasks, server, told, accepted, ends>>

-----------------------------------------------------------------------------
(* ClientPipeHelper::Regist                                                *)

Closed(n) == pipe[n].state = "closed"

(* The task of InitPipe, or of a Send that has failed.                     *)
Regist(c) ==
  /\ client[c].pc = "idle"
  /\ client[c].m_name # NoName => Closed(client[c].m_name)
  /\ client[c].next_id < MaxIds
  /\ client' = [client EXCEPT ![c].m_name = NoName, ![c].pc = "create", ![c].tries = 0]
  /\ UNCHANGED <<regist, pipe, tasks, server, told, accepted, ends>>

(* The for loop: two attempts.                                             *)
Again(cl) == [cl EXCEPT !.tries = @ + 1, !.pc = IF cl.tries + 1 < 2 THEN "create" ELSE "idle"]

CanConnect(c) == regist.state = "waiting" /\ client[c].conn = "none"

ConnectRegist(c) ==
  /\ client[c].pc = "create"
  /\ \/ /\ CanConnect(c)
        /\ regist' = [regist EXCEPT !.state = "connected", !.peer = c]
        /\ \E cl \in {[client[c] EXCEPT !.pc = "ask"], Again(client[c])} :
             client' = [client EXCEPT ![c] = [cl EXCEPT !.conn = "open"]]
     \/ /\ client' = [client EXCEPT ![c] = Again(@)]
        /\ UNCHANGED regist
  /\ UNCHANGED <<pipe, tasks, server, told, accepted, ends>>

(* Send with conn "cut" succeeds: the channel has not found out yet.       *)
WritesUp(c, m) ==
  regist' = IF regist.peer = c /\ client[c].conn = "open" THEN [regist EXCEPT !.up = Append(@, m)] ELSE regist

Ask(c) ==
  /\ client[c].pc = "ask"
  /\ client[c].next_id < MaxIds
  /\ WritesUp(c, [kind |-> "ask", id |-> client[c].next_id])
  /\ client' = [client EXCEPT ![c].pc = "wait", ![c].next_id = @ + 1, ![c].asked = client[c].next_id]
  /\ UNCHANGED <<pipe, tasks, server, told, accepted, ends>>

WaitEnds(c) ==
  /\ client[c].pc = "wait"
  /\ client' = [client EXCEPT ![c].pc = "reply", ![c].asked = NoId]
  /\ UNCHANGED <<regist, pipe, tasks, server, told, accepted, ends>>

(* GetReplyMsg and, when there is an answer, its confirmation.             *)
ReadReply(c) ==
  /\ client[c].pc = "reply"
  /\ client[c].reply # NoName
  /\ client' = [client EXCEPT ![c].pc = "open", ![c].newName = client[c].reply, ![c].reply = NoName]
  /\ WritesUp(c, [kind |-> "got", id |-> client[c].next_id - 1])
  /\ told' = told \union {<<c, client[c].reply>>}
  /\ UNCHANGED <<pipe, tasks, server, accepted, ends>>

(* Close(REGIST_PIPE_NAME) at the client's end.                            *)
HangUp(c) == IF regist.peer = c THEN [regist EXCEPT !.state = "broken", !.peer = Nobody, !.up = <<>>, !.down = <<>>] ELSE regist

GivesUp(c) ==
  /\ client' = [client EXCEPT ![c] = [Again(@) EXCEPT !.conn = "none", !.reply = NoName, !.newName = NoName]]
  /\ regist' = HangUp(c)

NoReply(c) ==
  /\ client[c].pc = "reply"
  /\ client[c].reply = NoName
  /\ GivesUp(c)
  /\ UNCHANGED <<pipe, tasks, server, told, accepted, ends>>

Opens(c, n) == pipe' = [pipe EXCEPT ![n] = [state |-> "connected", holder |-> c]]

OpenNewPipe(c) ==
  /\ client[c].pc = "open"
  /\ LET n == client[c].newName
     IN \/ /\ pipe[n].state = "waiting"
           /\ Opens(c, n)
           /\ client' = [client EXCEPT ![c].pc = "idle", ![c].m_name = n, ![c].newName = NoName]
           /\ UNCHANGED regist
        \/ /\ pipe[n].state = "waiting"
           /\ Opens(c, n)
           /\ GivesUp(c)
        \/ /\ UNCHANGED pipe
           /\ GivesUp(c)
  /\ UNCHANGED <<tasks, server, told, accepted, ends>>

(* The client's heart beat closes a registration pipe after 10 s.          *)
ClientHangsUp(c) ==
  /\ client[c].conn = "open"
  /\ client' = [client EXCEPT ![c].conn = "none"]
  /\ regist' = HangUp(c)
  /\ UNCHANGED <<pipe, tasks, server, told, accepted, ends>>

ClientEnds(c) ==
  /\ client[c] # NewClient
  /\ ends < MaxEnds
  /\ ends' = ends + 1
  /\ client' = [client EXCEPT ![c] = NewClient]
  /\ regist' = HangUp(c)
  /\ pipe' = [n \in NewName |-> IF pipe[n].holder = c THEN [state |-> "closed", holder |-> c] ELSE pipe[n]]
  /\ UNCHANGED <<tasks, server, told, accepted>>

-----------------------------------------------------------------------------
(* ServerPipeHelper::OnRegist                                              *)

TakeRequest ==
  /\ server.pc = "idle"
  /\ tasks # <<>>
  /\ server' = [pc |-> "create", id |-> Head(tasks), newName |-> NoName]
  /\ tasks' = Tail(tasks)
  /\ UNCHANGED <<regist, pipe, client, told, accepted, ends>>

(* Mutant: the name of a pipe that was closed is used again.               *)
FreshAgain == {n \in NewName : pipe[n].state \in {"none", "closed"}}

Fresh == {n \in NewName : pipe[n].state = "none"}

CreateNewPipe ==
  /\ server.pc = "create"
  /\ \E n \in Fresh :
       /\ \A m \in Fresh : n <= m
       /\ \/ /\ pipe' = [pipe EXCEPT ![n].state = "waiting"]
             /\ server' \in {[server EXCEPT !.pc = "answer", !.newName = n], [server EXCEPT !.pc = "end"]}
          \/ /\ server' = [server EXCEPT !.pc = "end"]
             /\ UNCHANGED pipe
  /\ UNCHANGED <<regist, tasks, client, told, accepted, ends>>

(* The answer goes into whatever registration pipe is there now.           *)
Answer ==
  /\ server.pc = "answer"
  /\ regist' = IF regist.mapped
               THEN [regist EXCEPT !.down = Append(@, [id |-> server.id, name |-> server.newName]), !.awaited = server.id]
               ELSE regist
  /\ server' = [server EXCEPT !.pc = "wait"]
  /\ UNCHANGED <<pipe, tasks, client, told, accepted, ends>>

(* Mutant: the end of the wait counts as the confirmation.                 *)
ConfirmAnyway ==
  /\ server.pc = "wait"
  /\ accepted' = accepted \union {server.newName}
  /\ regist' = [regist EXCEPT !.awaited = NoId, !.kept = FALSE]
  /\ server' = [server EXCEPT !.pc = "end"]
  /\ UNCHANGED <<pipe, tasks, client, told, ends>>

(* The confirmation or the time-out; without it the pipe is closed again.  *)
Confirm ==
  /\ server.pc = "wait"
  /\ \/ /\ regist.mapped /\ regist.kept
        /\ accepted' = accepted \union {server.newName}
        /\ UNCHANGED pipe
     \/ /\ ~(regist.mapped /\ regist.kept)
        /\ pipe' = [pipe EXCEPT ![server.newName].state = "closed"]
        /\ UNCHANGED accepted
  /\ regist' = [regist EXCEPT !.awaited = NoId, !.kept = FALSE]
  /\ server' = [server EXCEPT !.pc = "end"]
  /\ UNCHANGED <<tasks, client, told, ends>>

(* CloseAndReCreate(REGIST_PIPE_NAME, true)                                *)
OnRegistReturns ==
  /\ server.pc = "end"
  /\ server' = [pc |-> "idle", id |-> NoId, newName |-> NoName]
  /\ regist' = [regist EXCEPT !.mapped = FALSE]
  /\ UNCHANGED <<pipe, tasks, client, told, accepted, ends>>

-----------------------------------------------------------------------------
Next ==
  \/ CreateRegist \/ TakeOutRegist \/ CloseRegist \/ ServerReceives
  \/ TakeRequest \/ CreateNewPipe \/ Answer \/ Confirm \/ OnRegistReturns
  \/ \E c \in Client :
       \/ ClientReceives(c) \/ ClientSeesError(c) \/ Regist(c) \/ ConnectRegist(c) \/ Ask(c) \/ WaitEnds(c)
       \/ ReadReply(c) \/ NoReply(c) \/ OpenNewPipe(c) \/ ClientHangsUp(c) \/ ClientEnds(c)

Spec == Init /\ [][Next]_vars

-----------------------------------------------------------------------------
(* The third handshake means what it should: the server accepts a          *)
(* registration only when a client has read the name, although answers and *)
(* confirmations carry ids that other clients use too, may come late, and  *)
(* may reach another client over the next registration pipe                *)
(* (PipeHelper.cpp:119-140, 330-364).                                      *)
AcceptedWasTold == \A n \in accepted : \E c \in Client : <<c, n>> \in told

(* A name is read by one client only, and a client that goes by a name has *)
(* that pipe to itself until it is closed (PipeHelper.cpp:132-150).        *)
NameIsMine ==
  /\ \A c, d \in Client : \A n \in NewName : <<c, n>> \in told /\ <<d, n>> \in told => c = d
  /\ \A c \in Client : client[c].m_name # NoName => pipe[client[c].m_name].holder = c
=============================================================================
