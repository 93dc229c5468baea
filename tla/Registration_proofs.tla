------------------------ MODULE Registration_proofs ------------------------
(***************************************************************************)
(* The registration, for any number of clients, requests and names: what   *)
(* the server accepts was read by a client, and nobody else reads or uses  *)
(* a client's name.  Both rest on what a registration pipe is used for:    *)
(* one client asks over it once, and one answer goes into it, so that      *)
(* whatever is kept for the client or in flight to it is that answer       *)
(* (AnswerInv), and a name is in one place only (NamesInv).                *)
(***************************************************************************)
EXTENDS Registration, SequenceTheorems, TLAPS

-----------------------------------------------------------------------------
(* Lists                                                                   *)

(* Nothing is behind the head of a list of one.                            *)
LEMMA TailOfOne ==
  ASSUME NEW S, NEW s \in Seq(S), s # <<>>, Len(s) <= 1
  PROVE  Tail(s) = <<>>
<1>1. Len(s) = 1
  <2>1. Len(s) \in Nat /\ Len(s) # 0
    BY LenProperties, EmptySeq
  <2>2. QED
    BY <2>1
<1>2. Tail(s) \in Seq(S) /\ Len(Tail(s)) = 0
  BY <1>1, HeadTailProperties
<1>3. QED
  BY <1>2, EmptySeq

Request == [kind : {"ask", "got"}, id : Id]
Reply == [id : Id, name : NewName]

RegistType ==
  [state : {"none", "waiting", "connected", "broken"}, mapped : BOOLEAN, peer : Client \union {Nobody},
   up : Seq(Request), down : Seq(Reply), awaited : Id \union {NoId}, kept : BOOLEAN]

PipeType == [state : {"none", "waiting", "connected", "closed"}, holder : Client \union {Nobody}]

ServerType == [pc : {"idle", "create", "answer", "wait", "end"}, id : Id \union {NoId}, newName : NewName \union {NoName}]

ClientType ==
  [pc : {"idle", "create", "ask", "wait", "reply", "open"}, tries : Nat, next_id : Id, asked : Id \union {NoId},
   conn : {"none", "open", "cut"}, reply : NewName \union {NoName}, newName : NewName \union {NoName},
   m_name : NewName \union {NoName}]

TypeOK ==
  /\ regist \in RegistType
  /\ pipe \in [NewName -> PipeType]
  /\ tasks \in Seq(Id)
  /\ server \in ServerType
  /\ client \in [Client -> ClientType]
  /\ told \subseteq Client \X NewName
  /\ accepted \subseteq NewName
  /\ ends \in 0 .. MaxEnds

(* An answer is kept only between a request and the reading of its answer. *)
ClientInv ==
  \A c \in Client :
    /\ client[c].asked # NoId => client[c].pc = "wait"
    /\ client[c].pc \in {"wait", "reply"} => client[c].next_id > 0
    /\ client[c].reply # NoName => client[c].pc \in {"wait", "reply"}
    /\ client[c].pc = "open" => client[c].newName # NoName
    /\ client[c].newName # NoName => <<c, client[c].newName>> \in told

ServerInv ==
  /\ server.pc # "idle" => server.id \in Id
  /\ server.pc \in {"answer", "wait"} => server.newName # NoName
  /\ regist.awaited # NoId => server.pc = "wait"

(* What comes out of the registration pipe of the map, while OnRegist has  *)
(* not done with it, is due to the answer that waits for confirmation.     *)
Answered == regist.awaited # NoId

GotIn(up) == \E i \in DOMAIN up : up[i].kind = "got"

AnswerInv ==
  regist.mapped /\ server.pc # "end" =>
    /\ regist.down # <<>> => Answered /\ Head(regist.down).name = server.newName
    /\ \A c \in Client :
         regist.peer = c /\ client[c].conn = "open" /\ client[c].reply # NoName => Answered /\ client[c].reply = server.newName
    /\ regist.kept \/ GotIn(regist.up) => Answered /\ \E c \in Client : <<c, server.newName>> \in told

(* Where a name can be on its way from the server to one client.           *)
AtServer(n) == server.pc = "answer" /\ server.newName = n
Sent(n) == regist.down # <<>> /\ Head(regist.down).name = n
Kept(c, n) == client[c].reply = n
Read(c, n) == <<c, n>> \in told

NamesInv ==
  /\ Len(regist.down) <= 1
  /\ \A n \in NewName :
       pipe[n].state = "none" => ~AtServer(n) /\ ~Sent(n) /\ \A c \in Client : ~Kept(c, n) /\ ~Read(c, n)
  /\ \A n \in NewName : \A c \in Client :
       /\ AtServer(n) => ~Sent(n) /\ ~Kept(c, n) /\ ~Read(c, n)
       /\ Sent(n) => ~Kept(c, n) /\ ~Read(c, n)
       /\ \A d \in Client : Kept(c, n) => ~Read(d, n)
       /\ \A d \in Client : c # d => ~(Kept(c, n) /\ Kept(d, n)) /\ ~(Read(c, n) /\ Read(d, n))

HolderInv ==
  \A c \in Client : client[c].m_name # NoName =>
    pipe[client[c].m_name].holder = c /\ <<c, client[c].m_name>> \in told

RegistrationInv == TypeOK /\ ClientInv /\ ServerInv /\ AnswerInv /\ NamesInv /\ HolderInv /\ AcceptedWasTold

-----------------------------------------------------------------------------
(* The special values are none of the ordinary ones.                       *)
LEMMA Specials ==
  /\ NoId \notin Id /\ NoId \in Nat /\ Id \subseteq Nat
  /\ NoName \notin NewName /\ NewName \subseteq Nat
  /\ \A n \in NewName : n # NoName
  /\ Nobody \notin Client
BY RegistrationAssumption DEF NoId, Id, NoName, NewName

(* What the code shared by several actions makes of a record.              *)
LEMMA AgainType ==
  ASSUME NEW cl \in ClientType
  PROVE  Again(cl) \in ClientType /\ [Again(cl) EXCEPT !.conn = "none", !.reply = NoName, !.newName = NoName] \in ClientType
<1>1. Again(cl) \in ClientType
  <2>1. cl.tries + 1 \in Nat
    BY DEF ClientType
  <2>2. ASSUME NEW t \in Nat, NEW pc \in {"create", "idle"}
        PROVE  [cl EXCEPT !.tries = t, !.pc = pc] \in ClientType
    BY DEF ClientType
  <2>3. QED
    BY <2>1, <2>2 DEF Again
<1>2. ASSUME NEW d \in ClientType
      PROVE  [d EXCEPT !.conn = "none", !.reply = NoName, !.newName = NoName] \in ClientType
  BY DEF ClientType
<1>3. QED
  BY <1>1, <1>2

LEMMA AgainKeeps ==
  ASSUME NEW cl \in ClientType
  PROVE  /\ Again(cl).pc \in {"create", "idle"}
         /\ Again(cl).asked = cl.asked /\ Again(cl).conn = cl.conn /\ Again(cl).reply = cl.reply
         /\ Again(cl).newName = cl.newName /\ Again(cl).m_name = cl.m_name
BY DEF ClientType, Again

LEMMA HangUpType ==
  ASSUME regist \in RegistType, NEW c \in Client
  PROVE  HangUp(c) \in RegistType
<1>1. [regist EXCEPT !.state = "broken", !.peer = Nobody, !.up = <<>>, !.down = <<>>] \in RegistType
  <2>1. <<>> \in Seq(Request) /\ <<>> \in Seq(Reply)
    OBVIOUS
  <2>2. QED
    BY <2>1 DEF RegistType
<1>2. QED
  BY <1>1 DEF HangUp

LEMMA HangUpKeeps ==
  ASSUME regist \in RegistType, NEW c \in Client
  PROVE  /\ HangUp(c).mapped = regist.mapped /\ HangUp(c).awaited = regist.awaited /\ HangUp(c).kept = regist.kept
         /\ HangUp(c).peer \in {regist.peer, Nobody} /\ HangUp(c).peer # c
         /\ HangUp(c).up \in {regist.up, <<>>} /\ HangUp(c).down \in {regist.down, <<>>}
BY Specials DEF RegistType, HangUp

LEMMA WritesUpType ==
  ASSUME regist \in RegistType, NEW c, NEW m \in Request, WritesUp(c, m)
  PROVE  regist' \in RegistType
<1>1. regist.up \in Seq(Request)
  BY DEF RegistType
<1>2. Append(regist.up, m) \in Seq(Request)
  BY <1>1
<1>3. [regist EXCEPT !.up = Append(regist.up, m)] \in RegistType
  BY <1>2 DEF RegistType
<1>4. QED
  BY <1>3 DEF WritesUp

LEMMA WritesUpKeeps ==
  ASSUME regist \in RegistType, NEW c, NEW m \in Request, WritesUp(c, m)
  PROVE  /\ regist'.mapped = regist.mapped /\ regist'.awaited = regist.awaited /\ regist'.kept = regist.kept
         /\ regist'.peer = regist.peer /\ regist'.down = regist.down
         /\ \/ regist'.up = regist.up
            \/ regist'.up = Append(regist.up, m) /\ regist.peer = c /\ client[c].conn = "open"
BY DEF RegistType, WritesUp

LEMMA NewTypes == NoPipe \in RegistType /\ NewClient \in ClientType
<1>1. NoPipe \in RegistType
  BY RegistrationAssumption DEF NoPipe, RegistType
<1>2. NewClient \in ClientType
  BY RegistrationAssumption DEF NewClient, ClientType, Id, NoId, NewName, NoName
<1>3. QED
  BY <1>1, <1>2

-----------------------------------------------------------------------------
(* Every step keeps the types.                                             *)
LEMMA RegistTypeStep == TypeOK /\ ClientInv /\ ServerInv /\ [Next]_vars => (regist \in RegistType)'
<1> SUFFICES ASSUME TypeOK, ClientInv, ServerInv, [Next]_vars
             PROVE  regist' \in RegistType
  OBVIOUS
<1> USE DEF TypeOK
<1>1. CASE CreateRegist \/ CloseRegist
  BY <1>1, NewTypes DEF CreateRegist, CloseRegist, RegistType
<1>2. CASE TakeOutRegist \/ OnRegistReturns
  <2>1. regist' = [regist EXCEPT !.mapped = FALSE]
    BY <1>2 DEF TakeOutRegist, OnRegistReturns
  <2>2. QED
    BY <2>1 DEF RegistType
<1>3. CASE ServerReceives
  <2>1. regist.up \in Seq(Request) /\ regist.kept \in BOOLEAN
    BY DEF RegistType
  <2>2. Tail(regist.up) \in Seq(Request)
    BY <1>3, <2>1 DEF ServerReceives
  <2>3. ASSUME NEW b \in BOOLEAN
        PROVE  [regist EXCEPT !.up = Tail(regist.up), !.kept = b] \in RegistType
    BY <2>2 DEF RegistType
  <2>4. QED
    BY <1>3, <2>1, <2>3 DEF ServerReceives
<1>4. CASE Answer
  <2>1. [id |-> server.id, name |-> server.newName] \in Reply /\ server.id \in Id
    BY <1>4, Specials DEF Answer, ServerInv, ServerType, Reply
  <2>2. regist.down \in Seq(Reply)
    BY DEF RegistType
  <2>3. Append(regist.down, [id |-> server.id, name |-> server.newName]) \in Seq(Reply)
    BY <2>1, <2>2
  <2>4. [regist EXCEPT !.down = Append(regist.down, [id |-> server.id, name |-> server.newName]), !.awaited = server.id]
          \in RegistType
    BY <2>1, <2>3 DEF RegistType
  <2>5. QED
    BY <1>4, <2>4 DEF Answer
<1>5. CASE Confirm
  <2>1. regist' = [regist EXCEPT !.awaited = NoId, !.kept = FALSE]
    BY <1>5 DEF Confirm
  <2>2. QED
    BY <2>1 DEF RegistType
<1>6. ASSUME NEW c \in Client, ClientReceives(c)
      PROVE  regist' \in RegistType
  <2>1. regist' = [regist EXCEPT !.down = Tail(@)] /\ regist.down # <<>>
    BY <1>6 DEF ClientReceives
  <2>2. regist.down \in Seq(Reply)
    BY DEF RegistType
  <2>3. Tail(regist.down) \in Seq(Reply)
    BY <2>1, <2>2
  <2>4. QED
    BY <2>1, <2>3 DEF RegistType
<1>7. ASSUME NEW c \in Client, ConnectRegist(c)
      PROVE  regist' \in RegistType
  <2>1. regist' = [regist EXCEPT !.state = "connected", !.peer = c] \/ regist' = regist
    BY <1>7 DEF ConnectRegist
  <2>2. QED
    BY <2>1 DEF RegistType
<1>8. ASSUME NEW c \in Client, Ask(c)
      PROVE  regist' \in RegistType
  <2>1. [kind |-> "ask", id |-> client[c].next_id] \in Request
    BY DEF Request, ClientType
  <2>2. QED
    BY <1>8, <2>1, WritesUpType DEF Ask
<1>9. ASSUME NEW c \in Client, ReadReply(c)
      PROVE  regist' \in RegistType
  <2>1. client[c].next_id > 0 /\ client[c].next_id \in Id
    BY <1>9 DEF ReadReply, ClientInv, ClientType
  <2>2. [kind |-> "got", id |-> client[c].next_id - 1] \in Request
    BY <2>1, RegistrationAssumption DEF Request, Id
  <2>3. QED
    BY <1>9, <2>2, WritesUpType DEF ReadReply
<1>10. ASSUME NEW c \in Client, NoReply(c) \/ OpenNewPipe(c) \/ ClientHangsUp(c) \/ ClientEnds(c)
       PROVE  regist' \in RegistType
  <2>1. regist' = HangUp(c) \/ regist' = regist
    BY <1>10 DEF NoReply, OpenNewPipe, ClientHangsUp, ClientEnds, GivesUp
  <2>2. QED
    BY <2>1, HangUpType
<1>11. ASSUME NEW c \in Client, ClientSeesError(c) \/ Regist(c) \/ WaitEnds(c)
       PROVE  regist' \in RegistType
  BY <1>11 DEF ClientSeesError, Regist, WaitEnds
<1>12. CASE TakeRequest \/ CreateNewPipe \/ UNCHANGED vars
  BY <1>12 DEF TakeRequest, CreateNewPipe, vars
<1>13. QED
  BY <1>1, <1>2, <1>3, <1>4, <1>5, <1>6, <1>7, <1>8, <1>9, <1>10, <1>11, <1>12 DEF Next

LEMMA ClientTypeStep == TypeOK /\ ClientInv /\ [Next]_vars => (client \in [Client -> ClientType])'
<1> SUFFICES ASSUME TypeOK, ClientInv, [Next]_vars
             PROVE  client' \in [Client -> ClientType]
  OBVIOUS
<1> USE DEF TypeOK
<1>1. ASSUME NEW c \in Client, NEW cl \in ClientType, client' = [client EXCEPT ![c] = cl]
      PROVE  client' \in [Client -> ClientType]
  BY <1>1
<1>2. \A c \in Client : client[c] \in ClientType
  OBVIOUS
<1>3. CASE CloseRegist
  <2>1. \A c \in Client : [client[c] EXCEPT !.conn = "cut"] \in ClientType
    BY <1>2 DEF ClientType
  <2>2. QED
    BY <1>2, <1>3, <2>1 DEF CloseRegist
<1>4. ASSUME NEW c \in Client, ClientReceives(c)
      PROVE  client' \in [Client -> ClientType]
  <2>1. Head(regist.down) \in Reply
    BY <1>4 DEF ClientReceives, RegistType
  <2>2. Head(regist.down).name \in NewName /\ client[c].reply \in NewName \union {NoName}
    BY <1>2, <2>1 DEF Reply, ClientType
  <2>3. ASSUME NEW r \in NewName \union {NoName}
        PROVE  [client[c] EXCEPT !.reply = r] \in ClientType
    BY <1>2 DEF ClientType
  <2>4. QED
    BY <1>1, <1>4, <2>2, <2>3 DEF ClientReceives
<1>5. ASSUME NEW c \in Client, ClientSeesError(c)
      PROVE  client' \in [Client -> ClientType]
  <2>1. [client[c] EXCEPT !.conn = "none", !.reply = NoName] \in ClientType
    BY <1>2 DEF ClientType
  <2>2. QED
    BY <1>1, <1>5, <2>1 DEF ClientSeesError
<1>6. ASSUME NEW c \in Client, Regist(c)
      PROVE  client' \in [Client -> ClientType]
  <2>1. [client[c] EXCEPT !.m_name = NoName, !.pc = "create", !.tries = 0] \in ClientType
    BY <1>2 DEF ClientType
  <2>2. QED
    BY <1>1, <1>6, <2>1 DEF Regist
<1>7. ASSUME NEW c \in Client, ConnectRegist(c)
      PROVE  client' \in [Client -> ClientType]
  <2>1. [client[c] EXCEPT !.pc = "ask"] \in ClientType
    BY <1>2 DEF ClientType
  <2>2. Again(client[c]) \in ClientType
    BY <1>2, AgainType
  <2>3. \A cl \in ClientType : [cl EXCEPT !.conn = "open"] \in ClientType
    BY DEF ClientType
  <2>4. QED
    BY <1>1, <1>7, <2>1, <2>2, <2>3 DEF ConnectRegist
<1>8. ASSUME NEW c \in Client, Ask(c)
      PROVE  client' \in [Client -> ClientType]
  <2>1. client[c].next_id \in Id /\ client[c].next_id + 1 \in Id
    BY <1>2, <1>8, RegistrationAssumption DEF Ask, ClientType, Id
  <2>2. ASSUME NEW i \in Id, NEW j \in Id
        PROVE  [client[c] EXCEPT !.pc = "wait", !.next_id = j, !.asked = i] \in ClientType
    BY <1>2 DEF ClientType
  <2>3. QED
    BY <1>1, <1>8, <2>1, <2>2 DEF Ask
<1>9. ASSUME NEW c \in Client, WaitEnds(c)
      PROVE  client' \in [Client -> ClientType]
  <2>1. [client[c] EXCEPT !.pc = "reply", !.asked = NoId] \in ClientType
    BY <1>2 DEF ClientType
  <2>2. QED
    BY <1>1, <1>9, <2>1 DEF WaitEnds
<1>10. ASSUME NEW c \in Client, ReadReply(c)
       PROVE  client' \in [Client -> ClientType]
  <2>1. [client[c] EXCEPT !.pc = "open", !.newName = client[c].reply, !.reply = NoName] \in ClientType
    BY <1>2 DEF ClientType
  <2>2. QED
    BY <1>1, <1>10, <2>1 DEF ReadReply
<1>11. ASSUME NEW c \in Client, GivesUp(c)
       PROVE  client' \in [Client -> ClientType]
  <2>1. [Again(client[c]) EXCEPT !.conn = "none", !.reply = NoName, !.newName = NoName] \in ClientType
    BY <1>2, AgainType
  <2>2. QED
    BY <1>1, <1>11, <2>1 DEF GivesUp
<1>12. ASSUME NEW c \in Client, OpenNewPipe(c)
       PROVE  client' \in [Client -> ClientType]
  <2>1. [client[c] EXCEPT !.pc = "idle", !.m_name = client[c].newName, !.newName = NoName] \in ClientType
    BY <1>2 DEF ClientType
  <2>2. GivesUp(c) \/ client' = [client EXCEPT ![c] = [client[c] EXCEPT !.pc = "idle", !.m_name = client[c].newName, !.newName = NoName]]
    BY <1>12 DEF OpenNewPipe
  <2>3. QED
    BY <1>1, <1>11, <2>1, <2>2
<1>13. ASSUME NEW c \in Client, ClientHangsUp(c) \/ ClientEnds(c)
       PROVE  client' \in [Client -> ClientType]
  <2>1. [client[c] EXCEPT !.conn = "none"] \in ClientType /\ NewClient \in ClientType
    BY <1>2, NewTypes DEF ClientType
  <2>2. QED
    BY <1>1, <1>13, <2>1 DEF ClientHangsUp, ClientEnds
<1>14. CASE client' = client
  BY <1>14
<1>15. QED
  BY <1>3, <1>4, <1>5, <1>6, <1>7, <1>8, <1>9, <1>10, <1>11, <1>12, <1>13, <1>14
     DEF Next, vars, NoReply, CreateRegist, TakeOutRegist, ServerReceives, TakeRequest, CreateNewPipe, Answer, Confirm,
         OnRegistReturns

LEMMA ServerTypeStep ==
  TypeOK /\ ClientInv /\ ServerInv /\ [Next]_vars =>
    (tasks \in Seq(Id) /\ server \in ServerType /\ pipe \in [NewName -> PipeType])'
<1> SUFFICES ASSUME TypeOK, ClientInv, ServerInv, [Next]_vars
             PROVE  tasks' \in Seq(Id) /\ server' \in ServerType /\ pipe' \in [NewName -> PipeType]
  OBVIOUS
<1> USE DEF TypeOK
<1>1. ASSUME NEW n \in NewName, NEW s \in {"waiting", "closed"}
      PROVE  [pipe EXCEPT ![n].state = s] \in [NewName -> PipeType]
  BY DEF PipeType
<1>2. CASE ServerReceives
  <2>1. Head(regist.up) \in Request
    BY <1>2 DEF ServerReceives, RegistType
  <2>2. Head(regist.up).id \in Id
    BY <2>1 DEF Request
  <2>3. QED
    BY <1>2, <2>2 DEF ServerReceives
<1>3. CASE TakeRequest
  <2>1. Head(tasks) \in Id /\ Tail(tasks) \in Seq(Id)
    BY <1>3 DEF TakeRequest
  <2>2. QED
    BY <1>3, <2>1 DEF TakeRequest, ServerType
<1>4. CASE CreateNewPipe
  <2>1. PICK n \in Fresh : /\ pipe' \in {pipe, [pipe EXCEPT ![n].state = "waiting"]}
                           /\ server' \in {[server EXCEPT !.pc = "answer", !.newName = n], [server EXCEPT !.pc = "end"]}
                           /\ tasks' = tasks
    BY <1>4 DEF CreateNewPipe
  <2>2. n \in NewName
    BY DEF Fresh
  <2>3. server' \in ServerType
    BY <2>1, <2>2 DEF ServerType
  <2>4. QED
    BY <1>1, <2>1, <2>2, <2>3
<1>5. CASE Answer
  BY <1>5 DEF Answer, ServerType
<1>6. CASE Confirm
  <2>1. server.newName \in NewName
    BY <1>6 DEF Confirm, ServerInv, ServerType
  <2>2. pipe' \in {pipe, [pipe EXCEPT ![server.newName].state = "closed"]}
    BY <1>6 DEF Confirm
  <2>3. server' \in ServerType
    BY <1>6 DEF Confirm, ServerType
  <2>4. QED
    BY <1>1, <1>6, <2>1, <2>2, <2>3 DEF Confirm
<1>7. CASE OnRegistReturns
  BY <1>7 DEF OnRegistReturns, ServerType
<1>8. ASSUME NEW c \in Client, OpenNewPipe(c)
      PROVE  pipe' \in [NewName -> PipeType] /\ UNCHANGED <<tasks, server>>
  <2>1. [state |-> "connected", holder |-> c] \in PipeType
    BY DEF PipeType
  <2>2. QED
    BY <1>8, <2>1 DEF OpenNewPipe, Opens
<1>9. ASSUME NEW c \in Client, ClientEnds(c)
      PROVE  pipe' \in [NewName -> PipeType] /\ UNCHANGED <<tasks, server>>
  <2>1. [state |-> "closed", holder |-> c] \in PipeType
    BY DEF PipeType
  <2>2. QED
    BY <1>9, <2>1 DEF ClientEnds
<1>10. CASE UNCHANGED <<tasks, server, pipe>>
  BY <1>10
<1>11. QED
  BY <1>2, <1>3, <1>4, <1>5, <1>6, <1>7, <1>8, <1>9, <1>10
     DEF Next, vars, CreateRegist, TakeOutRegist, CloseRegist, ClientReceives, ClientSeesError, Regist, ConnectRegist, Ask,
         WaitEnds, ReadReply, NoReply, ClientHangsUp

LEMMA TypeStep == TypeOK /\ ClientInv /\ ServerInv /\ [Next]_vars => TypeOK'
<1> SUFFICES ASSUME TypeOK, ClientInv, ServerInv, [Next]_vars
             PROVE  TypeOK'
  OBVIOUS
<1>1. (told \subseteq Client \X NewName)'
  <2>1. ASSUME NEW c \in Client, ReadReply(c)
        PROVE  <<c, client[c].reply>> \in Client \X NewName
    BY <2>1 DEF ReadReply, TypeOK, ClientType
  <2>2. told' = told \/ \E c \in Client : ReadReply(c) /\ told' = told \union {<<c, client[c].reply>>}
    BY DEF Next, vars, CreateRegist, TakeOutRegist, CloseRegist, ServerReceives, TakeRequest, CreateNewPipe, Answer, Confirm,
           OnRegistReturns, ClientReceives, ClientSeesError, Regist, ConnectRegist, Ask, WaitEnds, ReadReply, NoReply,
           OpenNewPipe, ClientHangsUp, ClientEnds
  <2>3. QED
    BY <2>1, <2>2 DEF TypeOK
<1>2. (accepted \subseteq NewName)'
  <2>1. Confirm => server.newName \in NewName
    BY DEF Confirm, TypeOK, ServerInv, ServerType
  <2>2. accepted' = accepted \/ (Confirm /\ accepted' = accepted \union {server.newName})
    BY DEF Next, vars, CreateRegist, TakeOutRegist, CloseRegist, ServerReceives, TakeRequest, CreateNewPipe, Answer, Confirm,
           OnRegistReturns, ClientReceives, ClientSeesError, Regist, ConnectRegist, Ask, WaitEnds, ReadReply, NoReply,
           OpenNewPipe, ClientHangsUp, ClientEnds
  <2>3. QED
    BY <2>1, <2>2 DEF TypeOK
<1>3. (ends \in 0 .. MaxEnds)'
  <2>1. ends' = ends \/ (ends < MaxEnds /\ ends' = ends + 1)
    BY DEF Next, vars, CreateRegist, TakeOutRegist, CloseRegist, ServerReceives, TakeRequest, CreateNewPipe, Answer, Confirm,
           OnRegistReturns, ClientReceives, ClientSeesError, Regist, ConnectRegist, Ask, WaitEnds, ReadReply, NoReply,
           OpenNewPipe, ClientHangsUp, ClientEnds
  <2>2. QED
    BY <2>1, RegistrationAssumption DEF TypeOK
<1>4. QED
  BY <1>1, <1>2, <1>3, RegistTypeStep, ClientTypeStep, ServerTypeStep DEF TypeOK

-----------------------------------------------------------------------------
(* A client is what it does itself, but for the end of its connection.     *)
LEMMA OthersStay ==
  ASSUME TypeOK, NEW c \in Client, NEW cl, client' = [client EXCEPT ![c] = cl]
  PROVE  client'[c] = cl /\ \A d \in Client \ {c} : client'[d] = client[d]
BY DEF TypeOK

(* ClientInv speaks of each client by itself and of told, which grows.     *)
ClientFine(cl, c) ==
  /\ cl.asked # NoId => cl.pc = "wait"
  /\ cl.pc \in {"wait", "reply"} => cl.next_id > 0
  /\ cl.reply # NoName => cl.pc \in {"wait", "reply"}
  /\ cl.pc = "open" => cl.newName # NoName
  /\ cl.newName # NoName => <<c, cl.newName>> \in told

LEMMA OneClientStep ==
  ASSUME TypeOK, ClientInv, told \subseteq told',
         NEW c \in Client, NEW cl, client' = [client EXCEPT ![c] = cl], ClientFine(cl, c)
  PROVE  ClientInv'
<1>1. client'[c] = cl /\ \A d \in Client \ {c} : client'[d] = client[d]
  BY OthersStay
<1>2. QED
  BY <1>1 DEF ClientInv, ClientFine

(* An answer finds only a client that waits for one.                       *)
LEMMA ClientStep == TypeOK /\ ClientInv /\ ServerInv /\ [Next]_vars => ClientInv'
<1> SUFFICES ASSUME TypeOK, ClientInv, ServerInv, [Next]_vars
             PROVE  ClientInv'
  OBVIOUS
<1>1. \A c \in Client : client[c] \in ClientType /\ ClientFine(client[c], c)
  BY DEF TypeOK, ClientInv, ClientFine
<1>2. CASE CloseRegist
  <2>1. told' = told /\ \A c \in Client : client'[c] \in {client[c], [client[c] EXCEPT !.conn = "cut"]}
    BY <1>2 DEF CloseRegist
  <2>2. \A c \in Client :
          /\ client'[c].pc = client[c].pc /\ client'[c].next_id = client[c].next_id /\ client'[c].asked = client[c].asked
          /\ client'[c].reply = client[c].reply /\ client'[c].newName = client[c].newName
    BY <1>1, <2>1 DEF ClientType
  <2>3. QED
    BY <2>1, <2>2 DEF ClientInv
<1>3. ASSUME NEW c \in Client, ClientReceives(c)
      PROVE  ClientInv'
  <2>1. Head(regist.down) \in Reply
    BY <1>3 DEF ClientReceives, TypeOK, RegistType
  <2>2. Head(regist.down).id # NoId /\ Head(regist.down).name \in NewName
    BY <2>1, Specials DEF Reply
  <2>3. told' = told
    BY <1>3 DEF ClientReceives
  <2>4. CASE client[c].asked # Head(regist.down).id
    <3>1. client'[c] = client[c] /\ \A d \in Client \ {c} : client'[d] = client[d]
      BY <1>1, <1>3, <2>4 DEF ClientReceives, TypeOK, ClientType
    <3>2. QED
      BY <2>3, <3>1 DEF ClientInv
  <2>5. CASE client[c].asked = Head(regist.down).id
    <3>1. client' = [client EXCEPT ![c] = [client[c] EXCEPT !.reply = Head(regist.down).name]]
      BY <1>3, <2>5 DEF ClientReceives, TypeOK
    <3>2. [client[c] EXCEPT !.reply = Head(regist.down).name] \in ClientType
      BY <1>1, <2>2 DEF ClientType
    <3>3. ClientFine([client[c] EXCEPT !.reply = Head(regist.down).name], c)
      BY <1>1, <2>2, <2>5 DEF ClientFine, ClientType
    <3>4. QED
      BY <2>3, <3>1, <3>2, <3>3, OneClientStep
  <2>6. QED
    BY <2>4, <2>5
<1>4. ASSUME NEW c \in Client, ClientSeesError(c)
      PROVE  ClientInv'
  <2>1. ClientFine([client[c] EXCEPT !.conn = "none", !.reply = NoName], c)
    BY <1>1 DEF ClientFine, ClientType
  <2>2. QED
    BY <1>4, <2>1, OneClientStep DEF ClientSeesError
<1>5. ASSUME NEW c \in Client, Regist(c)
      PROVE  ClientInv'
  <2>1. ClientFine([client[c] EXCEPT !.m_name = NoName, !.pc = "create", !.tries = 0], c)
    BY <1>1, <1>5 DEF Regist, ClientFine, ClientType
  <2>2. QED
    BY <1>5, <2>1, OneClientStep DEF Regist
<1>6. ASSUME NEW c \in Client, ConnectRegist(c)
      PROVE  ClientInv'
  <2>1. client[c].pc = "create"
    BY <1>6 DEF ConnectRegist
  <2>2. ClientFine([client[c] EXCEPT !.pc = "ask"], c) /\ [client[c] EXCEPT !.pc = "ask"] \in ClientType
    BY <1>1, <2>1 DEF ClientFine, ClientType
  <2>3. Again(client[c]) \in ClientType
    BY <1>1, AgainType
  <2>4. ClientFine(Again(client[c]), c)
    BY <1>1, <2>1, AgainKeeps DEF ClientFine
  <2>5. ASSUME NEW cl \in ClientType, ClientFine(cl, c)
        PROVE  ClientFine([cl EXCEPT !.conn = "open"], c)
    BY <2>5 DEF ClientFine, ClientType
  <2>6. told' = told /\ \E cl \in ClientType : ClientFine(cl, c) /\ client' = [client EXCEPT ![c] = cl]
    <3>1. [[client[c] EXCEPT !.pc = "ask"] EXCEPT !.conn = "open"] \in ClientType /\ [Again(client[c]) EXCEPT !.conn = "open"] \in ClientType
      BY <2>2, <2>3 DEF ClientType
    <3>2. QED
      BY <1>6, <2>2, <2>3, <2>4, <2>5, <3>1 DEF ConnectRegist
  <2>7. QED
    BY <2>6, OneClientStep
<1>7. ASSUME NEW c \in Client, Ask(c)
      PROVE  ClientInv'
  <2>1. client[c].next_id \in Nat
    BY <1>1, Specials DEF ClientType
  <2>2. ClientFine([client[c] EXCEPT !.pc = "wait", !.next_id = client[c].next_id + 1, !.asked = client[c].next_id], c)
    BY <1>1, <1>7, <2>1 DEF Ask, ClientFine, ClientType
  <2>3. QED
    BY <1>7, <2>2, OneClientStep DEF Ask
<1>8. ASSUME NEW c \in Client, WaitEnds(c)
      PROVE  ClientInv'
  <2>1. ClientFine([client[c] EXCEPT !.pc = "reply", !.asked = NoId], c)
    BY <1>1, <1>8 DEF WaitEnds, ClientFine, ClientType
  <2>2. QED
    BY <1>8, <2>1, OneClientStep DEF WaitEnds
<1>9. ASSUME NEW c \in Client, ReadReply(c)
      PROVE  ClientInv'
  <2>1. [client[c] EXCEPT !.pc = "open", !.newName = client[c].reply, !.reply = NoName] \in ClientType
    BY <1>1 DEF ClientType
  <2>2. client' = [client EXCEPT ![c] = [client[c] EXCEPT !.pc = "open", !.newName = client[c].reply, !.reply = NoName]]
    BY <1>9 DEF ReadReply
  <2>3. /\ client'[c].pc = "open" /\ client'[c].newName = client[c].reply /\ client'[c].reply = NoName
        /\ client'[c].asked = client[c].asked
    <3>1. client'[c] = [client[c] EXCEPT !.pc = "open", !.newName = client[c].reply, !.reply = NoName]
      BY <2>2, OthersStay
    <3>2. QED
      BY <1>1, <3>1 DEF ClientType
  <2>4. client[c].asked = NoId
    BY <1>1, <1>9 DEF ReadReply, ClientFine
  <2>5. <<c, client[c].reply>> \in told' /\ told \subseteq told' /\ client[c].reply # NoName
    BY <1>9 DEF ReadReply
  <2>6. \A d \in Client \ {c} : client'[d] = client[d]
    BY <2>2, OthersStay
  <2>7. QED
    BY <2>3, <2>4, <2>5, <2>6 DEF ClientInv
<1>10. ASSUME NEW c \in Client, GivesUp(c), told' = told, client[c].pc \in {"reply", "open"}
       PROVE  ClientInv'
  <2>1. Again(client[c]) \in ClientType /\ client[c].asked = NoId
    BY <1>1, <1>10, AgainType DEF ClientFine
  <2>2. Again(client[c]).pc \in {"create", "idle"} /\ Again(client[c]).asked = NoId
    BY <1>1, <2>1, AgainKeeps
  <2>3. ClientFine([Again(client[c]) EXCEPT !.conn = "none", !.reply = NoName, !.newName = NoName], c)
    BY <2>1, <2>2 DEF ClientFine, ClientType
  <2>4. QED
    BY <1>10, <2>3, OneClientStep DEF GivesUp
<1>11. ASSUME NEW c \in Client, OpenNewPipe(c)
       PROVE  ClientInv'
  <2>1. CASE client' = [client EXCEPT ![c] = [client[c] EXCEPT !.pc = "idle", !.m_name = client[c].newName, !.newName = NoName]]
    <3>1. ClientFine([client[c] EXCEPT !.pc = "idle", !.m_name = client[c].newName, !.newName = NoName], c)
      BY <1>1, <1>11 DEF OpenNewPipe, ClientFine, ClientType
    <3>2. QED
      BY <1>11, <2>1, <3>1, OneClientStep DEF OpenNewPipe
  <2>2. CASE GivesUp(c)
    BY <1>10, <1>11, <2>2 DEF OpenNewPipe
  <2>3. QED
    BY <1>11, <2>1, <2>2 DEF OpenNewPipe
<1>12. ASSUME NEW c \in Client, ClientHangsUp(c) \/ ClientEnds(c)
       PROVE  ClientInv'
  <2>1. ClientFine([client[c] EXCEPT !.conn = "none"], c)
    BY <1>1 DEF ClientFine, ClientType
  <2>2. ClientFine(NewClient, c)
    BY DEF ClientFine, NewClient
  <2>3. QED
    BY <1>12, <2>1, <2>2, OneClientStep DEF ClientHangsUp, ClientEnds
<1>13. CASE UNCHANGED <<client, told>>
  BY <1>13 DEF ClientInv
<1>14. ASSUME NEW c \in Client, NoReply(c)
       PROVE  ClientInv'
  BY <1>10, <1>14 DEF NoReply
<1>15. QED
  BY <1>2, <1>3, <1>4, <1>5, <1>6, <1>7, <1>8, <1>9, <1>11, <1>12, <1>13, <1>14
     DEF Next, vars, CreateRegist, TakeOutRegist, ServerReceives, TakeRequest, CreateNewPipe, Answer, Confirm, OnRegistReturns

-----------------------------------------------------------------------------
(* What a client does without reading from the pipe brings nobody an       *)
(* answer, and the server no confirmation.                                 *)
Quiet(c) ==
  \/ ClientSeesError(c) \/ Regist(c) \/ ConnectRegist(c) \/ Ask(c) \/ WaitEnds(c) \/ NoReply(c)
  \/ OpenNewPipe(c) \/ ClientHangsUp(c) \/ ClientEnds(c)

LEMMA QuietRegist ==
  ASSUME TypeOK, NEW c \in Client, Quiet(c)
  PROVE  /\ regist'.mapped = regist.mapped /\ regist'.awaited = regist.awaited /\ regist'.kept = regist.kept
         /\ regist'.down \in {regist.down, <<>>}
         /\ GotIn(regist'.up) => GotIn(regist.up)
         /\ regist'.peer \in {regist.peer, Nobody} \/ (regist'.peer = c /\ ConnectRegist(c))
<1> USE DEF TypeOK
<1>1. CASE Ask(c)
  <2>1. [kind |-> "ask", id |-> client[c].next_id] \in Request
    BY DEF Request, ClientType
  <2>2. regist.up \in Seq(Request)
    BY DEF RegistType
  <2>3. GotIn(Append(regist.up, [kind |-> "ask", id |-> client[c].next_id])) => GotIn(regist.up)
    BY <2>1, <2>2 DEF GotIn
  <2>4. WritesUp(c, [kind |-> "ask", id |-> client[c].next_id])
    BY <1>1 DEF Ask
  <2>5. QED
    BY <2>1, <2>3, <2>4, WritesUpKeeps
<1>2. CASE regist' = HangUp(c)
  <2>1. ~GotIn(<<>>)
    BY DEF GotIn
  <2>2. QED
    BY <1>2, <2>1, HangUpKeeps
<1>3. CASE regist' = regist
  BY <1>3
<1>4. CASE ConnectRegist(c) /\ regist' = [regist EXCEPT !.state = "connected", !.peer = c]
  BY <1>4 DEF RegistType
<1>5. QED
  BY <1>1, <1>2, <1>3, <1>4
     DEF Quiet, ClientSeesError, Regist, ConnectRegist, WaitEnds, NoReply, OpenNewPipe, ClientHangsUp, ClientEnds, GivesUp

LEMMA QuietClient ==
  ASSUME TypeOK, ClientInv, NEW c \in Client, Quiet(c)
  PROVE  /\ \A d \in Client \ {c} : client'[d] = client[d]
         /\ client'[c].reply \in {client[c].reply, NoName}
         /\ client'[c].conn = "open" /\ client'[c].reply # NoName => client[c].conn = "open"
         /\ ConnectRegist(c) => client'[c].reply = NoName
<1>1. client[c] \in ClientType
  BY DEF TypeOK
<1>2. CASE ClientSeesError(c)
  <2>1. client' = [client EXCEPT ![c] = [client[c] EXCEPT !.conn = "none", !.reply = NoName]]
    BY <1>2 DEF ClientSeesError
  <2>2. client'[c] = [client[c] EXCEPT !.conn = "none", !.reply = NoName]
    BY <2>1, OthersStay
  <2>3. client'[c].reply = NoName
    BY <1>1, <2>2 DEF ClientType
  <2>4. QED
    BY <2>1, <2>3, OthersStay
<1>3. CASE Regist(c)
  <2>1. client' = [client EXCEPT ![c] = [client[c] EXCEPT !.m_name = NoName, !.pc = "create", !.tries = 0]]
    BY <1>3 DEF Regist
  <2>2. client'[c].reply = client[c].reply /\ client'[c].conn = client[c].conn
    BY <1>1, <2>1, OthersStay DEF ClientType
  <2>3. client[c].reply = NoName
    BY <1>3 DEF Regist, ClientInv
  <2>4. QED
    BY <2>1, <2>2, <2>3, OthersStay
<1>4. CASE ConnectRegist(c)
  <2>1. client[c].reply = NoName
    BY <1>4 DEF ConnectRegist, ClientInv
  <2>2. [client[c] EXCEPT !.pc = "ask"] \in ClientType /\ [client[c] EXCEPT !.pc = "ask"].reply = NoName
    BY <1>1, <2>1 DEF ClientType
  <2>3. Again(client[c]) \in ClientType /\ Again(client[c]).reply = NoName
    BY <1>1, <2>1, AgainType, AgainKeeps
  <2>4. \A cl \in ClientType : [cl EXCEPT !.conn = "open"].reply = cl.reply
    BY DEF ClientType
  <2>5. \E cl : cl.reply = NoName /\ client' = [client EXCEPT ![c] = cl]
    BY <1>4, <2>2, <2>3, <2>4 DEF ConnectRegist
  <2>6. QED
    BY <2>5, OthersStay
<1>5. CASE Ask(c)
  <2>1. client' = [client EXCEPT ![c] = [client[c] EXCEPT !.pc = "wait", !.next_id = @ + 1, !.asked = client[c].next_id]]
    BY <1>5 DEF Ask
  <2>2. client'[c].reply = client[c].reply /\ client'[c].conn = client[c].conn
    BY <1>1, <2>1, OthersStay DEF ClientType
  <2>3. QED
    BY <1>5, <2>1, <2>2, OthersStay DEF Ask, ConnectRegist
<1>6. CASE WaitEnds(c)
  <2>1. client' = [client EXCEPT ![c] = [client[c] EXCEPT !.pc = "reply", !.asked = NoId]]
    BY <1>6 DEF WaitEnds
  <2>2. client'[c].reply = client[c].reply /\ client'[c].conn = client[c].conn
    BY <1>1, <2>1, OthersStay DEF ClientType
  <2>3. QED
    BY <1>6, <2>1, <2>2, OthersStay DEF WaitEnds, ConnectRegist
<1>7. CASE GivesUp(c)
  <2>1. Again(client[c]) \in ClientType
    BY <1>1, AgainType
  <2>2. client' = [client EXCEPT ![c] = [Again(client[c]) EXCEPT !.conn = "none", !.reply = NoName, !.newName = NoName]]
    BY <1>7 DEF GivesUp
  <2>3. client'[c].reply = NoName
    <3>1. client'[c] = [Again(client[c]) EXCEPT !.conn = "none", !.reply = NoName, !.newName = NoName]
      BY <2>2, OthersStay
    <3>2. QED
      BY <2>1, <3>1 DEF ClientType
  <2>4. QED
    BY <2>2, <2>3, OthersStay
<1>8. CASE OpenNewPipe(c)
  <2>1. CASE client' = [client EXCEPT ![c] = [client[c] EXCEPT !.pc = "idle", !.m_name = client[c].newName, !.newName = NoName]]
    <3>1. client'[c].reply = client[c].reply /\ client'[c].conn = client[c].conn
      BY <1>1, <2>1, OthersStay DEF ClientType
    <3>2. QED
      BY <1>8, <2>1, <3>1, OthersStay DEF OpenNewPipe, ConnectRegist
  <2>2. QED
    BY <1>7, <1>8, <2>1 DEF OpenNewPipe
<1>9. CASE ClientHangsUp(c)
  <2>1. client' = [client EXCEPT ![c] = [client[c] EXCEPT !.conn = "none"]] /\ client[c].conn = "open"
    BY <1>9 DEF ClientHangsUp
  <2>2. client'[c].reply = client[c].reply /\ client'[c].conn = "none"
    <3>1. client'[c] = [client[c] EXCEPT !.conn = "none"]
      BY <2>1, OthersStay
    <3>2. QED
      BY <1>1, <3>1 DEF ClientType
  <2>3. ConnectRegist(c) => client[c].reply = NoName
    BY DEF ConnectRegist, ClientInv
  <2>4. QED
    BY <2>1, <2>2, <2>3, OthersStay
<1>10. CASE ClientEnds(c)
  <2>1. client' = [client EXCEPT ![c] = NewClient]
    BY <1>10 DEF ClientEnds
  <2>2. NewClient.reply = NoName
    BY DEF NewClient
  <2>3. QED
    BY <2>1, <2>2, OthersStay
<1>11. QED
  BY <1>2, <1>3, <1>4, <1>5, <1>6, <1>7, <1>8, <1>9, <1>10 DEF Quiet, NoReply

LEMMA QuietRest ==
  ASSUME NEW c \in Client, Quiet(c)
  PROVE  UNCHANGED <<tasks, server, told, accepted>>
BY DEF Quiet, ClientSeesError, Regist, ConnectRegist, Ask, WaitEnds, NoReply, OpenNewPipe, ClientHangsUp, ClientEnds

LEMMA ReceiveEffect ==
  ASSUME TypeOK, NEW c \in Client, ClientReceives(c)
  PROVE  /\ UNCHANGED <<pipe, tasks, server, told, accepted>>
         /\ regist' = [regist EXCEPT !.down = Tail(@)]
         /\ regist.down # <<>> /\ regist.down \in Seq(Reply) /\ Head(regist.down) \in Reply
         /\ regist.peer = c /\ client[c].conn = "open"
         /\ regist'.mapped = regist.mapped /\ regist'.awaited = regist.awaited /\ regist'.kept = regist.kept
         /\ regist'.peer = regist.peer /\ regist'.up = regist.up /\ regist'.down = Tail(regist.down)
         /\ \A d \in Client : client'[d].conn = client[d].conn
         /\ \A d \in Client \ {c} : client'[d] = client[d]
         /\ client'[c].reply \in {client[c].reply, Head(regist.down).name}
<1> USE DEF TypeOK
<1>1. /\ regist' = [regist EXCEPT !.down = Tail(@)] /\ regist.down # <<>>
      /\ regist.peer = c /\ client[c].conn = "open"
      /\ UNCHANGED <<pipe, tasks, server, told, accepted>>
      /\ client' = [client EXCEPT ![c] = [client[c] EXCEPT !.reply = IF client[c].asked = Head(regist.down).id
                                                                     THEN Head(regist.down).name ELSE client[c].reply]]
  BY DEF ClientReceives
<1>2. regist.down \in Seq(Reply)
  BY DEF RegistType
<1>3. Head(regist.down) \in Reply
  BY <1>1, <1>2
<1>4. /\ regist'.mapped = regist.mapped /\ regist'.awaited = regist.awaited /\ regist'.kept = regist.kept
      /\ regist'.peer = regist.peer /\ regist'.up = regist.up /\ regist'.down = Tail(regist.down)
  BY <1>1 DEF RegistType
<1>5. client[c] \in ClientType
  OBVIOUS
<1>6. client'[c].conn = client[c].conn /\ client'[c].reply \in {client[c].reply, Head(regist.down).name}
  BY <1>1, <1>5, OthersStay DEF ClientType
<1>7. QED
  BY <1>1, <1>2, <1>3, <1>4, <1>6, OthersStay

LEMMA ReadEffect ==
  ASSUME TypeOK, ClientInv, NEW c \in Client, ReadReply(c)
  PROVE  /\ UNCHANGED <<pipe, tasks, server, accepted>>
         /\ client[c].reply \in NewName
         /\ regist'.mapped = regist.mapped /\ regist'.awaited = regist.awaited /\ regist'.kept = regist.kept
         /\ regist'.peer = regist.peer /\ regist'.down = regist.down
         /\ GotIn(regist'.up) => GotIn(regist.up) \/ (regist.peer = c /\ client[c].conn = "open")
         /\ \A d \in Client \ {c} : client'[d] = client[d]
         /\ client'[c].reply = NoName
         /\ told' = told \union {<<c, client[c].reply>>}
<1>1. client[c] \in ClientType /\ client[c].reply # NoName /\ client[c].next_id > 0 /\ client[c].next_id \in Id
  BY DEF TypeOK, ClientType, ClientInv, ReadReply
<1>2. [kind |-> "got", id |-> client[c].next_id - 1] \in Request
  BY <1>1, RegistrationAssumption DEF Request, Id
<1>3. WritesUp(c, [kind |-> "got", id |-> client[c].next_id - 1])
  BY DEF ReadReply
<1>4. client' = [client EXCEPT ![c] = [client[c] EXCEPT !.pc = "open", !.newName = client[c].reply, !.reply = NoName]]
  BY DEF ReadReply
<1>5. client'[c].reply = NoName
  <2>1. client'[c] = [client[c] EXCEPT !.pc = "open", !.newName = client[c].reply, !.reply = NoName]
    BY <1>4, OthersStay
  <2>2. QED
    BY <1>1, <2>1 DEF ClientType
<1>6. client[c].reply \in NewName
  BY <1>1 DEF ClientType
<1>7. QED
  BY <1>2, <1>3, <1>4, <1>5, <1>6, OthersStay, WritesUpKeeps DEF ReadReply, TypeOK

(* OnRegist waits for a confirmation only where it waits.                  *)
LEMMA ServerStep == TypeOK /\ ClientInv /\ ServerInv /\ [Next]_vars => ServerInv'
<1> SUFFICES ASSUME TypeOK, ClientInv, ServerInv, [Next]_vars
             PROVE  ServerInv'
  OBVIOUS
<1> USE DEF TypeOK
<1>1. CASE CreateRegist \/ CloseRegist
  <2>1. /\ server' = server
        /\ regist' = [NoPipe EXCEPT !.state = "waiting", !.mapped = TRUE] \/ regist' = NoPipe
    BY <1>1 DEF CreateRegist, CloseRegist
  <2>2. NoPipe.awaited = NoId /\ [NoPipe EXCEPT !.state = "waiting", !.mapped = TRUE].awaited = NoId
    BY DEF NoPipe
  <2>3. regist'.awaited = NoId
    BY <2>1, <2>2
  <2>4. QED
    BY <2>1, <2>3 DEF ServerInv
<1>2. CASE TakeRequest
  <2>1. Head(tasks) \in Id
    BY <1>2 DEF TakeRequest
  <2>2. QED
    BY <1>2, <2>1 DEF TakeRequest, ServerInv
<1>3. CASE CreateNewPipe
  <2>1. PICK n \in Fresh : server' \in {[server EXCEPT !.pc = "answer", !.newName = n], [server EXCEPT !.pc = "end"]}
    BY <1>3 DEF CreateNewPipe
  <2>2. n # NoName
    BY Specials DEF Fresh
  <2>3. server'.pc \in {"answer", "end"} /\ server'.id = server.id /\ (server'.pc = "answer" => server'.newName # NoName)
    BY <2>1, <2>2 DEF ServerType
  <2>4. regist' = regist /\ server.pc = "create"
    BY <1>3 DEF CreateNewPipe
  <2>5. QED
    BY <2>3, <2>4 DEF ServerInv
<1>4. CASE Answer
  <2>1. server.pc = "answer" /\ server' = [server EXCEPT !.pc = "wait"]
    BY <1>4 DEF Answer
  <2>2. server'.pc = "wait" /\ server'.id = server.id /\ server'.newName = server.newName
    BY <2>1 DEF ServerType
  <2>3. QED
    BY <2>1, <2>2 DEF ServerInv
<1>5. CASE Confirm
  <2>1. server' = [server EXCEPT !.pc = "end"] /\ regist' = [regist EXCEPT !.awaited = NoId, !.kept = FALSE] /\ server.pc = "wait"
    BY <1>5 DEF Confirm
  <2>2. server'.pc = "end" /\ server'.id = server.id /\ regist'.awaited = NoId
    BY <2>1 DEF ServerType, RegistType
  <2>3. QED
    BY <2>1, <2>2 DEF ServerInv
<1>6. CASE OnRegistReturns
  <2>1. server' = [pc |-> "idle", id |-> NoId, newName |-> NoName] /\ regist' = [regist EXCEPT !.mapped = FALSE] /\ server.pc = "end"
    BY <1>6 DEF OnRegistReturns
  <2>2. server'.pc = "idle" /\ regist'.awaited = regist.awaited
    BY <2>1 DEF RegistType
  <2>3. QED
    BY <2>1, <2>2 DEF ServerInv
<1>7. CASE ServerReceives \/ TakeOutRegist
  <2>1. server' = server /\ regist'.awaited = regist.awaited
    BY <1>7 DEF ServerReceives, TakeOutRegist, RegistType
  <2>2. QED
    BY <2>1 DEF ServerInv
<1>8. ASSUME NEW c \in Client, Quiet(c)
      PROVE  ServerInv'
  BY <1>8, QuietRegist, QuietRest DEF ServerInv
<1>9. ASSUME NEW c \in Client, ClientReceives(c)
      PROVE  ServerInv'
  BY <1>9, ReceiveEffect DEF ServerInv
<1>10. ASSUME NEW c \in Client, ReadReply(c)
       PROVE  ServerInv'
  BY <1>10, ReadEffect DEF ServerInv
<1>11. CASE UNCHANGED vars
  BY <1>11 DEF vars, ServerInv
<1>12. QED
  BY <1>1, <1>2, <1>3, <1>4, <1>5, <1>6, <1>7, <1>8, <1>9, <1>10, <1>11 DEF Next, Quiet

-----------------------------------------------------------------------------
(* Only the awaited answer is in the registration pipe.                    *)
LEMMA AnswerStep ==
  TypeOK /\ ClientInv /\ ServerInv /\ AnswerInv /\ Len(regist.down) <= 1 /\ [Next]_vars => AnswerInv'
<1> SUFFICES ASSUME TypeOK, ClientInv, ServerInv, AnswerInv, Len(regist.down) <= 1, [Next]_vars,
                    regist'.mapped, server'.pc # "end"
             PROVE  AnswerInv'
  BY DEF AnswerInv
<1> USE DEF AnswerInv, Answered
<1>1. regist.down \in Seq(Reply) /\ regist.up \in Seq(Request)
  BY DEF TypeOK, RegistType
<1>2. CASE CreateRegist
  <2>1. regist' = [NoPipe EXCEPT !.state = "waiting", !.mapped = TRUE]
    BY <1>2 DEF CreateRegist
  <2>2. regist'.down = <<>> /\ regist'.up = <<>> /\ regist'.kept = FALSE /\ regist'.peer = Nobody
    BY <2>1 DEF NoPipe
  <2>3. ~GotIn(<<>>)
    BY DEF GotIn
  <2>4. QED
    BY <2>2, <2>3, Specials
<1>3. CASE TakeOutRegist \/ CloseRegist \/ OnRegistReturns
  <2>1. regist' = [regist EXCEPT !.mapped = FALSE] \/ regist' = NoPipe
    BY <1>3 DEF TakeOutRegist, CloseRegist, OnRegistReturns
  <2>2. NoPipe.mapped = FALSE /\ [regist EXCEPT !.mapped = FALSE].mapped = FALSE
    BY DEF NoPipe, TypeOK, RegistType
  <2>3. QED
    BY <2>1, <2>2
<1>4. CASE ServerReceives
  <2>1. /\ UNCHANGED <<server, client, told>>
        /\ regist' = [regist EXCEPT !.up = Tail(regist.up), !.kept = regist.kept \/ (Head(regist.up).kind = "got" /\ Head(regist.up).id = regist.awaited)]
        /\ regist.up # <<>>
    BY <1>4 DEF ServerReceives
  <2>2. /\ regist'.down = regist.down /\ regist'.peer = regist.peer /\ regist'.awaited = regist.awaited
        /\ regist'.mapped = regist.mapped /\ regist'.up = Tail(regist.up)
        /\ regist'.kept => regist.kept \/ Head(regist.up).kind = "got"
    BY <2>1 DEF TypeOK, RegistType
  <2>3. GotIn(Tail(regist.up)) \/ Head(regist.up).kind = "got" => GotIn(regist.up)
    BY <1>1, <2>1 DEF GotIn
  <2>4. QED
    BY <2>1, <2>2, <2>3
<1>5. CASE TakeRequest \/ CreateNewPipe
  <2>1. UNCHANGED <<regist, client, told>> /\ server.pc \in {"idle", "create"}
    BY <1>5 DEF TakeRequest, CreateNewPipe
  <2>2. ~Answered
    BY <2>1 DEF ServerInv
  <2>3. QED
    BY <2>1, <2>2
<1>6. CASE Answer
  <2>1. /\ UNCHANGED <<client, told>> /\ server.pc = "answer" /\ server' = [server EXCEPT !.pc = "wait"]
        /\ \/ regist' = regist /\ ~regist.mapped
           \/ /\ regist.mapped
              /\ regist' = [regist EXCEPT !.down = Append(regist.down, [id |-> server.id, name |-> server.newName]),
                                          !.awaited = server.id]
    BY <1>6 DEF Answer
  <2>2. server'.newName = server.newName /\ server.id \in Id /\ server.id # NoId
    BY <2>1, Specials DEF ServerInv, TypeOK, ServerType
  <2>3. ~Answered
    BY <2>1 DEF ServerInv
  <2>4. regist.mapped
    BY <2>1
  <2>5. regist.down = <<>> /\ ~regist.kept /\ ~GotIn(regist.up)
    BY <2>1, <2>3, <2>4
  <2>6. /\ regist'.awaited = server.id /\ regist'.kept = regist.kept /\ regist'.up = regist.up /\ regist'.peer = regist.peer
        /\ regist'.down = Append(regist.down, [id |-> server.id, name |-> server.newName])
    BY <2>1, <2>4 DEF TypeOK, RegistType
  <2>7. Head(regist'.down).name = server.newName
    BY <2>5, <2>6
  <2>8. QED
    BY <2>1, <2>2, <2>3, <2>4, <2>5, <2>6, <2>7
<1>7. CASE Confirm
  BY <1>7 DEF Confirm, TypeOK, ServerType
<1>8. ASSUME NEW c \in Client, Quiet(c)
      PROVE  AnswerInv'
  <2>1. regist.mapped /\ server.pc # "end" /\ UNCHANGED <<server, told>>
    BY <1>8, QuietRegist, QuietRest
  <2>2. regist'.down # <<>> => Answered' /\ Head(regist'.down).name = server'.newName
    BY <1>8, <2>1, QuietRegist
  <2>3. regist'.kept \/ GotIn(regist'.up) => Answered' /\ \E d \in Client : <<d, server'.newName>> \in told'
    BY <1>8, <2>1, QuietRegist
  <2>4. ASSUME NEW d \in Client, regist'.peer = d, client'[d].conn = "open", client'[d].reply # NoName
        PROVE  Answered' /\ client'[d].reply = server'.newName
    <3>1. regist.peer = d
      BY <1>8, <2>4, QuietRegist, QuietClient, Specials
    <3>2. client[d].conn = "open" /\ client'[d].reply = client[d].reply
      BY <1>8, <2>4, QuietClient
    <3>3. QED
      BY <1>8, <2>1, <2>4, <3>1, <3>2, QuietRegist
  <2>5. QED
    BY <2>2, <2>3, <2>4
<1>9. ASSUME NEW c \in Client, ClientReceives(c)
      PROVE  AnswerInv'
  <2>1. /\ regist.mapped /\ server.pc # "end" /\ UNCHANGED <<server, told>>
        /\ regist.down # <<>> /\ regist.peer = c /\ client[c].conn = "open"
    BY <1>9, ReceiveEffect
  <2>2. Answered /\ Head(regist.down).name = server.newName
    BY <2>1
  <2>3. regist'.down = <<>>
    BY <1>1, <1>9, <2>1, ReceiveEffect, TailOfOne
  <2>4. client'[c].reply # NoName => client'[c].reply = server.newName
    BY <1>9, <2>1, <2>2, ReceiveEffect
  <2>5. QED
    BY <1>9, <2>1, <2>2, <2>3, <2>4, ReceiveEffect
<1>10. ASSUME NEW c \in Client, ReadReply(c)
       PROVE  AnswerInv'
  <2>1. regist.mapped /\ server.pc # "end" /\ server' = server /\ Answered' = Answered /\ told \subseteq told'
    BY <1>10, ReadEffect
  <2>2. regist'.kept \/ GotIn(regist'.up) => Answered' /\ \E d \in Client : <<d, server'.newName>> \in told'
    <3>1. CASE regist.kept \/ GotIn(regist.up)
      BY <2>1, <3>1
    <3>2. CASE regist.peer = c /\ client[c].conn = "open"
      <4>1. client[c].reply \in NewName /\ <<c, client[c].reply>> \in told'
        BY <1>10, ReadEffect
      <4>2. Answered /\ client[c].reply = server.newName
        BY <2>1, <3>2, <4>1, Specials
      <4>3. QED
        BY <2>1, <4>1, <4>2
    <3>3. QED
      BY <1>10, <3>1, <3>2, ReadEffect
  <2>3. ASSUME NEW d \in Client, regist'.peer = d, client'[d].conn = "open", client'[d].reply # NoName
        PROVE  Answered' /\ client'[d].reply = server'.newName
    BY <1>10, <2>1, <2>3, ReadEffect
  <2>4. QED
    BY <1>10, <2>1, <2>2, <2>3, ReadEffect
<1>11. CASE UNCHANGED vars
  BY <1>11 DEF vars
<1>12. QED
  BY <1>2, <1>3, <1>4, <1>5, <1>6, <1>7, <1>8, <1>9, <1>10, <1>11 DEF Next, Quiet

-----------------------------------------------------------------------------
(* A name, once used, stays used.                                          *)
LEMMA UsedStaysUsed ==
  ASSUME TypeOK, ServerInv, [Next]_vars, NEW n \in NewName, pipe'[n].state = "none"
  PROVE  pipe[n].state = "none"
<1> USE DEF TypeOK
<1>1. ASSUME NEW m \in NewName, NEW s \in {"waiting", "closed"}, pipe' = [pipe EXCEPT ![m].state = s]
      PROVE  pipe[n].state = "none"
  BY <1>1 DEF PipeType
<1>2. CASE CreateNewPipe
  <2>1. PICK m \in Fresh : pipe' \in {pipe, [pipe EXCEPT ![m].state = "waiting"]}
    BY <1>2 DEF CreateNewPipe
  <2>2. m \in NewName
    BY DEF Fresh
  <2>3. QED
    BY <1>1, <2>1, <2>2
<1>3. CASE Confirm
  <2>1. server.newName \in NewName
    BY <1>3 DEF Confirm, ServerInv, ServerType
  <2>2. QED
    BY <1>1, <1>3, <2>1 DEF Confirm
<1>4. ASSUME NEW c \in Client, OpenNewPipe(c)
      PROVE  pipe[n].state = "none"
  BY <1>4 DEF OpenNewPipe, Opens
<1>5. ASSUME NEW c \in Client, ClientEnds(c)
      PROVE  pipe[n].state = "none"
  BY <1>5 DEF ClientEnds
<1>6. CASE pipe' = pipe
  BY <1>6
<1>7. QED
  BY <1>2, <1>3, <1>4, <1>5, <1>6
     DEF Next, vars, CreateRegist, TakeOutRegist, CloseRegist, ServerReceives, TakeRequest, Answer, OnRegistReturns,
         ClientReceives, ClientSeesError, Regist, ConnectRegist, Ask, WaitEnds, ReadReply, NoReply, ClientHangsUp

(* Where nothing arrives, a name is where it was or nowhere.               *)
LEMMA NothingArrives ==
  ASSUME TypeOK, ServerInv, NamesInv, [Next]_vars, told' = told,
         \A n \in NewName : AtServer(n)' => AtServer(n),
         regist'.down \in {regist.down, <<>>},
         \A c \in Client : client'[c].reply \in {client[c].reply, NoName}
  PROVE  NamesInv'
<1>1. \A n \in NewName : Sent(n)' => Sent(n)
  BY DEF Sent
<1>2. \A n \in NewName : \A c \in Client : (Kept(c, n)' => Kept(c, n)) /\ (Read(c, n)' <=> Read(c, n))
  BY Specials DEF Kept, Read
<1>3. Len(regist'.down) <= 1
  BY DEF NamesInv
<1>4. \A n \in NewName : pipe'[n].state = "none" => pipe[n].state = "none"
  BY UsedStaysUsed
<1>5. QED
  BY <1>1, <1>2, <1>3, <1>4 DEF NamesInv

(* A name moves from the server into the pipe, to a client, and is read.   *)
LEMMA NamesStep == TypeOK /\ ClientInv /\ ServerInv /\ AnswerInv /\ NamesInv /\ [Next]_vars => NamesInv'
<1> SUFFICES ASSUME TypeOK, ClientInv, ServerInv, AnswerInv, NamesInv, [Next]_vars
             PROVE  NamesInv'
  OBVIOUS
<1>1. regist.down \in Seq(Reply) /\ server \in ServerType
  BY DEF TypeOK, RegistType
<1>2. CASE CreateRegist \/ CloseRegist
  <2>1. regist' = [NoPipe EXCEPT !.state = "waiting", !.mapped = TRUE] \/ regist' = NoPipe
    BY <1>2 DEF CreateRegist, CloseRegist
  <2>2. NoPipe.down = <<>> /\ [NoPipe EXCEPT !.state = "waiting", !.mapped = TRUE].down = <<>>
    BY DEF NoPipe
  <2>3. \A c \in Client : client'[c] \in {client[c], [client[c] EXCEPT !.conn = "cut"]}
    BY <1>2 DEF CreateRegist, CloseRegist
  <2>4. \A c \in Client : client[c] \in ClientType
    BY DEF TypeOK
  <2>5. \A c \in Client : client'[c].reply = client[c].reply
    BY <2>3, <2>4 DEF ClientType
  <2>6. told' = told /\ server' = server
    BY <1>2 DEF CreateRegist, CloseRegist
  <2>7. QED
    BY <2>1, <2>2, <2>5, <2>6, NothingArrives DEF AtServer
<1>3. CASE TakeOutRegist \/ ServerReceives \/ TakeRequest \/ Confirm \/ OnRegistReturns
  <2>1. UNCHANGED <<client, told>>
    BY <1>3 DEF TakeOutRegist, ServerReceives, TakeRequest, Confirm, OnRegistReturns
  <2>2. regist'.down = regist.down
    BY <1>3 DEF TakeOutRegist, ServerReceives, TakeRequest, Confirm, OnRegistReturns, TypeOK, RegistType
  <2>3. server' = server \/ server'.pc # "answer"
    BY <1>1, <1>3 DEF TakeOutRegist, ServerReceives, TakeRequest, Confirm, OnRegistReturns, ServerType
  <2>4. QED
    BY <2>1, <2>2, <2>3, NothingArrives DEF AtServer
<1>4. CASE CreateNewPipe
  <2>1. PICK n \in Fresh : \/ /\ pipe' = [pipe EXCEPT ![n].state = "waiting"]
                              /\ server' \in {[server EXCEPT !.pc = "answer", !.newName = n], [server EXCEPT !.pc = "end"]}
                           \/ server' = [server EXCEPT !.pc = "end"] /\ pipe' = pipe
    BY <1>4 DEF CreateNewPipe
  <2>2. UNCHANGED <<regist, client, told>>
    BY <1>4 DEF CreateNewPipe
  <2>3. n \in NewName /\ pipe[n].state = "none"
    BY DEF Fresh
  <2>4. CASE server' = [server EXCEPT !.pc = "end"]
    <3>1. server'.pc = "end"
      BY <1>1, <2>4 DEF ServerType
    <3>2. QED
      BY <2>2, <3>1, NothingArrives DEF AtServer
  <2>5. CASE pipe' = [pipe EXCEPT ![n].state = "waiting"] /\ server' = [server EXCEPT !.pc = "answer", !.newName = n]
    <3>1. server'.newName = n
      BY <1>1, <2>5 DEF ServerType
    <3>2. pipe'[n].state # "none"
      BY <2>3, <2>5 DEF TypeOK, PipeType
    <3>3. \A m \in NewName : /\ AtServer(m)' => m = n
                             /\ Sent(m)' <=> Sent(m)
                             /\ \A c \in Client : (Kept(c, m)' <=> Kept(c, m)) /\ (Read(c, m)' <=> Read(c, m))
      BY <2>2, <3>1 DEF AtServer, Sent, Kept, Read
    <3>4. \A m \in NewName : pipe'[m].state = "none" => pipe[m].state = "none" /\ m # n
      BY <3>2, UsedStaysUsed
    <3>5. ~Sent(n) /\ \A c \in Client : ~Kept(c, n) /\ ~Read(c, n)
      BY <2>3 DEF NamesInv
    <3>6. QED
      BY <2>2, <3>3, <3>4, <3>5 DEF NamesInv
  <2>6. QED
    BY <2>1, <2>4, <2>5
<1>5. CASE Answer
  <2>1. UNCHANGED <<pipe, client, told>> /\ server.pc = "answer" /\ server' = [server EXCEPT !.pc = "wait"]
    BY <1>5 DEF Answer
  <2>2. server'.pc = "wait"
    BY <1>1, <2>1 DEF ServerType
  <2>3. CASE regist' = regist
    BY <2>1, <2>2, <2>3, NothingArrives DEF AtServer
  <2>4. CASE regist.mapped
    <3>1. regist.down = <<>>
      BY <2>1, <2>4 DEF AnswerInv, Answered, ServerInv
    <3>2. regist' = [regist EXCEPT !.down = Append(regist.down, [id |-> server.id, name |-> server.newName]), !.awaited = server.id]
      BY <1>5, <2>4 DEF Answer
    <3>3. regist'.down = Append(<<>>, [id |-> server.id, name |-> server.newName])
      BY <3>1, <3>2 DEF TypeOK, RegistType
    <3>4. Len(regist'.down) = 1 /\ Head(regist'.down).name = server.newName
      BY <3>3
    <3>5. \A n \in NewName : /\ ~AtServer(n)'
                             /\ Sent(n)' => AtServer(n)
                             /\ \A c \in Client : (Kept(c, n)' <=> Kept(c, n)) /\ (Read(c, n)' <=> Read(c, n))
      BY <2>1, <2>2, <3>4 DEF AtServer, Sent, Kept, Read
    <3>6. QED
      BY <2>1, <3>4, <3>5 DEF NamesInv
  <2>5. QED
    BY <1>5, <2>3, <2>4 DEF Answer
<1>6. ASSUME NEW c \in Client, Quiet(c)
      PROVE  NamesInv'
  <2>1. server' = server /\ told' = told /\ regist'.down \in {regist.down, <<>>}
    BY <1>6, QuietRegist, QuietRest
  <2>2. \A d \in Client : client'[d].reply \in {client[d].reply, NoName}
    BY <1>6, QuietClient
  <2>3. QED
    BY <2>1, <2>2, NothingArrives DEF AtServer
<1>7. ASSUME NEW c \in Client, ClientReceives(c)
      PROVE  NamesInv'
  <2> DEFINE name == Head(regist.down).name
  <2>1. UNCHANGED <<pipe, server, told>> /\ regist.down # <<>>
    BY <1>7, ReceiveEffect
  <2>2. regist'.down = <<>>
    <3>1. regist'.down = Tail(regist.down) /\ Len(regist.down) <= 1
      BY <1>7, ReceiveEffect DEF NamesInv
    <3>2. QED
      BY <1>1, <2>1, <3>1, TailOfOne
  <2>3. Len(regist'.down) <= 1
    BY <2>2
  <2>4. client'[c].reply \in {client[c].reply, name} /\ \A d \in Client \ {c} : client'[d].reply = client[d].reply
    BY <1>7, ReceiveEffect
  <2>5. \A n \in NewName : /\ AtServer(n)' <=> AtServer(n)
                           /\ ~Sent(n)'
                           /\ Kept(c, n)' => Kept(c, n) \/ Sent(n)
                           /\ \A d \in Client : (d # c => (Kept(d, n)' <=> Kept(d, n))) /\ (Read(d, n)' <=> Read(d, n))
    BY <2>1, <2>2, <2>4 DEF AtServer, Sent, Kept, Read
  <2>6. QED
    BY <2>1, <2>3, <2>5 DEF NamesInv
<1>8. ASSUME NEW c \in Client, ReadReply(c)
      PROVE  NamesInv'
  <2>1. /\ UNCHANGED <<pipe, server>> /\ regist'.down = regist.down /\ told' = told \union {<<c, client[c].reply>>}
        /\ client'[c].reply = NoName /\ \A d \in Client \ {c} : client'[d] = client[d]
    BY <1>8, ReadEffect
  <2>2. \A n \in NewName : /\ AtServer(n)' <=> AtServer(n)
                           /\ Sent(n)' <=> Sent(n)
                           /\ ~Kept(c, n)'
                           /\ Read(c, n)' <=> Read(c, n) \/ Kept(c, n)
                           /\ \A d \in Client : d # c => (Kept(d, n)' <=> Kept(d, n)) /\ (Read(d, n)' <=> Read(d, n))
    BY <2>1, Specials DEF AtServer, Sent, Kept, Read
  <2>3. QED
    BY <2>1, <2>2 DEF NamesInv
<1>9. CASE UNCHANGED vars
  BY <1>9 DEF vars, NamesInv, AtServer, Sent, Kept, Read
<1>10. QED
  BY <1>2, <1>3, <1>4, <1>5, <1>6, <1>7, <1>8, <1>9 DEF Next, Quiet

-----------------------------------------------------------------------------
(* A client that has opened the pipe of its name keeps it.                 *)
LEMMA HolderStep == TypeOK /\ ClientInv /\ ServerInv /\ NamesInv /\ HolderInv /\ [Next]_vars => HolderInv'
<1> SUFFICES ASSUME TypeOK, ClientInv, ServerInv, NamesInv, HolderInv, [Next]_vars
             PROVE  HolderInv'
  OBVIOUS
<1>1. \A c \in Client : client[c] \in ClientType /\ client[c].m_name \in NewName \union {NoName}
  BY DEF TypeOK, ClientType
<1>2. ASSUME told \subseteq told',
             \A d \in Client : client'[d].m_name \in {client[d].m_name, NoName},
             \A n \in NewName : pipe'[n].holder = pipe[n].holder
      PROVE  HolderInv'
  BY <1>1, <1>2, Specials DEF HolderInv
<1>3. CASE UNCHANGED <<pipe, told>> /\ \A d \in Client : client'[d].m_name \in {client[d].m_name, NoName}
  BY <1>2, <1>3
<1>4. CASE CloseRegist
  <2>1. UNCHANGED <<pipe, told>> /\ \A c \in Client : client'[c] \in {client[c], [client[c] EXCEPT !.conn = "cut"]}
    BY <1>4 DEF CloseRegist
  <2>2. \A c \in Client : client'[c].m_name = client[c].m_name
    BY <1>1, <2>1 DEF ClientType
  <2>3. QED
    BY <1>3, <2>1, <2>2
<1>5. CASE CreateNewPipe \/ Confirm
  <2>1. UNCHANGED <<client, told>>
    BY <1>5 DEF CreateNewPipe, Confirm
  <2>2. \A n \in NewName : pipe'[n].holder = pipe[n].holder
    <3>1. ASSUME NEW m, NEW s, pipe' = [pipe EXCEPT ![m].state = s]
          PROVE  \A n \in NewName : pipe'[n].holder = pipe[n].holder
      BY <3>1 DEF TypeOK, PipeType
    <3>2. pipe' = pipe \/ \E m, s : pipe' = [pipe EXCEPT ![m].state = s]
      BY <1>5 DEF CreateNewPipe, Confirm
    <3>3. QED
      BY <3>1, <3>2
  <2>3. QED
    BY <1>2, <2>1, <2>2
<1>6. ASSUME NEW c \in Client, NEW cl \in ClientType, cl.m_name \in {client[c].m_name, NoName},
             client' = [client EXCEPT ![c] = cl]
      PROVE  \A d \in Client : client'[d].m_name \in {client[d].m_name, NoName}
  BY <1>6, OthersStay
<1>7. ASSUME NEW c \in Client, ClientSeesError(c) \/ Regist(c) \/ ClientHangsUp(c) \/ WaitEnds(c)
      PROVE  HolderInv'
  <2>1. \E cl \in {[client[c] EXCEPT !.conn = "none", !.reply = NoName],
                   [client[c] EXCEPT !.m_name = NoName, !.pc = "create", !.tries = 0],
                   [client[c] EXCEPT !.conn = "none"], [client[c] EXCEPT !.pc = "reply", !.asked = NoId]} :
          client' = [client EXCEPT ![c] = cl]
    BY <1>7 DEF ClientSeesError, Regist, ClientHangsUp, WaitEnds
  <2>2. client'[c].m_name \in {client[c].m_name, NoName}
    <3>1. client'[c] \in {[client[c] EXCEPT !.conn = "none", !.reply = NoName],
                          [client[c] EXCEPT !.m_name = NoName, !.pc = "create", !.tries = 0],
                          [client[c] EXCEPT !.conn = "none"], [client[c] EXCEPT !.pc = "reply", !.asked = NoId]}
      BY <2>1, OthersStay
    <3>2. QED
      BY <1>1, <3>1 DEF ClientType
  <2>3. \A d \in Client \ {c} : client'[d] = client[d]
    BY <2>1, OthersStay
  <2>4. UNCHANGED <<pipe, told>>
    BY <1>7 DEF ClientSeesError, Regist, ClientHangsUp, WaitEnds
  <2>5. QED
    BY <1>3, <2>2, <2>3, <2>4
<1>8. ASSUME NEW c \in Client, ClientReceives(c)
      PROVE  HolderInv'
  <2>1. client' = [client EXCEPT ![c] = [client[c] EXCEPT !.reply = IF client[c].asked = Head(regist.down).id
                                                                     THEN Head(regist.down).name ELSE client[c].reply]]
    BY <1>8 DEF ClientReceives
  <2>2. client'[c].m_name = client[c].m_name
    BY <1>1, <2>1, OthersStay DEF ClientType
  <2>3. \A d \in Client \ {c} : client'[d] = client[d]
    BY <2>1, OthersStay
  <2>4. QED
    BY <1>3, <1>8, <2>2, <2>3, ReceiveEffect
<1>9. ASSUME NEW c \in Client, ConnectRegist(c)
      PROVE  HolderInv'
  <2>1. [client[c] EXCEPT !.pc = "ask"] \in ClientType /\ [client[c] EXCEPT !.pc = "ask"].m_name = client[c].m_name
    BY <1>1 DEF ClientType
  <2>2. Again(client[c]) \in ClientType /\ Again(client[c]).m_name = client[c].m_name
    BY <1>1, AgainType, AgainKeeps
  <2>3. \A cl \in ClientType : [cl EXCEPT !.conn = "open"].m_name = cl.m_name
    BY DEF ClientType
  <2>4. \E cl : cl.m_name = client[c].m_name /\ client' = [client EXCEPT ![c] = cl]
    BY <1>9, <2>1, <2>2, <2>3 DEF ConnectRegist
  <2>5. UNCHANGED <<pipe, told>>
    BY <1>9 DEF ConnectRegist
  <2>6. QED
    BY <1>3, <2>4, <2>5, OthersStay
<1>10. ASSUME NEW c \in Client, Ask(c)
       PROVE  HolderInv'
  <2>1. client' = [client EXCEPT ![c] = [client[c] EXCEPT !.pc = "wait", !.next_id = @ + 1, !.asked = client[c].next_id]]
    BY <1>10 DEF Ask
  <2>2. client'[c].m_name = client[c].m_name
    BY <1>1, <2>1, OthersStay DEF ClientType
  <2>3. UNCHANGED <<pipe, told>>
    BY <1>10 DEF Ask
  <2>4. QED
    BY <1>3, <2>1, <2>2, <2>3, OthersStay
<1>11. ASSUME NEW c \in Client, ReadReply(c)
       PROVE  HolderInv'
  <2>1. client' = [client EXCEPT ![c] = [client[c] EXCEPT !.pc = "open", !.newName = client[c].reply, !.reply = NoName]]
    BY <1>11 DEF ReadReply
  <2>2. client'[c].m_name = client[c].m_name
    BY <1>1, <2>1, OthersStay DEF ClientType
  <2>3. pipe' = pipe /\ told \subseteq told'
    BY <1>11 DEF ReadReply
  <2>4. QED
    BY <1>2, <2>1, <2>2, <2>3, OthersStay
<1>12. ASSUME NEW c \in Client, GivesUp(c)
       PROVE  \A d \in Client : client'[d].m_name = client[d].m_name
  <2>1. Again(client[c]) \in ClientType /\ Again(client[c]).m_name = client[c].m_name
    BY <1>1, AgainType, AgainKeeps
  <2>2. client' = [client EXCEPT ![c] = [Again(client[c]) EXCEPT !.conn = "none", !.reply = NoName, !.newName = NoName]]
    BY <1>12 DEF GivesUp
  <2>3. client'[c].m_name = client[c].m_name
    BY <2>1, <2>2, OthersStay DEF ClientType
  <2>4. QED
    BY <2>2, <2>3, OthersStay
<1>13. ASSUME NEW c \in Client, NoReply(c)
       PROVE  HolderInv'
  BY <1>3, <1>12, <1>13 DEF NoReply
<1>14. ASSUME NEW c \in Client, OpenNewPipe(c)
       PROVE  HolderInv'
  <2> DEFINE n == client[c].newName
  <2>1. n \in NewName /\ <<c, n>> \in told
    BY <1>1, <1>14 DEF OpenNewPipe, ClientInv, ClientType
  <2>2. told' = told /\ (pipe' = pipe \/ pipe' = [pipe EXCEPT ![n] = [state |-> "connected", holder |-> c]])
    BY <1>14 DEF OpenNewPipe, Opens
  <2>3. \A d \in Client : client[d].m_name = n => d = c
    BY <2>1, Specials DEF HolderInv, NamesInv, Read
  <2>4. pipe'[n].holder = c \/ pipe' = pipe
    BY <2>1, <2>2 DEF TypeOK
  <2>5. \A m \in NewName : m # n => pipe'[m] = pipe[m]
    BY <2>2 DEF TypeOK
  <2>6. CASE \A d \in Client : client'[d].m_name = client[d].m_name
    BY <1>1, <2>2, <2>3, <2>4, <2>5, <2>6 DEF HolderInv
  <2>7. CASE /\ client' = [client EXCEPT ![c] = [client[c] EXCEPT !.pc = "idle", !.m_name = n, !.newName = NoName]]
             /\ pipe' = [pipe EXCEPT ![n] = [state |-> "connected", holder |-> c]]
    <3>1. client'[c].m_name = n
      <4>1. client'[c] = [client[c] EXCEPT !.pc = "idle", !.m_name = n, !.newName = NoName]
        BY <2>7, OthersStay
      <4>2. QED
        BY <1>1, <4>1 DEF ClientType
    <3>2. pipe'[n].holder = c
      BY <2>1, <2>7 DEF TypeOK
    <3>3. \A d \in Client \ {c} : client'[d] = client[d]
      BY <2>7, OthersStay
    <3>4. QED
      BY <1>1, <2>1, <2>2, <2>3, <2>5, <3>1, <3>2, <3>3 DEF HolderInv
  <2>8. QED
    BY <1>12, <1>14, <2>6, <2>7 DEF OpenNewPipe, Opens
<1>15. ASSUME NEW c \in Client, ClientEnds(c)
       PROVE  HolderInv'
  <2>1. client' = [client EXCEPT ![c] = NewClient] /\ told' = told
    BY <1>15 DEF ClientEnds
  <2>2. client'[c].m_name = NoName
    <3>1. client'[c] = NewClient
      BY <2>1, OthersStay
    <3>2. QED
      BY <3>1 DEF NewClient
  <2>3. \A m \in NewName : pipe'[m].holder = pipe[m].holder
    BY <1>15 DEF ClientEnds
  <2>4. QED
    BY <1>2, <2>1, <2>2, <2>3, OthersStay
<1>16. QED
  BY <1>3, <1>4, <1>5, <1>7, <1>8, <1>9, <1>10, <1>11, <1>13, <1>14, <1>15
     DEF Next, vars, CreateRegist, TakeOutRegist, ServerReceives, TakeRequest, Answer, OnRegistReturns

(* What is confirmed has been read.                                        *)
LEMMA AcceptedStep == TypeOK /\ ClientInv /\ ServerInv /\ AnswerInv /\ AcceptedWasTold /\ [Next]_vars => AcceptedWasTold'
<1> SUFFICES ASSUME TypeOK, ClientInv, ServerInv, AnswerInv, AcceptedWasTold, [Next]_vars
             PROVE  AcceptedWasTold'
  OBVIOUS
<1>1. CASE Confirm
  <2>1. told' = told /\ server.pc = "wait"
    BY <1>1 DEF Confirm
  <2>2. accepted' = accepted \/ (accepted' = accepted \union {server.newName} /\ regist.mapped /\ regist.kept)
    BY <1>1 DEF Confirm
  <2>3. regist.mapped /\ regist.kept => \E c \in Client : <<c, server.newName>> \in told
    BY <2>1 DEF AnswerInv
  <2>4. QED
    BY <2>1, <2>2, <2>3 DEF AcceptedWasTold
<1>2. CASE accepted' = accepted /\ told \subseteq told'
  BY <1>2 DEF AcceptedWasTold
<1>3. QED
  BY <1>1, <1>2
     DEF Next, vars, CreateRegist, TakeOutRegist, CloseRegist, ServerReceives, TakeRequest, CreateNewPipe, Answer,
         OnRegistReturns, ClientReceives, ClientSeesError, Regist, ConnectRegist, Ask, WaitEnds, ReadReply, NoReply,
         OpenNewPipe, ClientHangsUp, ClientEnds

-----------------------------------------------------------------------------
LEMMA RegistrationInvInit == Init => RegistrationInv
<1> SUFFICES ASSUME Init
             PROVE  RegistrationInv
  OBVIOUS
<1>1. \A c \in Client : client[c] = NewClient
  BY DEF Init
<1>2. regist = NoPipe /\ told = {} /\ accepted = {} /\ server = [pc |-> "idle", id |-> NoId, newName |-> NoName]
  BY DEF Init
<1>3. regist.down = <<>> /\ regist.mapped = FALSE /\ regist.awaited = NoId
  BY <1>2 DEF NoPipe
<1>4. TypeOK
  <2>1. server \in ServerType
    BY <1>2 DEF ServerType
  <2>2. pipe \in [NewName -> PipeType]
    BY DEF Init, PipeType
  <2>3. ends \in 0 .. MaxEnds
    BY RegistrationAssumption DEF Init
  <2>4. QED
    BY <1>2, <2>1, <2>2, <2>3, NewTypes DEF TypeOK, Init
<1>5. ClientInv /\ HolderInv
  BY <1>1 DEF ClientInv, HolderInv, NewClient
<1>6. ServerInv /\ AnswerInv /\ AcceptedWasTold
  BY <1>2, <1>3 DEF ServerInv, AnswerInv, AcceptedWasTold
<1>7. NamesInv
  <2>1. \A n \in NewName : ~AtServer(n) /\ ~Sent(n) /\ \A c \in Client : ~Kept(c, n) /\ ~Read(c, n)
    BY <1>1, <1>2, <1>3, Specials DEF AtServer, Sent, Kept, Read, NewClient
  <2>2. Len(regist.down) <= 1
    BY <1>3
  <2>3. QED
    BY <2>1, <2>2 DEF NamesInv
<1>8. QED
  BY <1>4, <1>5, <1>6, <1>7 DEF RegistrationInv

LEMMA RegistrationInvStep == RegistrationInv /\ [Next]_vars => RegistrationInv'
BY TypeStep, ClientStep, ServerStep, AnswerStep, NamesStep, HolderStep, AcceptedStep DEF RegistrationInv, NamesInv

LEMMA RegistrationInvariant == Spec => []RegistrationInv
<1>1. QED
  BY RegistrationInvInit, RegistrationInvStep, PTL DEF Spec

(* The records of the pipe, the server and the clients, and what is in     *)
(* flight, keep their types (PipeHelper.h, PipeHelper.cpp).                *)
THEOREM RegistrationTypeCorrect == Spec => []TypeOK
<1>1. RegistrationInv => TypeOK
  BY DEF RegistrationInv
<1>2. QED
  BY <1>1, RegistrationInvariant, PTL

(* OnRegist returns true only for a name that a client has read            *)
(* (PipeHelper.cpp:330-364).                                               *)
THEOREM RegistrationAcceptedWasTold == Spec => []AcceptedWasTold
<1>1. RegistrationInv => AcceptedWasTold
  BY DEF RegistrationInv
<1>2. QED
  BY <1>1, RegistrationInvariant, PTL

(* No two clients read the same name, and a client that goes by a name     *)
(* holds the pipe of that name (PipeHelper.cpp:119-150).                   *)
THEOREM RegistrationNameIsMine == Spec => []NameIsMine
<1>1. RegistrationInv => NameIsMine
  BY DEF RegistrationInv, NamesInv, HolderInv, NameIsMine, Read
<1>2. QED
  BY <1>1, RegistrationInvariant, PTL
=============================================================================
