----------------------- MODULE SharedMemoryIpc_proofs -----------------------
(***************************************************************************)
(* The channel for any processes, messages and sizes: it keeps its types,  *)
(* has one receiver and one token, which it loses in four ways only, and   *)
(* delivers what was sent.                                                 *)
(***************************************************************************)
EXTENDS SharedMemoryIpc, TLAPS, SequenceTheorems

(* A process has opened everything; only then it uses the events.          *)
Ready == {"open", "wait_send", "wait_recv"} \union Sending \union Reading

-----------------------------------------------------------------------------
(* Types                                                                   *)

(* Only clients send, and they send a message; only servers receive.       *)
RoleInv ==
  /\ \A c \in Client : pc[c] \in Sending \union {"wait_send"} => arg[c] \in Message
  /\ \A c \in Client : pc[c] \notin Reading \union {"wait_recv"}
  /\ \A s \in Server : pc[s] \notin Sending \union {"wait_send"}

TypeInv == TypeOK /\ RoleInv

(* Every step keeps the types and the roles.                               *)
LEMMA TypeStep == TypeInv /\ [Next]_vars => TypeInv'
<1> SUFFICES ASSUME TypeInv, [Next]_vars PROVE TypeInv'
  OBVIOUS
<1> USE IpcAssumption
    DEF TypeInv, TypeOK, RoleInv, Proc, Objects, PcStates, Creating, Sending, Reading, Closing,
        Step, Goto, kernel, memory, local, results
<1>1. ASSUME NEW p \in Proc, Create(p)
      PROVE  TypeInv'
  BY <1>1 DEF Create
<1>2. ASSUME NEW p \in Proc, OpenMemory(p)
      PROVE  TypeInv'
  BY <1>2 DEF OpenMemory, Open
<1>3. ASSUME NEW p \in Proc, OpenRecvEvent(p)
      PROVE  TypeInv'
  BY <1>3 DEF OpenRecvEvent, Open
<1>4. ASSUME NEW p \in Proc, OpenSendEvent(p)
      PROVE  TypeInv'
  BY <1>4 DEF OpenSendEvent, Open
<1>5. ASSUME NEW p \in Proc, CreateFails(p)
      PROVE  TypeInv'
  BY <1>5 DEF CreateFails
<1>6. ASSUME NEW p \in Proc, Close(p)
      PROVE  TypeInv'
  BY <1>6 DEF Close
<1>7. ASSUME NEW p \in Proc, CloseHandles(p)
      PROVE  TypeInv'
  <2>1. CASE Step(p, "close_recv", "close_send") /\ Drop(p, {"recv_event"})
    BY <1>7, <2>1 DEF CloseHandles, Drop
  <2>2. CASE Step(p, "close_send", "close_memory") /\ Drop(p, {"send_event"})
    BY <1>7, <2>2 DEF CloseHandles, Drop
  <2>3. CASE Step(p, "close_memory", "closed") /\ Drop(p, {"memory"})
    BY <1>7, <2>3 DEF CloseHandles, Drop
  <2>4. QED
    BY <1>7, <2>1, <2>2, <2>3 DEF CloseHandles
<1>8. ASSUME NEW p \in Proc, ProcessEnds(p)
      PROVE  TypeInv'
  BY <1>8 DEF ProcessEnds, Drop
<1>9. ASSUME NEW c \in Client, SendWaitOk(c)
      PROVE  TypeInv'
  BY <1>9 DEF SendWaitOk
<1>10. ASSUME NEW c \in Client, SendTimesOut(c)
      PROVE  TypeInv'
  BY <1>10 DEF SendTimesOut
<1>11. ASSUME NEW c \in Client, WriteSize(c)
      PROVE  TypeInv'
  <2>1. CASE Fits(c, Size[arg[c]])
    <3>1. Size[arg[c]] \in Nat
      BY <1>11 DEF WriteSize
    <3>2. memSize' \in Nat /\ pc' = [pc EXCEPT ![c] = "write_data"] /\ UNCHANGED arg
      BY <1>11, <2>1, <3>1 DEF WriteSize
    <3>3. QED
      BY <1>11, <3>2 DEF WriteSize
  <2>2. CASE ~Fits(c, Size[arg[c]])
    BY <1>11, <2>2 DEF WriteSize
  <2>3. QED
    BY <2>1, <2>2
<1>12. ASSUME NEW c \in Client, WriteData(c)
      PROVE  TypeInv'
  BY <1>12 DEF WriteData
<1>13. ASSUME NEW c \in Client, SetRecvEvent(c)
      PROVE  TypeInv'
  <2>1. sent' \in Seq(Message)
    BY <1>13, AppendProperties DEF SetRecvEvent
  <2>2. QED
    BY <1>13, <2>1 DEF SetRecvEvent
<1>14. ASSUME NEW c \in Client, NEW m \in Message, Send(c, m)
      PROVE  TypeInv'
  BY <1>14 DEF Send
<1>15. ASSUME NEW s \in Server, Destroy(s)
      PROVE  TypeInv'
  BY <1>15 DEF Destroy
<1>16. ASSUME NEW s \in Server, Recv(s)
      PROVE  TypeInv'
  BY <1>16 DEF Recv
<1>17. ASSUME NEW s \in Server, RecvTimesOut(s)
      PROVE  TypeInv'
  BY <1>17 DEF RecvTimesOut
<1>18. ASSUME NEW s \in Server, RecvWaitOk(s)
      PROVE  TypeInv'
  BY <1>18 DEF RecvWaitOk
<1>19. ASSUME NEW s \in Server, ReadSize(s)
      PROVE  TypeInv'
  <2>1. CASE Fits(s, memSize)
    <3>1. size' = [size EXCEPT ![s] = memSize] /\ pc' = [pc EXCEPT ![s] = "read_data"]
      BY <1>19, <2>1, Zenon DEF ReadSize
    <3>2. size' \in [Server -> Nat]
      BY <3>1
    <3>3. QED
      BY <1>19, <3>1, <3>2 DEF ReadSize
  <2>2. CASE ~Fits(s, memSize)
    BY <1>19, <2>2 DEF ReadSize
  <2>3. QED
    BY <2>1, <2>2
<1>20. ASSUME NEW s \in Server, ReadData(s)
      PROVE  TypeInv'
  <2>1. [size |-> size[s], data |-> memData] \in Copy
    BY DEF Copy
  <2>2. delivered' \in Seq(Copy)
    BY <1>20, <2>1, AppendProperties DEF ReadData
  <2>3. QED
    BY <1>20, <2>2 DEF ReadData
<1>21. ASSUME NEW s \in Server, SetSendEvent(s)
      PROVE  TypeInv'
  BY <1>21 DEF SetSendEvent
<1>22. CASE UNCHANGED vars
  BY <1>22 DEF vars
<1>23. QED
  BY <1>1, <1>2, <1>3, <1>4, <1>5, <1>6, <1>7, <1>8, <1>9, <1>10, <1>11, <1>12, <1>13,
     <1>14, <1>15, <1>16, <1>17, <1>18, <1>19, <1>20, <1>21, <1>22
     DEF Next, Running, ClientStep, ServerStep

(* The types and the roles hold.                                           *)
LEMMA TypeInvariant == Safety => []TypeInv
<1>1. Init => TypeInv
  <2> SUFFICES ASSUME Init PROVE TypeInv
    OBVIOUS
  <2>1. sent \in Seq(Message) /\ delivered \in Seq(Copy)
    BY DEF Init
  <2>2. pc \in [Proc -> PcStates] /\ handles \in [Proc -> SUBSET Objects]
    BY DEF Init, PcStates
  <2>3. RoleInv
    BY DEF Init, RoleInv, Proc, Sending, Reading
  <2>4. arg \in [Client -> Message \union {NoMessage}] /\ size \in [Server -> Nat]
    BY DEF Init
  <2>5. ends \in 0 .. MaxEnds /\ memSize \in Nat
    BY IpcAssumption DEF Init
  <2>6. QED
    BY <2>1, <2>2, <2>3, <2>4, <2>5 DEF Init, TypeInv, TypeOK
<1>2. QED
  BY <1>1, TypeStep, PTL DEF Safety

(* The channel keeps its types.                                            *)
THEOREM IpcTypeCorrect == Safety => []TypeOK
<1>1. TypeInv => TypeOK
  BY DEF TypeInv
<1>2. QED
  BY <1>1, TypeInvariant, PTL

-----------------------------------------------------------------------------
(* One receiver                                                            *)

(* A server that is not closed or closing holds the mutex.                 *)
LimitInv == \A s \in Server : pc[s] \notin Closing \union {"closed"} => limited = s

(* Every step keeps the server's hold on the mutex.                        *)
LEMMA LimitStep == TypeInv /\ LimitInv /\ [Next]_vars => LimitInv'
<1> SUFFICES ASSUME TypeInv, LimitInv, [Next]_vars PROVE LimitInv'
  OBVIOUS
<1> USE IpcAssumption
    DEF TypeInv, TypeOK, LimitInv, Proc, PcStates, Creating, Closing, Step, Goto, kernel
<1>1. ASSUME NEW p \in Proc, Create(p)
      PROVE  LimitInv'
  BY <1>1 DEF Create
<1>2. ASSUME NEW p \in Proc, OpenMemory(p)
      PROVE  LimitInv'
  BY <1>2 DEF OpenMemory
<1>3. ASSUME NEW p \in Proc, OpenRecvEvent(p)
      PROVE  LimitInv'
  BY <1>3 DEF OpenRecvEvent
<1>4. ASSUME NEW p \in Proc, OpenSendEvent(p)
      PROVE  LimitInv'
  BY <1>4 DEF OpenSendEvent
<1>5. ASSUME NEW p \in Proc, CreateFails(p)
      PROVE  LimitInv'
  BY <1>5 DEF CreateFails
<1>6. ASSUME NEW p \in Proc, Close(p)
      PROVE  LimitInv'
  BY <1>6 DEF Close
<1>7. ASSUME NEW p \in Proc, CloseHandles(p)
      PROVE  LimitInv'
  BY <1>7 DEF CloseHandles
<1>8. ASSUME NEW p \in Proc, ProcessEnds(p)
      PROVE  LimitInv'
  BY <1>8 DEF ProcessEnds
<1>9. ASSUME NEW c \in Client, SendWaitOk(c)
      PROVE  LimitInv'
  BY <1>9 DEF SendWaitOk
<1>10. ASSUME NEW c \in Client, SendTimesOut(c)
      PROVE  LimitInv'
  BY <1>10 DEF SendTimesOut
<1>11. ASSUME NEW c \in Client, WriteSize(c)
      PROVE  LimitInv'
  BY <1>11 DEF WriteSize
<1>12. ASSUME NEW c \in Client, WriteData(c)
      PROVE  LimitInv'
  BY <1>12 DEF WriteData
<1>13. ASSUME NEW c \in Client, SetRecvEvent(c)
      PROVE  LimitInv'
  BY <1>13 DEF SetRecvEvent
<1>14. ASSUME NEW c \in Client, NEW m \in Message, Send(c, m)
      PROVE  LimitInv'
  BY <1>14 DEF Send
<1>15. ASSUME NEW s \in Server, Destroy(s)
      PROVE  LimitInv'
  BY <1>15 DEF Destroy
<1>16. ASSUME NEW s \in Server, Recv(s)
      PROVE  LimitInv'
  BY <1>16 DEF Recv
<1>17. ASSUME NEW s \in Server, RecvTimesOut(s)
      PROVE  LimitInv'
  BY <1>17 DEF RecvTimesOut
<1>18. ASSUME NEW s \in Server, RecvWaitOk(s)
      PROVE  LimitInv'
  BY <1>18 DEF RecvWaitOk
<1>19. ASSUME NEW s \in Server, ReadSize(s)
      PROVE  LimitInv'
  BY <1>19 DEF ReadSize
<1>20. ASSUME NEW s \in Server, ReadData(s)
      PROVE  LimitInv'
  BY <1>20 DEF ReadData
<1>21. ASSUME NEW s \in Server, SetSendEvent(s)
      PROVE  LimitInv'
  BY <1>21 DEF SetSendEvent
<1>22. CASE UNCHANGED vars
  BY <1>22 DEF vars
<1>23. QED
  BY <1>1, <1>2, <1>3, <1>4, <1>5, <1>6, <1>7, <1>8, <1>9, <1>10, <1>11, <1>12, <1>13,
     <1>14, <1>15, <1>16, <1>17, <1>18, <1>19, <1>20, <1>21, <1>22
     DEF Next, Running, ClientStep, ServerStep

(* At most one server receives.                                            *)
THEOREM IpcOneReceiver == Safety => []OneReceiver
<1>1. Init => LimitInv
  BY IpcAssumption DEF Init, LimitInv, Proc
<1>2. LimitInv => OneReceiver
  BY DEF LimitInv, OneReceiver, Receiving, Closing, Reading
<1>3. QED
  BY <1>1, <1>2, LimitStep, TypeInvariant, PTL DEF Safety

-----------------------------------------------------------------------------
(* One token                                                               *)

(* What a process has open, by where it is.                                *)
HandlesInv ==
  \A p \in Proc :
    /\ pc[p] \in Ready => handles[p] = Objects
    /\ pc[p] \in {"closed", "memory"} => handles[p] = {}
    /\ pc[p] = "recv_event" => handles[p] = {"memory"}
    /\ pc[p] = "send_event" => handles[p] = {"memory", "recv_event"}
    /\ pc[p] = "close_send" => "recv_event" \notin handles[p]
    /\ pc[p] = "close_memory" => handles[p] \subseteq {"memory"}
    /\ "recv_event" \in handles[p] => "memory" \in handles[p]

(* Signals are signals of events that exist, and a new recv_event has not  *)
(* been used before somebody has opened a send_event too.                  *)
EventsInv ==
  /\ send_event => Exists("send_event")
  /\ recv_event => Exists("recv_event")
  /\ ~paired => ~recv_event /\ \A p \in Proc : pc[p] \notin Ready

TokenInv == HandlesInv /\ EventsInv /\ OneToken

(* Every step keeps the open handles.                                      *)
LEMMA HandlesStep == TypeInv /\ HandlesInv /\ [Next]_vars => HandlesInv'
<1> SUFFICES ASSUME TypeInv, HandlesInv, [Next]_vars PROVE HandlesInv'
  OBVIOUS
<1> USE IpcAssumption
    DEF TypeInv, TypeOK, HandlesInv, Ready, Proc, Objects, Creating, Sending, Reading, Closing,
        PcStates, Step, Goto, kernel
<1>1. ASSUME NEW p \in Proc, Create(p)
      PROVE  HandlesInv'
  BY <1>1 DEF Create
<1>2. ASSUME NEW p \in Proc, OpenMemory(p)
      PROVE  HandlesInv'
  BY <1>2 DEF OpenMemory, Open
<1>3. ASSUME NEW p \in Proc, OpenRecvEvent(p)
      PROVE  HandlesInv'
  BY <1>3 DEF OpenRecvEvent, Open
<1>4. ASSUME NEW p \in Proc, OpenSendEvent(p)
      PROVE  HandlesInv'
  BY <1>4 DEF OpenSendEvent, Open
<1>5. ASSUME NEW p \in Proc, CreateFails(p)
      PROVE  HandlesInv'
  BY <1>5 DEF CreateFails
<1>6. ASSUME NEW p \in Proc, Close(p)
      PROVE  HandlesInv'
  BY <1>6 DEF Close
<1>7. ASSUME NEW p \in Proc, CloseHandles(p)
      PROVE  HandlesInv'
  <2>1. CASE Step(p, "close_recv", "close_send") /\ Drop(p, {"recv_event"})
    BY <1>7, <2>1 DEF CloseHandles, Drop
  <2>2. CASE Step(p, "close_send", "close_memory") /\ Drop(p, {"send_event"})
    BY <1>7, <2>2 DEF CloseHandles, Drop
  <2>3. CASE Step(p, "close_memory", "closed") /\ Drop(p, {"memory"})
    BY <1>7, <2>3 DEF CloseHandles, Drop
  <2>4. QED
    BY <1>7, <2>1, <2>2, <2>3 DEF CloseHandles
<1>8. ASSUME NEW p \in Proc, ProcessEnds(p)
      PROVE  HandlesInv'
  BY <1>8 DEF ProcessEnds, Drop
<1>9. ASSUME NEW c \in Client, SendWaitOk(c)
      PROVE  HandlesInv'
  BY <1>9 DEF SendWaitOk
<1>10. ASSUME NEW c \in Client, SendTimesOut(c)
      PROVE  HandlesInv'
  BY <1>10 DEF SendTimesOut
<1>11. ASSUME NEW c \in Client, WriteSize(c)
      PROVE  HandlesInv'
  BY <1>11 DEF WriteSize
<1>12. ASSUME NEW c \in Client, WriteData(c)
      PROVE  HandlesInv'
  BY <1>12 DEF WriteData
<1>13. ASSUME NEW c \in Client, SetRecvEvent(c)
      PROVE  HandlesInv'
  BY <1>13 DEF SetRecvEvent
<1>14. ASSUME NEW c \in Client, NEW m \in Message, Send(c, m)
      PROVE  HandlesInv'
  BY <1>14 DEF Send
<1>15. ASSUME NEW s \in Server, Destroy(s)
      PROVE  HandlesInv'
  BY <1>15 DEF Destroy
<1>16. ASSUME NEW s \in Server, Recv(s)
      PROVE  HandlesInv'
  BY <1>16 DEF Recv
<1>17. ASSUME NEW s \in Server, RecvTimesOut(s)
      PROVE  HandlesInv'
  BY <1>17 DEF RecvTimesOut
<1>18. ASSUME NEW s \in Server, RecvWaitOk(s)
      PROVE  HandlesInv'
  BY <1>18 DEF RecvWaitOk
<1>19. ASSUME NEW s \in Server, ReadSize(s)
      PROVE  HandlesInv'
  BY <1>19 DEF ReadSize
<1>20. ASSUME NEW s \in Server, ReadData(s)
      PROVE  HandlesInv'
  BY <1>20 DEF ReadData
<1>21. ASSUME NEW s \in Server, SetSendEvent(s)
      PROVE  HandlesInv'
  BY <1>21 DEF SetSendEvent
<1>22. CASE UNCHANGED vars
  BY <1>22 DEF vars
<1>23. QED
  BY <1>1, <1>2, <1>3, <1>4, <1>5, <1>6, <1>7, <1>8, <1>9, <1>10, <1>11, <1>12, <1>13,
     <1>14, <1>15, <1>16, <1>17, <1>18, <1>19, <1>20, <1>21, <1>22
     DEF Next, Running, ClientStep, ServerStep

(* Every step keeps the signals and the single token.                      *)
LEMMA TokenStep == TypeInv /\ TokenInv /\ [Next]_vars => EventsInv' /\ OneToken'
<1> SUFFICES ASSUME TypeInv, TokenInv, [Next]_vars PROVE EventsInv' /\ OneToken'
  OBVIOUS
<1> USE IpcAssumption
    DEF TypeInv, TypeOK, TokenInv, HandlesInv, EventsInv, OneToken, Holding, Exists, Ready, Proc,
        Objects, Creating, Sending, Reading, Closing, PcStates, Step, Goto, kernel
<1>1. ASSUME NEW p \in Proc, Create(p)
      PROVE  EventsInv' /\ OneToken'
  BY <1>1 DEF Create
<1>2. ASSUME NEW p \in Proc, OpenMemory(p)
      PROVE  EventsInv' /\ OneToken'
  BY <1>2 DEF OpenMemory, Open
<1>3. ASSUME NEW p \in Proc, OpenRecvEvent(p)
      PROVE  EventsInv' /\ OneToken'
  BY <1>3 DEF OpenRecvEvent, Open
<1>4. ASSUME NEW p \in Proc, OpenSendEvent(p)
      PROVE  EventsInv' /\ OneToken'
  BY <1>4 DEF OpenSendEvent, Open
<1>5. ASSUME NEW p \in Proc, CreateFails(p)
      PROVE  EventsInv' /\ OneToken'
  BY <1>5 DEF CreateFails
<1>6. ASSUME NEW p \in Proc, Close(p)
      PROVE  EventsInv' /\ OneToken'
  BY <1>6 DEF Close
<1>7. ASSUME NEW p \in Proc, CloseHandles(p)
      PROVE  EventsInv' /\ OneToken'
  <2>1. CASE Step(p, "close_recv", "close_send") /\ Drop(p, {"recv_event"})
    BY <1>7, <2>1 DEF CloseHandles, Drop
  <2>2. CASE Step(p, "close_send", "close_memory") /\ Drop(p, {"send_event"})
    BY <1>7, <2>2 DEF CloseHandles, Drop
  <2>3. CASE Step(p, "close_memory", "closed") /\ Drop(p, {"memory"})
    BY <1>7, <2>3 DEF CloseHandles, Drop
  <2>4. QED
    BY <1>7, <2>1, <2>2, <2>3 DEF CloseHandles
<1>8. ASSUME NEW p \in Proc, ProcessEnds(p)
      PROVE  EventsInv' /\ OneToken'
  BY <1>8 DEF ProcessEnds, Drop
<1>9. ASSUME NEW c \in Client, SendWaitOk(c)
      PROVE  EventsInv' /\ OneToken'
  BY <1>9 DEF SendWaitOk
<1>10. ASSUME NEW c \in Client, SendTimesOut(c)
      PROVE  EventsInv' /\ OneToken'
  BY <1>10 DEF SendTimesOut
<1>11. ASSUME NEW c \in Client, WriteSize(c)
      PROVE  EventsInv' /\ OneToken'
  <2>1. /\ \/ pc' = [pc EXCEPT ![c] = "write_data"]
           \/ pc' = [pc EXCEPT ![c] = "open"]
        /\ pc[c] = "write_size"
        /\ UNCHANGED <<handles, recv_event, send_event, paired, mixed>>
    BY <1>11 DEF WriteSize
  <2>2. EventsInv'
    BY <2>1
  <2>3. \A p \in Proc : Holding(p)' => Holding(p)
    BY <2>1
  <2>4. OneToken'
    <3> HIDE DEF Holding
    <3> QED
      BY <2>1, <2>3
  <2>5. QED
    BY <2>2, <2>4
<1>12. ASSUME NEW c \in Client, WriteData(c)
      PROVE  EventsInv' /\ OneToken'
  BY <1>12 DEF WriteData
<1>13. ASSUME NEW c \in Client, SetRecvEvent(c)
      PROVE  EventsInv' /\ OneToken'
  BY <1>13 DEF SetRecvEvent
<1>14. ASSUME NEW c \in Client, NEW m \in Message, Send(c, m)
      PROVE  EventsInv' /\ OneToken'
  BY <1>14 DEF Send
<1>15. ASSUME NEW s \in Server, Destroy(s)
      PROVE  EventsInv' /\ OneToken'
  BY <1>15 DEF Destroy
<1>16. ASSUME NEW s \in Server, Recv(s)
      PROVE  EventsInv' /\ OneToken'
  BY <1>16 DEF Recv
<1>17. ASSUME NEW s \in Server, RecvTimesOut(s)
      PROVE  EventsInv' /\ OneToken'
  BY <1>17 DEF RecvTimesOut
<1>18. ASSUME NEW s \in Server, RecvWaitOk(s)
      PROVE  EventsInv' /\ OneToken'
  BY <1>18 DEF RecvWaitOk
<1>19. ASSUME NEW s \in Server, ReadSize(s)
      PROVE  EventsInv' /\ OneToken'
  BY <1>19 DEF ReadSize
<1>20. ASSUME NEW s \in Server, ReadData(s)
      PROVE  EventsInv' /\ OneToken'
  BY <1>20 DEF ReadData
<1>21. ASSUME NEW s \in Server, SetSendEvent(s)
      PROVE  EventsInv' /\ OneToken'
  BY <1>21 DEF SetSendEvent
<1>22. CASE UNCHANGED vars
  BY <1>22 DEF vars
<1>23. QED
  BY <1>1, <1>2, <1>3, <1>4, <1>5, <1>6, <1>7, <1>8, <1>9, <1>10, <1>11, <1>12, <1>13,
     <1>14, <1>15, <1>16, <1>17, <1>18, <1>19, <1>20, <1>21, <1>22
     DEF Next, Running, ClientStep, ServerStep

(* The handles, the signals and the token stay as they should.             *)
LEMMA TokenInvariant == Safety => []TokenInv
<1>1. Init => TokenInv
  BY IpcAssumption DEF Init, TokenInv, HandlesInv, EventsInv, OneToken, Holding, Ready, Proc, Sending,
     Reading, Exists
<1>2. TypeInv /\ TokenInv /\ [Next]_vars => TokenInv'
  BY HandlesStep, TokenStep DEF TokenInv
<1>3. QED
  BY <1>1, <1>2, TypeInvariant, PTL DEF Safety

(* There is at most one token.                                             *)
THEOREM IpcOneToken == Safety => []OneToken
<1>1. TokenInv => OneToken
  BY DEF TokenInv
<1>2. QED
  BY <1>1, TokenInvariant, PTL

-----------------------------------------------------------------------------
(* The token is kept                                                       *)

(* The four ways to lose the token: a message too large for the client or  *)
(* for the server, an end of a process, and an event nobody has open.      *)
TokenLost ==
  \/ \E c \in Client : pc[c] = "write_size" /\ pc'[c] = "open"
  \/ \E s \in Server : pc[s] = "read_size" /\ pc'[s] = "open"
  \/ ends' # ends
  \/ ~(Exists("recv_event") /\ Exists("send_event"))'

(* Signals that stay set and holders that hold on keep the token.          *)
LEMMA TokenStays ==
  ASSUME recv_event => recv_event', send_event => send_event',
         \A p \in Proc : Holding(p) => Holding(p)'
  PROVE  Token => Token'
BY DEF Token

(* A step of the token's holder, or of nobody who has anything to do with  *)
(* it, keeps it; the others are the four ways to lose it.                  *)
LEMMA TokenKeptStep ==
  TypeInv /\ TokenInv /\ [Next]_vars => (Token /\ ~Token' => TokenLost)
<1> SUFFICES ASSUME TypeInv, TokenInv, [Next]_vars, Token PROVE Token' \/ TokenLost
  OBVIOUS
<1> USE IpcAssumption
    DEF TypeInv, TypeOK, Proc, Holding, Creating, Sending, Reading, Closing, PcStates, Step, Goto, kernel
<1>a. ASSUME NEW p \in Proc, pc[p] \notin Sending \union Reading, UNCHANGED <<recv_event, send_event>>,
             NEW to \in PcStates, pc' = [pc EXCEPT ![p] = to]
      PROVE  Token'
  BY <1>a, TokenStays
<1>1. ASSUME NEW p \in Proc, Create(p)
      PROVE  Token'
  BY <1>1, <1>a DEF Create
<1>2. ASSUME NEW p \in Proc, OpenMemory(p)
      PROVE  Token'
  BY <1>2, <1>a DEF OpenMemory
<1>3. ASSUME NEW p \in Proc, OpenRecvEvent(p)
      PROVE  Token'
  <2>1. recv_event' = recv_event /\ send_event' = send_event
    BY <1>3 DEF OpenRecvEvent, TokenInv, EventsInv
  <2>2. QED
    BY <1>3, <1>a, <2>1 DEF OpenRecvEvent
<1>4. ASSUME NEW p \in Proc, OpenSendEvent(p)
      PROVE  Token'
  BY <1>4, TokenStays DEF OpenSendEvent
<1>5. ASSUME NEW p \in Proc, CreateFails(p)
      PROVE  Token'
  BY <1>5, <1>a DEF CreateFails
<1>6. ASSUME NEW p \in Proc, Close(p)
      PROVE  Token'
  BY <1>6, <1>a DEF Close
<1>7. ASSUME NEW p \in Proc, CloseHandles(p)
      PROVE  Token' \/ TokenLost
  <2> SUFFICES ASSUME ~TokenLost PROVE Token'
    OBVIOUS
  <2>1. Exists("recv_event")' /\ Exists("send_event")'
    BY DEF TokenLost
  <2>2. recv_event' = recv_event /\ send_event' = send_event
    BY <1>7, <2>1 DEF CloseHandles, Drop, Exists
  <2>3. QED
    BY <1>7, <1>a, <2>2 DEF CloseHandles
<1>8. ASSUME NEW p \in Proc, ProcessEnds(p)
      PROVE  TokenLost
  BY <1>8 DEF ProcessEnds, TokenLost
<1>9. ASSUME NEW c \in Client, SendWaitOk(c)
      PROVE  Token'
  BY <1>9 DEF SendWaitOk, Token
<1>10. ASSUME NEW c \in Client, SendTimesOut(c)
      PROVE  Token'
  BY <1>10, <1>a DEF SendTimesOut
<1>11. ASSUME NEW c \in Client, WriteSize(c)
      PROVE  Token' \/ TokenLost
  BY <1>11 DEF WriteSize, Token, TokenLost
<1>12. ASSUME NEW c \in Client, WriteData(c)
      PROVE  Token'
  BY <1>12 DEF WriteData, Token
<1>13. ASSUME NEW c \in Client, SetRecvEvent(c)
      PROVE  Token'
  BY <1>13 DEF SetRecvEvent, Token
<1>14. ASSUME NEW c \in Client, NEW m \in Message, Send(c, m)
      PROVE  Token'
  BY <1>14, <1>a DEF Send
<1>15. ASSUME NEW s \in Server, Destroy(s)
      PROVE  Token'
  BY <1>15, <1>a DEF Destroy
<1>16. ASSUME NEW s \in Server, Recv(s)
      PROVE  Token'
  BY <1>16, <1>a DEF Recv
<1>17. ASSUME NEW s \in Server, RecvTimesOut(s)
      PROVE  Token'
  BY <1>17, <1>a DEF RecvTimesOut
<1>18. ASSUME NEW s \in Server, RecvWaitOk(s)
      PROVE  Token'
  BY <1>18 DEF RecvWaitOk, Token
<1>19. ASSUME NEW s \in Server, ReadSize(s)
      PROVE  Token' \/ TokenLost
  BY <1>19 DEF ReadSize, Token, TokenLost
<1>20. ASSUME NEW s \in Server, ReadData(s)
      PROVE  Token'
  BY <1>20 DEF ReadData, Token
<1>21. ASSUME NEW s \in Server, SetSendEvent(s)
      PROVE  Token'
  BY <1>21 DEF SetSendEvent, Token
<1>22. CASE UNCHANGED vars
  BY <1>22 DEF vars, Token
<1>23. QED
  BY <1>1, <1>2, <1>3, <1>4, <1>5, <1>6, <1>7, <1>8, <1>9, <1>10, <1>11, <1>12, <1>13,
     <1>14, <1>15, <1>16, <1>17, <1>18, <1>19, <1>20, <1>21, <1>22
     DEF Next, Running, ClientStep, ServerStep

(* The token is lost in the four ways only.                                *)
THEOREM IpcTokenKept == Safety => TokenKept
<1>1. TypeInv /\ TokenInv /\ [Next]_vars => [Token /\ ~Token' => TokenLost]_vars
  BY TokenKeptStep
<1>2. TokenKept <=> [][Token /\ ~Token' => TokenLost]_vars
  BY DEF TokenKept, TokenLost
<1>3. QED
  BY <1>1, <1>2, TypeInvariant, TokenInvariant, PTL DEF Safety

-----------------------------------------------------------------------------
(* Delivery                                                                *)

(* The memory holds the last message sent, whole, and read() has copied    *)
(* only earlier ones.                                                      *)
MemoryIsNew ==
  /\ Len(sent) \in DOMAIN sent
  /\ memData = sent[Len(sent)]
  /\ memSize = Size[memData]
  /\ \A i \in DOMAIN delivered :
       \E a \in DOMAIN sent : a < Len(sent) /\ sent[a] = delivered[i].data

Offered == recv_event \/ \E s \in Server : pc[s] \in {"read_size", "read_data"}

ContentInv ==
  mixed \/
    /\ Offered => MemoryIsNew
    /\ \A s \in Server : pc[s] = "read_data" => size[s] = memSize
    /\ \A c \in Client : pc[c] \in {"write_data", "set_recv"} => memSize = Size[arg[c]]
    /\ \A c \in Client : pc[c] = "set_recv" => memData = arg[c]

(* Every step keeps the memory's content and the order of delivery.        *)
LEMMA ContentStep ==
  TypeInv /\ TokenInv /\ ContentInv /\ DeliveredAsSent /\ [Next]_vars
    => ContentInv' /\ DeliveredAsSent'
<1> SUFFICES ASSUME TypeInv, TokenInv, ContentInv, DeliveredAsSent, [Next]_vars
             PROVE  ContentInv' /\ DeliveredAsSent'
  OBVIOUS
<1>a. ASSUME UNCHANGED results, mixed => mixed'
      PROVE  DeliveredAsSent' /\ (MemoryIsNew /\ UNCHANGED memory => MemoryIsNew')
  BY <1>a DEF results, memory, DeliveredAsSent, MemoryIsNew
<1>b. ASSUME NEW p \in Proc, ~mixed, Holding(p)
      PROVE  ~recv_event /\ \A q \in Proc : pc[q] \in Sending \union Reading => q = p
  BY <1>b DEF TokenInv, OneToken, Holding
<1> USE IpcAssumption
    DEF TypeInv, TypeOK, RoleInv, ContentInv, Offered, Proc, Creating, Sending, Reading, Closing,
        PcStates, Step, Goto, kernel, memory, local, results
<1>1. ASSUME NEW p \in Proc, Create(p)
      PROVE  ContentInv' /\ DeliveredAsSent'
  BY <1>a, <1>b, <1>1 DEF Create
<1>2. ASSUME NEW p \in Proc, OpenMemory(p)
      PROVE  ContentInv' /\ DeliveredAsSent'
  <2>1. CASE Exists("memory")
    BY <1>a, <1>2, <2>1 DEF OpenMemory
  <2>2. CASE ~Exists("memory")
    <3>1. \A q \in Proc : pc[q] \notin Ready
      BY <2>2 DEF TokenInv, HandlesInv, Exists, Objects
    <3>2. ~recv_event
      BY <2>2 DEF TokenInv, EventsInv, HandlesInv, Exists
    <3>3. QED
      BY <1>a, <1>2, <3>1, <3>2 DEF OpenMemory, Ready
  <2>3. QED
    BY <2>1, <2>2
<1>3. ASSUME NEW p \in Proc, OpenRecvEvent(p)
      PROVE  ContentInv' /\ DeliveredAsSent'
  BY <1>a, <1>b, <1>3 DEF OpenRecvEvent, Open
<1>4. ASSUME NEW p \in Proc, OpenSendEvent(p)
      PROVE  ContentInv' /\ DeliveredAsSent'
  BY <1>a, <1>b, <1>4 DEF OpenSendEvent, Open
<1>5. ASSUME NEW p \in Proc, CreateFails(p)
      PROVE  ContentInv' /\ DeliveredAsSent'
  BY <1>a, <1>b, <1>5 DEF CreateFails
<1>6. ASSUME NEW p \in Proc, Close(p)
      PROVE  ContentInv' /\ DeliveredAsSent'
  BY <1>a, <1>b, <1>6 DEF Close
<1>7. ASSUME NEW p \in Proc, CloseHandles(p)
      PROVE  ContentInv' /\ DeliveredAsSent'
  BY <1>a, <1>b, <1>7 DEF CloseHandles, Drop
<1>8. ASSUME NEW p \in Proc, ProcessEnds(p)
      PROVE  ContentInv' /\ DeliveredAsSent'
  BY <1>a, <1>b, <1>8 DEF ProcessEnds, Drop
<1>9. ASSUME NEW c \in Client, SendWaitOk(c)
      PROVE  ContentInv' /\ DeliveredAsSent'
  BY <1>a, <1>b, <1>9 DEF SendWaitOk
<1>10. ASSUME NEW c \in Client, SendTimesOut(c)
      PROVE  ContentInv' /\ DeliveredAsSent'
  BY <1>a, <1>b, <1>10 DEF SendTimesOut
<1>11. ASSUME NEW c \in Client, WriteSize(c)
      PROVE  ContentInv' /\ DeliveredAsSent'
  <2>1. ~mixed => ~Offered /\ \A q \in Proc : pc[q] \in Sending \union Reading => q = c
    BY <1>b, <1>11 DEF WriteSize, Holding
  <2>2. DeliveredAsSent' /\ mixed' = mixed /\ recv_event' = recv_event
    BY <1>a, <1>11 DEF WriteSize
  <2>3. CASE Fits(c, Size[arg[c]])
    BY <1>11, <2>1, <2>2, <2>3 DEF WriteSize
  <2>4. CASE ~Fits(c, Size[arg[c]])
    <3>1. pc' = [pc EXCEPT ![c] = "open"]
      BY <1>11, <2>4, Zenon DEF WriteSize
    <3>2. ~mixed => ~Offered'
      BY <2>1, <2>2, <3>1
    <3>3. QED
      BY <2>1, <2>2, <3>1, <3>2
  <2>5. QED
    BY <2>3, <2>4
<1>12. ASSUME NEW c \in Client, WriteData(c)
      PROVE  ContentInv' /\ DeliveredAsSent'
  <2>1. ~mixed => ~Offered /\ \A q \in Proc : pc[q] \in Sending \union Reading => q = c
    BY <1>b, <1>12 DEF WriteData, Holding
  <2>2. DeliveredAsSent'
    BY <1>a, <1>12 DEF WriteData
  <2>3. QED
    BY <1>12, <2>1, <2>2 DEF WriteData
<1>13. ASSUME NEW c \in Client, SetRecvEvent(c)
      PROVE  ContentInv' /\ DeliveredAsSent'
  <2>1. ~mixed => \A q \in Proc : pc[q] \in Sending \union Reading => q = c
    BY <1>b, <1>13 DEF SetRecvEvent, Holding
  <2>2. sent' = Append(sent, arg[c]) /\ arg[c] \in Message
    BY <1>a, <1>b, <1>13 DEF SetRecvEvent
  <2>3. /\ Len(sent) \in Nat /\ DOMAIN sent = 1 .. Len(sent)
        /\ Len(sent') = Len(sent) + 1 /\ DOMAIN sent' = 1 .. Len(sent) + 1
        /\ sent'[Len(sent) + 1] = arg[c]
        /\ \A a \in 1 .. Len(sent) : sent'[a] = sent[a]
    BY <2>2, AppendProperties, LenProperties
  <2>4. delivered' = delivered /\ memData' = memData /\ memSize' = memSize /\ mixed' = mixed
    BY <1>a, <1>b, <1>13 DEF SetRecvEvent
  <2>5. DeliveredAsSent'
    BY <2>3, <2>4 DEF DeliveredAsSent
  <2>6. ~mixed => memData = arg[c] /\ memSize = Size[memData]
    BY <1>a, <1>b, <1>13 DEF SetRecvEvent
  <2>7. ~mixed => MemoryIsNew'
    <3> SUFFICES ASSUME ~mixed PROVE MemoryIsNew'
      OBVIOUS
    <3>1. \A i \in DOMAIN delivered : \E a \in 1 .. Len(sent) : sent[a] = delivered[i].data
      BY <2>3 DEF DeliveredAsSent
    <3>2. \A i \in DOMAIN delivered' :
            \E a \in DOMAIN sent' : a < Len(sent') /\ sent'[a] = delivered'[i].data
      <4> TAKE i \in DOMAIN delivered'
      <4>1. PICK a \in 1 .. Len(sent) : sent[a] = delivered[i].data
        BY <2>4, <3>1
      <4>2. a \in DOMAIN sent' /\ a < Len(sent') /\ sent'[a] = sent[a]
        BY <2>3
      <4>3. QED
        BY <2>4, <4>1, <4>2
    <3>3. Len(sent') \in DOMAIN sent' /\ memData' = sent'[Len(sent')] /\ memSize' = Size[memData']
      BY <2>3, <2>4, <2>6
    <3>4. QED
      BY <3>2, <3>3, Zenon DEF MemoryIsNew
  <2>8. QED
    BY <1>13, <2>1, <2>4, <2>5, <2>7 DEF SetRecvEvent
<1>14. ASSUME NEW c \in Client, NEW m \in Message, Send(c, m)
      PROVE  ContentInv' /\ DeliveredAsSent'
  BY <1>a, <1>b, <1>14 DEF Send
<1>15. ASSUME NEW s \in Server, Destroy(s)
      PROVE  ContentInv' /\ DeliveredAsSent'
  BY <1>a, <1>b, <1>15 DEF Destroy
<1>16. ASSUME NEW s \in Server, Recv(s)
      PROVE  ContentInv' /\ DeliveredAsSent'
  BY <1>a, <1>b, <1>16 DEF Recv
<1>17. ASSUME NEW s \in Server, RecvTimesOut(s)
      PROVE  ContentInv' /\ DeliveredAsSent'
  BY <1>a, <1>b, <1>17 DEF RecvTimesOut
<1>18. ASSUME NEW s \in Server, RecvWaitOk(s)
      PROVE  ContentInv' /\ DeliveredAsSent'
  BY <1>a, <1>b, <1>18 DEF RecvWaitOk
<1>19. ASSUME NEW s \in Server, ReadSize(s)
      PROVE  ContentInv' /\ DeliveredAsSent'
  BY <1>a, <1>b, <1>19 DEF ReadSize
<1>20. ASSUME NEW s \in Server, ReadData(s)
      PROVE  ContentInv' /\ DeliveredAsSent'
  <2>1. ~mixed => ~recv_event /\ \A q \in Proc : pc[q] \in Sending \union Reading => q = s
    BY <1>b, <1>20 DEF ReadData, Holding
  <2>2. DEFINE new == [size |-> size[s], data |-> memData]
  <2>3. delivered' = Append(delivered, new) /\ new \in Copy
    BY <1>a, <1>b, <1>20 DEF ReadData, Copy
  <2>4. /\ Len(delivered) \in Nat /\ DOMAIN delivered = 1 .. Len(delivered)
        /\ DOMAIN delivered' = 1 .. Len(delivered) + 1
        /\ delivered'[Len(delivered) + 1] = new
        /\ \A i \in 1 .. Len(delivered) : delivered'[i] = delivered[i]
    <3> HIDE DEF new
    <3> QED
      BY <2>3, AppendProperties, LenProperties
  <2>5. sent' = sent /\ mixed' = mixed /\ recv_event' = recv_event
    BY <1>a, <1>b, <1>20 DEF ReadData
  <2>6. ~mixed => MemoryIsNew /\ size[s] = memSize
    BY <1>a, <1>b, <1>20 DEF ReadData
  <2>7. DeliveredAsSent'
    <3> SUFFICES ASSUME ~mixed PROVE DeliveredAsSent'
      BY <2>5 DEF DeliveredAsSent
    <3>1. new.size = Size[new.data] /\ sent[Len(sent)] = new.data /\ Len(sent) \in DOMAIN sent
      BY <2>6 DEF MemoryIsNew
    <3>2. \A i \in 1 .. Len(delivered) :
            \E a \in DOMAIN sent : a < Len(sent) /\ sent[a] = delivered[i].data
      BY <2>4, <2>6 DEF MemoryIsNew
    <3> HIDE DEF new
    <3>3. \A i \in DOMAIN delivered' :
            /\ \E a \in DOMAIN sent : sent[a] = delivered'[i].data
            /\ delivered'[i].size = Size[delivered'[i].data]
      BY <2>4, <3>1 DEF DeliveredAsSent
    <3>4. \A i, j \in DOMAIN delivered' : i < j =>
            \E a, b \in DOMAIN sent :
              a < b /\ sent[a] = delivered'[i].data /\ sent[b] = delivered'[j].data
      <4> SUFFICES ASSUME NEW i \in DOMAIN delivered', NEW j \in DOMAIN delivered', i < j
                   PROVE  \E a, b \in DOMAIN sent :
                            a < b /\ sent[a] = delivered'[i].data /\ sent[b] = delivered'[j].data
        OBVIOUS
      <4>1. CASE j = Len(delivered) + 1
        BY <2>4, <3>1, <3>2, <4>1
      <4>2. CASE j # Len(delivered) + 1
        <5>1. i \in DOMAIN delivered /\ j \in DOMAIN delivered
          BY <2>4, <4>2
        <5>2. delivered'[i] = delivered[i] /\ delivered'[j] = delivered[j]
          BY <2>4, <5>1
        <5>3. \E a, b \in DOMAIN sent :
                a < b /\ sent[a] = delivered[i].data /\ sent[b] = delivered[j].data
          BY <5>1 DEF DeliveredAsSent
        <5>4. QED
          BY <5>2, <5>3
      <4>3. QED
        BY <4>1, <4>2
    <3>5. QED
      BY <2>5, <3>3, <3>4 DEF DeliveredAsSent
  <2>8. QED
    BY <1>20, <2>1, <2>5, <2>7 DEF ReadData
<1>21. ASSUME NEW s \in Server, SetSendEvent(s)
      PROVE  ContentInv' /\ DeliveredAsSent'
  BY <1>a, <1>b, <1>21 DEF SetSendEvent
<1>22. CASE UNCHANGED vars
  BY <1>a, <1>22 DEF vars
<1>23. QED
  BY <1>1, <1>2, <1>3, <1>4, <1>5, <1>6, <1>7, <1>8, <1>9, <1>10, <1>11, <1>12, <1>13,
     <1>14, <1>15, <1>16, <1>17, <1>18, <1>19, <1>20, <1>21, <1>22
     DEF Next, Running, ClientStep, ServerStep

(* What the server copies is what was sent, in the order of sending.       *)
THEOREM IpcDeliveredAsSent == Safety => []DeliveredAsSent
<1>1. Init => ContentInv /\ DeliveredAsSent
  BY IpcAssumption DEF Init, ContentInv, Offered, DeliveredAsSent, Proc
<1>2. QED
  BY <1>1, ContentStep, TokenInvariant, TypeInvariant, PTL DEF Safety
=============================================================================
