---------------------------- MODULE ServerProofs ----------------------------
(***************************************************************************)
(* For every number of sockets, connections and messages: the main thread  *)
(* and the connections' threads never use a TcpSocket or a                 *)
(* WebrtcConnection that the other has deleted, and keep the messages in   *)
(* order.                                                                  *)
(***************************************************************************)
EXTENDS Server, SequenceTheorems, TLAPS

\* vector::erase: the elements behind the erased one move up by one.
LEMMA RemoveAtFacts ==
    ASSUME NEW S, NEW s \in Seq(S), NEW i \in 1..Len(s)
    PROVE  /\ RemoveAt(s, i) \in Seq(S)
           /\ Len(RemoveAt(s, i)) = Len(s) - 1
           /\ \A k \in 1..(Len(s) - 1) :
                 RemoveAt(s, i)[k] = IF k < i THEN s[k] ELSE s[k + 1]
<1> DEFINE a == SubSeq(s, 1, i - 1)
           b == SubSeq(s, i + 1, Len(s))
<1>0. Len(s) \in Nat /\ i \in Nat
  OBVIOUS
<1>1. a \in Seq(S) /\ Len(a) = i - 1 /\ \A k \in 1..(i - 1) : a[k] = s[k]
  BY <1>0
<1>2. b \in Seq(S) /\ Len(b) = Len(s) - i /\ \A k \in 1..(Len(s) - i) : b[k] = s[i + k]
  BY <1>0
<1> HIDE DEF a, b
<1>3. /\ a \o b \in Seq(S)
      /\ Len(a \o b) = Len(a) + Len(b)
      /\ \A k \in 1..(Len(a) + Len(b)) :
            (a \o b)[k] = IF k <= Len(a) THEN a[k] ELSE b[k - Len(a)]
  BY <1>1, <1>2, ConcatProperties
<1>4. RemoveAt(s, i) = a \o b
  BY DEF RemoveAt, a, b
<1>5. ASSUME NEW k \in 1..(Len(s) - 1)
      PROVE  (a \o b)[k] = IF k < i THEN s[k] ELSE s[k + 1]
  <2>1. k \in 1..(Len(a) + Len(b))
    BY <1>0, <1>1, <1>2
  <2>2. CASE k < i
    BY <1>0, <1>1, <1>3, <2>1, <2>2
  <2>3. CASE ~(k < i)
    <3>1. k - Len(a) \in 1..(Len(s) - i) /\ i + (k - Len(a)) = k + 1
      BY <1>0, <1>1, <1>2, <2>3
    <3> QED
      BY <1>0, <1>1, <1>2, <1>3, <2>1, <2>3, <3>1
  <2> QED
    BY <2>2, <2>3
<1>6. Len(a \o b) = Len(s) - 1
  BY <1>0, <1>1, <1>2, <1>3
<1> QED
  BY <1>3, <1>4, <1>5, <1>6

-----------------------------------------------------------------------------
(***************************************************************************)
(* The constructors and main() up to its loop.                             *)
(***************************************************************************)

\* The state before the first accept() satisfies the invariant.
LEMMA InitInv == Init => ServerInv
<1> SUFFICES ASSUME Init PROVE ServerInv
  OBVIOUS
<1> USE SocketsAssumption, PeersAssumption DEF Init, SocketInit, ConnInit
<1>1. TypeOK
  BY DEF TypeOK, SocketTypeOK, HandleStates, ConnTypeOK, RunPcs, ConnectionStates,
         IceStates, MainTypeOK, MainPcs, Requests, NoRequest, Commands
<1>2. ConnectionState /\ ListState /\ RequestState
  BY DEF ConnectionState, ListState, RequestState, Peers, Parked
<1>3. OneOwner /\ WaitAnsweredOnce /\ OwnWait /\ NoUseAfterFree
  BY DEF OneOwner, WaitAnsweredOnce, OwnWait, NoUseAfterFree, MainOwns, Parked, Listed
<1>4. InboxInOrder /\ OutboxInOrder
  BY DEF InboxInOrder, OutboxInOrder, Consecutive
<1> QED
  BY <1>1, <1>2, <1>3, <1>4 DEF ServerInv

-----------------------------------------------------------------------------
(***************************************************************************)
(* Types.                                                                  *)
(***************************************************************************)

\* The methods of WebrtcConnection that the main thread calls keep the types.
LEMMA MethodType ==
    ASSUME ConnTypeOK, NEW p \in Peers, NEW s \in Sockets,
           \/ NewConnection(p) \/ PushMessage(p) \/ SetOutboundSocket(p, s)
           \/ StopThread(p) \/ JoinAndDelete(p)
    PROVE  ConnTypeOK'
<1> USE DEF ConnTypeOK, inboxVars, outboxVars, parkVars, lifeVars
<1>1. CASE NewConnection(p)
  BY <1>1 DEF NewConnection, Goto, RunPcs
<1>2. CASE PushMessage(p)
  <2>1. m_queue' \in [Peers -> Seq(Nat)] /\ posted' \in [Peers -> Nat]
    BY <1>2, AppendProperties DEF PushMessage
  <2> QED
    BY <1>2, <2>1 DEF PushMessage
<1>3. CASE SetOutboundSocket(p, s)
  BY <1>3 DEF SetOutboundSocket
<1>4. CASE StopThread(p)
  BY <1>4 DEF StopThread
<1>5. CASE JoinAndDelete(p)
  BY <1>5 DEF JoinAndDelete
<1> QED
  BY <1>1, <1>2, <1>3, <1>4, <1>5

\* Run() and the callbacks on its thread keep the types.
LEMMA ThreadType ==
    ASSUME ConnTypeOK, NEW p \in Peers, RunStep(p) \/ CallbackStep(p) \/ TimePasses(p)
    PROVE  ConnTypeOK'
<1> USE DEF ConnTypeOK, inboxVars, outboxVars, parkVars, lifeVars, Goto, RunPcs
<1>1. CASE RunBegin(p)
  BY <1>1 DEF RunBegin, ConnectionStates
<1>2. CASE RunLoop(p)
  BY <1>2 DEF RunLoop
<1>3. CASE Dequeue(p)
  <2>1. m_queue' \in [Peers -> Seq(Nat)]
    BY <1>3, HeadTailProperties DEF Dequeue
  <2> QED
    BY <1>3, <2>1 DEF Dequeue
<1>4. CASE DequeueWait(p)
  BY <1>4 DEF DequeueWait
<1>5. CASE DequeueTimeout(p)
  BY <1>5 DEF DequeueTimeout
<1>6. CASE HandleReturn(p)
  BY <1>6 DEF HandleReturn
<1>7. CASE NothingToSend(p)
  BY <1>7 DEF NothingToSend
<1>8. CASE LockOutbound(p)
  <2>1. m_msgQueue' \in [Peers -> Seq(Nat)]
    BY <1>8, HeadTailProperties DEF LockOutbound
  <2> QED
    BY <1>8, <2>1 DEF LockOutbound
<1>9. CASE SendMessage(p)
  BY <1>9 DEF SendMessage
<1>10. CASE DropSocket(p)
  BY <1>10 DEF DropSocket
<1>11. CASE CheckIce(p)
  BY <1>11 DEF CheckIce
<1>12. CASE ProcessReturn(p)
  BY <1>12 DEF ProcessReturn
<1>13. CASE RunEnd(p)
  BY <1>13 DEF RunEnd, ConnectionStates
<1>14. CASE ThreadExit(p)
  BY <1>14 DEF ThreadExit, IceStates
<1>15. CASE OnIceConnectionChange(p)
  BY <1>15 DEF OnIceConnectionChange, IceNext, IceStates
<1>16. CASE SendSignalingMessage(p)
  <2>1. m_msgQueue' \in [Peers -> Seq(Nat)]
    BY <1>16, AppendProperties DEF SendSignalingMessage
  <2> QED
    BY <1>16, <2>1 DEF SendSignalingMessage
<1>17. CASE TimePasses(p)
  BY <1>17 DEF TimePasses
<1> QED
  BY <1>1, <1>2, <1>3, <1>4, <1>5, <1>6, <1>7, <1>8, <1>9, <1>10, <1>11, <1>12,
     <1>13, <1>14, <1>15, <1>16, <1>17 DEF RunStep, CallbackStep

\* The connection at the iterator, and the one a request names, are connections.
LEMMA ListedPeers ==
    ASSUME MainTypeOK
    PROVE  /\ \A i \in 1..Len(webrtcConnectionList) : webrtcConnectionList[i] \in Peers
           /\ \A p : Listed(p) => p \in Peers
  BY DEF MainTypeOK, Listed

\* Every step of main() and of Run() keeps the types.
LEMMA StepType == ServerInv /\ [Next]_vars => TypeOK'
<1> SUFFICES ASSUME TypeOK, ConnectionState, ListState, RequestState, [Next]_vars PROVE TypeOK'
  BY DEF ServerInv
<1>0. SocketTypeOK /\ ConnTypeOK /\ MainTypeOK
  BY DEF TypeOK
<1> USE DEF SocketTypeOK, HandleStates, MainTypeOK, MainPcs, connVars, socketVars
<1>u. ASSUME UNCHANGED connVars PROVE ConnTypeOK'
  BY <1>0, <1>u DEF ConnTypeOK, inboxVars, outboxVars, parkVars, lifeVars
<1>1. CASE AcceptIdle
  BY <1>0, <1>1, <1>u DEF AcceptIdle, StartCleanup, TypeOK
<1>2. ASSUME NEW s \in Sockets, Accept(s) PROVE TypeOK'
  BY <1>0, <1>2, <1>u DEF Accept, AcceptSocket, TypeOK
<1>3. ASSUME NEW s \in Sockets, AcceptHandshakeFails(s) PROVE TypeOK'
  BY <1>0, <1>3, <1>u DEF AcceptHandshakeFails, StartCleanup, OrphanSocket, TypeOK
<1>4. CASE CleanupEnded
  <2>1. webrtcConnectionList[it] \in Peers
    BY <1>0, <1>4, ListedPeers DEF ListState, CleanupEnded
  <2>2. ConnTypeOK'
    BY <1>0, <1>4, <2>1 DEF CleanupEnded, StopThread, ConnTypeOK, inboxVars, outboxVars, parkVars
  <2> QED
    BY <1>0, <1>4, <2>2 DEF CleanupEnded, TypeOK
<1>5. CASE CleanupSkip
  BY <1>0, <1>5, <1>u DEF CleanupSkip, TypeOK
<1>6. CASE CleanupDelete
  <2>1. it \in 1..Len(webrtcConnectionList) /\ webrtcConnectionList[it] \in Peers
    BY <1>0, <1>6, ListedPeers DEF ListState, CleanupDelete
  <2>2. ConnTypeOK'
    BY <1>0, <1>6, <2>1 DEF CleanupDelete, JoinAndDelete, ConnTypeOK, inboxVars, outboxVars,
                            parkVars, lifeVars
  <2>3. webrtcConnectionList' \in Seq(Peers)
    BY <1>0, <1>6, <2>1, RemoveAtFacts DEF CleanupDelete
  <2> QED
    BY <1>0, <1>6, <2>2, <2>3 DEF CleanupDelete, TypeOK
<1>7. CASE CleanupDone
  BY <1>0, <1>7, <1>u DEF CleanupDone, NextTurn, NoRequest, Requests, Commands, TypeOK
<1>8. CASE ReadRequest
  <2>1. PICK req \in Requests :
           httpReq' = req /\ ReadSocket(clientSocket, IF req.cmd = "wait" THEN req.pragma ELSE 0)
    BY <1>8 DEF ReadRequest
  <2>2. req.pragma \in Nat
    <3>1. req.pragma \in {0} \cup (0..MaxPeers)
      BY DEF Requests
    <3> QED
      BY <3>1, PeersAssumption
  <2>3. SocketTypeOK'
    BY <1>0, <2>1, <2>2 DEF ReadSocket
  <2> QED
    BY <1>0, <1>8, <1>u, <2>1, <2>3 DEF ReadRequest, TypeOK
<1>9. CASE ParseFails
  BY <1>0, <1>9, <1>u DEF ParseFails, DeleteSocket, NextTurn, NoRequest, Requests, Commands,
                          TypeOK
<1>10. CASE ServePage
  BY <1>0, <1>10, <1>u DEF ServePage, Dispatch, WriteSocket, RequestState, TypeOK
<1>11. CASE SignIn
  <2>1. peerId \in Peers /\ clientSocket \in Sockets
    BY <1>11 DEF SignIn, Dispatch, RequestState
  <2>2. ConnTypeOK'
    BY <1>0, <1>11, <2>1, MethodType DEF SignIn
  <2>3. webrtcConnectionList' \in Seq(Peers)
    BY <1>0, <1>11, <2>1, AppendProperties DEF SignIn
  <2> QED
    BY <1>0, <1>11, <2>1, <2>2, <2>3 DEF SignIn, Dispatch, WriteSocket, TypeOK
<1>12. CASE SignOut
  BY <1>0, <1>12, <1>u DEF SignOut, Dispatch, TypeOK
<1>13. CASE Message
  <2>1. clientSocket \in Sockets
    BY <1>13 DEF Message, Dispatch, RequestState
  <2>2. ConnTypeOK'
    BY <1>0, <1>13, <1>u, <2>1, MethodType, ListedPeers DEF Message
  <2> QED
    BY <1>0, <1>13, <2>1, <2>2 DEF Message, Dispatch, WriteSocket, TypeOK
<1>14. CASE MessageWithoutData \/ ParseThrows
  BY <1>0, <1>14, <1>u DEF MessageWithoutData, ParseThrows, Dispatch, TypeOK
<1>15. CASE Wait
  <2>1. clientSocket \in Sockets
    BY <1>15 DEF Wait, Dispatch, RequestState
  <2>2. ConnTypeOK'
    BY <1>0, <1>15, <1>u, <2>1, MethodType, ListedPeers DEF Wait
  <2> QED
    BY <1>0, <1>15, <2>1, <2>2 DEF Wait, Dispatch, TypeOK
<1>16. CASE CloseClient
  <2>1. SocketTypeOK'
    <3>1. CASE DeleteSocket(clientSocket)
      BY <1>0, <3>1 DEF DeleteSocket
    <3>2. CASE UNCHANGED socketVars
      BY <1>0, <3>2
    <3> QED
      BY <1>16, <3>1, <3>2 DEF CloseClient
  <2> QED
    BY <1>0, <1>16, <1>u, <2>1 DEF CloseClient, NextTurn, NoRequest, Requests, Commands, TypeOK
<1>17. ASSUME NEW p \in Peers, ThreadStep(p) PROVE TypeOK'
  <2>1. ConnTypeOK'
    BY <1>0, <1>17, ThreadType DEF ThreadStep
  <2>2. MainTypeOK'
    BY <1>0, <1>17 DEF ThreadStep, mainVars
  <2>3. SocketTypeOK'
    <3>1. CASE SendMessage(p)
      <4>1. m_clientSocket[p] \in Sockets
        BY <1>0, <3>1 DEF ConnectionState, ConnTypeOK, SendMessage, Goto, Parked
      <4> QED
        BY <1>0, <3>1, <4>1 DEF SendMessage, WriteSocket
    <3>2. CASE DropSocket(p)
      BY <1>0, <3>2 DEF DropSocket, DeleteSocket
    <3>3. CASE UNCHANGED socketVars
      BY <1>0, <3>3
    <3> QED
      BY <1>17, <3>1, <3>2, <3>3
         DEF ThreadStep, RunStep, CallbackStep, RunBegin, RunLoop, Dequeue, DequeueWait,
             DequeueTimeout, HandleReturn, NothingToSend, LockOutbound, CheckIce,
             ProcessReturn, RunEnd, ThreadExit, OnIceConnectionChange,
             SendSignalingMessage, TimePasses
  <2> QED
    BY <2>1, <2>2, <2>3 DEF TypeOK
<1>18. CASE UNCHANGED vars
  BY <1>0, <1>18, <1>u DEF vars, mainVars, TypeOK
<1> QED
  BY <1>1, <1>2, <1>3, <1>4, <1>5, <1>6, <1>7, <1>8, <1>9, <1>10, <1>11, <1>12, <1>13,
     <1>14, <1>15, <1>16, <1>17, <1>18 DEF Next, MainStep, Halted

-----------------------------------------------------------------------------
(***************************************************************************)
(* Connections, their threads and the list.                                *)
(***************************************************************************)

\* The steps of Run() take and release m_mutex in pairs and publish their end
\* when the loop is over.
LEMMA ThreadConnectionState ==
    ASSUME TypeOK, ConnectionState, NEW p \in Peers, ThreadStep(p)
    PROVE  ConnectionState'
<1>0. ConnTypeOK /\ UNCHANGED peerId
  BY DEF TypeOK, ThreadStep, mainVars
<1> USE <1>0 DEF ConnectionState, ConnTypeOK, Parked, Goto, inboxVars, outboxVars, parkVars,
                 lifeVars, RunPcs
<1>1. CASE RunBegin(p)
  BY <1>1 DEF RunBegin
<1>2. CASE RunLoop(p)
  BY <1>2 DEF RunLoop
<1>3. CASE Dequeue(p)
  BY <1>3 DEF Dequeue
<1>4. CASE DequeueWait(p) \/ DequeueTimeout(p) \/ HandleReturn(p) \/ NothingToSend(p)
  <2>1. CASE DequeueWait(p)
    BY <2>1 DEF DequeueWait
  <2>2. CASE DequeueTimeout(p)
    BY <2>2 DEF DequeueTimeout
  <2>3. CASE HandleReturn(p)
    BY <2>3 DEF HandleReturn
  <2>4. CASE NothingToSend(p)
    BY <2>4 DEF NothingToSend
  <2> QED
    BY <1>4, <2>1, <2>2, <2>3, <2>4
<1>5. CASE LockOutbound(p)
  BY <1>5 DEF LockOutbound
<1>6. CASE SendMessage(p)
  BY <1>6 DEF SendMessage
<1>7. CASE DropSocket(p)
  BY <1>7 DEF DropSocket
<1>8. CASE CheckIce(p) \/ ProcessReturn(p)
  <2>1. CASE CheckIce(p)
    BY <2>1 DEF CheckIce
  <2>2. CASE ProcessReturn(p)
    BY <2>2 DEF ProcessReturn
  <2> QED
    BY <1>8, <2>1, <2>2
<1>9. CASE RunEnd(p)
  BY <1>9 DEF RunEnd
<1>10. CASE ThreadExit(p)
  BY <1>10 DEF ThreadExit
<1>11. CASE CallbackStep(p) \/ TimePasses(p)
  BY <1>11 DEF CallbackStep, OnIceConnectionChange, SendSignalingMessage, TimePasses
<1> QED
  BY <1>1, <1>2, <1>3, <1>4, <1>5, <1>6, <1>7, <1>8, <1>9, <1>10, <1>11
     DEF ThreadStep, RunStep

\* Every step keeps the lock, the object and the thread of a connection in
\* agreement.
LEMMA StepConnectionState == ServerInv /\ [Next]_vars => ConnectionState'
<1> SUFFICES ASSUME ServerInv, [Next]_vars PROVE ConnectionState'
  OBVIOUS
<1>0. /\ TypeOK /\ ConnTypeOK /\ MainTypeOK
      /\ ConnectionState /\ ListState /\ RequestState
  BY DEF ServerInv, TypeOK
<1>1. CASE SignIn
  <2>1. peerId \in Peers /\ peerId' = peerId + 1 /\ NewConnection(peerId)
    BY <1>0, <1>1 DEF SignIn, Dispatch, RequestState
  <2>2. \A p \in Peers : peerId' <= p <=> peerId <= p /\ p # peerId
    BY <2>1, PeersAssumption DEF Peers
  <2> QED
    BY <1>0, <2>1, <2>2 DEF NewConnection, Goto, ConnectionState, ConnTypeOK, Parked,
                            parkVars, lifeVars
<1>2. CASE Wait
  <2>1. CASE Listed(httpReq.pragma)
    <3>1. httpReq.pragma \in Peers /\ clientSocket \in Sockets
      BY <1>0, <1>2, <2>1, ListedPeers DEF Wait, Dispatch, RequestState
    <3> QED
      BY <1>0, <1>2, <2>1, <3>1, SocketsAssumption
         DEF Wait, SetOutboundSocket, ConnectionState, ConnTypeOK, Parked, lifeVars
  <2>2. CASE ~Listed(httpReq.pragma)
    BY <1>0, <1>2, <2>2 DEF Wait, ConnectionState, Parked, connVars, parkVars, lifeVars
  <2> QED
    BY <2>1, <2>2
<1>3. CASE CleanupDelete
  <2>1. webrtcConnectionList[it] \in Peers
    BY <1>0, <1>3, ListedPeers DEF ListState, CleanupDelete, MainTypeOK
  <2> QED
    BY <1>0, <1>3, <2>1 DEF CleanupDelete, JoinAndDelete, ConnectionState, ConnTypeOK, Parked,
                            parkVars, lifeVars
<1>4. ASSUME NEW p \in Peers, ThreadStep(p) PROVE ConnectionState'
  BY <1>0, <1>4, ThreadConnectionState
<1>5. CASE UNCHANGED <<m_mutex, m_clientSocket, object, runPc, m_state, peerId>>
  BY <1>0, <1>5 DEF ConnectionState, Parked
<1> QED
  BY <1>1, <1>2, <1>3, <1>4, <1>5
     DEF Next, MainStep, AcceptIdle, Accept, AcceptHandshakeFails, StartCleanup, CleanupEnded,
         StopThread, CleanupSkip, CleanupDone, ReadRequest, ParseFails, ServePage, SignOut,
         Message, PushMessage, MessageWithoutData, ParseThrows, CloseClient, Halted, vars, mainVars,
         connVars, parkVars, lifeVars

\* push_back and erase keep the connections in the list distinct, and the
\* cleanup's iterator in the list.
LEMMA StepListState == ServerInv /\ [Next]_vars => ListState'
<1> SUFFICES ASSUME ServerInv, [Next]_vars PROVE ListState'
  OBVIOUS
<1>0. /\ MainTypeOK /\ ConnectionState /\ ListState /\ RequestState /\ NoUseAfterFree
      /\ Len(webrtcConnectionList) \in Nat
  BY DEF ServerInv, TypeOK, MainTypeOK
<1>1. CASE SignIn
  <2>1. peerId \in Peers /\ webrtcConnectionList' = Append(webrtcConnectionList, peerId)
    BY <1>0, <1>1 DEF SignIn, Dispatch, RequestState
  <2>2. ~Listed(peerId)
    BY <1>0, <2>1 DEF ConnectionState, NoUseAfterFree, MainTypeOK
  <2>3. /\ Len(webrtcConnectionList') = Len(webrtcConnectionList) + 1
        /\ \A i \in 1..Len(webrtcConnectionList) :
              webrtcConnectionList'[i] = webrtcConnectionList[i]
        /\ webrtcConnectionList'[Len(webrtcConnectionList) + 1] = peerId
    BY <1>0, <2>1, AppendProperties DEF MainTypeOK
  <2>4. it' = it /\ mainPc' = "close"
    BY <1>1 DEF SignIn, Dispatch
  <2> QED
    BY <1>0, <2>2, <2>3, <2>4 DEF ListState, Listed
<1>2. CASE CleanupDelete
  <2>1. it \in 1..Len(webrtcConnectionList)
    BY <1>0, <1>2 DEF ListState, CleanupDelete, MainTypeOK
  <2>2. /\ Len(webrtcConnectionList') = Len(webrtcConnectionList) - 1
        /\ \A k \in 1..(Len(webrtcConnectionList) - 1) :
              webrtcConnectionList'[k] = IF k < it THEN webrtcConnectionList[k]
                                         ELSE webrtcConnectionList[k + 1]
    BY <1>0, <1>2, <2>1, RemoveAtFacts DEF CleanupDelete, MainTypeOK
  <2>3. it' = it /\ mainPc' = "cleanup"
    BY <1>2 DEF CleanupDelete
  <2> QED
    BY <1>0, <2>1, <2>2, <2>3 DEF ListState
<1>3. CASE CleanupEnded \/ CleanupSkip
  BY <1>0, <1>3 DEF ListState, CleanupEnded, CleanupSkip, MainTypeOK
<1>4. CASE UNCHANGED webrtcConnectionList /\ NextTurn
  BY <1>0, <1>4 DEF ListState, NextTurn
<1>5. CASE UNCHANGED <<webrtcConnectionList, it>> /\ mainPc' # "join"
  BY <1>0, <1>5 DEF ListState
<1>6. CASE UNCHANGED <<webrtcConnectionList, it, mainPc>>
  BY <1>0, <1>6 DEF ListState
<1> QED
  BY <1>1, <1>2, <1>3, <1>4, <1>5, <1>6
     DEF Next, MainStep, AcceptIdle, Accept, AcceptHandshakeFails, StartCleanup, CleanupDone,
         ReadRequest, ParseFails, Dispatch, ServePage, SignOut, Message, MessageWithoutData, ParseThrows,
         Wait, CloseClient, ThreadStep, Halted, vars, mainVars

\* A thread takes no step after its end, so it cannot outlive its object.
LEMMA ExitedStays ==
    ASSUME TypeOK, NEW p \in Peers, ThreadStep(p)
    PROVE  /\ UNCHANGED object
           /\ \A q \in Peers : runPc[q] = "exited" => runPc'[q] = "exited"
<1>0. ConnTypeOK
  BY DEF TypeOK
<1> USE <1>0 DEF ConnTypeOK, Goto, RunPcs
<1>1. CASE RunStep(p)
  BY <1>1 DEF RunStep, RunBegin, RunLoop, Dequeue, DequeueWait, DequeueTimeout, HandleReturn,
              NothingToSend, LockOutbound, SendMessage, DropSocket, CheckIce, ProcessReturn,
              RunEnd, ThreadExit
<1>2. CASE CallbackStep(p) \/ TimePasses(p)
  BY <1>2 DEF CallbackStep, OnIceConnectionChange, SendSignalingMessage, TimePasses
<1> QED
  BY <1>1, <1>2 DEF ThreadStep

\* A connection leaves the list and the heap together, after its thread.
LEMMA StepNoUseAfterFree == ServerInv /\ [Next]_vars => NoUseAfterFree'
<1> SUFFICES ASSUME ServerInv, [Next]_vars PROVE NoUseAfterFree'
  OBVIOUS
<1>0. /\ TypeOK /\ ConnTypeOK /\ MainTypeOK /\ ConnectionState /\ ListState /\ RequestState
      /\ NoUseAfterFree /\ Len(webrtcConnectionList) \in Nat
  BY DEF ServerInv, TypeOK, MainTypeOK
<1>1. CASE SignIn
  <2>1. peerId \in Peers /\ webrtcConnectionList' = Append(webrtcConnectionList, peerId)
    BY <1>0, <1>1 DEF SignIn, Dispatch, RequestState
  <2>2. /\ Len(webrtcConnectionList') = Len(webrtcConnectionList) + 1
        /\ \A i \in 1..Len(webrtcConnectionList) :
              webrtcConnectionList'[i] = webrtcConnectionList[i]
        /\ webrtcConnectionList'[Len(webrtcConnectionList) + 1] = peerId
    BY <1>0, <2>1, AppendProperties DEF MainTypeOK
  <2>3. \A p : Listed(p)' <=> Listed(p) \/ p = peerId
    BY <1>0, <2>2 DEF Listed
  <2> QED
    BY <1>0, <1>1, <2>1, <2>3 DEF SignIn, NewConnection, Goto, NoUseAfterFree, ConnTypeOK
<1>2. CASE CleanupDelete
  <2>1. it \in 1..Len(webrtcConnectionList)
    BY <1>0, <1>2 DEF ListState, CleanupDelete, MainTypeOK
  <2>2. /\ Len(webrtcConnectionList') = Len(webrtcConnectionList) - 1
        /\ \A k \in 1..(Len(webrtcConnectionList) - 1) :
              webrtcConnectionList'[k] = IF k < it THEN webrtcConnectionList[k]
                                         ELSE webrtcConnectionList[k + 1]
    BY <1>0, <1>2, <2>1, RemoveAtFacts DEF CleanupDelete, MainTypeOK
  <2>3. ASSUME NEW p \in Peers
        PROVE  Listed(p)' <=> Listed(p) /\ p # webrtcConnectionList[it]
    <3>1. ASSUME Listed(p)' PROVE Listed(p) /\ p # webrtcConnectionList[it]
      <4>1. PICK k \in 1..(Len(webrtcConnectionList) - 1) : webrtcConnectionList'[k] = p
        BY <2>2, <3>1 DEF Listed
      <4>2. CASE k < it
        BY <1>0, <2>1, <2>2, <4>1, <4>2 DEF Listed, ListState
      <4>3. CASE ~(k < it)
        BY <1>0, <2>1, <2>2, <4>1, <4>3 DEF Listed, ListState
      <4> QED
        BY <4>2, <4>3
    <3>2. ASSUME Listed(p), p # webrtcConnectionList[it] PROVE Listed(p)'
      <4>1. PICK k \in 1..Len(webrtcConnectionList) : webrtcConnectionList[k] = p
        BY <3>2 DEF Listed
      <4>2. CASE k < it
        <5>1. k \in 1..(Len(webrtcConnectionList) - 1) /\ webrtcConnectionList'[k] = p
          BY <1>0, <2>1, <2>2, <4>1, <4>2
        <5> QED
          BY <2>2, <5>1 DEF Listed
      <4>3. CASE k > it
        <5>1. /\ k - 1 \in 1..(Len(webrtcConnectionList) - 1)
              /\ ~(k - 1 < it)
              /\ (k - 1) + 1 = k
          BY <1>0, <2>1, <4>1, <4>3
        <5> QED
          BY <2>2, <4>1, <5>1 DEF Listed
      <4> QED
        BY <1>0, <2>1, <3>2, <4>1, <4>2, <4>3
    <3> QED
      BY <3>1, <3>2
  <2>4. webrtcConnectionList[it] \in Peers
    BY <1>0, <2>1, ListedPeers
  <2>5. /\ runPc[webrtcConnectionList[it]] = "exited"
        /\ runPc' = runPc
        /\ object' = [object EXCEPT ![webrtcConnectionList[it]] = "deleted"]
    BY <1>2 DEF CleanupDelete, JoinAndDelete
  <2> QED
    BY <1>0, <2>3, <2>4, <2>5 DEF NoUseAfterFree, ConnTypeOK
<1>3. ASSUME NEW p \in Peers, ThreadStep(p) PROVE NoUseAfterFree'
  <2>1. UNCHANGED webrtcConnectionList
    BY <1>3 DEF ThreadStep, mainVars
  <2> QED
    BY <1>0, <1>3, <2>1, ExitedStays DEF NoUseAfterFree, Listed
<1>4. CASE UNCHANGED <<object, runPc, webrtcConnectionList>>
  BY <1>0, <1>4 DEF NoUseAfterFree, Listed
<1> QED
  BY <1>1, <1>2, <1>3, <1>4
     DEF Next, MainStep, AcceptIdle, Accept, AcceptHandshakeFails, StartCleanup, CleanupEnded,
         StopThread, CleanupSkip, CleanupDone, ReadRequest, ParseFails, ServePage, SignOut,
         Message, PushMessage, MessageWithoutData, ParseThrows, Wait, SetOutboundSocket, CloseClient, Halted,
         vars, mainVars, connVars

-----------------------------------------------------------------------------
(***************************************************************************)
(* Sockets.                                                                *)
(***************************************************************************)

\* What the steps of a connection's thread do to the sockets: Run() writes to
\* the parked one, or deletes and forgets it.
LEMMA ThreadSockets ==
    ASSUME TypeOK, ConnectionState, NEW p \in Peers, ThreadStep(p)
    PROVE  /\ UNCHANGED mainVars
           /\ \/ /\ SendMessage(p)
                 /\ m_clientSocket[p] \in Sockets
                 /\ UNCHANGED m_clientSocket
              \/ /\ DropSocket(p)
                 /\ m_clientSocket[p] \in Sockets
              \/ /\ UNCHANGED <<socketVars, m_clientSocket>>
                 /\ \A q \in Peers : runPc[q] = "drop" <=> runPc'[q] = "drop"
<1>0. ConnTypeOK
  BY DEF TypeOK
<1>1. CASE SendMessage(p)
  BY <1>0, <1>1 DEF ThreadStep, ConnectionState, ConnTypeOK, SendMessage, Goto, Parked, parkVars
<1>2. CASE DropSocket(p)
  BY <1>0, <1>2 DEF ThreadStep, ConnectionState, ConnTypeOK, DropSocket, Goto, Parked
<1>3. CASE CallbackStep(p) \/ TimePasses(p)
  BY <1>3 DEF ThreadStep, CallbackStep, OnIceConnectionChange, SendSignalingMessage, TimePasses,
              parkVars
<1>4. CASE RunStep(p) /\ ~SendMessage(p) /\ ~DropSocket(p)
  <2>1. UNCHANGED <<socketVars, m_clientSocket>>
    BY <1>4 DEF RunStep, RunBegin, RunLoop, Dequeue, DequeueWait, DequeueTimeout, HandleReturn,
                NothingToSend, LockOutbound, CheckIce, ProcessReturn, RunEnd, ThreadExit,
                parkVars
  <2>2. /\ runPc[p] # "drop"
        /\ \E to \in RunPcs \ {"drop"} : runPc' = [runPc EXCEPT ![p] = to]
    BY <1>4 DEF RunStep, RunBegin, RunLoop, Dequeue, DequeueWait, DequeueTimeout, HandleReturn,
                NothingToSend, LockOutbound, CheckIce, ProcessReturn, RunEnd, ThreadExit,
                Goto, RunPcs
  <2> QED
    BY <1>0, <2>1, <2>2 DEF ThreadStep, ConnTypeOK
<1> QED
  BY <1>1, <1>2, <1>3, <1>4 DEF ThreadStep

\* The socket of the request at hand has had no reply.
LEMMA StepRequestState == ServerInv /\ [Next]_vars => RequestState'
<1> SUFFICES ASSUME ServerInv, [Next]_vars PROVE RequestState'
  OBVIOUS
<1>0. /\ TypeOK /\ SocketTypeOK /\ ConnTypeOK /\ MainTypeOK
      /\ ConnectionState /\ RequestState /\ OneOwner
  BY DEF ServerInv, TypeOK
<1> USE DEF SocketTypeOK, RequestState, socketVars
<1>1. CASE AcceptIdle
  BY <1>0, <1>1 DEF AcceptIdle, StartCleanup
<1>2. ASSUME NEW s \in Sockets, Accept(s) PROVE RequestState'
  BY <1>0, <1>2 DEF Accept, AcceptSocket
<1>3. ASSUME NEW s \in Sockets, AcceptHandshakeFails(s) PROVE RequestState'
  BY <1>0, <1>3 DEF AcceptHandshakeFails, StartCleanup, OrphanSocket
<1>4. CASE CleanupEnded \/ CleanupSkip \/ CleanupDelete \/ CleanupDone
  BY <1>0, <1>4 DEF CleanupEnded, CleanupSkip, CleanupDelete, CleanupDone, NextTurn
<1>5. CASE ReadRequest
  <2>1. PICK req \in Requests :
           /\ WithinBounds(req)
           /\ httpReq' = req
           /\ ReadSocket(clientSocket, IF req.cmd = "wait" THEN req.pragma ELSE 0)
    BY <1>5 DEF ReadRequest
  <2>2. req.cmd = "signIn" => peerId \in Peers
    BY <1>0, <2>1, PeersAssumption DEF WithinBounds, Peers, MainTypeOK
  <2> QED
    BY <1>0, <1>5, <2>1, <2>2 DEF ReadRequest, ReadSocket
<1>6. CASE ParseFails
  BY <1>0, <1>6 DEF ParseFails, DeleteSocket, NextTurn
<1>7. CASE ServePage \/ SignIn \/ Message
  <2>1. /\ clientSocket \in Sockets /\ handle[clientSocket] = "open"
        /\ WriteSocket(clientSocket) /\ mainPc' = "close" /\ UNCHANGED clientSocket
    BY <1>0, <1>7 DEF ServePage, SignIn, Message, Dispatch, OneOwner, MainOwns
  <2>2. peerId' > 0
    BY <1>0, <1>7 DEF ServePage, SignIn, Message, MainTypeOK
  <2> QED
    BY <1>0, <2>1, <2>2 DEF WriteSocket
<1>8. CASE SignOut \/ MessageWithoutData \/ ParseThrows \/ Wait
  BY <1>0, <1>8 DEF SignOut, MessageWithoutData, ParseThrows, Wait, Dispatch
<1>9. CASE CloseClient
  <2>1. CASE DeleteSocket(clientSocket)
    BY <1>0, <1>9, <2>1 DEF CloseClient, DeleteSocket, NextTurn
  <2>2. CASE UNCHANGED socketVars
    BY <1>0, <1>9, <2>2 DEF CloseClient, NextTurn
  <2> QED
    BY <1>9, <2>1, <2>2 DEF CloseClient
<1>10. ASSUME NEW p \in Peers, ThreadStep(p) PROVE RequestState'
  <2>1. UNCHANGED mainVars
    BY <1>0, <1>10, ThreadSockets
  <2>2. CASE SendMessage(p) /\ m_clientSocket[p] \in Sockets
    BY <1>0, <2>1, <2>2, SocketsAssumption
       DEF SendMessage, WriteSocket, OneOwner, MainOwns, Parked, mainVars
  <2>3. CASE DropSocket(p) /\ m_clientSocket[p] \in Sockets
    BY <1>0, <2>1, <2>3, SocketsAssumption
       DEF DropSocket, DeleteSocket, OneOwner, MainOwns, Parked, mainVars
  <2>4. CASE UNCHANGED socketVars
    BY <1>0, <2>1, <2>4 DEF mainVars
  <2> QED
    BY <1>0, <1>10, <2>2, <2>3, <2>4, ThreadSockets
<1>11. CASE UNCHANGED vars
  BY <1>0, <1>11 DEF vars, mainVars
<1> QED
  BY <1>1, <1>2, <1>3, <1>4, <1>5, <1>6, <1>7, <1>8, <1>9, <1>10, <1>11
     DEF Next, MainStep, Halted

\* A socket changes hands in one step: from main() to the connection under
\* m_mutex, and it is gone when Run() lets go of it.
LEMMA StepOneOwner == ServerInv /\ [Next]_vars => OneOwner'
<1> SUFFICES ASSUME ServerInv, [Next]_vars PROVE OneOwner'
  OBVIOUS
<1>0. /\ TypeOK /\ SocketTypeOK /\ ConnTypeOK /\ MainTypeOK
      /\ ConnectionState /\ RequestState /\ OneOwner
  BY DEF ServerInv, TypeOK
<1> USE SocketsAssumption DEF OneOwner, MainOwns, Parked, SocketTypeOK, HandleStates, socketVars
<1>c. ASSUME UNCHANGED connVars PROVE UNCHANGED m_clientSocket
  BY <1>c DEF connVars, parkVars
<1>1. CASE AcceptIdle
  BY <1>0, <1>1, <1>c DEF AcceptIdle, StartCleanup
<1>2. ASSUME NEW s \in Sockets, Accept(s) PROVE OneOwner'
  BY <1>0, <1>2, <1>c DEF Accept, AcceptSocket, ConnTypeOK
<1>3. ASSUME NEW s \in Sockets, AcceptHandshakeFails(s) PROVE OneOwner'
  BY <1>0, <1>3, <1>c DEF AcceptHandshakeFails, StartCleanup, OrphanSocket, ConnTypeOK
<1>4. CASE CleanupEnded \/ CleanupSkip \/ CleanupDelete \/ CleanupDone
  BY <1>0, <1>4, <1>c DEF CleanupEnded, StopThread, CleanupSkip, CleanupDelete, JoinAndDelete,
                          CleanupDone, NextTurn, parkVars
<1>5. CASE ReadRequest
  BY <1>0, <1>5, <1>c DEF ReadRequest, ReadSocket
<1>6. CASE ParseFails
  BY <1>0, <1>6, <1>c DEF ParseFails, DeleteSocket, NextTurn, RequestState, ConnTypeOK
<1>7. CASE ServePage \/ SignIn \/ Message
  <2>1. /\ mainPc = "dispatch" /\ mainPc' = "close"
        /\ UNCHANGED <<clientSocket, closeWait, m_clientSocket, handle>>
    BY <1>7, <1>c DEF ServePage, SignIn, Message, Dispatch, WriteSocket, NewConnection,
                      PushMessage, parkVars
  <2> QED
    BY <1>0, <2>1
<1>8. CASE SignOut \/ MessageWithoutData \/ ParseThrows
  BY <1>0, <1>8, <1>c DEF SignOut, MessageWithoutData, ParseThrows, Dispatch
<1>9. CASE Wait
  <2>1. CASE Listed(httpReq.pragma)
    <3>1. httpReq.pragma \in Peers /\ clientSocket \in Sockets
      BY <1>0, <1>9, <2>1, ListedPeers DEF Wait, Dispatch, RequestState
    <3>2. /\ mainPc = "dispatch" /\ mainPc' = "close" /\ closeWait' = FALSE
          /\ m_clientSocket' = [m_clientSocket EXCEPT ![httpReq.pragma] = clientSocket]
          /\ handle' = handle
      BY <1>9, <2>1 DEF Wait, Dispatch, SetOutboundSocket
    <3>3. handle[clientSocket] = "open" /\ \A q \in Peers : m_clientSocket[q] # clientSocket
      BY <1>0, <3>1, <3>2
    <3>4. m_clientSocket \in [Peers -> Sockets \cup {NoSocket}]
      BY <1>0 DEF ConnTypeOK
    <3>5. \A s \in Sockets : ~MainOwns(s)'
      BY <3>2
    <3>6. ASSUME NEW q \in Peers, Parked(q)'
          PROVE  handle'[m_clientSocket'[q]] = "open"
      BY <1>0, <3>1, <3>2, <3>3, <3>4, <3>6
    <3>7. ASSUME NEW q \in Peers, NEW r \in Peers, Parked(q)',
                 m_clientSocket'[r] = m_clientSocket'[q]
          PROVE  r = q
      BY <1>0, <3>1, <3>2, <3>3, <3>4, <3>7
    <3> QED
      BY <3>5, <3>6, <3>7
  <2>2. CASE ~Listed(httpReq.pragma)
    BY <1>0, <1>9, <2>2, <1>c DEF Wait, Dispatch
  <2> QED
    BY <2>1, <2>2
<1>10. CASE CloseClient
  <2>1. CASE closeWait = TRUE
    BY <1>0, <1>10, <1>c, <2>1 DEF CloseClient, DeleteSocket, NextTurn, RequestState, ConnTypeOK
  <2>2. CASE closeWait = FALSE
    BY <1>0, <1>10, <1>c, <2>2 DEF CloseClient, NextTurn
  <2> QED
    BY <1>0, <2>1, <2>2 DEF MainTypeOK
<1>11. ASSUME NEW p \in Peers, ThreadStep(p) PROVE OneOwner'
  <2>1. UNCHANGED <<clientSocket, mainPc, closeWait>>
    BY <1>0, <1>11, ThreadSockets DEF mainVars
  <2>2. CASE SendMessage(p) /\ UNCHANGED m_clientSocket
    BY <1>0, <2>1, <2>2 DEF SendMessage, WriteSocket
  <2>3. CASE DropSocket(p) /\ m_clientSocket[p] \in Sockets
    <3>1. /\ handle' = [handle EXCEPT ![m_clientSocket[p]] = "closed"]
          /\ m_clientSocket' = [m_clientSocket EXCEPT ![p] = NoSocket]
          /\ m_clientSocket \in [Peers -> Sockets \cup {NoSocket}]
      BY <1>0, <2>3 DEF DropSocket, DeleteSocket, ConnTypeOK
    <3>2. ASSUME NEW s \in Sockets, MainOwns(s)'
          PROVE  handle'[s] = "open" /\ \A q \in Peers : m_clientSocket'[q] # s
      <4>1. handle[s] = "open" /\ \A q \in Peers : m_clientSocket[q] # s
        BY <1>0, <2>1, <3>2
      <4> QED
        BY <1>0, <2>3, <3>1, <4>1
    <3>3. ASSUME NEW q \in Peers, Parked(q)'
          PROVE  /\ handle'[m_clientSocket'[q]] = "open"
                 /\ \A r \in Peers : m_clientSocket'[r] = m_clientSocket'[q] => r = q
      <4>1. q # p /\ m_clientSocket'[q] = m_clientSocket[q] /\ Parked(q)
        BY <3>1, <3>3
      <4>2. m_clientSocket[q] # m_clientSocket[p] /\ handle[m_clientSocket[q]] = "open"
        BY <1>0, <2>3, <4>1
      <4> QED
        BY <1>0, <3>1, <3>3, <4>1, <4>2
    <3> QED
      BY <3>2, <3>3
  <2>4. CASE UNCHANGED <<socketVars, m_clientSocket>>
    BY <1>0, <2>1, <2>4
  <2> QED
    BY <1>0, <1>11, <2>2, <2>3, <2>4, ThreadSockets
<1>12. CASE UNCHANGED vars
  BY <1>0, <1>12, <1>c DEF vars, mainVars
<1> QED
  BY <1>1, <1>2, <1>3, <1>4, <1>5, <1>6, <1>7, <1>8, <1>9, <1>10, <1>11, <1>12
     DEF Next, MainStep, Halted

\* Whatever main() does but park a socket, the parked ones have the replies
\* and the requests they had.
LEMMA ParkedUntouched ==
    ASSUME ServerInv,
           \/ AcceptIdle
           \/ \E s \in Sockets : Accept(s) \/ AcceptHandshakeFails(s)
           \/ MainStep /\ ~Wait
           \/ UNCHANGED vars
    PROVE  /\ UNCHANGED m_clientSocket
           /\ \A q \in Peers :
                 /\ runPc[q] = "drop" <=> runPc'[q] = "drop"
                 /\ Parked(q) => /\ written'[m_clientSocket[q]] = written[m_clientSocket[q]]
                                 /\ wanted'[m_clientSocket[q]] = wanted[m_clientSocket[q]]
<1>0. /\ SocketTypeOK /\ ConnTypeOK /\ MainTypeOK /\ RequestState /\ OneOwner
      /\ m_clientSocket \in [Peers -> Sockets \cup {NoSocket}]
  BY DEF ServerInv, TypeOK, ConnTypeOK
<1> DEFINE Goal == /\ UNCHANGED m_clientSocket
                   /\ \A q \in Peers :
                         /\ runPc[q] = "drop" <=> runPc'[q] = "drop"
                         /\ Parked(q) =>
                               /\ written'[m_clientSocket[q]] = written[m_clientSocket[q]]
                               /\ wanted'[m_clientSocket[q]] = wanted[m_clientSocket[q]]
<1>1. ASSUME mainPc \in {"read", "dispatch"} \/ (mainPc = "close" /\ closeWait),
             UNCHANGED <<m_clientSocket, runPc>>,
             \/ DeleteSocket(clientSocket) \/ WriteSocket(clientSocket)
             \/ \E n \in Nat : ReadSocket(clientSocket, n)
      PROVE  Goal
  <2>1. clientSocket \in Sockets /\ \A q \in Peers : m_clientSocket[q] # clientSocket
    BY <1>0, <1>1 DEF RequestState, OneOwner, MainOwns
  <2> QED
    BY <1>0, <1>1, <2>1
       DEF DeleteSocket, WriteSocket, ReadSocket, SocketTypeOK, Parked
<1>2. ASSUME UNCHANGED <<m_clientSocket, runPc, written, wanted>> PROVE Goal
  BY <1>2
<1>3. CASE AcceptIdle \/ \E s \in Sockets : Accept(s) \/ AcceptHandshakeFails(s)
  BY <1>2, <1>3 DEF AcceptIdle, Accept, AcceptSocket, AcceptHandshakeFails, StartCleanup,
                    OrphanSocket, connVars, parkVars, socketVars
<1>4. CASE CleanupEnded \/ CleanupSkip \/ CleanupDelete \/ CleanupDone
  BY <1>2, <1>4 DEF CleanupEnded, StopThread, CleanupSkip, CleanupDelete, JoinAndDelete,
                    CleanupDone, connVars, parkVars, socketVars
<1>5. CASE ReadRequest
  <2>1. PICK req \in Requests :
           ReadSocket(clientSocket, IF req.cmd = "wait" THEN req.pragma ELSE 0)
    BY <1>5 DEF ReadRequest
  <2>2. req.pragma \in {0} \cup (0..MaxPeers)
    BY DEF Requests
  <2>3. req.pragma \in Nat
    BY <2>2, PeersAssumption
  <2> QED
    BY <1>1, <1>5, <2>1, <2>3 DEF ReadRequest, connVars, parkVars
<1>6. CASE ParseFails
  BY <1>1, <1>6 DEF ParseFails, connVars, parkVars
<1>7. CASE ServePage
  BY <1>1, <1>7 DEF ServePage, Dispatch, connVars, parkVars
<1>8. CASE SignIn
  <2>1. clientSocket \in Sockets /\ \A q \in Peers : m_clientSocket[q] # clientSocket
    BY <1>0, <1>8 DEF RequestState, OneOwner, MainOwns, SignIn, Dispatch
  <2>2. \A q \in Peers : runPc[q] = "drop" <=> runPc'[q] = "drop"
    BY <1>0, <1>8 DEF SignIn, NewConnection, Goto, ConnTypeOK
  <2> QED
    BY <1>0, <1>8, <2>1, <2>2
       DEF SignIn, NewConnection, WriteSocket, SocketTypeOK, Parked, parkVars
<1>9. CASE Message
  BY <1>1, <1>9 DEF Message, Dispatch, PushMessage, connVars, parkVars
<1>10. CASE SignOut \/ MessageWithoutData \/ ParseThrows
  BY <1>2, <1>10 DEF SignOut, MessageWithoutData, ParseThrows, connVars, parkVars, socketVars
<1>11. CASE CloseClient
  <2>1. CASE closeWait = TRUE
    BY <1>1, <1>11, <2>1 DEF CloseClient, connVars, parkVars
  <2>2. CASE closeWait = FALSE
    BY <1>2, <1>11, <2>2 DEF CloseClient, connVars, parkVars, socketVars
  <2> QED
    BY <1>0, <2>1, <2>2 DEF MainTypeOK
<1>12. CASE UNCHANGED vars
  BY <1>2, <1>12 DEF vars, connVars, parkVars, socketVars
<1> QED
  BY <1>3, <1>4, <1>5, <1>6, <1>7, <1>8, <1>9, <1>10, <1>11, <1>12 DEF MainStep

\* Every step keeps the replies to "wait" requests apart.
LEMMA StepWaits == ServerInv /\ [Next]_vars => WaitAnsweredOnce' /\ OwnWait'
<1> SUFFICES ASSUME ServerInv, [Next]_vars PROVE WaitAnsweredOnce' /\ OwnWait'
  OBVIOUS
<1>0. /\ TypeOK /\ SocketTypeOK /\ ConnTypeOK /\ MainTypeOK /\ ConnectionState /\ RequestState
      /\ OneOwner /\ WaitAnsweredOnce /\ OwnWait
      /\ m_clientSocket \in [Peers -> Sockets \cup {NoSocket}]
      /\ written \in [Sockets -> Nat] /\ wanted \in [Sockets -> Nat]
  BY DEF ServerInv, TypeOK, ConnTypeOK, SocketTypeOK
<1> USE SocketsAssumption DEF WaitAnsweredOnce, OwnWait, Parked
<1>1. CASE Wait
  <2>1. CASE Listed(httpReq.pragma)
    <3>1. httpReq.pragma \in Peers /\ clientSocket \in Sockets
      BY <1>0, <1>1, <2>1, ListedPeers DEF Wait, Dispatch, RequestState
    <3>2. /\ ~m_mutex[httpReq.pragma]
          /\ m_clientSocket' = [m_clientSocket EXCEPT ![httpReq.pragma] = clientSocket]
          /\ UNCHANGED <<runPc, written, wanted>>
      BY <1>1, <2>1 DEF Wait, SetOutboundSocket, socketVars
    <3>3. /\ runPc[httpReq.pragma] # "drop"
          /\ written[clientSocket] = 0
          /\ wanted[clientSocket] = httpReq.pragma
      BY <1>0, <1>1, <3>1, <3>2 DEF ConnectionState, RequestState, Wait, Dispatch
    <3> QED
      BY <1>0, <3>1, <3>2, <3>3
  <2>2. CASE ~Listed(httpReq.pragma)
    BY <1>0, <1>1, <2>2 DEF Wait, connVars, parkVars, socketVars
  <2> QED
    BY <2>1, <2>2
<1>2. ASSUME NEW p \in Peers, ThreadStep(p) PROVE WaitAnsweredOnce' /\ OwnWait'
  <2>1. CASE SendMessage(p) /\ m_clientSocket[p] \in Sockets /\ UNCHANGED m_clientSocket
    <3>1. /\ runPc[p] = "send" /\ runPc' = [runPc EXCEPT ![p] = "drop"]
          /\ written' = [written EXCEPT ![m_clientSocket[p]] = @ + 1]
          /\ wanted' = wanted
          /\ runPc \in [Peers -> RunPcs]
      BY <1>0, <2>1 DEF SendMessage, Goto, WriteSocket, ConnTypeOK
    <3>2. \A q \in Peers : q # p /\ Parked(q) => m_clientSocket[q] # m_clientSocket[p]
      BY <1>0, <2>1 DEF OneOwner
    <3> QED
      BY <1>0, <2>1, <3>1, <3>2
  <2>2. CASE DropSocket(p) /\ m_clientSocket[p] \in Sockets
    <3>1. /\ runPc' = [runPc EXCEPT ![p] = "ice"]
          /\ written' = [written EXCEPT ![m_clientSocket[p]] = 0]
          /\ wanted' = [wanted EXCEPT ![m_clientSocket[p]] = 0]
          /\ m_clientSocket' = [m_clientSocket EXCEPT ![p] = NoSocket]
          /\ runPc \in [Peers -> RunPcs]
      BY <1>0, <2>2 DEF DropSocket, Goto, DeleteSocket, ConnTypeOK
    <3>2. \A q \in Peers : q # p /\ Parked(q) => m_clientSocket[q] # m_clientSocket[p]
      BY <1>0, <2>2 DEF OneOwner
    <3> QED
      BY <1>0, <2>2, <3>1, <3>2
  <2>3. CASE /\ UNCHANGED <<socketVars, m_clientSocket>>
             /\ \A q \in Peers : runPc[q] = "drop" <=> runPc'[q] = "drop"
    BY <1>0, <2>3 DEF socketVars
  <2> QED
    BY <1>0, <1>2, <2>1, <2>2, <2>3, ThreadSockets
<1>3. CASE /\ UNCHANGED m_clientSocket
           /\ \A q \in Peers :
                 /\ runPc[q] = "drop" <=> runPc'[q] = "drop"
                 /\ Parked(q) => /\ written'[m_clientSocket[q]] = written[m_clientSocket[q]]
                                 /\ wanted'[m_clientSocket[q]] = wanted[m_clientSocket[q]]
  BY <1>0, <1>3
<1> QED
  BY <1>1, <1>2, <1>3, ParkedUntouched DEF Next, Halted

-----------------------------------------------------------------------------
(***************************************************************************)
(* Messages.                                                               *)
(***************************************************************************)

\* The next number is put at the end.
LEMMA ConsecutivePut ==
    ASSUME NEW queue \in Seq(Nat), NEW taken \in Nat, NEW put \in Nat,
           Consecutive(queue, taken, put)
    PROVE  Consecutive(Append(queue, put + 1), taken, put + 1)
<1>1. /\ Len(Append(queue, put + 1)) = Len(queue) + 1
      /\ \A i \in 1..Len(queue) : Append(queue, put + 1)[i] = queue[i]
      /\ Append(queue, put + 1)[Len(queue) + 1] = put + 1
  BY AppendProperties
<1>2. Len(queue) \in Nat /\ put = taken + Len(queue)
  BY DEF Consecutive
<1>3. put + 1 = taken + (Len(queue) + 1)
  BY <1>2
<1>4. ASSUME NEW i \in 1..(Len(queue) + 1) PROVE Append(queue, put + 1)[i] = taken + i
  <2>1. CASE i \in 1..Len(queue)
    BY <1>1, <2>1 DEF Consecutive
  <2>2. CASE i = Len(queue) + 1
    BY <1>1, <1>3, <2>2
  <2> QED
    BY <1>2, <1>4, <2>1, <2>2
<1> QED
  BY <1>1, <1>3, <1>4 DEF Consecutive

\* The lowest number is taken from the front.
LEMMA ConsecutiveTake ==
    ASSUME NEW queue \in Seq(Nat), NEW taken \in Nat, NEW put \in Nat,
           Consecutive(queue, taken, put), queue # <<>>
    PROVE  Consecutive(Tail(queue), taken + 1, put)
<1>1. /\ Len(Tail(queue)) = Len(queue) - 1
      /\ \A i \in 1..Len(Tail(queue)) : Tail(queue)[i] = queue[i + 1]
  BY HeadTailProperties
<1>2. Len(queue) \in Nat /\ put = taken + Len(queue)
  BY DEF Consecutive
<1>3. put = (taken + 1) + Len(Tail(queue))
  BY <1>1, <1>2
<1>4. ASSUME NEW i \in 1..Len(Tail(queue)) PROVE Tail(queue)[i] = (taken + 1) + i
  <2>1. i + 1 \in 1..Len(queue) /\ taken + (i + 1) = (taken + 1) + i
    BY <1>1, <1>2
  <2> QED
    BY <1>1, <2>1 DEF Consecutive
<1> QED
  BY <1>3, <1>4 DEF Consecutive

\* pushMessage and dequeue keep the order of the posts.
LEMMA StepInbox == ServerInv /\ [Next]_vars => InboxInOrder'
<1> SUFFICES ASSUME ServerInv, [Next]_vars PROVE InboxInOrder'
  OBVIOUS
<1>0. /\ MainTypeOK /\ InboxInOrder
      /\ m_queue \in [Peers -> Seq(Nat)]
      /\ posted \in [Peers -> Nat] /\ handled \in [Peers -> Nat]
  BY DEF ServerInv, TypeOK, ConnTypeOK
<1>1. ASSUME NEW p \in Peers, PushMessage(p) PROVE InboxInOrder'
  <2>1. Consecutive(Append(m_queue[p], posted[p] + 1), handled[p], posted[p] + 1)
    BY <1>0, ConsecutivePut DEF InboxInOrder
  <2> QED
    BY <1>0, <1>1, <2>1 DEF PushMessage, InboxInOrder
<1>2. ASSUME NEW p \in Peers, Dequeue(p) PROVE InboxInOrder'
  <2>1. Consecutive(Tail(m_queue[p]), handled[p] + 1, posted[p])
    BY <1>0, <1>2, ConsecutiveTake DEF InboxInOrder, Dequeue
  <2> QED
    BY <1>0, <1>2, <2>1 DEF Dequeue, InboxInOrder
<1>3. CASE UNCHANGED inboxVars
  BY <1>0, <1>3 DEF InboxInOrder, inboxVars
<1>4. ASSUME NEW p \in Peers, ThreadStep(p) PROVE InboxInOrder'
  BY <1>2, <1>3, <1>4
     DEF ThreadStep, RunStep, CallbackStep, RunBegin, RunLoop, DequeueWait,
         DequeueTimeout, HandleReturn, NothingToSend, LockOutbound, SendMessage, DropSocket,
         CheckIce, ProcessReturn, RunEnd, ThreadExit, OnIceConnectionChange,
         SendSignalingMessage, TimePasses
<1>5. CASE Message
  BY <1>0, <1>1, <1>3, <1>5, ListedPeers DEF Message, connVars
<1> QED
  BY <1>3, <1>4, <1>5
     DEF Next, MainStep, AcceptIdle, Accept, AcceptHandshakeFails, StartCleanup, CleanupEnded,
         StopThread, CleanupSkip, CleanupDelete, JoinAndDelete, CleanupDone, ReadRequest,
         ParseFails, ServePage, SignIn, NewConnection, SignOut, MessageWithoutData, ParseThrows, Wait,
         SetOutboundSocket, CloseClient, Halted, vars, connVars

\* sendSignalingMessage and getSignalingMessage keep the order of the messages.
LEMMA StepOutbox == ServerInv /\ [Next]_vars => OutboxInOrder'
<1> SUFFICES ASSUME ServerInv, [Next]_vars PROVE OutboxInOrder'
  OBVIOUS
<1>0. /\ OutboxInOrder
      /\ m_msgQueue \in [Peers -> Seq(Nat)]
      /\ produced \in [Peers -> Nat] /\ sent \in [Peers -> Nat]
  BY DEF ServerInv, TypeOK, ConnTypeOK
<1>1. ASSUME NEW p \in Peers, SendSignalingMessage(p) PROVE OutboxInOrder'
  <2>1. Consecutive(Append(m_msgQueue[p], produced[p] + 1), sent[p], produced[p] + 1)
    BY <1>0, ConsecutivePut DEF OutboxInOrder
  <2> QED
    BY <1>0, <1>1, <2>1 DEF SendSignalingMessage, OutboxInOrder
<1>2. ASSUME NEW p \in Peers, LockOutbound(p) PROVE OutboxInOrder'
  <2>1. Consecutive(Tail(m_msgQueue[p]), sent[p] + 1, produced[p])
    BY <1>0, <1>2, ConsecutiveTake DEF OutboxInOrder, LockOutbound
  <2> QED
    BY <1>0, <1>2, <2>1 DEF LockOutbound, OutboxInOrder
<1>3. ASSUME NEW p \in Peers, ThreadExit(p) PROVE OutboxInOrder'
  <2>1. Consecutive(<<>>, 0, 0)
    BY DEF Consecutive
  <2> QED
    BY <1>0, <1>3, <2>1 DEF ThreadExit, OutboxInOrder
<1>4. CASE UNCHANGED outboxVars
  BY <1>0, <1>4 DEF OutboxInOrder, outboxVars
<1>5. ASSUME NEW p \in Peers, ThreadStep(p) PROVE OutboxInOrder'
  BY <1>1, <1>2, <1>3, <1>4, <1>5
     DEF ThreadStep, RunStep, CallbackStep, RunBegin, RunLoop, Dequeue, DequeueWait,
         DequeueTimeout, HandleReturn, NothingToSend, SendMessage, DropSocket, CheckIce,
         ProcessReturn, RunEnd, OnIceConnectionChange, TimePasses
<1> QED
  BY <1>4, <1>5
     DEF Next, MainStep, AcceptIdle, Accept, AcceptHandshakeFails, StartCleanup, CleanupEnded,
         StopThread, CleanupSkip, CleanupDelete, JoinAndDelete, CleanupDone, ReadRequest,
         ParseFails, ServePage, SignIn, NewConnection, SignOut, Message, PushMessage,
         MessageWithoutData, ParseThrows, Wait, SetOutboundSocket, CloseClient, Halted, vars, connVars

-----------------------------------------------------------------------------
(***************************************************************************)
(* The theorems.                                                           *)
(***************************************************************************)

\* The main loop of server.cpp and the threads of webrtc_connection.cpp never
\* leave the invariant.
THEOREM ServerInvariant == Spec => []ServerInv
<1>1. ServerInv /\ [Next]_vars => ServerInv'
  BY StepType, StepConnectionState, StepListState, StepRequestState, StepOneOwner, StepWaits,
     StepNoUseAfterFree, StepInbox, StepOutbox DEF ServerInv
<1> QED
  BY InitInv, <1>1, PTL DEF Spec

\* Every variable of the server keeps its type.
THEOREM TypeCorrect == Spec => []TypeOK
<1>1. ServerInv => TypeOK
  BY DEF ServerInv
<1> QED
  BY ServerInvariant, <1>1, PTL

\* setOutboundSocket, Run() and the end of the main loop hand a TcpSocket over
\* without sharing it, using it after its delete or deleting it twice.
THEOREM SocketsHaveOneOwner == Spec => []OneOwner
<1>1. ServerInv => OneOwner
  BY DEF ServerInv
<1> QED
  BY ServerInvariant, <1>1, PTL

\* Run() replies at most once to a "wait" request.
THEOREM WaitsAnsweredOnce == Spec => []WaitAnsweredOnce
<1>1. ServerInv => WaitAnsweredOnce
  BY DEF ServerInv
<1> QED
  BY ServerInvariant, <1>1, PTL

\* A "wait" request gets the messages of the peer that it names, though
\* sessions and socket addresses come and go.
THEOREM WaitsAnsweredByOwner == Spec => []OwnWait
<1>1. ServerInv => OwnWait
  BY DEF ServerInv
<1> QED
  BY ServerInvariant, <1>1, PTL

\* The cleanup of main() deletes no connection whose thread still runs.
THEOREM ConnectionsNotUsedAfterFree == Spec => []NoUseAfterFree
<1>1. ServerInv => NoUseAfterFree
  BY DEF ServerInv
<1> QED
  BY ServerInvariant, <1>1, PTL

\* The messages of a browser are neither lost, doubled nor reordered between
\* the message handler of main() and onSignalingMessage.
THEOREM MessagesHandledInOrder == Spec => []InboxInOrder
<1>1. ServerInv => InboxInOrder
  BY DEF ServerInv
<1> QED
  BY ServerInvariant, <1>1, PTL

\* The messages for a browser are neither lost, doubled nor reordered between
\* the observer and sendMessage().
THEOREM MessagesSentInOrder == Spec => []OutboxInOrder
<1>1. ServerInv => OutboxInOrder
  BY DEF ServerInv
<1> QED
  BY ServerInvariant, <1>1, PTL
=============================================================================
