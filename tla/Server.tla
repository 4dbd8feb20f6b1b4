------------------------------- MODULE Server -------------------------------
(***************************************************************************)
(* The main thread (server.cpp, main): it accepts one HTTPS connection at  *)
(* a time, reads and parses one request from it, executes it, and closes   *)
(* the socket or leaves it parked with a connection.  When accept() has    *)
(* nothing to return it deletes the connections whose thread has ended.    *)
(* The connection threads of WebrtcConnection.tla run beside it.           *)
(***************************************************************************)
EXTENDS WebrtcConnection, SequencesExt

CONSTANT MaxPosted   \* bound: "message" requests per peer

ASSUME PostedAssumption == MaxPosted \in Nat

VARIABLES mainPc,                \* where the main thread is
          clientSocket,          \* the socket accept() returned last
          httpReq,               \* the request parsed from it
          closeWait,
          peerId,                \* the next peer id; a uint32_t, far from its limit
          webrtcConnectionList,
          it                     \* the cleanup loop's iterator

mainVars == <<mainPc, clientSocket, httpReq, closeWait, peerId,
              webrtcConnectionList, it>>
vars == <<mainVars, connVars, socketVars>>

MainPcs == {"accept", "read", "dispatch", "close", "cleanup", "join", "crashed"}

\* The pages (landing page, favicon and the error page for any other command)
\* differ in what is written only.
Commands == {"page", "signIn", "signOut", "message", "wait"}

\* data is FALSE when nothing followed the header before read() timed out:
\* parseHttpMessage then leaves HttpReq_t::data at nullptr.
\* A field that the handler of a command does not look at has one value.
Requests ==
    [cmd : Commands \ {"message", "wait"}, pragma : {0}, data : {FALSE}]
       \cup [cmd : {"message"}, pragma : 0..MaxPeers, data : BOOLEAN]
       \cup [cmd : {"wait"}, pragma : 0..MaxPeers, data : {FALSE}]
NoRequest == [cmd |-> "page", pragma |-> 0, data |-> FALSE]

MainTypeOK ==
    /\ mainPc \in MainPcs
    /\ clientSocket \in Sockets \cup {NoSocket}
    /\ httpReq \in Requests
    /\ closeWait \in BOOLEAN
    /\ peerId \in Nat
    /\ webrtcConnectionList \in Seq(Peers)
    /\ it \in Nat

\* The types of the variables of main() and of the objects it works on.
TypeOK == SocketTypeOK /\ ConnTypeOK /\ MainTypeOK

Init ==
    /\ SocketInit
    /\ ConnInit
    /\ mainPc = "accept"
    /\ clientSocket = NoSocket
    /\ httpReq = NoRequest
    /\ closeWait = TRUE
    /\ peerId = 1
    /\ webrtcConnectionList = <<>>
    /\ it = 1

\* The connection a lookup over webrtcConnectionList finds: ids are unique.
Listed(p) == \E i \in 1..Len(webrtcConnectionList) : webrtcConnectionList[i] = p

\* The next turn of the main loop.  httpReq and it are local to a turn, and
\* accept() assigns clientSocket before anything reads it.
NextTurn ==
    /\ mainPc' = "accept"
    /\ clientSocket' = NoSocket
    /\ httpReq' = NoRequest
    /\ it' = 1

-----------------------------------------------------------------------------
(***************************************************************************)
(* accept() and the cleanup that runs when it returns nullptr.             *)
(***************************************************************************)

Accept(s) ==
    /\ mainPc = "accept"
    /\ AcceptSocket(s)
    /\ clientSocket' = s
    /\ mainPc' = "read"
    /\ UNCHANGED <<httpReq, closeWait, peerId, webrtcConnectionList, it, connVars>>

StartCleanup ==
    /\ mainPc = "accept"
    /\ mainPc' = "cleanup"
    /\ UNCHANGED <<clientSocket, httpReq, closeWait, peerId, webrtcConnectionList, it, connVars>>

\* Nobody connected for SOCKET_CONNECTION_TIMEOUT seconds, or select or
\* ::accept failed.
AcceptIdle ==
    /\ StartCleanup
    /\ UNCHANGED socketVars

\* The TLS handshake failed.
AcceptHandshakeFails(s) ==
    /\ StartCleanup
    /\ OrphanSocket(s)

CleanupEnded ==
    /\ mainPc = "cleanup"
    /\ it <= Len(webrtcConnectionList)
    /\ m_state[webrtcConnectionList[it]] = "END"
    /\ StopThread(webrtcConnectionList[it])
    /\ mainPc' = "join"
    /\ UNCHANGED <<clientSocket, httpReq, closeWait, peerId, webrtcConnectionList, it,
                   socketVars>>

CleanupSkip ==
    /\ mainPc = "cleanup"
    /\ it <= Len(webrtcConnectionList)
    /\ m_state[webrtcConnectionList[it]] # "END"
    /\ it' = it + 1
    /\ UNCHANGED <<mainPc, clientSocket, httpReq, closeWait, peerId, webrtcConnectionList,
                   connVars, socketVars>>

\* The thread is joined, the connection erased from the list and deleted;
\* erase() returns the iterator to the element that follows.
CleanupDelete ==
    /\ mainPc = "join"
    /\ JoinAndDelete(webrtcConnectionList[it])
    /\ webrtcConnectionList' = RemoveAt(webrtcConnectionList, it)
    /\ mainPc' = "cleanup"
    /\ UNCHANGED <<clientSocket, httpReq, closeWait, peerId, it, socketVars>>

CleanupDone ==
    /\ mainPc = "cleanup"
    /\ it > Len(webrtcConnectionList)
    /\ NextTurn
    /\ UNCHANGED <<closeWait, peerId, webrtcConnectionList, connVars, socketVars>>

-----------------------------------------------------------------------------
(***************************************************************************)
(* Reading a request.                                                      *)
(***************************************************************************)

\* Bounds on what the browsers ask for.
WithinBounds(req) ==
    /\ req.cmd = "signIn" => peerId <= MaxPeers
    /\ req.cmd = "message" /\ req.pragma \in Peers => posted[req.pragma] < MaxPosted

ReadRequest ==
    /\ mainPc = "read"
    /\ \E req \in Requests :
          /\ WithinBounds(req)
          /\ httpReq' = req
          /\ ReadSocket(clientSocket, IF req.cmd = "wait" THEN req.pragma ELSE 0)
    /\ mainPc' = "dispatch"
    /\ UNCHANGED <<clientSocket, closeWait, peerId, webrtcConnectionList, it, connVars>>

\* The header never ended: the socket is deleted whatever closeWait says.
ParseFails ==
    /\ mainPc = "read"
    /\ DeleteSocket(clientSocket)
    /\ NextTurn
    /\ UNCHANGED <<closeWait, peerId, webrtcConnectionList, connVars>>

\* The last part of the URL has nothing but "?": parseUrl asks for the first
\* element of an empty list, and nobody catches the exception.
ParseThrows ==
    /\ mainPc = "read"
    /\ mainPc' = "crashed"
    /\ UNCHANGED <<clientSocket, httpReq, closeWait, peerId, webrtcConnectionList, it,
                   connVars, socketVars>>

-----------------------------------------------------------------------------
(***************************************************************************)
(* The request handlers.                                                   *)
(***************************************************************************)

Dispatch(cmd) ==
    /\ mainPc = "dispatch"
    /\ httpReq.cmd = cmd
    /\ UNCHANGED <<clientSocket, httpReq, it>>

\* sendReplyPage, sendReplyFavicon, sendReplyError.
ServePage ==
    /\ Dispatch("page")
    /\ WriteSocket(clientSocket)
    /\ mainPc' = "close"
    /\ UNCHANGED <<closeWait, peerId, webrtcConnectionList, connVars>>

\* Mutant: the peer id is read again after peerId++.
SignInNextId ==
    /\ Dispatch("signIn")
    /\ NewConnection(peerId)
    /\ webrtcConnectionList' = Append(webrtcConnectionList, peerId + 1)
    /\ peerId' = peerId + 1
    /\ WriteSocket(clientSocket)
    /\ mainPc' = "close"
    /\ UNCHANGED closeWait

SignIn ==
    /\ Dispatch("signIn")
    /\ NewConnection(peerId)
    /\ webrtcConnectionList' = Append(webrtcConnectionList, peerId)
    /\ peerId' = peerId + 1
    /\ WriteSocket(clientSocket)
    /\ mainPc' = "close"
    /\ UNCHANGED closeWait

\* Nothing is done and nothing is replied.
SignOut ==
    /\ Dispatch("signOut")
    /\ mainPc' = "close"
    /\ UNCHANGED <<closeWait, peerId, webrtcConnectionList, connVars, socketVars>>

\* The reply is the same whether the peer is known or not.
Message ==
    /\ Dispatch("message")
    /\ IF Listed(httpReq.pragma)
       THEN httpReq.data /\ PushMessage(httpReq.pragma)
       ELSE UNCHANGED connVars
    /\ WriteSocket(clientSocket)
    /\ mainPc' = "close"
    /\ UNCHANGED <<closeWait, peerId, webrtcConnectionList>>

\* std::string is constructed from a null pointer: the process dies.
MessageWithoutData ==
    /\ Dispatch("message")
    /\ Listed(httpReq.pragma)
    /\ ~httpReq.data
    /\ mainPc' = "crashed"
    /\ UNCHANGED <<closeWait, peerId, webrtcConnectionList, connVars, socketVars>>

\* Mutant: the socket is parked and yet closed at the end of the loop.
WaitClosing ==
    /\ Dispatch("wait")
    /\ IF Listed(httpReq.pragma)
       THEN SetOutboundSocket(httpReq.pragma, clientSocket)
       ELSE UNCHANGED connVars
    /\ mainPc' = "close"
    /\ UNCHANGED <<closeWait, peerId, webrtcConnectionList, socketVars>>

\* Mutant: the socket goes to the first connection, not to the one asked for.
WaitAny ==
    /\ Dispatch("wait")
    /\ IF webrtcConnectionList # <<>>
       THEN /\ SetOutboundSocket(Head(webrtcConnectionList), clientSocket)
            /\ closeWait' = FALSE
       ELSE UNCHANGED <<connVars, closeWait>>
    /\ mainPc' = "close"
    /\ UNCHANGED <<peerId, webrtcConnectionList, socketVars>>

\* The socket stays open until the connection's thread has a message for it.
\* An unknown peer gets no reply.
Wait ==
    /\ Dispatch("wait")
    /\ IF Listed(httpReq.pragma)
       THEN /\ SetOutboundSocket(httpReq.pragma, clientSocket)
            /\ closeWait' = FALSE
       ELSE UNCHANGED <<connVars, closeWait>>
    /\ mainPc' = "close"
    /\ UNCHANGED <<peerId, webrtcConnectionList, socketVars>>

\* if (closeWait) delete clientSocket.  closeWait is declared outside the
\* loop: once a wait request has cleared it, it stays FALSE.
CloseClient ==
    /\ mainPc = "close"
    /\ IF closeWait THEN DeleteSocket(clientSocket) ELSE UNCHANGED socketVars
    /\ NextTurn
    /\ UNCHANGED <<closeWait, peerId, webrtcConnectionList, connVars>>

-----------------------------------------------------------------------------

\* What the main thread does on its own once it has a connection to work on.
MainStep ==
    \/ CleanupEnded
    \/ CleanupSkip
    \/ CleanupDelete
    \/ CleanupDone
    \/ ReadRequest
    \/ ParseFails
    \/ ParseThrows
    \/ ServePage
    \/ SignIn
    \/ SignOut
    \/ Message
    \/ MessageWithoutData
    \/ Wait
    \/ CloseClient

\* When the process has crashed its threads are gone.
ThreadStep(p) ==
    /\ mainPc # "crashed"
    /\ \/ RunStep(p)
       \/ CallbackStep(p)
       \/ TimePasses(p)
    /\ UNCHANGED mainVars

Halted ==
    /\ mainPc = "crashed"
    /\ UNCHANGED vars

Next ==
    \/ AcceptIdle
    \/ \E s \in Sockets : Accept(s)
    \/ \E s \in Sockets : AcceptHandshakeFails(s)
    \/ MainStep
    \/ \E p \in Peers : ThreadStep(p)
    \/ Halted

Spec == Init /\ [][Next]_vars

(***************************************************************************)
(* Fairness.  Threads are scheduled by the OS, and the waits of the code   *)
(* are bounded: dequeue and ProcessMessages by 100 ms, the select in read  *)
(* by 200 ms, the one in accept by 10 s.  SSL_accept, SSL_read and         *)
(* SSL_write have no timeout: a client is assumed to do its part of them   *)
(* or to close its connection.  Nothing else is assumed of the browsers,   *)
(* and nothing of libwebrtc's callbacks.                                   *)
(***************************************************************************)
RunThread(p) == mainPc # "crashed" /\ RunStep(p) /\ UNCHANGED mainVars
Clock(p) == mainPc # "crashed" /\ TimePasses(p) /\ UNCHANGED mainVars

Fairness ==
    /\ WF_vars(MainStep)
    /\ WF_vars(AcceptIdle)
    /\ \A p \in Peers : WF_vars(RunThread(p)) /\ WF_vars(Clock(p))

FairSpec == Spec /\ Fairness

-----------------------------------------------------------------------------
(***************************************************************************)
(* Safety.                                                                 *)
(***************************************************************************)

\* The main thread may still read, write or delete s.
MainOwns(s) ==
    /\ clientSocket = s
    /\ mainPc \in {"read", "dispatch"} \/ (mainPc = "close" /\ closeWait)

Parked(p) == m_clientSocket[p] # NoSocket

\* A socket that a thread can still use is alive and has one owner: the main
\* thread or one connection.  So no thread uses a TcpSocket that the other
\* deleted, and none is deleted twice, although it changes hands between
\* setOutboundSocket, Run() and the end of the main loop.
OneOwner ==
    /\ \A s \in Sockets : MainOwns(s) =>
          handle[s] = "open" /\ \A p \in Peers : m_clientSocket[p] # s
    /\ \A p \in Peers : Parked(p) =>
          /\ handle[m_clientSocket[p]] = "open"
          /\ \A q \in Peers : m_clientSocket[q] = m_clientSocket[p] => q = p

\* A parked socket has had no reply, and one that Run() is about to delete
\* has had exactly one: setOutboundSocket cannot swap the socket between the
\* write and the delete.
WaitAnsweredOnce ==
    \A p \in Peers : Parked(p) =>
       written[m_clientSocket[p]] = IF runPc[p] = "drop" THEN 1 ELSE 0

\* The messages of a peer only go to sockets on which a browser asked for
\* the messages of that peer.
OwnWait ==
    \A p \in Peers : Parked(p) => wanted[m_clientSocket[p]] = p

\* A connection is deleted only when its thread is over, and the main thread
\* finds no deleted connection in its list.
NoUseAfterFree ==
    \A p \in Peers :
       /\ object[p] = "deleted" => runPc[p] = "exited"
       /\ Listed(p) <=> object[p] = "allocated"

\* A queue of numbered messages holds those that were put and not yet taken,
\* in order.
Consecutive(queue, taken, put) ==
    /\ put = taken + Len(queue)
    /\ \A i \in 1..Len(queue) : queue[i] = taken + i

\* pushMessage and dequeue: every message a browser posted is still queued or
\* was handled, in the order of the posts.
InboxInOrder ==
    \A p \in Peers : Consecutive(m_queue[p], handled[p], posted[p])

\* sendSignalingMessage and getSignalingMessage: the browser gets the SDP
\* answer before the ICE candidates that belong to it.
OutboxInOrder ==
    \A p \in Peers : Consecutive(m_msgQueue[p], sent[p], produced[p])

(***************************************************************************)
(* What holds in addition and makes the above inductive.                   *)
(***************************************************************************)

\* m_mutex is held exactly while Run() writes to and deletes the parked
\* socket; the states of the object, of its thread and m_state agree.
ConnectionState ==
    \A p \in Peers :
       /\ m_mutex[p] <=> runPc[p] \in {"send", "drop"}
       /\ m_mutex[p] => Parked(p)
       /\ object[p] = "unborn" <=> runPc[p] = "unstarted"
       /\ object[p] = "unborn" <=> peerId <= p
       /\ m_state[p] = "END" <=> runPc[p] \in {"returning", "exited"}

\* The list has no connection twice, and its iterators stay inside.
ListState ==
    /\ \A i, j \in 1..Len(webrtcConnectionList) :
          webrtcConnectionList[i] = webrtcConnectionList[j] => i = j
    /\ it > 0
    /\ mainPc = "join" => it <= Len(webrtcConnectionList)

\* The socket of the request at hand is new, and the request is within bounds.
RequestState ==
    /\ peerId > 0
    /\ mainPc \in {"read", "dispatch", "close"} => clientSocket \in Sockets
    /\ mainPc \in {"read", "dispatch"} => written[clientSocket] = 0
    /\ mainPc = "dispatch" /\ httpReq.cmd = "wait" => wanted[clientSocket] = httpReq.pragma
    /\ mainPc = "dispatch" /\ httpReq.cmd = "signIn" => peerId \in Peers
    /\ \A s \in Sockets : handle[s] = "closed" => written[s] = 0

\* The invariant the proofs rest on: the main loop of server.cpp and Run() of
\* webrtc_connection.cpp agree at every moment on who owns which socket and
\* which connection.
ServerInv ==
    /\ TypeOK
    /\ ConnectionState
    /\ ListState
    /\ RequestState
    /\ OneOwner
    /\ WaitAnsweredOnce
    /\ OwnWait
    /\ NoUseAfterFree
    /\ InboxInOrder
    /\ OutboxInOrder

-----------------------------------------------------------------------------
(***************************************************************************)
(* Liveness.                                                               *)
(***************************************************************************)

Crashed == mainPc = "crashed"

\* The main thread waits for m_mutex, which a connection may hold during a
\* write, and joins threads that are ending: it always gets back to accept().
MainReturns == mainPc # "accept" ~> (mainPc = "accept" \/ Crashed)

\* A session that does not get connected ends.
UnconnectedEnds ==
    \A p \in Peers :
       object[p] = "allocated" ~>
          (m_state[p] = "END" \/ m_localIceState[p] = "Connected" \/ Crashed)

\* A session that was given up ends and its connection is deleted, if
\* accept() has pauses forever.
EndedDeleted ==
    []<>(mainPc = "cleanup" \/ Crashed) =>
       \A p \in Peers : ~m_alive[p] ~> (object[p] = "deleted" \/ Crashed)

\* A browser that waits gets the next message unless the session ends first.
WaitAnswered ==
    \A p \in Peers :
       (Parked(p) /\ m_msgQueue[p] # <<>>) ~>
          (~Parked(p) \/ ~m_alive[p] \/ Crashed)

\* A message that the server acknowledged is handled unless the session ends.
PostHandled ==
    \A p \in Peers, n \in 1..MaxPosted :
       posted[p] >= n ~> (handled[p] >= n \/ ~m_alive[p] \/ Crashed)

-----------------------------------------------------------------------------
(***************************************************************************)
(* What the program says of itself and does not do (see README).           *)
(***************************************************************************)

\* server.cpp announces "Connection: close" in every reply: when the main
\* thread is back in accept(), a socket that has its reply is closed, unless
\* a connection is still working on it.
ClosedAfterReply ==
    mainPc = "accept" =>
       \A s \in Sockets : handle[s] = "open" /\ written[s] > 0 =>
          \E p \in Peers : m_clientSocket[p] = s
=============================================================================
