-------------------------- MODULE WebrtcConnection --------------------------
(***************************************************************************)
(* Class WebrtcConnection: one object per signed-in browser, each with a   *)
(* thread of its own that executes Run().  The main thread (Server.tla)    *)
(* calls the other methods.  What the two threads share is m_queue (with   *)
(* its own lock, see MessageQueue.tla), m_clientSocket (guarded by         *)
(* m_mutex), and m_state and m_alive (not guarded).                        *)
(*                                                                         *)
(* A connection is named by its peer id.  Signaling messages are numbered  *)
(* in the order they are produced, per peer and per direction, so a queue  *)
(* holds numbers.  The Observer that Run() owns appears here as what Run() *)
(* sees of it: the queue of outgoing messages and the ICE state.  Both are *)
(* changed only by callbacks that libwebrtc delivers on the connection's   *)
(* own thread, inside onSignalingMessage or ProcessMessages.               *)
(***************************************************************************)
EXTENDS TcpSocket, Sequences

CONSTANTS MaxPeers,      \* bound: connections ever created
          MaxSignaling,  \* bound: signaling messages the observer of one peer produces
          IceReported    \* bound: the ICE states that libwebrtc reports

ASSUME PeersAssumption == MaxPeers \in Nat /\ MaxSignaling \in Nat

Peers == 1..MaxPeers

VARIABLES object,          \* life of the heap object: "unborn", "allocated", "deleted"
          runPc,           \* where the connection's thread is
          m_clientSocket,  \* the parked socket of the last "wait" request
          m_mutex,         \* TRUE while the thread holds m_mutex
          m_queue,         \* messages from the browser, not yet dequeued
          m_state,
          m_alive,
          expired,         \* MAX_CONNECTION_TIME_SEC have passed since startTime
          m_msgQueue,      \* the observer's messages for the browser
          m_localIceState, \* the observer's ICE state
          posted, handled, \* how many messages entered and left m_queue
          produced, sent   \* how many messages entered and left m_msgQueue

inboxVars == <<m_queue, posted, handled>>
outboxVars == <<m_msgQueue, produced, sent>>
parkVars == <<m_clientSocket, m_mutex>>
lifeVars == <<m_state, m_alive, expired, m_localIceState>>
connVars == <<object, runPc, inboxVars, outboxVars, parkVars, lifeVars>>

ConnectionStates == {"INIT", "CONNECTED", "ERROR", "END"}

\* Not among them: kIceConnectionClosed, which needs PeerConnection::Close,
\* and kIceConnectionCompleted, which libwebrtc reports on the side of the
\* offer only, and this server always answers.
IceStates == {"New", "Checking", "Connected", "Failed", "Disconnected"}

\* The successors libwebrtc reports for an ICE state.  m_localIceState is not
\* reset when a second offer replaces the peer connection: the next state is
\* then the Checking of the new one.
IceNext ==
    [New          |-> {"Checking"},
     Checking     |-> {"Connected", "Failed"},
     Connected    |-> {"Checking", "Disconnected", "Failed"},
     Failed       |-> {"Checking", "Connected"},
     Disconnected |-> {"Checking", "Connected", "Failed"}]

RunPcs == {"unstarted", "started", "loop", "dequeue", "waiting", "handle", "outbound",
           "send", "drop", "ice", "process", "ending", "returning", "exited"}

ConnTypeOK ==
    /\ object \in [Peers -> {"unborn", "allocated", "deleted"}]
    /\ runPc \in [Peers -> RunPcs]
    /\ m_clientSocket \in [Peers -> Sockets \cup {NoSocket}]
    /\ m_mutex \in [Peers -> BOOLEAN]
    /\ m_queue \in [Peers -> Seq(Nat)]
    /\ m_state \in [Peers -> ConnectionStates]
    /\ m_alive \in [Peers -> BOOLEAN]
    /\ expired \in [Peers -> BOOLEAN]
    /\ m_msgQueue \in [Peers -> Seq(Nat)]
    /\ m_localIceState \in [Peers -> IceStates]
    /\ posted \in [Peers -> Nat]
    /\ handled \in [Peers -> Nat]
    /\ produced \in [Peers -> Nat]
    /\ sent \in [Peers -> Nat]

\* The fields of an object that does not exist yet have the values that the
\* constructors of WebrtcConnection and Observer will give them.
ConnInit ==
    /\ object = [p \in Peers |-> "unborn"]
    /\ runPc = [p \in Peers |-> "unstarted"]
    /\ m_clientSocket = [p \in Peers |-> NoSocket]
    /\ m_mutex = [p \in Peers |-> FALSE]
    /\ m_queue = [p \in Peers |-> <<>>]
    /\ m_state = [p \in Peers |-> "INIT"]
    /\ m_alive = [p \in Peers |-> TRUE]
    /\ expired = [p \in Peers |-> FALSE]
    /\ m_msgQueue = [p \in Peers |-> <<>>]
    /\ m_localIceState = [p \in Peers |-> "New"]
    /\ posted = [p \in Peers |-> 0]
    /\ handled = [p \in Peers |-> 0]
    /\ produced = [p \in Peers |-> 0]
    /\ sent = [p \in Peers |-> 0]

Goto(p, from, to) ==
    /\ runPc[p] = from
    /\ runPc' = [runPc EXCEPT ![p] = to]

-----------------------------------------------------------------------------
(***************************************************************************)
(* Methods the main thread calls.                                          *)
(***************************************************************************)

\* new WebrtcConnection(p), then connect(): the thread is started.
NewConnection(p) ==
    /\ object' = [object EXCEPT ![p] = "allocated"]
    /\ Goto(p, "unstarted", "started")
    /\ UNCHANGED <<inboxVars, outboxVars, parkVars, lifeVars>>

\* pushMessage: enqueue, never refused.
PushMessage(p) ==
    /\ posted' = [posted EXCEPT ![p] = @ + 1]
    /\ m_queue' = [m_queue EXCEPT ![p] = Append(@, posted[p] + 1)]
    /\ UNCHANGED <<object, runPc, handled, outboxVars, parkVars, lifeVars>>

\* Mutant: the lock is not taken.
SetOutboundSocketUnlocked(p, s) ==
    /\ m_clientSocket' = [m_clientSocket EXCEPT ![p] = s]
    /\ UNCHANGED <<object, runPc, m_mutex, inboxVars, outboxVars, lifeVars>>

\* setOutboundSocket: waits for m_mutex, and overwrites whatever was parked.
SetOutboundSocket(p, s) ==
    /\ ~m_mutex[p]
    /\ m_clientSocket' = [m_clientSocket EXCEPT ![p] = s]
    /\ UNCHANGED <<object, runPc, m_mutex, inboxVars, outboxVars, lifeVars>>

\* disconnect(), up to Thread::Stop, which waits for the thread to be over.
StopThread(p) ==
    /\ m_alive' = [m_alive EXCEPT ![p] = FALSE]
    /\ UNCHANGED <<object, runPc, m_state, expired, m_localIceState,
                   inboxVars, outboxVars, parkVars>>

\* Mutant: the object is deleted without waiting for its thread.
DeleteUnjoined(p) ==
    /\ object' = [object EXCEPT ![p] = "deleted"]
    /\ UNCHANGED <<runPc, inboxVars, outboxVars, parkVars, lifeVars>>

\* disconnect() returns from Thread::Stop, and the object is deleted.  The
\* destructor leaves a socket that is still parked as it is.
JoinAndDelete(p) ==
    /\ runPc[p] = "exited"
    /\ object' = [object EXCEPT ![p] = "deleted"]
    /\ UNCHANGED <<runPc, inboxVars, outboxVars, parkVars, lifeVars>>

-----------------------------------------------------------------------------
(***************************************************************************)
(* Run(), one action per step that another thread can see or that waits.   *)
(***************************************************************************)

RunBegin(p) ==
    /\ Goto(p, "started", "loop")
    /\ m_state' = [m_state EXCEPT ![p] = "CONNECTED"]
    /\ UNCHANGED <<object, m_alive, expired, m_localIceState,
                   inboxVars, outboxVars, parkVars, socketVars>>

\* while (m_alive)
RunLoop(p) ==
    /\ Goto(p, "loop", IF m_alive[p] THEN "dequeue" ELSE "ending")
    /\ UNCHANGED <<object, inboxVars, outboxVars, parkVars, lifeVars, socketVars>>

\* Mutant: dequeue waits before it looks at the queue.
DequeueAfterWait(p) ==
    /\ runPc[p] = "waiting"
    /\ m_queue[p] # <<>>
    /\ runPc' = [runPc EXCEPT ![p] = "handle"]
    /\ m_queue' = [m_queue EXCEPT ![p] = Tail(@)]
    /\ handled' = [handled EXCEPT ![p] = @ + 1]
    /\ UNCHANGED <<object, posted, outboxVars, parkVars, lifeVars, socketVars>>

\* m_queue.dequeue finds a message, at once or after waiting for it, and
\* Run() enters onSignalingMessage.
Dequeue(p) ==
    /\ runPc[p] \in {"dequeue", "waiting"}
    /\ m_queue[p] # <<>>
    /\ runPc' = [runPc EXCEPT ![p] = "handle"]
    /\ m_queue' = [m_queue EXCEPT ![p] = Tail(@)]
    /\ handled' = [handled EXCEPT ![p] = @ + 1]
    /\ UNCHANGED <<object, posted, outboxVars, parkVars, lifeVars, socketVars>>

DequeueWait(p) ==
    /\ m_queue[p] = <<>>
    /\ Goto(p, "dequeue", "waiting")
    /\ UNCHANGED <<object, inboxVars, outboxVars, parkVars, lifeVars, socketVars>>

\* Mutant: the wait has no timeout.
DequeueBlocking(p) ==
    /\ m_queue[p] # <<>>
    /\ Goto(p, "waiting", "outbound")
    /\ UNCHANGED <<object, inboxVars, outboxVars, parkVars, lifeVars, socketVars>>

\* The 100 ms are over.  dequeue returns -1 even if a message has just come.
DequeueTimeout(p) ==
    /\ Goto(p, "waiting", "outbound")
    /\ UNCHANGED <<object, inboxVars, outboxVars, parkVars, lifeVars, socketVars>>

HandleReturn(p) ==
    /\ Goto(p, "handle", "outbound")
    /\ UNCHANGED <<object, inboxVars, outboxVars, parkVars, lifeVars, socketVars>>

\* getSignalingMessageCount() is 0, or m_mutex was taken and released again
\* because no socket is parked.
NothingToSend(p) ==
    /\ m_msgQueue[p] = <<>> \/ (~m_mutex[p] /\ m_clientSocket[p] = NoSocket)
    /\ Goto(p, "outbound", "ice")
    /\ UNCHANGED <<object, inboxVars, outboxVars, parkVars, lifeVars, socketVars>>

\* Mutant: m_mutex is taken and never released when no socket is parked.
LockOutboundFirst(p) ==
    /\ m_msgQueue[p] # <<>>
    /\ ~m_mutex[p]
    /\ m_mutex' = [m_mutex EXCEPT ![p] = TRUE]
    /\ IF m_clientSocket[p] # NoSocket
       THEN /\ Goto(p, "outbound", "send")
            /\ m_msgQueue' = [m_msgQueue EXCEPT ![p] = Tail(@)]
            /\ sent' = [sent EXCEPT ![p] = @ + 1]
       ELSE /\ Goto(p, "outbound", "ice")
            /\ UNCHANGED <<m_msgQueue, sent>>
    /\ UNCHANGED <<object, produced, m_clientSocket, inboxVars, lifeVars, socketVars>>

\* Mutant: the newest message is taken.
LockOutboundNewest(p) ==
    /\ m_msgQueue[p] # <<>>
    /\ ~m_mutex[p]
    /\ m_clientSocket[p] # NoSocket
    /\ Goto(p, "outbound", "send")
    /\ m_mutex' = [m_mutex EXCEPT ![p] = TRUE]
    /\ m_msgQueue' = [m_msgQueue EXCEPT ![p] = SubSeq(@, 1, Len(@) - 1)]
    /\ sent' = [sent EXCEPT ![p] = @ + 1]
    /\ UNCHANGED <<object, produced, m_clientSocket, inboxVars, lifeVars, socketVars>>

\* m_mutex is taken, a socket is parked, and getSignalingMessage takes the
\* oldest message: from here on it is in nobody's queue.
LockOutbound(p) ==
    /\ m_msgQueue[p] # <<>>
    /\ ~m_mutex[p]
    /\ m_clientSocket[p] # NoSocket
    /\ Goto(p, "outbound", "send")
    /\ m_mutex' = [m_mutex EXCEPT ![p] = TRUE]
    /\ m_msgQueue' = [m_msgQueue EXCEPT ![p] = Tail(@)]
    /\ sent' = [sent EXCEPT ![p] = @ + 1]
    /\ UNCHANGED <<object, produced, m_clientSocket, inboxVars, lifeVars, socketVars>>

\* sendMessage, with m_mutex held: two blocking writes to the parked socket.
SendMessage(p) ==
    /\ Goto(p, "send", "drop")
    /\ WriteSocket(m_clientSocket[p])
    /\ UNCHANGED <<object, inboxVars, outboxVars, parkVars, lifeVars>>

\* Mutant: m_mutex is not released.
DropSocketLocked(p) ==
    /\ Goto(p, "drop", "ice")
    /\ DeleteSocket(m_clientSocket[p])
    /\ m_clientSocket' = [m_clientSocket EXCEPT ![p] = NoSocket]
    /\ UNCHANGED <<object, m_mutex, inboxVars, outboxVars, lifeVars>>

\* delete m_clientSocket; m_clientSocket = nullptr; m_mutex is released.
DropSocket(p) ==
    /\ Goto(p, "drop", "ice")
    /\ DeleteSocket(m_clientSocket[p])
    /\ m_clientSocket' = [m_clientSocket EXCEPT ![p] = NoSocket]
    /\ m_mutex' = [m_mutex EXCEPT ![p] = FALSE]
    /\ UNCHANGED <<object, inboxVars, outboxVars, lifeVars>>

\* Mutant: only a lost connection ends the session.
MustEndDisconnected(p) ==
    m_localIceState[p] = "Disconnected"

\* Run() gives the session up: the connection is lost, or it is not (or no
\* longer) in state Connected and MAX_CONNECTION_TIME_SEC are over.
MustEnd(p) ==
    \/ m_localIceState[p] = "Disconnected"
    \/ m_localIceState[p] # "Connected" /\ expired[p]

CheckIce(p) ==
    /\ Goto(p, "ice", "process")
    /\ m_alive' = [m_alive EXCEPT ![p] = @ /\ ~MustEnd(p)]
    /\ UNCHANGED <<object, m_state, expired, m_localIceState,
                   inboxVars, outboxVars, parkVars, socketVars>>

ProcessReturn(p) ==
    /\ Goto(p, "process", "loop")
    /\ UNCHANGED <<object, inboxVars, outboxVars, parkVars, lifeVars, socketVars>>

\* Mutant: Run() does not publish that it is over.
RunEndUnpublished(p) ==
    /\ Goto(p, "ending", "returning")
    /\ UNCHANGED <<object, inboxVars, outboxVars, parkVars, lifeVars, socketVars>>

RunEnd(p) ==
    /\ Goto(p, "ending", "returning")
    /\ m_state' = [m_state EXCEPT ![p] = "END"]
    /\ UNCHANGED <<object, m_alive, expired, m_localIceState,
                   inboxVars, outboxVars, parkVars, socketVars>>

\* Run() returns.  Its locals go: the start time, and the observer with its
\* peer connection, its ICE state and the messages nobody fetched.
ThreadExit(p) ==
    /\ Goto(p, "returning", "exited")
    /\ expired' = [expired EXCEPT ![p] = FALSE]
    /\ m_localIceState' = [m_localIceState EXCEPT ![p] = "New"]
    /\ m_msgQueue' = [m_msgQueue EXCEPT ![p] = <<>>]
    /\ produced' = [produced EXCEPT ![p] = 0]
    /\ sent' = [sent EXCEPT ![p] = 0]
    /\ UNCHANGED <<object, m_state, m_alive, inboxVars, parkVars, socketVars>>

-----------------------------------------------------------------------------
(***************************************************************************)
(* Callbacks of the observer, on the connection's thread.  Before the      *)
(* first message is handled there is no peer connection to call back.      *)
(***************************************************************************)

InCallback(p) == runPc[p] \in {"handle", "process"} /\ handled[p] > 0

OnIceConnectionChange(p) ==
    /\ InCallback(p)
    /\ \E new_state \in IceNext[m_localIceState[p]] :
          /\ new_state \in IceReported
          /\ m_localIceState' = [m_localIceState EXCEPT ![p] = new_state]
    /\ UNCHANGED <<object, runPc, m_state, m_alive, expired,
                   inboxVars, outboxVars, parkVars, socketVars>>

\* sendSignalingMessage, called from OnSuccess and OnIceGatheringChange.
SendSignalingMessage(p) ==
    /\ InCallback(p)
    /\ produced[p] < MaxSignaling
    /\ produced' = [produced EXCEPT ![p] = @ + 1]
    /\ m_msgQueue' = [m_msgQueue EXCEPT ![p] = Append(@, produced[p] + 1)]
    /\ UNCHANGED <<object, runPc, sent, inboxVars, parkVars, lifeVars, socketVars>>

\* steady_clock: the limit counts from the beginning of Run().
TimePasses(p) ==
    /\ runPc[p] \notin {"unstarted", "started", "exited"}
    /\ ~expired[p]
    /\ expired' = [expired EXCEPT ![p] = TRUE]
    /\ UNCHANGED <<object, runPc, m_state, m_alive, m_localIceState,
                   inboxVars, outboxVars, parkVars, socketVars>>

\* A step of the thread that only needs the processor, a lock or a timeout.
RunStep(p) ==
    \/ RunBegin(p)
    \/ RunLoop(p)
    \/ Dequeue(p)
    \/ DequeueWait(p)
    \/ DequeueTimeout(p)
    \/ HandleReturn(p)
    \/ NothingToSend(p)
    \/ LockOutbound(p)
    \/ SendMessage(p)
    \/ DropSocket(p)
    \/ CheckIce(p)
    \/ ProcessReturn(p)
    \/ RunEnd(p)
    \/ ThreadExit(p)

\* A step that libwebrtc or the browser behind it decides on.
CallbackStep(p) ==
    \/ OnIceConnectionChange(p)
    \/ SendSignalingMessage(p)
=============================================================================
