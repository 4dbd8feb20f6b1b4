------------------------------ MODULE Reflector ------------------------------
(***************************************************************************)
(* The page and the server together: what the user's browser sees of the   *)
(* sessions it signs in to, over a network that reorders the requests of   *)
(* the page and, if Lossy, breaks connections.                             *)
(*                                                                         *)
(* The server's side is coarser here than in Server, Observer and          *)
(* MessageQueue: one action per request, and one per message or callback   *)
(* of a session.  Those modules show that its threads do no more than      *)
(* that: messages are handled and sent in order, one per wait, by the      *)
(* session that was asked for, and per offer one answer and then one list  *)
(* of candidates.                                                          *)
(***************************************************************************)
EXTENDS Page, FiniteSets

CONSTANTS MaxPeers,  \* bound: sign-ins
          Lossy      \* connections break

ASSUME ReflectorAssumption == MaxPeers \in Nat /\ Lossy \in BOOLEAN

Peers == 1..MaxPeers
Broken == -1         \* a parked socket whose connection is broken

VARIABLES
    session,         \* the WebrtcConnections with their Observers
    nextPeer,        \* peerId of main()
    closeWait,
    crashed          \* the process has ended

serverVars == <<session, nextPeer, closeWait, crashed>>
vars == <<pageVars, serverVars>>

\* life: "unborn", "alive", "ended" (in the list, its thread over), "deleted".
\* offer is the page's peer connection that m_peer_connection_ was created
\* for, or 0; phase is how far the negotiation is ("refused": without a remote
\* description; "missing": without a peer connection; "failed": without an
\* answer).
Unborn == [life |-> "unborn", m_queue |-> <<>>, m_clientSocket |-> 0, offer |-> 0,
           phase |-> "none", m_remoteIceCandidateMsg |-> {}, added |-> {},
           m_iceCandidateMsg |-> {}, m_msgQueue |-> <<>>, queued |-> 0]

Listed(p) == p \in Peers /\ session[p].life \in {"alive", "ended"}
Alive(p) == session[p].life = "alive" /\ ~crashed

Init ==
    /\ PageInit
    /\ session = [p \in Peers |-> Unborn]
    /\ nextPeer = 1
    /\ closeWait = TRUE
    /\ crashed = FALSE

-----------------------------------------------------------------------------
(***************************************************************************)
(* Requests, as the main loop handles them.  The page's variables do not   *)
(* change in a step of the server.                                         *)
(***************************************************************************)
localVars == <<uiVars, mediaVars, callVars, peerId, req, reqGet, timers, received>>

\* The reply goes to the request, or nowhere if the page has aborted it.
Reply(xs, x, reply) ==
    IF xs[x].state \in {"sent", "held"}
    THEN [xs EXCEPT ![x].state = "replied", ![x].reply = reply]
    ELSE [xs EXCEPT ![x] = Free]

Arrived(x, kind) == ~crashed /\ xhr[x].kind = kind /\ xhr[x].state \in {"sent", "cut"}

SignIn(x) ==
    /\ Arrived(x, "signIn")
    /\ nextPeer <= MaxPeers
    /\ session' = [session EXCEPT ![nextPeer].life = "alive"]
    /\ xhr' = Reply(xhr, x, [NoReply EXCEPT !.from = nextPeer])
    /\ nextPeer' = nextPeer + 1
    /\ UNCHANGED <<localVars, posts, closeWait, crashed>>

\* A post: the requests of the page overtake each other.  One without a body
\* ends the process if its session is listed.
Message(i) ==
    LET post == posts[i] IN
    /\ ~crashed
    /\ posts' = RemoveAt(posts, i)
    /\ crashed' = (Listed(post.to) /\ post.body.of = {})
    /\ session' = IF Listed(post.to) /\ ~crashed'
                  THEN [session EXCEPT ![post.to].m_queue = Append(@, post.body)]
                  ELSE session
    /\ UNCHANGED <<localVars, xhr, nextPeer, closeWait>>

\* What a wait leaves behind that is overwritten or whose session is deleted:
\* nobody answers it any more.
Forget(xs, x) == IF x > 0 /\ xs[x].state = "gone" THEN [xs EXCEPT ![x] = Free] ELSE xs

\* Mutant: the wait goes to the first session of the list.
WaitFirst(x) ==
    LET p == CHOOSE q \in {q \in Peers : Listed(q)} : \A r \in 1..(q - 1) : ~Listed(r) IN
    /\ Arrived(x, "wait")
    /\ Listed(xhr[x].pragma)
    /\ session' = [session EXCEPT ![p].m_clientSocket = x]
    /\ xhr' = Forget([xhr EXCEPT ![x].state = IF @ = "sent" THEN "held" ELSE "gone"],
                     session[p].m_clientSocket)
    /\ closeWait' = FALSE
    /\ UNCHANGED <<localVars, posts, nextPeer, crashed>>

\* A wait is parked with its session, in place of the one before.
Wait(x) ==
    LET p == xhr[x].pragma IN
    /\ Arrived(x, "wait")
    /\ Listed(p)
    /\ session' = [session EXCEPT ![p].m_clientSocket = x]
    /\ xhr' = Forget([xhr EXCEPT ![x].state = IF @ = "sent" THEN "held" ELSE "gone"],
                     session[p].m_clientSocket)
    /\ closeWait' = FALSE
    /\ UNCHANGED <<localVars, posts, nextPeer, crashed>>

\* No session has the id: the socket is closed, or left open without a reply.
WaitUnknown(x) ==
    /\ Arrived(x, "wait")
    /\ ~Listed(xhr[x].pragma)
    /\ xhr' = IF xhr[x].state = "cut" THEN [xhr EXCEPT ![x] = Free]
              ELSE IF closeWait THEN [xhr EXCEPT ![x].state = "replied", ![x].ok = FALSE]
              ELSE [xhr EXCEPT ![x].state = "held"]
    /\ UNCHANGED <<localVars, posts, serverVars>>

-----------------------------------------------------------------------------
(***************************************************************************)
(* The thread of a session.                                                *)
(***************************************************************************)

\* sendSignalingMessage: s with one more message for the browser.
Queue(s, kind, of, p) ==
    [s EXCEPT !.queued = @ + 1,
              !.m_msgQueue = Append(@, [kind |-> kind, of |-> of, from |-> p,
                                        number |-> s.queued + 1])]

Thread(p, s) ==
    /\ Alive(p)
    /\ session' = [session EXCEPT ![p] = s]
    /\ UNCHANGED <<localVars, xhr, posts, nextPeer, closeWait, crashed>>

\* onSignalingMessage, an offer: a new peer connection replaces the old one.
\* libwebrtc takes the offer, refuses it, or creates no peer connection.
HandleSdp(p) ==
    /\ session[p].m_queue # <<>>
    /\ Head(session[p].m_queue).kind = "SDP"
    /\ \E k \in Head(session[p].m_queue).of, phase \in {"offered", "refused", "missing"} :
          Thread(p, [session[p] EXCEPT !.m_queue = Tail(@),
                                       !.offer = IF phase = "missing" THEN 0 ELSE k,
                                       !.phase = phase,
                                       !.added = {}])

\* onSignalingMessage, candidates: kept without a peer connection, refused
\* without a remote description.
HandleIce(p) ==
    LET cands == Head(session[p].m_queue).of IN
    /\ session[p].m_queue # <<>>
    /\ Head(session[p].m_queue).kind = "ICE"
    /\ Thread(p, IF session[p].offer = 0
                 THEN [session[p] EXCEPT !.m_queue = Tail(@), !.m_remoteIceCandidateMsg = cands]
                 ELSE [session[p] EXCEPT !.m_queue = Tail(@),
                          !.added = IF session[p].phase = "refused" THEN @ ELSE @ \cup cands])

\* OnSuccess: the answer, and the candidates that were kept.
OnSuccess(p) ==
    /\ session[p].phase = "offered"
    /\ Thread(p, Queue([session[p] EXCEPT !.phase = "answered",
                                          !.added = @ \cup session[p].m_remoteIceCandidateMsg],
                       "SDP", {session[p].offer}, p))

OnFailure(p) ==
    /\ session[p].phase = "offered"
    /\ Thread(p, [session[p] EXCEPT !.phase = "failed"])

ServerCandidate(p) ==
    /\ session[p].phase = "answered"
    /\ session[p].offer \notin session[p].m_iceCandidateMsg
    /\ Thread(p, [session[p] EXCEPT !.m_iceCandidateMsg = @ \cup {session[p].offer}])

\* OnIceGatheringChange: the candidates, of which there may be none.
ServerGathered(p) ==
    /\ session[p].phase = "answered"
    /\ Thread(p, Queue([session[p] EXCEPT !.phase = "complete"],
                       "ICE", session[p].m_iceCandidateMsg, p))

\* A parked wait gets the oldest message.  If its connection is broken or the
\* page has aborted it, the message is lost, and nobody notices.
SendMessage(p) ==
    LET x == session[p].m_clientSocket IN
    /\ Alive(p)
    /\ session[p].m_msgQueue # <<>>
    /\ x # 0
    /\ session' = [session EXCEPT ![p].m_msgQueue = Tail(@), ![p].m_clientSocket = 0]
    /\ xhr' = IF x = Broken THEN xhr ELSE Reply(xhr, x, Head(session[p].m_msgQueue))
    /\ UNCHANGED <<localVars, posts, nextPeer, closeWait, crashed>>

\* Run() is over: ICE is disconnected, or not connected after 60 s.  Its
\* Observer goes with it.
End(p) ==
    Thread(p, [Unborn EXCEPT !.life = "ended", !.m_queue = session[p].m_queue,
                             !.m_clientSocket = session[p].m_clientSocket])

\* accept() is idle: the main loop deletes the connection, but not the socket.
Delete(p) ==
    /\ ~crashed
    /\ session[p].life = "ended"
    /\ session' = [session EXCEPT ![p] = [Unborn EXCEPT !.life = "deleted"]]
    /\ xhr' = Forget(xhr, session[p].m_clientSocket)
    /\ UNCHANGED <<localVars, posts, nextPeer, closeWait, crashed>>

-----------------------------------------------------------------------------
\* The connection of a request breaks, or the process at its other end is gone.
\* The server notices nothing.
Break(x) ==
    /\ Lossy \/ crashed
    /\ xhr[x].state \in {"sent", "held", "replied", "headers"}
    /\ xhr[x].ok
    /\ xhr' = [xhr EXCEPT ![x].state = "replied", ![x].ok = FALSE]
    /\ session' = [p \in Peers |-> IF session[p].m_clientSocket = x
                                   THEN [session[p] EXCEPT !.m_clientSocket = Broken]
                                   ELSE session[p]]
    /\ UNCHANGED <<localVars, posts, nextPeer, closeWait, crashed>>

\* A post is lost.  The page does not notice.
Lose(i) ==
    /\ Lossy \/ crashed
    /\ posts' = RemoveAt(posts, i)
    /\ UNCHANGED <<localVars, xhr, serverVars>>

BrowserNext == BrowserStep /\ UNCHANGED serverVars

UserNext ==
    /\ StartRecording \/ StopThrows \/ StopRecording
    /\ UNCHANGED serverVars

CandidateNext ==
    /\ \E k \in Calls : OnIceCandidate(k)
    /\ UNCHANGED serverVars

ServerNext ==
    \/ \E x \in Xhrs : SignIn(x) \/ Wait(x) \/ WaitUnknown(x)
    \/ \E i \in 1..Len(posts) : Message(i)
    \/ \E p \in Peers :
          \/ HandleSdp(p)
          \/ HandleIce(p)
          \/ OnSuccess(p)
          \/ OnFailure(p)
          \/ ServerGathered(p)
          \/ SendMessage(p)

Environment ==
    \/ \E p \in Peers : ServerCandidate(p) \/ End(p) \/ Delete(p)
    \/ \E x \in Xhrs : Break(x)
    \/ \E i \in 1..Len(posts) : Lose(i)

Next == UserNext \/ BrowserNext \/ CandidateNext \/ ServerNext \/ Environment

Spec == Init /\ [][Next]_vars

\* The browser handles its events, the server its requests and messages, and
\* libwebrtc answers and gathers.  The user clicks or not.
FairSpec == Spec /\ WF_vars(BrowserNext) /\ WF_vars(ServerNext)

-----------------------------------------------------------------------------
(***************************************************************************)
(* Properties.  The first four and Negotiates are about a patient user.    *)
(***************************************************************************)

\* The wait handler gives an answer to whatever peer connection is current
\* (index.html, waitOn).  Still, across disconnecting and connecting again,
\* aborted requests and messages left over in old sessions, a peer connection
\* gets no answer but the one to its own offer.
AnswerFitsOffer == \A k \in Calls : pc[k].remote \subseteq {k}

\* The lists of candidates are kept in variables of the page and of the
\* Observer that are not tied to a peer connection, and the Observer clears
\* neither of its two.  Still neither side is given the candidates of another
\* peer connection than the one it negotiates with.
CandidatesFit ==
    /\ \A k \in Calls : pc[k].given \subseteq {k}
    /\ \A p \in Peers : session[p].added \subseteq {session[p].offer}

\* setOutboundSocket overwrites the parked socket and nobody closes it.  It
\* never overwrites one whose request the page still waits for: the page has
\* one wait at a time, and starts the next when the last is answered.
WaitNotOverwritten ==
    [][\A p \in Peers :
          LET x == session[p].m_clientSocket IN
          x \in Xhrs /\ xhr[x].state = "held" => session'[p].m_clientSocket \in {x, 0, Broken}]_vars

\* sendMessage takes a message from the queue and ignores whether it could be
\* written.  The page never goes on after a message that it lost: what it has
\* taken from a session are the first messages of that session, in order.
NoGap ==
    \A i \in DOMAIN received :
       received[i].number = Cardinality({j \in 1..i : received[j].from = received[i].from})

\* The session failed to negotiate, or is over.
Failed(p) == session[p].life # "alive" \/ session[p].phase \in {"refused", "missing", "failed"}

Offering == peerConnection # 0 /\ pc[peerConnection].local

\* The page has the answer and the list of candidates of its session.
Negotiated ==
    /\ peerConnection # 0
    /\ pc[peerConnection].remote = {peerConnection}
    /\ \E i \in DOMAIN received : received[i].from = peerId /\ received[i].kind = "ICE"

\* An offer that the page has made leads to the answer and the candidates at
\* the page, through posts in any order and two waits, unless the user
\* disconnects, the negotiation fails or the process ends.
Negotiates ==
    Offering ~> Negotiated \/ peerConnection = 0 \/ crashed \/ \E p \in Peers : p = peerId /\ Failed(p)
-----------------------------------------------------------------------------
(***************************************************************************)
(* Why the first four hold: the invariant that each step of a patient      *)
(* user's page, of the server and of the network preserves.                *)
(***************************************************************************)
Messages == [kind : {"none", "SDP", "ICE"}, of : SUBSET Calls, from : 0..MaxPeers, number : Nat]
Bodies == [kind : {"SDP", "ICE"}, of : SUBSET Calls]
XhrStates == {"free", "sent", "held", "replied", "headers", "done", "cut", "gone"}
Requests == [kind : {"none", "signIn", "wait"}, state : XhrStates, pragma : 0..MaxPeers,
             ok : BOOLEAN, reply : Messages]
PcStates == [creating : Nat, local : BOOLEAN, remote : SUBSET Calls,
             gathering : {"new", "gathering", "complete"}, given : SUBSET Calls, closed : BOOLEAN]
Sessions ==
    [life : {"unborn", "alive", "ended", "deleted"}, m_queue : Seq(Bodies),
     m_clientSocket : Xhrs \cup {0, Broken}, offer : 0..MaxCalls,
     phase : {"none", "offered", "refused", "missing", "answered", "failed", "complete"},
     m_remoteIceCandidateMsg : SUBSET Calls, added : SUBSET Calls,
     m_iceCandidateMsg : SUBSET Calls, m_msgQueue : Seq(Messages), queued : Nat]

TypeOK ==
    /\ connected \in BOOLEAN /\ devices \in BOOLEAN /\ closeWait \in BOOLEAN /\ crashed \in BOOLEAN
    /\ peerId \in 0..MaxPeers /\ nextPeer \in 1..(MaxPeers + 1)
    /\ peerConnection \in 0..MaxCalls /\ calls \in 0..MaxCalls
    /\ iceCandidateMsg \in SUBSET Calls
    /\ req \in 0..MaxXhrs /\ reqGet \in 0..MaxXhrs
    /\ timers \in Nat /\ mediaCalls \in Nat
    /\ xhr \in [Xhrs -> Requests]
    /\ posts \in Seq([to : 0..MaxPeers, body : Bodies])
    /\ received \in Seq(Messages)
    /\ pc \in [Calls -> PcStates]
    /\ session \in [Peers -> Sessions]

\* req and reqGet refer to requests of their kind.  A sign-in that is not over
\* is the one req refers to, and a wait that is not aborted the one reqGet
\* refers to, unless the page has no devices and so never gets a message.  No
\* session has two waits.
OneRequest ==
    /\ \A x \in Xhrs :
          /\ xhr[x].kind = "none" <=> xhr[x].state = "free"
          /\ xhr[x].kind = "signIn" =>
                x = req /\ xhr[x].state \in {"sent", "replied", "headers", "done"}
          /\ xhr[x].kind = "wait" =>
                /\ xhr[x].pragma \in 1..(nextPeer - 1)
                /\ xhr[x].pragma = peerId => x = reqGet
                /\ devices /\ xhr[x].state \notin {"cut", "gone"} => x = reqGet
          /\ xhr[x].state \in {"sent", "held"} => xhr[x].ok
    /\ req # 0 => xhr[req].kind = "signIn"
    /\ reqGet # 0 =>
          /\ xhr[reqGet].kind = "wait"
          /\ xhr[reqGet].pragma = peerId
          /\ xhr[reqGet].state \notin {"cut", "gone"}
          /\ timers = 0
    /\ \A x, y \in Xhrs :
          xhr[x].kind = "wait" /\ xhr[y].kind = "wait" /\ xhr[x].pragma = xhr[y].pragma => x = y

\* The page has a session as long as it has a peer connection.  With devices
\* it is then connected, and signs in only when it is not.
OneCall ==
    /\ peerId < nextPeer
    /\ peerId = 0 <=> peerConnection = 0
    /\ connected => devices /\ peerId # 0
    /\ devices /\ ~connected => peerId = 0
    /\ connected => Pending("signIn") = {}
    /\ timers > 0 \/ mediaCalls > 0 => connected
    /\ timers > 0 => timers = 1 /\ reqGet = 0

\* Only the current peer connection is negotiating.
OneNegotiates ==
    /\ iceCandidateMsg \subseteq {peerConnection}
    /\ \A k \in Calls :
          /\ pc[k].creating > 0 => k = peerConnection
          /\ pc[k].gathering = "gathering" /\ ~pc[k].closed => k = peerConnection

\* Without a camera and a microphone nothing is ever sent.
Quiet(s) == s.m_queue = <<>> /\ s.m_msgQueue = <<>> /\ s.phase = "none"

NothingSaid ==
    ~devices =>
       /\ posts = <<>>
       /\ iceCandidateMsg = {}
       /\ \A k \in Calls : pc[k].creating = 0 /\ pc[k].gathering = "new"
       /\ \A p \in Peers : Quiet(session[p])
       /\ \A x \in Xhrs :
             xhr[x].kind = "wait" /\ xhr[x].state \in {"replied", "headers", "done"} => ~xhr[x].ok

\* A session that the page does not know of yet.
Blank(s) == s = [Unborn EXCEPT !.life = s.life]

Untouched(p) ==
    /\ p # peerId
    /\ Blank(session[p])
    /\ \A i \in DOMAIN posts : posts[i].to # p
    /\ \A i \in DOMAIN received : received[i].from # p
    /\ \A x \in Xhrs : xhr[x].kind = "wait" => xhr[x].pragma # p

\* The sign-in x has its reply, and will make p the session of the page.
Granted(x, p) ==
    /\ xhr[x].kind = "signIn"
    /\ xhr[x].state \in {"replied", "headers"}
    /\ xhr[x].ok
    /\ xhr[x].reply.from = p

NewSessions ==
    /\ \A x \in Xhrs : ~Granted(x, 0)
    /\ \A p \in Peers :
          /\ p >= nextPeer => Untouched(p) /\ session[p].life = "unborn"
          /\ \A x \in Xhrs : Granted(x, p) => p < nextPeer /\ Untouched(p)

\* A session keeps the wait that asked for it.  If that connection is broken,
\* the page knows, or will know.
WaitsParked ==
    \A p \in Peers :
       LET x == session[p].m_clientSocket IN
       /\ x \in Xhrs =>
             xhr[x].kind = "wait" /\ xhr[x].pragma = p /\ xhr[x].state \in {"held", "gone"}
       /\ x = Broken /\ p = peerId => reqGet # 0 /\ ~xhr[reqGet].ok

\* What a session is told and what it says is about one peer connection of the
\* page: k.
About(s, k) ==
    /\ \A i \in DOMAIN s.m_queue : s.m_queue[i].of \subseteq {k}
    /\ \A i \in DOMAIN s.m_msgQueue : s.m_msgQueue[i].of \subseteq {k}
    /\ s.m_remoteIceCandidateMsg \subseteq {k}
    /\ s.m_iceCandidateMsg \subseteq {k}
    /\ s.offer \in {0, k}
    /\ s.phase \in {"offered", "answered"} => s.offer = k /\ k # 0

OneOffer ==
    \A p \in Peers :
       \E k \in 0..MaxCalls :
          /\ p = peerId => k = peerConnection
          /\ About(session[p], k)
          /\ \A i \in DOMAIN posts : posts[i].to = p => posts[i].body.of \subseteq {k}

\* The messages of p that the page has taken, and those that were sent to it.
Taken(p) == Cardinality({j \in DOMAIN received : received[j].from = p})
Sent(s) == s.queued - Len(s.m_msgQueue)

Numbered(s, p) ==
    /\ Sent(s) \in Nat
    /\ \A i \in DOMAIN s.m_msgQueue :
          s.m_msgQueue[i].number = Sent(s) + i /\ s.m_msgQueue[i].from = p

\* As long as the page may take another message of its session, it has taken
\* all that were sent, but for the one that is on its way.
Delivery ==
    /\ \A p \in Peers : Numbered(session[p], p)
    /\ timers > 0 \/ (reqGet # 0 /\ xhr[reqGet].state \in {"sent", "held"}) =>
          (session[peerId].life = "alive" => Sent(session[peerId]) = Taken(peerId))
    /\ reqGet # 0 /\ xhr[reqGet].state \in {"replied", "headers"} /\ xhr[reqGet].ok =>
          /\ xhr[reqGet].reply.from = peerId
          /\ xhr[reqGet].reply.of \subseteq {peerConnection}
          /\ xhr[reqGet].reply.number = Taken(peerId) + 1
          /\ session[peerId].life = "alive" => Sent(session[peerId]) = Taken(peerId) + 1

\* The page's handlers look at global variables.  They are right to do so
\* because of what a patient user never has: two requests of a kind that are
\* not over, two peer connections that negotiate, two sessions that speak.
ReflectorInv ==
    /\ TypeOK
    /\ OneRequest
    /\ OneCall
    /\ OneNegotiates
    /\ NothingSaid
    /\ NewSessions
    /\ WaitsParked
    /\ OneOffer
    /\ Delivery
    /\ AnswerFitsOffer
    /\ CandidatesFit
    /\ NoGap
=============================================================================
