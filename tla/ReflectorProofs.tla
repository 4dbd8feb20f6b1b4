--------------------------- MODULE ReflectorProofs ---------------------------
(***************************************************************************)
(* The page and the server for any number of clicks, requests, peer        *)
(* connections and sessions, over a network that breaks connections or     *)
(* not, if the user is patient.                                            *)
(***************************************************************************)
EXTENDS Reflector, FiniteSetTheorems, SequenceTheorems, TLAPS

-----------------------------------------------------------------------------
(***************************************************************************)
(* What the model starts from.                                             *)
(***************************************************************************)
LEMMA FreeTyped == NoReply \in Messages /\ Free \in Requests
BY PageAssumption, ReflectorAssumption DEF Free, NoReply, Messages, Requests, XhrStates

LEMMA NewPcTyped == NewPc \in PcStates
BY DEF NewPc, PcStates

LEMMA UnbornTyped == Unborn \in Sessions
BY PageAssumption DEF Unborn, Sessions

LEMMA BrokenNoXhr == Broken \notin Xhrs /\ 0 \notin Xhrs
BY PageAssumption DEF Broken, Xhrs

\* What the page's variables refer to exists.
LEMMA Referred ==
    ASSUME ReflectorInv
    PROVE  /\ req # 0 => req \in Xhrs /\ xhr[req].kind = "signIn"
           /\ reqGet # 0 => reqGet \in Xhrs /\ xhr[reqGet].kind = "wait"
           /\ timers > 0 \/ reqGet # 0 => peerId \in Peers
<1>1. /\ req \in 0..MaxXhrs /\ reqGet \in 0..MaxXhrs /\ peerId \in 0..MaxPeers
      /\ nextPeer \in 1..(MaxPeers + 1)
    BY DEF ReflectorInv, TypeOK
<1>2. (req # 0 => req \in Xhrs) /\ (reqGet # 0 => reqGet \in Xhrs)
    BY <1>1, PageAssumption DEF Xhrs
<1>3. reqGet # 0 => peerId \in 1..(nextPeer - 1)
    BY <1>2 DEF ReflectorInv, OneRequest
<1>4. timers > 0 => peerId # 0
    BY DEF ReflectorInv, OneCall
<1>. QED
    BY <1>1, <1>2, <1>3, <1>4, ReflectorAssumption DEF ReflectorInv, OneRequest, Peers

-----------------------------------------------------------------------------
(***************************************************************************)
(* Steps of the thread of a session.  s is what it leaves: about the same  *)
(* peer connection as before, with its messages numbered and as many sent  *)
(* as before, and nothing new where nothing was said.                      *)
(***************************************************************************)
LEMMA ThreadStep ==
    ASSUME ReflectorInv, NEW p \in Peers, NEW s \in Sessions, Thread(p, s),
           s.m_clientSocket = session[p].m_clientSocket,
           Quiet(session[p]) => Quiet(s),
           Blank(session[p]) => Blank(s),
           \A k \in 0..MaxCalls : About(session[p], k) => About(s, k),
           s.added \subseteq {s.offer},
           Numbered(session[p], p) => Numbered(s, p),
           s.life = "alive" => Sent(s) = Sent(session[p])
    PROVE  ReflectorInv'
<1>1. /\ session' = [session EXCEPT ![p] = s]
      /\ session[p].life = "alive"
      /\ UNCHANGED <<localVars, xhr, posts, nextPeer, closeWait, crashed>>
    BY DEF Thread, Alive
<1>2. session \in [Peers -> Sessions] /\ session' \in [Peers -> Sessions]
    BY <1>1 DEF ReflectorInv, TypeOK
<1>3. TypeOK'
    BY <1>1, <1>2 DEF ReflectorInv, TypeOK, localVars, uiVars, mediaVars, callVars
<1>4. OneRequest'
    BY <1>1, <1>2 DEF ReflectorInv, OneRequest, localVars, uiVars, mediaVars, callVars
<1>5. OneCall'
    BY <1>1, <1>2 DEF ReflectorInv, OneCall, Pending, localVars, uiVars, mediaVars, callVars
<1>6. OneNegotiates'
    BY <1>1, <1>2 DEF ReflectorInv, OneNegotiates, localVars, uiVars, mediaVars, callVars
<1>7. AnswerFitsOffer' /\ NoGap'
    BY <1>1, <1>2 DEF ReflectorInv, AnswerFitsOffer, NoGap, localVars, uiVars, mediaVars, callVars
<1>8. NothingSaid'
    BY <1>1, <1>2 DEF ReflectorInv, NothingSaid, localVars, uiVars, mediaVars, callVars
<1>9. NewSessions'
    <2>1. ASSUME NEW q \in Peers, Untouched(q) PROVE Untouched(q)'
        BY <1>1, <1>2, <2>1 DEF Untouched, localVars
    <2>2. \A q \in Peers : q >= nextPeer => session'[q].life = "unborn"
        BY <1>1, <1>2 DEF ReflectorInv, NewSessions
    <2>. QED
        BY <1>1, <2>1, <2>2 DEF ReflectorInv, NewSessions, Granted, localVars
<1>10. WaitsParked'
    BY <1>1, <1>2 DEF ReflectorInv, WaitsParked, localVars, uiVars, mediaVars, callVars
<1>11. OneOffer'
    BY <1>1, <1>2 DEF ReflectorInv, OneOffer, localVars, uiVars, mediaVars, callVars
<1>12. Delivery'
    BY <1>1, <1>2 DEF ReflectorInv, Delivery, Taken, localVars, uiVars, mediaVars, callVars
<1>13. CandidatesFit'
    BY <1>1, <1>2 DEF ReflectorInv, CandidatesFit, localVars, uiVars, mediaVars, callVars
<1>. QED
    BY <1>3, <1>4, <1>5, <1>6, <1>7, <1>8, <1>9, <1>10, <1>11, <1>12, <1>13 DEF ReflectorInv

\* sendSignalingMessage: the queue has one more message, with the next number.
LEMMA QueueAppends ==
    ASSUME NEW s \in Sessions, NEW kind \in {"SDP", "ICE"}, NEW of \in SUBSET Calls, NEW p \in Peers
    PROVE  LET t == Queue(s, kind, of, p) IN
           /\ t \in Sessions
           /\ t.m_clientSocket = s.m_clientSocket /\ t.life = s.life
           /\ t.added = s.added /\ t.offer = s.offer
           /\ Sent(t) = Sent(s)
           /\ Numbered(s, p) => Numbered(t, p)
           /\ \A k \in 0..MaxCalls : About(s, k) /\ of \subseteq {k} => About(t, k)
<1>. DEFINE m == [kind |-> kind, of |-> of, from |-> p, number |-> s.queued + 1]
            t == Queue(s, kind, of, p)
<1>1. m \in Messages
    BY ReflectorAssumption DEF Messages, Sessions, Peers
<1>2. t = [s EXCEPT !.queued = s.queued + 1, !.m_msgQueue = Append(s.m_msgQueue, m)]
    BY DEF Queue, Sessions
<1>. HIDE DEF m, t
<1>3. s.m_msgQueue \in Seq(Messages) /\ s.queued \in Nat
    BY DEF Sessions
<1>4. /\ t.m_msgQueue = Append(s.m_msgQueue, m) /\ t.queued = s.queued + 1
      /\ t.m_queue = s.m_queue /\ t.m_remoteIceCandidateMsg = s.m_remoteIceCandidateMsg
      /\ t.m_iceCandidateMsg = s.m_iceCandidateMsg /\ t.offer = s.offer /\ t.phase = s.phase
      /\ t.m_clientSocket = s.m_clientSocket /\ t.life = s.life /\ t.added = s.added
    BY <1>2 DEF Sessions
<1>5. t \in Sessions
    <2>1. Append(s.m_msgQueue, m) \in Seq(Messages) /\ s.queued + 1 \in Nat
        BY <1>1, <1>3
    <2>. QED
        BY <1>2, <2>1 DEF Sessions
<1>6. /\ Len(t.m_msgQueue) = Len(s.m_msgQueue) + 1
      /\ DOMAIN t.m_msgQueue = DOMAIN s.m_msgQueue \cup {Len(s.m_msgQueue) + 1}
      /\ \A i \in DOMAIN s.m_msgQueue : t.m_msgQueue[i] = s.m_msgQueue[i]
      /\ t.m_msgQueue[Len(s.m_msgQueue) + 1] = m
    BY <1>1, <1>3, <1>4
<1>7. Len(s.m_msgQueue) \in Nat /\ Sent(t) = Sent(s)
    BY <1>3, <1>4, <1>6 DEF Sent
<1>8. m.number = s.queued + 1 /\ m.from = p /\ m.of = of
    BY DEF m
<1>9. Numbered(s, p) => Numbered(t, p)
    <2>1. s.queued + 1 = Sent(s) + (Len(s.m_msgQueue) + 1)
        BY <1>3, <1>7 DEF Sent
    <2>. QED
        BY <1>6, <1>7, <1>8, <2>1 DEF Numbered
<1>10. \A k \in 0..MaxCalls : About(s, k) /\ of \subseteq {k} => About(t, k)
    BY <1>4, <1>6, <1>8 DEF About
<1>. QED
    BY <1>4, <1>5, <1>7, <1>9, <1>10 DEF t

\* A message is taken from the queue of the session: it is about the session's
\* peer connection, and so is the rest.
LEMMA TailOfQueue ==
    ASSUME NEW q \in Seq(Bodies), q # <<>>
    PROVE  /\ Head(q) \in Bodies
           /\ Tail(q) \in Seq(Bodies)
           /\ \A k : (\A i \in DOMAIN q : q[i].of \subseteq {k}) =>
                 Head(q).of \subseteq {k} /\ \A i \in DOMAIN Tail(q) : Tail(q)[i].of \subseteq {k}
<1>1. 1 \in DOMAIN q /\ Head(q) = q[1] /\ Head(q) \in Bodies
    OBVIOUS
<1>2. /\ Tail(q) \in Seq(Bodies)
      /\ \A i \in DOMAIN Tail(q) : i + 1 \in DOMAIN q /\ Tail(q)[i] = q[i + 1]
    OBVIOUS
<1>. QED
    BY <1>1, <1>2

LEMMA HandleSdpInv ==
    ASSUME ReflectorInv, NEW p \in Peers, HandleSdp(p)
    PROVE  ReflectorInv'
<1>. DEFINE s == session[p]
<1>1. s \in Sessions /\ s.m_queue \in Seq(Bodies) /\ s.m_queue # <<>>
    BY DEF HandleSdp, ReflectorInv, TypeOK, Sessions
<1>2. PICK k \in Head(s.m_queue).of, phase \in {"offered", "refused", "missing"} :
         Thread(p, [s EXCEPT !.m_queue = Tail(@), !.offer = IF phase = "missing" THEN 0 ELSE k,
                             !.phase = phase, !.added = {}])
    BY DEF HandleSdp
<1>. DEFINE t == [s EXCEPT !.m_queue = Tail(s.m_queue), !.phase = phase, !.added = {},
                           !.offer = IF phase = "missing" THEN 0 ELSE k]
<1>3. Thread(p, t)
    BY <1>1, <1>2 DEF Sessions
<1>4. k \in Calls /\ Calls \subseteq 0..MaxCalls
    <2>1. Head(s.m_queue) \in Bodies
        BY <1>1, TailOfQueue
    <2>. QED
        BY <2>1, PageAssumption DEF Bodies, Calls
<1>. HIDE DEF s
<1>5. /\ t.m_queue = Tail(s.m_queue) /\ t.m_msgQueue = s.m_msgQueue /\ t.queued = s.queued
      /\ t.m_remoteIceCandidateMsg = s.m_remoteIceCandidateMsg
      /\ t.m_iceCandidateMsg = s.m_iceCandidateMsg
      /\ t.offer = (IF phase = "missing" THEN 0 ELSE k) /\ t.phase = phase
      /\ t.m_clientSocket = s.m_clientSocket /\ t.life = s.life /\ t.added = {}
    BY <1>1 DEF Sessions
<1>6. t \in Sessions
    <2>1. Tail(s.m_queue) \in Seq(Bodies)
        BY <1>1, TailOfQueue
    <2>2. (IF phase = "missing" THEN 0 ELSE k) \in 0..MaxCalls
        BY <1>4, PageAssumption
    <2>. QED
        BY <1>1, <2>1, <2>2 DEF Sessions
<1>. HIDE DEF t
<1>7. \A j \in 0..MaxCalls : About(s, j) => About(t, j)
    BY <1>1, <1>4, <1>5, TailOfQueue, PageAssumption DEF About, Calls
<1>8. ~Quiet(s) /\ ~Blank(s)
    BY <1>1 DEF Quiet, Blank, Unborn
<1>9. (Numbered(s, p) => Numbered(t, p)) /\ Sent(t) = Sent(s)
    BY <1>5 DEF Numbered, Sent
<1>. QED
    BY <1>3, <1>5, <1>6, <1>7, <1>8, <1>9, ThreadStep DEF s


LEMMA HandleIceInv ==
    ASSUME ReflectorInv, NEW p \in Peers, HandleIce(p)
    PROVE  ReflectorInv'
<1>. DEFINE s == session[p]
            cands == Head(s.m_queue).of
            t == IF s.offer = 0
                 THEN [s EXCEPT !.m_queue = Tail(s.m_queue), !.m_remoteIceCandidateMsg = cands]
                 ELSE [s EXCEPT !.m_queue = Tail(s.m_queue),
                                !.added = IF s.phase = "refused" THEN s.added ELSE s.added \cup cands]
<1>1. s \in Sessions /\ s.m_queue \in Seq(Bodies) /\ s.m_queue # <<>>
    BY DEF HandleIce, ReflectorInv, TypeOK, Sessions
<1>2. Thread(p, t)
    BY <1>1 DEF HandleIce, Sessions
<1>3. cands \in SUBSET Calls /\ Tail(s.m_queue) \in Seq(Bodies)
    BY <1>1, TailOfQueue DEF Bodies
<1>4. PICK k \in 0..MaxCalls : About(s, k)
    BY DEF ReflectorInv, OneOffer
<1>5. s.added \subseteq {s.offer}
    BY DEF ReflectorInv, CandidatesFit
<1>6. cands \subseteq {k}
    BY <1>1, <1>4, TailOfQueue DEF About
<1>. HIDE DEF s, cands
<1>7. /\ t.m_queue = Tail(s.m_queue) /\ t.m_msgQueue = s.m_msgQueue /\ t.queued = s.queued
      /\ t.m_remoteIceCandidateMsg \in {s.m_remoteIceCandidateMsg, cands}
      /\ t.m_iceCandidateMsg = s.m_iceCandidateMsg /\ t.offer = s.offer /\ t.phase = s.phase
      /\ t.m_clientSocket = s.m_clientSocket /\ t.life = s.life
      /\ t.added \subseteq s.added \cup (IF s.offer = 0 THEN {} ELSE cands)
    BY <1>1 DEF Sessions
<1>8. t \in Sessions
    BY <1>1, <1>3 DEF Sessions
<1>. HIDE DEF t
<1>9. t.added \subseteq {t.offer}
    BY <1>4, <1>5, <1>6, <1>7 DEF About
<1>10. \A j \in 0..MaxCalls : About(s, j) => About(t, j)
    <2>1. \A j : About(s, j) => cands \subseteq {j}
        BY <1>1, TailOfQueue DEF About, cands
    <2>2. \A j : About(s, j) => \A i \in DOMAIN Tail(s.m_queue) : Tail(s.m_queue)[i].of \subseteq {j}
        BY <1>1, TailOfQueue DEF About
    <2>. QED
        BY <1>7, <2>1, <2>2 DEF About
<1>11. ~Quiet(s) /\ ~Blank(s)
    BY <1>1 DEF Quiet, Blank, Unborn
<1>12. (Numbered(s, p) => Numbered(t, p)) /\ Sent(t) = Sent(s)
    BY <1>7 DEF Numbered, Sent
<1>. QED
    BY <1>2, <1>7, <1>8, <1>9, <1>10, <1>11, <1>12, ThreadStep DEF s

\* OnFailure, OnSuccess, OnAddIceCandidate and OnIceGatheringChange are called
\* for an offer of the session's peer connection.
LEMMA OfferIsOwn ==
    ASSUME ReflectorInv, NEW p \in Peers, session[p].phase \in {"offered", "answered"}
    PROVE  /\ session[p] \in Sessions
           /\ session[p].offer \in Calls
           /\ session[p].added \subseteq {session[p].offer}
           /\ \A k \in 0..MaxCalls : About(session[p], k) => session[p].offer = k
           /\ ~Quiet(session[p]) /\ ~Blank(session[p])
           /\ \E k \in 0..MaxCalls : About(session[p], k)
<1>1. session[p] \in Sessions
    BY DEF ReflectorInv, TypeOK
<1>2. session[p].offer \in Calls
    BY <1>1, PageAssumption DEF Sessions, Calls, ReflectorInv, OneOffer, About
<1>. QED
    BY <1>1, <1>2 DEF ReflectorInv, OneOffer, CandidatesFit, About, Quiet, Blank, Unborn


LEMMA OnSuccessInv ==
    ASSUME ReflectorInv, NEW p \in Peers, OnSuccess(p)
    PROVE  ReflectorInv'
<1>. DEFINE s == session[p]
            r == [s EXCEPT !.phase = "answered", !.added = s.added \cup s.m_remoteIceCandidateMsg]
            t == Queue(r, "SDP", {s.offer}, p)
<1>1. s \in Sessions /\ s.phase = "offered"
    BY DEF OnSuccess, ReflectorInv, TypeOK
<1>2. Thread(p, t)
    BY <1>1 DEF OnSuccess, Sessions
<1>3. /\ {s.offer} \in SUBSET Calls /\ s.added \subseteq {s.offer} /\ ~Quiet(s) /\ ~Blank(s)
      /\ \A k \in 0..MaxCalls : About(s, k) => s.offer = k
      /\ \E k \in 0..MaxCalls : About(s, k)
    BY <1>1, OfferIsOwn
<1>. HIDE DEF s
<1>4. /\ r.m_queue = s.m_queue /\ r.m_msgQueue = s.m_msgQueue /\ r.queued = s.queued
      /\ r.m_remoteIceCandidateMsg = s.m_remoteIceCandidateMsg
      /\ r.m_iceCandidateMsg = s.m_iceCandidateMsg /\ r.offer = s.offer /\ r.phase = "answered"
      /\ r.m_clientSocket = s.m_clientSocket /\ r.life = s.life
      /\ r.added = s.added \cup s.m_remoteIceCandidateMsg
    BY <1>1 DEF Sessions
<1>5. r \in Sessions
    BY <1>1 DEF Sessions
<1>. HIDE DEF r
<1>6. r.added \subseteq {r.offer}
    BY <1>3, <1>4 DEF About
<1>7. \A k \in 0..MaxCalls : About(s, k) => About(r, k) /\ {s.offer} \subseteq {k}
    BY <1>1, <1>3, <1>4 DEF About
<1>8. (Numbered(s, p) => Numbered(r, p)) /\ Sent(r) = Sent(s)
    BY <1>4 DEF Numbered, Sent
<1>9. /\ t \in Sessions
      /\ t.m_clientSocket = r.m_clientSocket /\ t.life = r.life
      /\ t.added = r.added /\ t.offer = r.offer
      /\ Sent(t) = Sent(r)
      /\ Numbered(r, p) => Numbered(t, p)
      /\ \A k \in 0..MaxCalls : About(r, k) /\ {s.offer} \subseteq {k} => About(t, k)
    BY <1>3, <1>5, QueueAppends
<1>. HIDE DEF t
<1>. QED
    BY <1>2, <1>3, <1>4, <1>6, <1>7, <1>8, <1>9, ThreadStep DEF s

LEMMA OnFailureInv ==
    ASSUME ReflectorInv, NEW p \in Peers, OnFailure(p)
    PROVE  ReflectorInv'
<1>. DEFINE s == session[p]
            t == [s EXCEPT !.phase = "failed"]
<1>1. s \in Sessions /\ s.phase = "offered" /\ Thread(p, t)
    BY DEF OnFailure, ReflectorInv, TypeOK
<1>2. s.added \subseteq {s.offer} /\ ~Quiet(s) /\ ~Blank(s)
    BY <1>1, OfferIsOwn
<1>. HIDE DEF s
<1>3. /\ t.m_queue = s.m_queue /\ t.m_msgQueue = s.m_msgQueue /\ t.queued = s.queued
      /\ t.m_remoteIceCandidateMsg = s.m_remoteIceCandidateMsg
      /\ t.m_iceCandidateMsg = s.m_iceCandidateMsg /\ t.offer = s.offer /\ t.phase = "failed"
      /\ t.m_clientSocket = s.m_clientSocket /\ t.life = s.life /\ t.added = s.added
    BY <1>1 DEF Sessions
<1>4. t \in Sessions
    BY <1>1 DEF Sessions
<1>. HIDE DEF t
<1>5. \A k \in 0..MaxCalls : About(s, k) => About(t, k)
    BY <1>3 DEF About
<1>6. (Numbered(s, p) => Numbered(t, p)) /\ Sent(t) = Sent(s)
    BY <1>3 DEF Numbered, Sent
<1>. QED
    BY <1>1, <1>2, <1>3, <1>4, <1>5, <1>6, ThreadStep DEF s

LEMMA ServerCandidateInv ==
    ASSUME ReflectorInv, NEW p \in Peers, ServerCandidate(p)
    PROVE  ReflectorInv'
<1>. DEFINE s == session[p]
            t == [s EXCEPT !.m_iceCandidateMsg = s.m_iceCandidateMsg \cup {s.offer}]
<1>1. s \in Sessions /\ s.phase = "answered" /\ Thread(p, t)
    BY DEF ServerCandidate, ReflectorInv, TypeOK, Sessions
<1>2. /\ s.offer \in Calls /\ s.added \subseteq {s.offer} /\ ~Quiet(s) /\ ~Blank(s)
      /\ \A k \in 0..MaxCalls : About(s, k) => s.offer = k
    BY <1>1, OfferIsOwn
<1>. HIDE DEF s
<1>3. /\ t.m_queue = s.m_queue /\ t.m_msgQueue = s.m_msgQueue /\ t.queued = s.queued
      /\ t.m_remoteIceCandidateMsg = s.m_remoteIceCandidateMsg
      /\ t.m_iceCandidateMsg = s.m_iceCandidateMsg \cup {s.offer}
      /\ t.offer = s.offer /\ t.phase = s.phase
      /\ t.m_clientSocket = s.m_clientSocket /\ t.life = s.life /\ t.added = s.added
    BY <1>1 DEF Sessions
<1>4. t \in Sessions
    BY <1>1, <1>2 DEF Sessions
<1>. HIDE DEF t
<1>5. \A k \in 0..MaxCalls : About(s, k) => About(t, k)
    BY <1>2, <1>3 DEF About
<1>6. (Numbered(s, p) => Numbered(t, p)) /\ Sent(t) = Sent(s)
    BY <1>3 DEF Numbered, Sent
<1>. QED
    BY <1>1, <1>2, <1>3, <1>4, <1>5, <1>6, ThreadStep DEF s

LEMMA ServerGatheredInv ==
    ASSUME ReflectorInv, NEW p \in Peers, ServerGathered(p)
    PROVE  ReflectorInv'
<1>. DEFINE s == session[p]
            r == [s EXCEPT !.phase = "complete"]
            t == Queue(r, "ICE", s.m_iceCandidateMsg, p)
<1>1. s \in Sessions /\ s.phase = "answered" /\ Thread(p, t)
    BY DEF ServerGathered, ReflectorInv, TypeOK
<1>2. s.added \subseteq {s.offer} /\ ~Quiet(s) /\ ~Blank(s)
    BY <1>1, OfferIsOwn
<1>. HIDE DEF s
<1>3. /\ r.m_queue = s.m_queue /\ r.m_msgQueue = s.m_msgQueue /\ r.queued = s.queued
      /\ r.m_remoteIceCandidateMsg = s.m_remoteIceCandidateMsg
      /\ r.m_iceCandidateMsg = s.m_iceCandidateMsg /\ r.offer = s.offer /\ r.phase = "complete"
      /\ r.m_clientSocket = s.m_clientSocket /\ r.life = s.life /\ r.added = s.added
    BY <1>1 DEF Sessions
<1>4. r \in Sessions /\ s.m_iceCandidateMsg \in SUBSET Calls
    BY <1>1 DEF Sessions
<1>. HIDE DEF r
<1>5. \A k \in 0..MaxCalls : About(s, k) => About(r, k) /\ s.m_iceCandidateMsg \subseteq {k}
    BY <1>3 DEF About
<1>6. (Numbered(s, p) => Numbered(r, p)) /\ Sent(r) = Sent(s)
    BY <1>3 DEF Numbered, Sent
<1>7. /\ t \in Sessions
      /\ t.m_clientSocket = r.m_clientSocket /\ t.life = r.life
      /\ t.added = r.added /\ t.offer = r.offer
      /\ Sent(t) = Sent(r)
      /\ Numbered(r, p) => Numbered(t, p)
      /\ \A k \in 0..MaxCalls : About(r, k) /\ s.m_iceCandidateMsg \subseteq {k} => About(t, k)
    BY <1>4, QueueAppends
<1>. HIDE DEF t
<1>. QED
    BY <1>1, <1>2, <1>3, <1>5, <1>6, <1>7, ThreadStep DEF s

LEMMA EndInv ==
    ASSUME ReflectorInv, NEW p \in Peers, End(p)
    PROVE  ReflectorInv'
<1>. DEFINE s == session[p]
            t == [Unborn EXCEPT !.life = "ended", !.m_queue = s.m_queue,
                                !.m_clientSocket = s.m_clientSocket]
<1>1. s \in Sessions /\ Thread(p, t)
    BY DEF End, ReflectorInv, TypeOK
<1>. HIDE DEF s
<1>2. /\ t.m_queue = s.m_queue /\ t.m_msgQueue = <<>> /\ t.queued = 0
      /\ t.m_remoteIceCandidateMsg = {} /\ t.m_iceCandidateMsg = {}
      /\ t.offer = 0 /\ t.phase = "none"
      /\ t.m_clientSocket = s.m_clientSocket /\ t.life = "ended" /\ t.added = {}
    BY DEF Unborn
<1>3. t \in Sessions
    BY <1>1, UnbornTyped DEF Sessions
<1>4. Blank(s) => Blank(t)
    BY DEF Blank, Unborn
<1>. HIDE DEF t
<1>5. \A k \in 0..MaxCalls : About(s, k) => About(t, k)
    BY <1>2 DEF About
<1>6. Numbered(t, p) /\ (Quiet(s) => Quiet(t))
    BY <1>2 DEF Numbered, Sent, Quiet
<1>. QED
    BY <1>1, <1>2, <1>3, <1>4, <1>5, <1>6, ThreadStep DEF s


-----------------------------------------------------------------------------
(***************************************************************************)
(* Steps of the page between its requests: what it posts goes to its       *)
(* session and is about its peer connection, the only one that negotiates. *)
(***************************************************************************)
Post(body) == [to |-> peerId, body |-> body]

LEMMA PageStep ==
    ASSUME ReflectorInv,
           UNCHANGED <<connected, devices, peerId, peerConnection, calls, req, reqGet, timers, xhr,
                       received, serverVars>>,
           mediaCalls' \in Nat, mediaCalls' > 0 => mediaCalls > 0,
           pc' \in [Calls -> PcStates],
           \A k \in Calls : pc'[k].remote = pc[k].remote /\ pc'[k].given = pc[k].given,
           iceCandidateMsg' \in SUBSET Calls,
           OneNegotiates',
           \/ posts' = posts
           \/ \E body \in Bodies : body.of \subseteq {peerConnection} /\ posts' = Append(posts, Post(body)),
           devices \/ UNCHANGED <<pc, iceCandidateMsg, posts>>
    PROVE  ReflectorInv'
<1>1. /\ posts' \in Seq([to : 0..MaxPeers, body : Bodies])
      /\ \A i \in DOMAIN posts' :
            \/ i \in DOMAIN posts /\ posts'[i] = posts[i]
            \/ posts'[i].to = peerId /\ posts'[i].body.of \subseteq {peerConnection}
    <2>1. posts \in Seq([to : 0..MaxPeers, body : Bodies]) /\ peerId \in 0..MaxPeers
        BY DEF ReflectorInv, TypeOK
    <2>2. ASSUME NEW body \in Bodies, body.of \subseteq {peerConnection},
                 posts' = Append(posts, Post(body))
          PROVE  <1>1!2 /\ posts' \in Seq([to : 0..MaxPeers, body : Bodies])
        <3>1. Post(body) \in [to : 0..MaxPeers, body : Bodies]
            BY <2>1 DEF Post
        <3>2. Post(body).to = peerId /\ Post(body).body = body
            BY DEF Post
        <3>. QED
            BY <2>1, <2>2, <3>1, <3>2
    <2>. QED
        BY <2>1, <2>2
<1>2. TypeOK'
    BY <1>1 DEF ReflectorInv, TypeOK, serverVars
<1>3. OneRequest' /\ OneCall'
    BY DEF ReflectorInv, OneRequest, OneCall, Pending, serverVars, TypeOK
<1>4. NothingSaid'
    BY DEF ReflectorInv, NothingSaid, serverVars
<1>5. NewSessions'
    BY <1>1 DEF ReflectorInv, NewSessions, Granted, Untouched, serverVars
<1>6. WaitsParked' /\ Delivery' /\ NoGap'
    BY DEF ReflectorInv, WaitsParked, Delivery, Taken, NoGap, serverVars
<1>7. OneOffer'
    BY <1>1 DEF ReflectorInv, OneOffer, serverVars
<1>8. AnswerFitsOffer' /\ CandidatesFit'
    BY DEF ReflectorInv, AnswerFitsOffer, CandidatesFit, serverVars
<1>. QED
    BY <1>2, <1>3, <1>4, <1>5, <1>6, <1>7, <1>8 DEF ReflectorInv

LEMMA StopThrowsInv ==
    ASSUME ReflectorInv, StopThrows, UNCHANGED serverVars
    PROVE  ReflectorInv'
<1>1. /\ UNCHANGED <<connected, devices, peerId, peerConnection, calls, req, reqGet, timers, xhr,
                     received, serverVars>>
      /\ UNCHANGED <<mediaCalls, pc, iceCandidateMsg, posts>>
    BY DEF StopThrows, Click, mediaVars, callVars
<1>2. mediaCalls \in Nat /\ pc \in [Calls -> PcStates] /\ iceCandidateMsg \in SUBSET Calls
    BY DEF ReflectorInv, TypeOK
<1>3. OneNegotiates'
    BY <1>1 DEF ReflectorInv, OneNegotiates
<1>. QED
    BY <1>1, <1>2, <1>3, PageStep

LEMMA MediaInv ==
    ASSUME ReflectorInv, GotMedia \/ MediaFails, UNCHANGED serverVars
    PROVE  ReflectorInv'
<1>1. /\ UNCHANGED <<connected, devices, peerId, peerConnection, calls, req, reqGet, timers, xhr,
                     received, serverVars>>
      /\ mediaCalls > 0 /\ mediaCalls' = mediaCalls - 1
      /\ UNCHANGED <<iceCandidateMsg, posts>>
    BY DEF GotMedia, MediaFails, uiVars, callVars
<1>2. /\ mediaCalls \in Nat /\ pc \in [Calls -> PcStates] /\ iceCandidateMsg \in SUBSET Calls
      /\ peerConnection \in 0..MaxCalls
    BY DEF ReflectorInv, TypeOK
<1>3. devices
    BY <1>1 DEF ReflectorInv, OneCall
<1>4. \/ pc' = pc
      \/ peerConnection \in Calls /\ pc' = [pc EXCEPT ![peerConnection].creating = @ + 1]
    BY <1>2, PageAssumption DEF GotMedia, MediaFails, callVars, Calls
<1>5. /\ pc' \in [Calls -> PcStates]
      /\ \A k \in Calls :
            /\ pc'[k].remote = pc[k].remote /\ pc'[k].given = pc[k].given
            /\ pc'[k].gathering = pc[k].gathering /\ pc'[k].closed = pc[k].closed
            /\ pc'[k].creating = pc[k].creating \/ k = peerConnection
    BY <1>2, <1>4 DEF PcStates
<1>6. OneNegotiates'
    BY <1>1, <1>5 DEF ReflectorInv, OneNegotiates
<1>. QED
    BY <1>1, <1>2, <1>3, <1>5, <1>6, PageStep

LEMMA OfferCreatedInv ==
    ASSUME ReflectorInv, NEW k \in Calls, OfferCreated(k), UNCHANGED serverVars
    PROVE  ReflectorInv'
<1>1. /\ UNCHANGED <<connected, devices, peerId, peerConnection, calls, req, reqGet, timers, xhr,
                     received, serverVars>>
      /\ UNCHANGED <<iceCandidateMsg, mediaCalls>>
    BY DEF OfferCreated, uiVars, mediaVars
<1>2. mediaCalls \in Nat /\ pc \in [Calls -> PcStates] /\ iceCandidateMsg \in SUBSET Calls
    BY DEF ReflectorInv, TypeOK
<1>3. k = peerConnection /\ k # 0 /\ devices
    BY <1>2, PageAssumption DEF OfferCreated, ReflectorInv, OneNegotiates, NothingSaid, Calls, PcStates
<1>4. pc' = [pc EXCEPT ![k] = [pc[k] EXCEPT !.creating = @ - 1, !.local = TRUE,
                                            !.gathering = "gathering"]]
    BY <1>2, <1>3 DEF OfferCreated, PcStates
<1>5. /\ pc' \in [Calls -> PcStates]
      /\ \A j \in Calls :
            /\ pc'[j].remote = pc[j].remote /\ pc'[j].given = pc[j].given
            /\ pc'[j] = pc[j] \/ j = peerConnection
    <2>1. pc[k] \in PcStates /\ pc[k].creating - 1 \in Nat
        BY <1>2 DEF PcStates, OfferCreated
    <2>. QED
        BY <1>2, <1>3, <1>4, <2>1 DEF PcStates
<1>6. OneNegotiates'
    BY <1>1, <1>5 DEF ReflectorInv, OneNegotiates
<1>7. \E body \in Bodies : body.of \subseteq {peerConnection} /\ posts' = Append(posts, Post(body))
    <2>. DEFINE body == [kind |-> "SDP", of |-> {k}]
    <2>1. body \in Bodies /\ body.of \subseteq {peerConnection} /\ posts' = Append(posts, Post(body))
        BY <1>3 DEF OfferCreated, sendMessage, Post, Bodies
    <2>. QED
        BY <2>1
<1>. QED
    BY <1>1, <1>2, <1>3, <1>5, <1>6, <1>7, PageStep

LEMMA OnIceCandidateInv ==
    ASSUME ReflectorInv, NEW k \in Calls, OnIceCandidate(k), UNCHANGED serverVars
    PROVE  ReflectorInv'
<1>1. /\ UNCHANGED <<connected, devices, peerId, peerConnection, calls, req, reqGet, timers, xhr,
                     received, serverVars>>
      /\ UNCHANGED <<pc, mediaCalls, posts>> /\ iceCandidateMsg' = iceCandidateMsg \cup {k}
    BY DEF OnIceCandidate, uiVars, mediaVars
<1>2. mediaCalls \in Nat /\ pc \in [Calls -> PcStates] /\ iceCandidateMsg \in SUBSET Calls
    BY DEF ReflectorInv, TypeOK
<1>3. k = peerConnection /\ devices
    BY DEF OnIceCandidate, ReflectorInv, OneNegotiates, NothingSaid
<1>4. OneNegotiates'
    BY <1>1, <1>3 DEF ReflectorInv, OneNegotiates
<1>. QED
    BY <1>1, <1>2, <1>3, <1>4, PageStep

LEMMA OnIceGatheringStateChangeInv ==
    ASSUME ReflectorInv, NEW k \in Calls, OnIceGatheringStateChange(k), UNCHANGED serverVars
    PROVE  ReflectorInv'
<1>1. /\ UNCHANGED <<connected, devices, peerId, peerConnection, calls, req, reqGet, timers, xhr,
                     received, serverVars>>
      /\ UNCHANGED <<mediaCalls, iceCandidateMsg>>
    BY DEF OnIceGatheringStateChange, uiVars, mediaVars
<1>2. mediaCalls \in Nat /\ pc \in [Calls -> PcStates] /\ iceCandidateMsg \in SUBSET Calls
    BY DEF ReflectorInv, TypeOK
<1>3. k = peerConnection /\ devices /\ iceCandidateMsg \subseteq {peerConnection}
    BY DEF OnIceGatheringStateChange, ReflectorInv, OneNegotiates, NothingSaid
<1>4. pc' = [pc EXCEPT ![k].gathering = "complete"]
    BY DEF OnIceGatheringStateChange
<1>5. /\ pc' \in [Calls -> PcStates]
      /\ \A j \in Calls :
            /\ pc'[j].remote = pc[j].remote /\ pc'[j].given = pc[j].given
            /\ pc'[j].creating = pc[j].creating /\ pc'[j].closed = pc[j].closed
            /\ pc'[j].gathering = pc[j].gathering \/ j = peerConnection
    BY <1>2, <1>3, <1>4 DEF PcStates
<1>6. OneNegotiates'
    BY <1>1, <1>5 DEF ReflectorInv, OneNegotiates
<1>7. \/ posts' = posts
      \/ \E body \in Bodies : body.of \subseteq {peerConnection} /\ posts' = Append(posts, Post(body))
    <2>. DEFINE body == [kind |-> "ICE", of |-> iceCandidateMsg]
    <2>1. posts' = posts \/ posts' = Append(posts, Post(body))
        BY DEF OnIceGatheringStateChange, sendMessage, Post
    <2>2. body \in Bodies /\ body.of \subseteq {peerConnection}
        BY <1>2, <1>3 DEF Bodies
    <2>. QED
        BY <2>1, <2>2
<1>. QED
    BY <1>1, <1>2, <1>3, <1>5, <1>6, <1>7, PageStep


-----------------------------------------------------------------------------
(***************************************************************************)
(* Posts arrive in any order, or not at all.                               *)
(***************************************************************************)
LEMMA RemoveAtKeeps ==
    ASSUME NEW T, NEW s \in Seq(T), NEW i \in 1..Len(s)
    PROVE  /\ RemoveAt(s, i) \in Seq(T)
           /\ \A j \in DOMAIN RemoveAt(s, i) : \E n \in DOMAIN s : RemoveAt(s, i)[j] = s[n]
<1>. DEFINE a == SubSeq(s, 1, i - 1)
            b == SubSeq(s, i + 1, Len(s))
<1>1. a \in Seq(T) /\ Len(a) = i - 1 /\ \A j \in 1..(i - 1) : a[j] = s[j]
    OBVIOUS
<1>2. b \in Seq(T) /\ Len(b) = Len(s) - i /\ \A j \in 1..(Len(s) - i) : b[j] = s[i + j]
    OBVIOUS
<1>. HIDE DEF a, b
<1>3. RemoveAt(s, i) = a \o b
    BY DEF RemoveAt, a, b
<1>4. a \o b \in Seq(T)
    BY <1>1, <1>2
<1>5. ASSUME NEW j \in DOMAIN (a \o b) PROVE \E n \in DOMAIN s : (a \o b)[j] = s[n]
    <2>1. j \in 1..(Len(s) - 1) /\ Len(s) \in Nat
        BY <1>1, <1>2, <1>5
    <2>2. CASE j <= i - 1
        BY <1>1, <1>2, <2>1, <2>2
    <2>3. CASE j > i - 1
        <3>1. (a \o b)[j] = b[j - (i - 1)] /\ j - (i - 1) \in 1..(Len(s) - i)
            BY <1>1, <1>2, <2>1, <2>3
        <3>2. i + (j - (i - 1)) = j + 1 /\ j + 1 \in 1..Len(s)
            BY <2>1, <2>3
        <3>3. b[j - (i - 1)] = s[j + 1]
            BY <1>2, <3>1, <3>2
        <3>. QED
            BY <3>1, <3>2, <3>3
    <2>. QED
        BY <2>1, <2>2, <2>3
<1>. QED
    BY <1>3, <1>4, <1>5

LEMMA LoseInv ==
    ASSUME ReflectorInv, NEW i \in 1..Len(posts), Lose(i)
    PROVE  ReflectorInv'
<1>1. posts' = RemoveAt(posts, i) /\ UNCHANGED <<localVars, xhr, serverVars>>
    BY DEF Lose
<1>2. /\ posts' \in Seq([to : 0..MaxPeers, body : Bodies])
      /\ \A j \in DOMAIN posts' : \E n \in DOMAIN posts : posts'[j] = posts[n]
    BY <1>1, RemoveAtKeeps DEF ReflectorInv, TypeOK
<1>3. devices
    BY DEF ReflectorInv, NothingSaid
<1>4. TypeOK'
    BY <1>1, <1>2 DEF ReflectorInv, TypeOK, localVars, uiVars, mediaVars, callVars, serverVars
<1>5. OneRequest' /\ OneCall' /\ OneNegotiates' /\ NothingSaid'
    BY <1>1, <1>3 DEF ReflectorInv, OneRequest, OneCall, Pending, OneNegotiates, NothingSaid,
          localVars, uiVars, mediaVars, callVars, serverVars
<1>6. NewSessions' /\ WaitsParked'
    BY <1>1, <1>2 DEF ReflectorInv, NewSessions, Granted, Untouched, WaitsParked,
          localVars, uiVars, mediaVars, callVars, serverVars
<1>7. OneOffer'
    BY <1>1, <1>2 DEF ReflectorInv, OneOffer, localVars, uiVars, mediaVars, callVars, serverVars
<1>8. Delivery' /\ AnswerFitsOffer' /\ CandidatesFit' /\ NoGap'
    BY <1>1 DEF ReflectorInv, Delivery, Taken, AnswerFitsOffer, CandidatesFit, NoGap,
          localVars, uiVars, mediaVars, callVars, serverVars
<1>. QED
    BY <1>4, <1>5, <1>6, <1>7, <1>8 DEF ReflectorInv

LEMMA MessageInv ==
    ASSUME ReflectorInv, NEW i \in 1..Len(posts), Message(i)
    PROVE  ReflectorInv'
<1>. DEFINE to == posts[i].to
            body == posts[i].body
<1>1. /\ posts' = RemoveAt(posts, i) /\ UNCHANGED <<localVars, xhr, nextPeer, closeWait>>
      /\ crashed' \in BOOLEAN
    BY DEF Message
<1>2. posts \in Seq([to : 0..MaxPeers, body : Bodies]) /\ session \in [Peers -> Sessions]
    BY DEF ReflectorInv, TypeOK
<1>3. /\ posts' \in Seq([to : 0..MaxPeers, body : Bodies])
      /\ \A j \in DOMAIN posts' : \E n \in DOMAIN posts : posts'[j] = posts[n]
    BY <1>1, <1>2, RemoveAtKeeps
<1>4. i \in DOMAIN posts /\ body \in Bodies
    <2>1. posts[i] \in [to : 0..MaxPeers, body : Bodies]
        BY <1>2, ElementOfSeq
    <2>. QED
        BY <1>2, <2>1
<1>5. \/ session' = session
      \/ to \in Peers /\ session' = [session EXCEPT ![to].m_queue = Append(@, body)]
    BY DEF Message, Listed
<1>6. devices
    BY DEF ReflectorInv, NothingSaid
<1>7. /\ session' \in [Peers -> Sessions]
      /\ \A p \in Peers :
            /\ session'[p] = [session[p] EXCEPT !.m_queue = session'[p].m_queue]
            /\ \/ session'[p] = session[p]
               \/ p = to /\ session'[p].m_queue = Append(session[p].m_queue, body)
    <2>1. \A p \in Peers : session[p] \in Sessions /\ session[p].m_queue \in Seq(Bodies)
        BY <1>2 DEF Sessions
    <2>2. \A p \in Peers : Append(session[p].m_queue, body) \in Seq(Bodies)
        BY <1>4, <2>1
    <2>3. CASE session' = session
        BY <1>2, <2>1, <2>3 DEF Sessions
    <2>4. CASE to \in Peers /\ session' = [session EXCEPT ![to].m_queue = Append(@, body)]
        <3>1. session' = [session EXCEPT ![to] =
                             [session[to] EXCEPT !.m_queue = Append(session[to].m_queue, body)]]
            BY <1>2, <2>4
        <3>2. [session[to] EXCEPT !.m_queue = Append(session[to].m_queue, body)] \in Sessions
            BY <2>1, <2>2, <2>4 DEF Sessions
        <3>3. \A p \in Peers :
                 session'[p] = IF p = to
                               THEN [session[to] EXCEPT !.m_queue = Append(session[to].m_queue, body)]
                               ELSE session[p]
            BY <1>2, <2>4, <3>1
        <3>4. session' \in [Peers -> Sessions]
            BY <1>2, <2>4, <3>1, <3>2
        <3>5. \A p \in Peers : session[p] = [session[p] EXCEPT !.m_queue = session[p].m_queue]
            BY <2>1 DEF Sessions
        <3>6. [session[to] EXCEPT !.m_queue = Append(session[to].m_queue, body)].m_queue
                = Append(session[to].m_queue, body)
            BY <2>1, <2>4 DEF Sessions
        <3>. QED
            BY <3>3, <3>4, <3>5, <3>6
    <2>. QED
        BY <1>5, <2>3, <2>4
<1>8. \A p \in Peers :
         /\ session'[p].m_msgQueue = session[p].m_msgQueue /\ session'[p].queued = session[p].queued
         /\ session'[p].m_remoteIceCandidateMsg = session[p].m_remoteIceCandidateMsg
         /\ session'[p].m_iceCandidateMsg = session[p].m_iceCandidateMsg
         /\ session'[p].offer = session[p].offer /\ session'[p].phase = session[p].phase
         /\ session'[p].m_clientSocket = session[p].m_clientSocket
         /\ session'[p].life = session[p].life /\ session'[p].added = session[p].added
    BY <1>2, <1>7 DEF Sessions
<1>9. TypeOK'
    BY <1>1, <1>3, <1>7 DEF ReflectorInv, TypeOK, localVars, uiVars, mediaVars, callVars
<1>10. OneRequest' /\ OneCall' /\ OneNegotiates' /\ NothingSaid'
    BY <1>1, <1>6 DEF ReflectorInv, OneRequest, OneCall, Pending, OneNegotiates, NothingSaid,
          localVars, uiVars, mediaVars, callVars
<1>11. NewSessions'
    <2>1. \A p \in Peers : Untouched(p) => session'[p] = session[p]
        BY <1>4, <1>7 DEF Untouched
    <2>2. ASSUME NEW p \in Peers, Untouched(p) PROVE Untouched(p)'
        BY <1>1, <1>3, <2>1, <2>2 DEF Untouched, localVars, uiVars, mediaVars, callVars
    <2>. QED
        BY <1>1, <1>8, <2>2 DEF ReflectorInv, NewSessions, Granted, localVars
<1>12. WaitsParked'
    BY <1>1, <1>8 DEF ReflectorInv, WaitsParked, localVars
<1>13. OneOffer'
    <2>1. SUFFICES ASSUME NEW p \in Peers
                   PROVE  \E k \in 0..MaxCalls :
                             /\ p = peerId => k = peerConnection
                             /\ About(session'[p], k)
                             /\ \A j \in DOMAIN posts' : posts'[j].to = p => posts'[j].body.of \subseteq {k}
        BY <1>1 DEF OneOffer, localVars, callVars
    <2>2. PICK k \in 0..MaxCalls :
             /\ p = peerId => k = peerConnection
             /\ About(session[p], k)
             /\ \A j \in DOMAIN posts : posts[j].to = p => posts[j].body.of \subseteq {k}
        BY DEF ReflectorInv, OneOffer
    <2>3. About(session'[p], k)
        <3>1. CASE session'[p] = session[p]
            BY <2>2, <3>1
        <3>2. CASE p = to /\ session'[p].m_queue = Append(session[p].m_queue, body)
            <4>1. body.of \subseteq {k}
                BY <1>4, <2>2, <3>2
            <4>2. session[p].m_queue \in Seq(Bodies)
                BY <1>2 DEF Sessions
            <4>3. \A j \in DOMAIN session'[p].m_queue :
                     \/ session'[p].m_queue[j] = body
                     \/ j \in DOMAIN session[p].m_queue /\ session'[p].m_queue[j] = session[p].m_queue[j]
                BY <1>4, <3>2, <4>2
            <4>. QED
                BY <1>8, <2>2, <4>1, <4>3 DEF About
        <3>. QED
            BY <1>7, <3>1, <3>2
    <2>. QED
        BY <1>3, <2>2, <2>3
<1>14. Delivery'
    <2>1. \A p \in Peers : Sent(session'[p]) = Sent(session[p])
        BY <1>8 DEF Sent
    <2>2. \A p \in Peers : Numbered(session[p], p) => Numbered(session'[p], p)
        BY <1>8, <2>1 DEF Numbered
    <2>3. timers > 0 \/ reqGet # 0 => peerId \in Peers
        BY Referred
    <2>. QED
        BY <1>1, <1>8, <2>1, <2>2, <2>3 DEF ReflectorInv, Delivery, Taken, localVars, callVars
<1>15. AnswerFitsOffer' /\ CandidatesFit' /\ NoGap'
    BY <1>1, <1>8 DEF ReflectorInv, AnswerFitsOffer, CandidatesFit, NoGap, localVars, callVars
<1>. QED
    BY <1>9, <1>10, <1>11, <1>12, <1>13, <1>14, <1>15 DEF ReflectorInv


-----------------------------------------------------------------------------
(***************************************************************************)
(* Steps that leave the page's variables alone and change requests.  A     *)
(* request goes on as the one it was, or is forgotten if no variable       *)
(* refers to it.                                                           *)
(***************************************************************************)
GoesOn(y) ==
    /\ xhr'[y].kind = xhr[y].kind /\ xhr'[y].pragma = xhr[y].pragma
    /\ xhr[y].state # "free" /\ xhr'[y].state # "free"
    /\ xhr'[y].state \in {"cut", "gone"} <=> xhr[y].state \in {"cut", "gone"}
    /\ xhr'[y].state \in {"sent", "held"} => xhr'[y].ok
    /\ xhr[y].kind = "signIn" =>
          /\ xhr'[y].state \in {"sent", "replied", "headers", "done"}
          /\ xhr[y].state = "done" => xhr'[y].state = "done"

Forgotten(y) == xhr'[y] = Free /\ y \notin {req, reqGet}

LEMMA RequestsGoOn ==
    ASSUME ReflectorInv, UNCHANGED localVars, nextPeer' \in {nextPeer, nextPeer + 1},
           \A y \in Xhrs : xhr'[y] = xhr[y] \/ Forgotten(y) \/ GoesOn(y)
    PROVE  OneRequest' /\ OneCall' /\ OneNegotiates' /\ AnswerFitsOffer' /\ NoGap'
<1>1. UNCHANGED <<connected, devices, peerId, peerConnection, calls, req, reqGet, timers,
                  mediaCalls, received, iceCandidateMsg, pc>>
    BY DEF localVars, uiVars, mediaVars, callVars
<1>2. nextPeer \in Nat /\ peerId \in Nat
    BY ReflectorAssumption DEF ReflectorInv, TypeOK
<1>3. ASSUME NEW y \in Xhrs, xhr'[y] = Free
      PROVE  xhr'[y].kind = "none" /\ xhr'[y].state = "free"
    BY <1>3 DEF Free
<1>4. \A y \in Xhrs : xhr'[y].kind # "none" =>
         xhr'[y].kind = xhr[y].kind /\ xhr'[y].pragma = xhr[y].pragma
    BY <1>3 DEF Forgotten, GoesOn
<1>5. OneRequest'
    <2>1. \A y \in Xhrs :
             /\ xhr'[y].kind = "none" <=> xhr'[y].state = "free"
             /\ xhr'[y].kind = "signIn" =>
                   y = req /\ xhr'[y].state \in {"sent", "replied", "headers", "done"}
             /\ xhr'[y].state \in {"sent", "held"} => xhr'[y].ok
        BY <1>3 DEF ReflectorInv, OneRequest, Forgotten, GoesOn
    <2>2. \A y \in Xhrs : xhr'[y].kind = "wait" =>
                /\ xhr'[y].pragma \in 1..(nextPeer' - 1)
                /\ xhr'[y].pragma = peerId => y = reqGet
                /\ devices /\ xhr'[y].state \notin {"cut", "gone"} => y = reqGet
        BY <1>2, <1>3 DEF ReflectorInv, OneRequest, Forgotten, GoesOn
    <2>3. /\ req # 0 => xhr'[req].kind = "signIn"
          /\ reqGet # 0 => /\ xhr'[reqGet].kind = "wait"
                           /\ xhr'[reqGet].pragma = peerId
                           /\ xhr'[reqGet].state \notin {"cut", "gone"}
                           /\ timers = 0
        BY Referred DEF ReflectorInv, OneRequest, Forgotten, GoesOn
    <2>4. \A x, y \in Xhrs :
             xhr'[x].kind = "wait" /\ xhr'[y].kind = "wait" /\ xhr'[x].pragma = xhr'[y].pragma => x = y
        BY <1>4 DEF ReflectorInv, OneRequest
    <2>. QED
        BY <1>1, <2>1, <2>2, <2>3, <2>4 DEF OneRequest
<1>6. OneCall'
    <2>1. Pending("signIn") = {} => Pending("signIn")' = {}
        BY <1>3 DEF ReflectorInv, OneRequest, Pending, Forgotten, GoesOn
    <2>. QED
        BY <1>1, <1>2, <2>1 DEF ReflectorInv, OneCall
<1>7. OneNegotiates' /\ AnswerFitsOffer' /\ NoGap'
    BY <1>1 DEF ReflectorInv, OneNegotiates, AnswerFitsOffer, NoGap
<1>. QED
    BY <1>5, <1>6, <1>7


\* What becomes of y without the server: it gets no other reply, and does not
\* change while it is parked.
PageSees(y) ==
    \/ xhr'[y] = xhr[y]
    \/ /\ xhr[y].state \notin {"held", "gone"}
       /\ \/ Forgotten(y)
          \/ /\ GoesOn(y)
             /\ xhr'[y].reply = xhr[y].reply /\ (xhr'[y].ok => xhr[y].ok)
             /\ xhr'[y].state \notin {"sent", "cut", "gone"}
             /\ xhr'[y].state = "held" => xhr[y].state = "sent"
             /\ xhr'[y].ok /\ xhr'[y].state # "held" => xhr[y].state \in {"replied", "headers"}

LEMMA RequestStep ==
    ASSUME ReflectorInv, UNCHANGED <<localVars, posts, serverVars>>, xhr' \in [Xhrs -> Requests],
           \A y \in Xhrs : PageSees(y)
    PROVE  ReflectorInv'
<1>1. UNCHANGED <<connected, devices, peerId, peerConnection, calls, req, reqGet, timers,
                  mediaCalls, received, iceCandidateMsg, pc, posts, session, nextPeer, closeWait, crashed>>
    BY DEF localVars, uiVars, mediaVars, callVars, serverVars
<1>2. OneRequest' /\ OneCall' /\ OneNegotiates' /\ AnswerFitsOffer' /\ NoGap'
    BY <1>1, RequestsGoOn DEF PageSees
<1>3. TypeOK'
    BY <1>1 DEF ReflectorInv, TypeOK
<1>4. \A y \in Xhrs : xhr'[y] = Free => xhr'[y].kind = "none" /\ xhr'[y].state = "free"
    BY DEF Free
<1>5. NothingSaid'
    <2>1. ASSUME ~devices, NEW y \in Xhrs, xhr'[y].kind = "wait",
                 xhr'[y].state \in {"replied", "headers", "done"}
          PROVE  ~xhr'[y].ok
        BY <1>4, <2>1 DEF ReflectorInv, NothingSaid, Forgotten, GoesOn, PageSees
    <2>. QED
        BY <1>1, <2>1 DEF ReflectorInv, NothingSaid
<1>6. NewSessions'
    <2>1. \A y \in Xhrs, p \in 0..MaxPeers : Granted(y, p)' => Granted(y, p)
        BY <1>4 DEF Granted, Forgotten, GoesOn, PageSees
    <2>2. \A y \in Xhrs : xhr'[y].kind = "wait" => xhr[y].kind = "wait" /\ xhr'[y].pragma = xhr[y].pragma
        BY <1>4 DEF Forgotten, GoesOn, PageSees
    <2>3. ASSUME NEW p \in Peers, Untouched(p) PROVE Untouched(p)'
        BY <1>1, <2>2, <2>3 DEF Untouched
    <2>4. Peers \subseteq 0..MaxPeers /\ 0 \in 0..MaxPeers
        BY ReflectorAssumption DEF Peers
    <2>. QED
        BY <1>1, <2>1, <2>3, <2>4 DEF ReflectorInv, NewSessions
<1>7. WaitsParked'
    <2>1. \A y \in Xhrs : xhr[y].state \in {"held", "gone"} => xhr'[y] = xhr[y]
        BY DEF PageSees
    <2>2. reqGet # 0 /\ ~xhr[reqGet].ok => ~xhr'[reqGet].ok
        BY Referred DEF Forgotten, PageSees
    <2>. QED
        BY <1>1, <2>1, <2>2 DEF ReflectorInv, WaitsParked
<1>8. Delivery'
    <2>1. ASSUME reqGet # 0
          PROVE  /\ xhr'[reqGet].state \in {"sent", "held"} => xhr[reqGet].state \in {"sent", "held"}
                 /\ xhr'[reqGet].state \in {"replied", "headers"} /\ xhr'[reqGet].ok =>
                       /\ xhr[reqGet].state \in {"replied", "headers"} /\ xhr[reqGet].ok
                       /\ xhr'[reqGet].reply = xhr[reqGet].reply
        BY <2>1, Referred DEF Forgotten, PageSees
    <2>. QED
        BY <1>1, <2>1 DEF ReflectorInv, Delivery, Taken
<1>9. OneOffer' /\ CandidatesFit'
    BY <1>1 DEF ReflectorInv, OneOffer, CandidatesFit
<1>. QED
    BY <1>2, <1>3, <1>5, <1>6, <1>7, <1>8, <1>9 DEF ReflectorInv

\* The handler of x is called: what it finds the request x to be.
LEMMA ChangedRequest ==
    ASSUME ReflectorInv, NEW x \in Xhrs, xhr[x].state \in {"replied", "headers"}
    PROVE  /\ Changed(x) \in [Xhrs -> Requests]
           /\ \A y \in Xhrs : y # x => Changed(x)[y] = xhr[y]
           /\ Changed(x)[x].kind = xhr[x].kind /\ Changed(x)[x].pragma = xhr[x].pragma
           /\ Changed(x)[x].ok = xhr[x].ok /\ Changed(x)[x].reply = xhr[x].reply
           /\ Changed(x)[x].state =
                 IF xhr[x].state = "replied" /\ xhr[x].ok THEN "headers" ELSE "done"
<1>1. xhr \in [Xhrs -> Requests]
    BY DEF ReflectorInv, TypeOK
<1>. QED
    BY <1>1 DEF Changed, Requests, XhrStates

LEMMA IgnoredInv ==
    ASSUME ReflectorInv, NEW x \in Xhrs, SignInIgnored(x) \/ WaitIgnored(x), UNCHANGED serverVars
    PROVE  ReflectorInv'
<1>1. /\ xhr[x].state \in {"replied", "headers"} /\ xhr[x].kind \in {"signIn", "wait"}
      /\ xhr' = Collect(Changed(x), {req, reqGet})
      /\ UNCHANGED <<localVars, posts, serverVars>>
    BY DEF SignInIgnored, WaitIgnored, Event, localVars, uiVars, mediaVars, callVars
<1>2. /\ xhr' \in [Xhrs -> Requests]
      /\ \A y \in Xhrs :
            \/ xhr'[y] = Changed(x)[y]
            \/ xhr'[y] = Free /\ y \notin {req, reqGet} /\ Changed(x)[y].state = "done"
    BY <1>1, ChangedRequest, FreeTyped DEF Collect
<1>3. ASSUME NEW y \in Xhrs
      PROVE  PageSees(y)
    <2>1. CASE y # x
        BY <1>1, <1>2, <2>1, ChangedRequest DEF Forgotten, PageSees
    <2>2. CASE y = x
        <3>1. xhr'[x] = Changed(x)[x] \/ Forgotten(x)
            BY <1>2 DEF Forgotten
        <3>2. xhr'[x] = Changed(x)[x] => GoesOn(x)
            BY <1>1, ChangedRequest DEF GoesOn
        <3>. QED
            BY <1>1, <2>2, <3>1, <3>2, ChangedRequest DEF PageSees
    <2>. QED
        BY <2>1, <2>2
<1>. QED
    BY <1>1, <1>2, <1>3, RequestStep

LEMMA WaitUnknownInv ==
    ASSUME ReflectorInv, NEW x \in Xhrs, WaitUnknown(x)
    PROVE  ReflectorInv'
<1>1. /\ xhr[x].kind = "wait" /\ xhr[x].state \in {"sent", "cut"}
      /\ UNCHANGED <<localVars, posts, serverVars>>
    BY DEF WaitUnknown, Arrived
<1>2. xhr \in [Xhrs -> Requests] /\ (xhr[x].state = "sent" => xhr[x].ok)
    BY DEF ReflectorInv, TypeOK, OneRequest
<1>3. \/ xhr[x].state = "cut" /\ xhr' = [xhr EXCEPT ![x] = Free]
      \/ xhr[x].state = "sent" /\ xhr' = [xhr EXCEPT ![x].state = "replied", ![x].ok = FALSE]
      \/ xhr[x].state = "sent" /\ xhr' = [xhr EXCEPT ![x].state = "held"]
    BY <1>1 DEF WaitUnknown
<1>4. xhr[x].state = "cut" => x \notin {req, reqGet}
    BY <1>1, BrokenNoXhr DEF ReflectorInv, OneRequest
<1>5. xhr' \in [Xhrs -> Requests]
    BY <1>2, <1>3, FreeTyped DEF Requests, XhrStates
<1>6. ASSUME NEW y \in Xhrs
      PROVE  PageSees(y)
    BY <1>1, <1>2, <1>3, <1>4 DEF Forgotten, GoesOn, Requests, PageSees
<1>. QED
    BY <1>1, <1>5, <1>6, RequestStep


-----------------------------------------------------------------------------
(***************************************************************************)
(* Requests at the server.                                                 *)
(***************************************************************************)

\* Only the parked socket of the session changes, or its life.
SameTalk(s, t) ==
    /\ t.m_queue = s.m_queue /\ t.m_msgQueue = s.m_msgQueue /\ t.queued = s.queued
    /\ t.m_remoteIceCandidateMsg = s.m_remoteIceCandidateMsg
    /\ t.m_iceCandidateMsg = s.m_iceCandidateMsg
    /\ t.offer = s.offer /\ t.phase = s.phase /\ t.added = s.added

LEMMA TalkKept ==
    ASSUME NEW s, NEW t, NEW p, SameTalk(s, t)
    PROVE  /\ Quiet(s) => Quiet(t)
           /\ \A k \in 0..MaxCalls : About(s, k) => About(t, k)
           /\ Numbered(s, p) => Numbered(t, p)
           /\ Sent(t) = Sent(s) /\ t.added = s.added /\ t.offer = s.offer
BY DEF SameTalk, Quiet, About, Numbered, Sent

LEMMA BlankNotParked ==
    ASSUME NEW s, Blank(s)
    PROVE  s.m_clientSocket = 0
BY DEF Blank, Unborn

LEMMA BreakInv ==
    ASSUME ReflectorInv, NEW x \in Xhrs, Break(x)
    PROVE  ReflectorInv'
<1>1. /\ xhr[x].state \in {"sent", "held", "replied", "headers"}
      /\ xhr' = [xhr EXCEPT ![x].state = "replied", ![x].ok = FALSE]
      /\ session' = [p \in Peers |-> IF session[p].m_clientSocket = x
                                     THEN [session[p] EXCEPT !.m_clientSocket = Broken]
                                     ELSE session[p]]
      /\ UNCHANGED <<localVars, posts, nextPeer, closeWait, crashed>>
    BY DEF Break
<1>2. UNCHANGED <<connected, devices, peerId, peerConnection, calls, req, reqGet, timers,
                  mediaCalls, received, iceCandidateMsg, pc>>
    BY <1>1 DEF localVars, uiVars, mediaVars, callVars
<1>3. xhr \in [Xhrs -> Requests] /\ session \in [Peers -> Sessions]
    BY DEF ReflectorInv, TypeOK
<1>4. /\ xhr' \in [Xhrs -> Requests]
      /\ \A y \in Xhrs : y # x => xhr'[y] = xhr[y]
      /\ xhr'[x].state = "replied" /\ ~xhr'[x].ok
      /\ xhr'[x].kind = xhr[x].kind /\ xhr'[x].pragma = xhr[x].pragma
    BY <1>1, <1>3 DEF Requests, XhrStates
<1>5. /\ session' \in [Peers -> Sessions]
      /\ \A p \in Peers :
            /\ session'[p].life = session[p].life /\ SameTalk(session[p], session'[p])
            /\ \/ session'[p] = session[p] /\ session[p].m_clientSocket # x
               \/ session'[p].m_clientSocket = Broken /\ session[p].m_clientSocket = x
    <2>. DEFINE Cut(p) == [session[p] EXCEPT !.m_clientSocket = Broken]
    <2>1. ASSUME NEW p \in Peers
          PROVE  /\ session[p] \in Sessions /\ SameTalk(session[p], session[p])
                 /\ Cut(p) \in Sessions /\ SameTalk(session[p], Cut(p))
                 /\ Cut(p).life = session[p].life /\ Cut(p).m_clientSocket = Broken
        BY <1>3 DEF Sessions, SameTalk
    <2>2. session' = [p \in Peers |-> IF session[p].m_clientSocket = x THEN Cut(p) ELSE session[p]]
        BY <1>1
    <2>. HIDE DEF Cut
    <2>. QED
        BY <2>1, <2>2
<1>6. GoesOn(x)
    BY <1>1, <1>4 DEF GoesOn
<1>7. OneRequest' /\ OneCall' /\ OneNegotiates' /\ AnswerFitsOffer' /\ NoGap'
    BY <1>1, <1>4, <1>6, RequestsGoOn
<1>8. TypeOK'
    BY <1>1, <1>2, <1>4, <1>5 DEF ReflectorInv, TypeOK
<1>9. \A p \in Peers :
         /\ Quiet(session[p]) => Quiet(session'[p])
         /\ \A k \in 0..MaxCalls : About(session[p], k) => About(session'[p], k)
         /\ Numbered(session[p], p) => Numbered(session'[p], p)
         /\ Sent(session'[p]) = Sent(session[p])
         /\ session'[p].added = session[p].added /\ session'[p].offer = session[p].offer
    BY <1>3, <1>5, TalkKept
<1>10. NothingSaid'
    BY <1>1, <1>2, <1>4, <1>9 DEF ReflectorInv, NothingSaid
<1>11. NewSessions'
    <2>1. ASSUME NEW p \in Peers, Untouched(p) PROVE Untouched(p)'
        <3>1. session'[p] = session[p]
            BY <1>5, <2>1, BlankNotParked, BrokenNoXhr DEF Untouched
        <3>. QED
            BY <1>1, <1>2, <1>4, <2>1, <3>1 DEF Untouched
    <2>2. \A y \in Xhrs, p \in 0..MaxPeers : Granted(y, p)' => Granted(y, p)
        BY <1>4 DEF Granted
    <2>3. Peers \subseteq 0..MaxPeers /\ 0 \in 0..MaxPeers
        BY ReflectorAssumption DEF Peers
    <2>. QED
        BY <1>1, <1>5, <2>1, <2>2, <2>3 DEF ReflectorInv, NewSessions
<1>12. WaitsParked'
    <2>. SUFFICES ASSUME NEW p \in Peers
                  PROVE  LET z == session'[p].m_clientSocket IN
                         /\ z \in Xhrs => /\ xhr'[z].kind = "wait" /\ xhr'[z].pragma = p
                                          /\ xhr'[z].state \in {"held", "gone"}
                         /\ z = Broken /\ p = peerId => reqGet # 0 /\ ~xhr'[reqGet].ok
        BY <1>2 DEF WaitsParked
    <2>1. CASE session'[p] = session[p] /\ session[p].m_clientSocket # x
        BY <1>4, <2>1, Referred DEF ReflectorInv, WaitsParked
    <2>2. CASE session'[p].m_clientSocket = Broken /\ session[p].m_clientSocket = x
        <3>1. xhr[x].kind = "wait" /\ xhr[x].pragma = p
            BY <2>2 DEF ReflectorInv, WaitsParked
        <3>2. p = peerId => x = reqGet
            BY <3>1 DEF ReflectorInv, OneRequest
        <3>. QED
            BY <1>4, <2>2, <3>2, BrokenNoXhr
    <2>. QED
        BY <1>5, <2>1, <2>2
<1>13. OneOffer' /\ CandidatesFit'
    BY <1>1, <1>2, <1>9 DEF ReflectorInv, OneOffer, CandidatesFit
<1>14. Delivery'
    BY <1>2, <1>4, <1>5, <1>9, Referred DEF ReflectorInv, Delivery, Taken
<1>. QED
    BY <1>7, <1>8, <1>10, <1>11, <1>12, <1>13, <1>14 DEF ReflectorInv


LEMMA SignInInv ==
    ASSUME ReflectorInv, NEW x \in Xhrs, SignIn(x)
    PROVE  ReflectorInv'
<1>. DEFINE reply == [NoReply EXCEPT !.from = nextPeer]
<1>1. /\ xhr[x].kind = "signIn" /\ xhr[x].state \in {"sent", "cut"} /\ nextPeer <= MaxPeers
      /\ session' = [session EXCEPT ![nextPeer].life = "alive"]
      /\ xhr' = Reply(xhr, x, reply)
      /\ nextPeer' = nextPeer + 1
      /\ UNCHANGED <<localVars, posts, closeWait, crashed>>
    BY DEF SignIn, Arrived
<1>2. UNCHANGED <<connected, devices, peerId, peerConnection, calls, req, reqGet, timers,
                  mediaCalls, received, iceCandidateMsg, pc>>
    BY <1>1 DEF localVars, uiVars, mediaVars, callVars
<1>3. /\ xhr \in [Xhrs -> Requests] /\ session \in [Peers -> Sessions]
      /\ nextPeer \in 1..(MaxPeers + 1) /\ peerId \in 0..MaxPeers
    BY DEF ReflectorInv, TypeOK
<1>4. /\ nextPeer \in Peers /\ nextPeer' \in 1..(MaxPeers + 1) /\ peerId < nextPeer
      /\ nextPeer' = nextPeer + 1
    BY <1>1, <1>3, ReflectorAssumption DEF Peers, ReflectorInv, OneCall
<1>5. /\ x = req /\ xhr[x].state = "sent" /\ xhr[x].ok
      /\ \A y \in Xhrs : xhr[y].kind = "signIn" => y = x
    BY <1>1 DEF ReflectorInv, OneRequest
<1>6. reply \in Messages /\ reply.from = nextPeer
    BY <1>4, FreeTyped, ReflectorAssumption DEF Messages, NoReply, Peers
<1>. HIDE DEF reply
<1>7. xhr' = [xhr EXCEPT ![x].state = "replied", ![x].reply = reply]
    BY <1>1, <1>5 DEF Reply
<1>8. /\ xhr' \in [Xhrs -> Requests]
      /\ \A y \in Xhrs : y # x => xhr'[y] = xhr[y]
      /\ xhr'[x].state = "replied" /\ xhr'[x].ok /\ xhr'[x].reply = reply
      /\ xhr'[x].kind = "signIn" /\ xhr'[x].pragma = xhr[x].pragma
    BY <1>1, <1>3, <1>5, <1>6, <1>7 DEF Requests, XhrStates
<1>9. /\ session' \in [Peers -> Sessions]
      /\ \A p \in Peers : SameTalk(session[p], session'[p])
      /\ \A p \in Peers : session'[p].m_clientSocket = session[p].m_clientSocket
      /\ \A p \in Peers : p # nextPeer => session'[p] = session[p]
      /\ session'[nextPeer] = [session[nextPeer] EXCEPT !.life = "alive"]
    <2>. DEFINE s == session[nextPeer]
                t == [s EXCEPT !.life = "alive"]
    <2>1. s \in Sessions
        BY <1>3, <1>4
    <2>2. t \in Sessions /\ SameTalk(s, t) /\ t.m_clientSocket = s.m_clientSocket
        BY <2>1 DEF Sessions, SameTalk
    <2>3. session' = [session EXCEPT ![nextPeer] = t]
        BY <1>1
    <2>4. \A p \in Peers : SameTalk(session[p], session[p])
        BY DEF SameTalk
    <2>. HIDE DEF t
    <2>5. session'[nextPeer] = t
        BY <1>3, <1>4, <2>3
    <2>. QED
        BY <1>3, <1>4, <2>2, <2>3, <2>4, <2>5 DEF t
<1>10. GoesOn(x)
    BY <1>1, <1>5, <1>8 DEF GoesOn
<1>11. OneRequest' /\ OneCall' /\ OneNegotiates' /\ AnswerFitsOffer' /\ NoGap'
    BY <1>1, <1>8, <1>10, RequestsGoOn
<1>12. TypeOK'
    BY <1>1, <1>2, <1>4, <1>8, <1>9 DEF ReflectorInv, TypeOK
<1>13. \A p \in Peers :
         /\ Quiet(session[p]) => Quiet(session'[p])
         /\ \A k \in 0..MaxCalls : About(session[p], k) => About(session'[p], k)
         /\ Numbered(session[p], p) => Numbered(session'[p], p)
         /\ Sent(session'[p]) = Sent(session[p])
         /\ session'[p].added = session[p].added /\ session'[p].offer = session[p].offer
    BY <1>9, TalkKept
<1>14. NothingSaid'
    BY <1>1, <1>2, <1>8, <1>13 DEF ReflectorInv, NothingSaid
<1>15. NewSessions'
    <2>1. ASSUME NEW p \in Peers, Untouched(p) PROVE Untouched(p)'
        <3>1. Blank(session'[p])
            BY <1>9, <2>1 DEF Untouched, Blank, Unborn
        <3>. QED
            BY <1>1, <1>2, <1>8, <2>1, <3>1 DEF Untouched
    <2>2. Untouched(nextPeer)
        BY <1>4 DEF ReflectorInv, NewSessions, Peers
    <2>3. \A y \in Xhrs, p \in 0..MaxPeers : Granted(y, p)' => p = nextPeer
        BY <1>5, <1>6, <1>8 DEF Granted
    <2>4. Peers \subseteq 0..MaxPeers /\ 0 \in 0..MaxPeers /\ Peers \subseteq Nat
        BY ReflectorAssumption DEF Peers
    <2>5. \A p \in Peers : p >= nextPeer' => p >= nextPeer /\ p # nextPeer
        BY <1>3, <1>4, <2>4
    <2>6. \A p \in Peers : p >= nextPeer' => Untouched(p) /\ session'[p].life = "unborn"
        BY <1>9, <2>5 DEF ReflectorInv, NewSessions
    <2>7. nextPeer < nextPeer' /\ nextPeer # 0
        BY <1>3, <1>4
    <2>. QED
        BY <1>4, <2>1, <2>2, <2>3, <2>4, <2>6, <2>7 DEF NewSessions
<1>16. WaitsParked'
    <2>1. reqGet # 0 => reqGet # x
        BY <1>1, Referred
    <2>. QED
        BY <1>1, <1>2, <1>8, <1>9, <2>1, Referred DEF ReflectorInv, WaitsParked
<1>17. OneOffer' /\ CandidatesFit'
    BY <1>1, <1>2, <1>13 DEF ReflectorInv, OneOffer, CandidatesFit
<1>18. Delivery'
    <2>1. reqGet # 0 => xhr'[reqGet] = xhr[reqGet]
        BY <1>1, <1>8, Referred
    <2>2. timers > 0 \/ reqGet # 0 => session'[peerId] = session[peerId]
        BY <1>3, <1>4, <1>9, Referred
    <2>. QED
        BY <1>2, <1>13, <2>1, <2>2 DEF ReflectorInv, Delivery, Taken
<1>. QED
    BY <1>11, <1>12, <1>14, <1>15, <1>16, <1>17, <1>18 DEF ReflectorInv


\* The session has no wait when one arrives: nothing is overwritten.
LEMMA NoOtherWait ==
    ASSUME ReflectorInv, NEW x \in Xhrs, Arrived(x, "wait"), NEW p \in Peers, p = xhr[x].pragma
    PROVE  session[p].m_clientSocket \in {0, Broken}
<1>1. session[p].m_clientSocket \in Xhrs \cup {0, Broken}
    BY DEF ReflectorInv, TypeOK, Sessions
<1>2. ASSUME session[p].m_clientSocket \in Xhrs PROVE FALSE
    <2>. DEFINE y == session[p].m_clientSocket
    <2>1. xhr[y].kind = "wait" /\ xhr[y].pragma = p /\ xhr[y].state \in {"held", "gone"}
        BY <1>2 DEF ReflectorInv, WaitsParked
    <2>2. y = x
        BY <1>2, <2>1 DEF ReflectorInv, OneRequest, Arrived
    <2>. QED
        BY <2>1, <2>2 DEF Arrived
<1>. QED
    BY <1>1, <1>2

LEMMA WaitInv ==
    ASSUME ReflectorInv, NEW x \in Xhrs, Wait(x)
    PROVE  ReflectorInv'
<1>. DEFINE p == xhr[x].pragma
            next == IF xhr[x].state = "sent" THEN "held" ELSE "gone"
<1>1. /\ Arrived(x, "wait") /\ xhr[x].kind = "wait" /\ xhr[x].state \in {"sent", "cut"} /\ p \in Peers
      /\ session' = [session EXCEPT ![p].m_clientSocket = x]
      /\ xhr' = Forget([xhr EXCEPT ![x].state = next], session[p].m_clientSocket)
      /\ closeWait' = FALSE
      /\ UNCHANGED <<localVars, posts, nextPeer, crashed>>
    BY DEF Wait, Arrived, Listed
<1>2. UNCHANGED <<connected, devices, peerId, peerConnection, calls, req, reqGet, timers,
                  mediaCalls, received, iceCandidateMsg, pc>>
    BY <1>1 DEF localVars, uiVars, mediaVars, callVars
<1>3. xhr \in [Xhrs -> Requests] /\ session \in [Peers -> Sessions]
    BY DEF ReflectorInv, TypeOK
<1>4. xhr' = [xhr EXCEPT ![x].state = next]
    BY <1>1, NoOtherWait DEF Forget, Broken
<1>5. /\ xhr' \in [Xhrs -> Requests]
      /\ \A y \in Xhrs : y # x => xhr'[y] = xhr[y]
      /\ xhr'[x].state = next /\ xhr'[x].ok = xhr[x].ok
      /\ xhr'[x].kind = "wait" /\ xhr'[x].pragma = p
    BY <1>1, <1>3, <1>4 DEF Requests, XhrStates
<1>6. /\ session' \in [Peers -> Sessions]
      /\ \A q \in Peers : SameTalk(session[q], session'[q]) /\ session'[q].life = session[q].life
      /\ \A q \in Peers : q # p => session'[q] = session[q]
      /\ session'[p].m_clientSocket = x
    <2>. DEFINE t == [session[p] EXCEPT !.m_clientSocket = x]
    <2>1. session[p] \in Sessions
        BY <1>1, <1>3
    <2>2. /\ t \in Sessions /\ SameTalk(session[p], t) /\ t.m_clientSocket = x
          /\ t.life = session[p].life
        BY <2>1 DEF Sessions, SameTalk
    <2>3. session' = [session EXCEPT ![p] = t]
        BY <1>1
    <2>4. \A q \in Peers : SameTalk(session[q], session[q])
        BY DEF SameTalk
    <2>. HIDE DEF t
    <2>. QED
        BY <1>1, <1>3, <2>2, <2>3, <2>4
<1>7. GoesOn(x) /\ (xhr[x].state = "sent" => xhr[x].ok)
    BY <1>1, <1>5 DEF GoesOn, ReflectorInv, OneRequest
<1>8. OneRequest' /\ OneCall' /\ OneNegotiates' /\ AnswerFitsOffer' /\ NoGap'
    BY <1>1, <1>5, <1>7, RequestsGoOn
<1>9. TypeOK'
    BY <1>1, <1>2, <1>5, <1>6 DEF ReflectorInv, TypeOK
<1>10. \A q \in Peers :
         /\ Quiet(session[q]) => Quiet(session'[q])
         /\ \A k \in 0..MaxCalls : About(session[q], k) => About(session'[q], k)
         /\ Numbered(session[q], q) => Numbered(session'[q], q)
         /\ Sent(session'[q]) = Sent(session[q])
         /\ session'[q].added = session[q].added /\ session'[q].offer = session[q].offer
    BY <1>6, TalkKept
<1>11. NothingSaid'
    <2>1. xhr'[x].state \notin {"replied", "headers", "done"}
        BY <1>5
    <2>2. \A y \in Xhrs : xhr'[y].state \in {"replied", "headers", "done"} => xhr'[y] = xhr[y]
        BY <1>5, <2>1
    <2>. QED
        BY <1>1, <1>2, <1>10, <2>2 DEF ReflectorInv, NothingSaid
<1>12. NewSessions'
    <2>1. ASSUME NEW q \in Peers, Untouched(q) PROVE Untouched(q)'
        <3>1. session'[q] = session[q]
            BY <1>1, <1>6, <2>1 DEF Untouched
        <3>. QED
            BY <1>1, <1>2, <1>5, <2>1, <3>1 DEF Untouched
    <2>2. \A y \in Xhrs, q \in 0..MaxPeers : Granted(y, q)' => Granted(y, q)
        BY <1>5 DEF Granted
    <2>3. Peers \subseteq 0..MaxPeers /\ 0 \in 0..MaxPeers
        BY ReflectorAssumption DEF Peers
    <2>. QED
        BY <1>1, <1>6, <2>1, <2>2, <2>3 DEF ReflectorInv, NewSessions
<1>13. WaitsParked'
    <2>1. \A q \in Peers : session[q].m_clientSocket # x
        BY <1>1 DEF ReflectorInv, WaitsParked
    <2>2. reqGet # 0 => xhr'[reqGet].ok = xhr[reqGet].ok
        BY <1>5, Referred
    <2>. QED
        BY <1>2, <1>5, <1>6, <2>1, <2>2, BrokenNoXhr DEF ReflectorInv, WaitsParked
<1>14. OneOffer' /\ CandidatesFit'
    BY <1>1, <1>2, <1>10 DEF ReflectorInv, OneOffer, CandidatesFit
<1>15. Delivery'
    <2>1. reqGet # 0 => \/ xhr'[reqGet] = xhr[reqGet]
                        \/ xhr[reqGet].state = "sent" /\ xhr'[reqGet].state = "held"
        <3>1. reqGet # 0 => reqGet \in Xhrs /\ xhr[reqGet].state # "cut"
            BY Referred DEF ReflectorInv, OneRequest
        <3>2. xhr[x].state = "sent" => xhr'[x].state = "held"
            BY <1>5
        <3>3. CASE reqGet = x
            BY <1>1, <3>1, <3>2, <3>3, BrokenNoXhr
        <3>4. CASE reqGet # x
            BY <1>5, <3>1, <3>4
        <3>. QED
            BY <3>3, <3>4
    <2>. QED
        BY <1>2, <1>6, <1>10, <2>1, Referred DEF ReflectorInv, Delivery, Taken
<1>. QED
    BY <1>8, <1>9, <1>11, <1>12, <1>13, <1>14, <1>15 DEF ReflectorInv


LEMMA DeleteInv ==
    ASSUME ReflectorInv, NEW p \in Peers, Delete(p)
    PROVE  ReflectorInv'
<1>. DEFINE x == session[p].m_clientSocket
            t == [Unborn EXCEPT !.life = "deleted"]
<1>1. /\ session[p].life = "ended" /\ session' = [session EXCEPT ![p] = t] /\ xhr' = Forget(xhr, x)
      /\ UNCHANGED <<localVars, posts, nextPeer, closeWait, crashed>>
    BY DEF Delete
<1>2. UNCHANGED <<connected, devices, peerId, peerConnection, calls, req, reqGet, timers,
                  mediaCalls, received, iceCandidateMsg, pc>>
    BY <1>1 DEF localVars, uiVars, mediaVars, callVars
<1>3. /\ xhr \in [Xhrs -> Requests] /\ session \in [Peers -> Sessions]
      /\ x \in Xhrs \cup {0, Broken}
    BY DEF ReflectorInv, TypeOK, Sessions
<1>4. /\ t.m_queue = <<>> /\ t.m_msgQueue = <<>> /\ t.queued = 0
      /\ t.m_remoteIceCandidateMsg = {} /\ t.m_iceCandidateMsg = {}
      /\ t.offer = 0 /\ t.phase = "none" /\ t.added = {}
      /\ t.m_clientSocket = 0 /\ t.life = "deleted" /\ Blank(t)
    BY DEF Unborn, Blank
<1>5. t \in Sessions
    BY UnbornTyped DEF Sessions
<1>. HIDE DEF t
<1>6. session' \in [Peers -> Sessions] /\ session'[p] = t /\ \A q \in Peers : q # p => session'[q] = session[q]
    BY <1>1, <1>3, <1>5
<1>7. \/ xhr' = xhr
      \/ /\ x \in Xhrs /\ xhr[x].state = "gone" /\ xhr[x].kind = "wait" /\ xhr[x].pragma = p
         /\ xhr' = [xhr EXCEPT ![x] = Free]
    BY <1>1, <1>3 DEF Forget, Broken, Xhrs, ReflectorInv, WaitsParked
<1>8. /\ xhr' \in [Xhrs -> Requests]
      /\ \A y \in Xhrs :
            \/ xhr'[y] = xhr[y]
            \/ y = x /\ xhr'[y] = Free /\ xhr[y].state = "gone" /\ xhr[y].pragma = p /\ xhr[y].kind = "wait"
    BY <1>3, <1>7, FreeTyped
<1>9. \A y \in Xhrs : xhr'[y] = xhr[y] \/ Forgotten(y)
    <2>1. \A y \in Xhrs : xhr[y].state = "gone" /\ xhr[y].kind = "wait" => y # req /\ y # reqGet
        BY BrokenNoXhr DEF ReflectorInv, OneRequest
    <2>. QED
        BY <1>8, <2>1 DEF Forgotten
<1>10. OneRequest' /\ OneCall' /\ OneNegotiates' /\ AnswerFitsOffer' /\ NoGap'
    BY <1>1, <1>9, RequestsGoOn
<1>11. TypeOK'
    BY <1>1, <1>2, <1>6, <1>8 DEF ReflectorInv, TypeOK
<1>12. NothingSaid'
    BY <1>1, <1>2, <1>4, <1>6, <1>9 DEF ReflectorInv, NothingSaid, Quiet, Forgotten, Free
<1>13. NewSessions'
    <2>1. ASSUME NEW q \in Peers, Untouched(q) PROVE Untouched(q)'
        BY <1>1, <1>2, <1>4, <1>6, <1>9, <2>1 DEF Untouched, Forgotten, Free
    <2>2. \A y \in Xhrs, q \in 0..MaxPeers : Granted(y, q)' => Granted(y, q)
        BY <1>9 DEF Granted, Forgotten, Free
    <2>3. Peers \subseteq 0..MaxPeers /\ 0 \in 0..MaxPeers
        BY ReflectorAssumption DEF Peers
    <2>4. \A q \in Peers : q >= nextPeer => session'[q].life = "unborn"
        BY <1>1, <1>6 DEF ReflectorInv, NewSessions
    <2>. QED
        BY <1>1, <2>1, <2>2, <2>3, <2>4 DEF ReflectorInv, NewSessions
<1>14. WaitsParked'
    <2>. SUFFICES ASSUME NEW q \in Peers
                  PROVE  LET z == session'[q].m_clientSocket IN
                         /\ z \in Xhrs => /\ xhr'[z].kind = "wait" /\ xhr'[z].pragma = q
                                          /\ xhr'[z].state \in {"held", "gone"}
                         /\ z = Broken /\ q = peerId => reqGet # 0 /\ ~xhr'[reqGet].ok
        BY <1>2 DEF WaitsParked
    <2>1. CASE q = p
        BY <1>4, <1>6, <2>1, BrokenNoXhr DEF Broken
    <2>2. CASE q # p
        <3>1. reqGet # 0 => xhr'[reqGet] = xhr[reqGet]
            BY <1>9, Referred DEF Forgotten
        <3>2. session'[q] = session[q]
            BY <1>6, <2>2
        <3>. QED
            BY <1>8, <2>2, <3>1, <3>2 DEF ReflectorInv, WaitsParked
    <2>. QED
        BY <2>1, <2>2
<1>15. OneOffer' /\ CandidatesFit'
    <2>1. \A k \in 0..MaxCalls : About(t, k)
        BY <1>4 DEF About
    <2>. QED
        BY <1>1, <1>2, <1>4, <1>6, <2>1 DEF ReflectorInv, OneOffer, CandidatesFit
<1>16. Delivery'
    <2>1. Numbered(t, p)
        BY <1>4 DEF Numbered, Sent
    <2>2. reqGet # 0 => xhr'[reqGet] = xhr[reqGet]
        BY <1>9, Referred DEF Forgotten
    <2>. QED
        BY <1>2, <1>4, <1>6, <2>1, <2>2, Referred DEF ReflectorInv, Delivery, Taken
<1>. QED
    BY <1>10, <1>11, <1>12, <1>13, <1>14, <1>15, <1>16 DEF ReflectorInv


LEMMA SendMessageInv ==
    ASSUME ReflectorInv, NEW p \in Peers, SendMessage(p)
    PROVE  ReflectorInv'
<1>. DEFINE s == session[p]
            x == s.m_clientSocket
            m == Head(s.m_msgQueue)
            t == [s EXCEPT !.m_msgQueue = Tail(s.m_msgQueue), !.m_clientSocket = 0]
<1>1. /\ s.life = "alive" /\ s.m_msgQueue # <<>> /\ x # 0
      /\ session' = [session EXCEPT ![p].m_msgQueue = Tail(@), ![p].m_clientSocket = 0]
      /\ xhr' = IF x = Broken THEN xhr ELSE Reply(xhr, x, m)
      /\ UNCHANGED <<localVars, posts, nextPeer, closeWait, crashed>>
    BY DEF SendMessage, Alive
<1>2. UNCHANGED <<connected, devices, peerId, peerConnection, calls, req, reqGet, timers,
                  mediaCalls, received, iceCandidateMsg, pc>>
    BY <1>1 DEF localVars, uiVars, mediaVars, callVars
<1>3. /\ xhr \in [Xhrs -> Requests] /\ session \in [Peers -> Sessions]
      /\ s \in Sessions /\ x \in Xhrs \cup {0, Broken} /\ s.m_msgQueue \in Seq(Messages) /\ s.queued \in Nat
    BY DEF ReflectorInv, TypeOK, Sessions
<1>4. devices
    BY <1>1 DEF ReflectorInv, NothingSaid, Quiet
\* The message, and what is left of the queue.
<1>5. /\ m \in Messages /\ Tail(s.m_msgQueue) \in Seq(Messages)
      /\ m.from = p /\ m.number = Sent(s) + 1
      /\ \A k \in 0..MaxCalls : About(s, k) => m.of \subseteq {k}
    <2>1. m = s.m_msgQueue[1] /\ 1 \in DOMAIN s.m_msgQueue
        BY <1>1, <1>3
    <2>. QED
        BY <1>1, <1>3, <2>1 DEF ReflectorInv, Delivery, Numbered, About
<1>6. /\ t \in Sessions /\ t.m_clientSocket = 0 /\ t.life = s.life
      /\ t.m_msgQueue = Tail(s.m_msgQueue) /\ t.queued = s.queued
      /\ t.added = s.added /\ t.offer = s.offer /\ t.phase = s.phase /\ t.m_queue = s.m_queue
      /\ t.m_remoteIceCandidateMsg = s.m_remoteIceCandidateMsg
      /\ t.m_iceCandidateMsg = s.m_iceCandidateMsg
    BY <1>3, <1>5 DEF Sessions
<1>7. session' = [session EXCEPT ![p] = t]
    BY <1>1, <1>3
<1>. HIDE DEF t, m
<1>8. /\ session' \in [Peers -> Sessions] /\ session'[p] = t
      /\ \A q \in Peers : q # p => session'[q] = session[q]
    BY <1>3, <1>6, <1>7
<1>9. /\ Sent(t) = Sent(s) + 1
      /\ \A i \in DOMAIN t.m_msgQueue : i + 1 \in DOMAIN s.m_msgQueue /\ t.m_msgQueue[i] = s.m_msgQueue[i + 1]
    BY <1>1, <1>3, <1>6 DEF Sent
<1>10. Numbered(t, p) /\ \A k \in 0..MaxCalls : About(s, k) => About(t, k)
    <2>1. Numbered(s, p) /\ Sent(s) \in Nat
        BY DEF ReflectorInv, Delivery, Numbered
    <2>2. Numbered(t, p)
        <3>1. t.m_msgQueue \in Seq(Messages)
            BY <1>5, <1>6
        <3>2. \A i \in DOMAIN t.m_msgQueue : i \in Nat /\ Sent(s) + 1 + i = Sent(s) + (i + 1)
            BY <2>1, <3>1
        <3>3. Sent(t) \in Nat
            BY <1>9, <2>1
        <3>. QED
            BY <1>9, <2>1, <3>2, <3>3 DEF Numbered
    <2>3. \A k \in 0..MaxCalls : About(s, k) => About(t, k)
        BY <1>6, <1>9 DEF About
    <2>. QED
        BY <2>2, <2>3
\* The request that is answered: the one that the page waits for, or one that
\* nobody waits for any more.
<1>11. \/ x = Broken /\ xhr' = xhr
       \/ x \in Xhrs /\ x = reqGet /\ p = peerId /\ xhr[x].state = "held" /\ xhr[x].ok
             /\ xhr' = [xhr EXCEPT ![x].state = "replied", ![x].reply = m]
       \/ x \in Xhrs /\ x \notin {req, reqGet} /\ p # peerId /\ xhr[x].state = "gone"
             /\ xhr' = [xhr EXCEPT ![x] = Free]
    <2>1. CASE x = Broken
        BY <1>1, <2>1
    <2>2. CASE x # Broken
        <3>1. x \in Xhrs /\ xhr[x].kind = "wait" /\ xhr[x].pragma = p /\ xhr[x].state \in {"held", "gone"}
            BY <1>1, <1>3, <2>2 DEF ReflectorInv, WaitsParked
        <3>2. xhr[x].state = "held" => x = reqGet /\ p = peerId /\ xhr[x].ok
            BY <1>4, <3>1, BrokenNoXhr DEF ReflectorInv, OneRequest
        <3>3. xhr[x].state = "gone" => x # reqGet /\ x # req /\ p # peerId
            BY <3>1, BrokenNoXhr DEF ReflectorInv, OneRequest
        <3>4. xhr' = Reply(xhr, x, m)
            BY <1>1, <2>2
        <3>. QED
            BY <3>1, <3>2, <3>3, <3>4 DEF Reply
    <2>. QED
        BY <2>1, <2>2
<1>12. /\ xhr' \in [Xhrs -> Requests]
       /\ \A y \in Xhrs :
             \/ xhr'[y] = xhr[y]
             \/ Forgotten(y)
             \/ /\ GoesOn(y) /\ xhr[y].kind = "wait" /\ y = x /\ y = reqGet /\ p = peerId
                /\ xhr[y].state = "held"
                /\ xhr'[y].state = "replied" /\ xhr'[y].reply = m
    <2>1. CASE x = Broken /\ xhr' = xhr
        BY <1>3, <2>1
    <2>2. CASE x \in Xhrs /\ x = reqGet /\ p = peerId /\ xhr[x].state = "held" /\ xhr[x].ok
                 /\ xhr' = [xhr EXCEPT ![x].state = "replied", ![x].reply = m]
        <3>1. xhr[x].kind = "wait"
            BY <2>2, Referred, BrokenNoXhr
        <3>. QED
            BY <1>3, <1>5, <2>2, <3>1 DEF GoesOn, Requests, XhrStates
    <2>3. CASE x \in Xhrs /\ x \notin {req, reqGet} /\ p # peerId /\ xhr[x].state = "gone"
                 /\ xhr' = [xhr EXCEPT ![x] = Free]
        BY <1>3, <2>3, FreeTyped DEF Forgotten
    <2>. QED
        BY <1>11, <2>1, <2>2, <2>3
<1>13. OneRequest' /\ OneCall' /\ OneNegotiates' /\ AnswerFitsOffer' /\ NoGap'
    BY <1>1, <1>12, RequestsGoOn
<1>14. TypeOK'
    BY <1>1, <1>2, <1>8, <1>12 DEF ReflectorInv, TypeOK
<1>15. NothingSaid'
    BY <1>2, <1>4 DEF NothingSaid
<1>16. NewSessions'
    <2>1. ~Blank(s)
        BY <1>1, BlankNotParked
    <2>2. ASSUME NEW q \in Peers, Untouched(q) PROVE Untouched(q)'
        <3>1. q # p
            BY <2>1, <2>2 DEF Untouched
        <3>2. \A y \in Xhrs : xhr'[y].kind = "wait" => xhr[y].kind = "wait" /\ xhr'[y].pragma = xhr[y].pragma
            BY <1>12 DEF Forgotten, GoesOn, Free
        <3>. QED
            BY <1>1, <1>2, <1>8, <2>2, <3>1, <3>2 DEF Untouched
    <2>3. \A y \in Xhrs, q \in 0..MaxPeers : Granted(y, q)' => Granted(y, q)
        BY <1>12 DEF Granted, Forgotten, GoesOn, Free
    <2>4. Peers \subseteq 0..MaxPeers /\ 0 \in 0..MaxPeers
        BY ReflectorAssumption DEF Peers
    <2>5. \A q \in Peers : session'[q].life = session[q].life
        BY <1>6, <1>8
    <2>. QED
        BY <1>1, <2>2, <2>3, <2>4, <2>5 DEF ReflectorInv, NewSessions
<1>17. WaitsParked'
    <2>. SUFFICES ASSUME NEW q \in Peers
                  PROVE  LET z == session'[q].m_clientSocket IN
                         /\ z \in Xhrs => /\ xhr'[z].kind = "wait" /\ xhr'[z].pragma = q
                                          /\ xhr'[z].state \in {"held", "gone"}
                         /\ z = Broken /\ q = peerId => reqGet # 0 /\ ~xhr'[reqGet].ok
        BY <1>2 DEF WaitsParked
    <2>1. CASE q = p
        BY <1>6, <1>8, <2>1, BrokenNoXhr DEF Broken
    <2>2. CASE q # p
        <3>1. session'[q] = session[q]
            BY <1>8, <2>2
        <3>2. session[q].m_clientSocket \in Xhrs => session[q].m_clientSocket # x
            BY <2>2 DEF ReflectorInv, WaitsParked
        <3>3. \A y \in Xhrs : y # x => xhr'[y] = xhr[y]
            BY <1>3, <1>11
        <3>4. q = peerId => xhr' = xhr \/ x # reqGet
            BY <1>11, <2>2
        <3>5. q = peerId /\ reqGet # 0 => xhr'[reqGet] = xhr[reqGet]
            BY <3>3, <3>4, Referred
        <3>. QED
            BY <3>1, <3>2, <3>3, <3>5 DEF ReflectorInv, WaitsParked
    <2>. QED
        BY <2>1, <2>2
<1>18. OneOffer' /\ CandidatesFit'
    BY <1>1, <1>2, <1>6, <1>8, <1>10 DEF ReflectorInv, OneOffer, CandidatesFit
<1>19. Delivery'
    <2>1. \A q \in Peers : Numbered(session'[q], q)
        BY <1>8, <1>10 DEF ReflectorInv, Delivery
    <2>2. CASE p # peerId
        <3>1. reqGet # 0 => xhr'[reqGet] = xhr[reqGet]
            BY <1>12, <2>2, Referred DEF Forgotten
        <3>2. timers > 0 \/ reqGet # 0 => session'[peerId] = session[peerId]
            BY <1>8, <2>2, Referred
        <3>. QED
            BY <1>2, <2>1, <3>1, <3>2 DEF ReflectorInv, Delivery, Taken
    <2>3. CASE p = peerId /\ x = Broken
        <3>1. /\ reqGet # 0 /\ ~xhr[reqGet].ok /\ xhr' = xhr /\ timers = 0
              /\ xhr[reqGet].state \notin {"sent", "held"}
            BY <1>11, <2>3, BrokenNoXhr, Referred DEF ReflectorInv, WaitsParked, OneRequest
        <3>. QED
            BY <1>2, <2>1, <3>1 DEF Delivery
    <2>4. CASE p = peerId /\ x # Broken
        <3>1. /\ x = reqGet /\ reqGet # 0 /\ xhr[x].state = "held" /\ timers = 0
              /\ xhr'[x].state = "replied" /\ xhr'[x].reply = m
            BY <1>3, <1>11, <2>4, BrokenNoXhr DEF ReflectorInv, OneRequest, Requests
        <3>2. Sent(s) = Taken(peerId)
            BY <1>1, <2>4, <3>1 DEF ReflectorInv, Delivery
        <3>3. m.of \subseteq {peerConnection}
            BY <1>5, <2>4 DEF ReflectorInv, OneOffer
        <3>4. Taken(peerId)' = Taken(peerId)
            BY <1>2 DEF Taken
        <3>. QED
            BY <1>2, <1>5, <1>8, <1>9, <2>1, <2>4, <3>1, <3>2, <3>3, <3>4 DEF Delivery
    <2>. QED
        BY <2>2, <2>3, <2>4
<1>. QED
    BY <1>13, <1>14, <1>15, <1>16, <1>17, <1>18, <1>19 DEF ReflectorInv


-----------------------------------------------------------------------------
(***************************************************************************)
(* Steps in which the page sends, aborts or takes the reply of a request.  *)
(***************************************************************************)
LEMMA CollectForgets ==
    ASSUME NEW xs \in [Xhrs -> Requests], NEW refs
    PROVE  /\ Collect(xs, refs) \in [Xhrs -> Requests]
           /\ \A y \in Xhrs :
                 Collect(xs, refs)[y] = IF xs[y].state = "done" /\ y \notin refs THEN Free ELSE xs[y]
BY FreeTyped DEF Collect

LEMMA SendStarts ==
    ASSUME NEW xs \in [Xhrs -> Requests], NEW x \in Xhrs, NEW kind \in {"signIn", "wait"},
           NEW pragma \in 0..MaxPeers
    PROVE  /\ Send(xs, x, kind, pragma) \in [Xhrs -> Requests]
           /\ \A y \in Xhrs : y # x => Send(xs, x, kind, pragma)[y] = xs[y]
           /\ Send(xs, x, kind, pragma)[x].kind = kind
           /\ Send(xs, x, kind, pragma)[x].state = "sent"
           /\ Send(xs, x, kind, pragma)[x].pragma = pragma
           /\ Send(xs, x, kind, pragma)[x].ok
<1>. DEFINE r == [Free EXCEPT !.kind = kind, !.state = "sent", !.pragma = pragma]
<1>1. r \in Requests /\ r.kind = kind /\ r.state = "sent" /\ r.pragma = pragma /\ r.ok
    BY FreeTyped DEF Free, Requests, XhrStates
<1>2. Send(xs, x, kind, pragma) = [xs EXCEPT ![x] = r]
    BY DEF Send
<1>. HIDE DEF r
<1>. QED
    BY <1>1, <1>2

\* A sign-in starts only when the last one is over, so req is the only one.
LEMMA StartRecordingInv ==
    ASSUME ~Impatient, ReflectorInv, StartRecording, UNCHANGED serverVars
    PROVE  ReflectorInv'
<1>1. PICK x \in Unused(xhr) :
         xhr' = Collect(Send(xhr, x, "signIn", 0), {x, reqGet}) /\ req' = x
    BY DEF StartRecording
<1>2. /\ ~connected /\ Settled
      /\ UNCHANGED <<connected, devices, peerId, peerConnection, calls, reqGet, timers,
                     mediaCalls, received, iceCandidateMsg, pc, posts,
                     session, nextPeer, closeWait, crashed>>
    BY DEF StartRecording, Click, mediaVars, callVars, serverVars
<1>3. /\ xhr \in [Xhrs -> Requests] /\ x \in Xhrs /\ xhr[x].state = "free" /\ xhr[x].kind = "none"
      /\ 0 \in 0..MaxPeers
    BY <1>1, ReflectorAssumption DEF Unused, ReflectorInv, TypeOK, OneRequest
<1>. DEFINE xs == Send(xhr, x, "signIn", 0)
<1>4. /\ xs \in [Xhrs -> Requests] /\ \A y \in Xhrs : y # x => xs[y] = xhr[y]
      /\ xs[x].kind = "signIn" /\ xs[x].state = "sent" /\ xs[x].ok
    BY <1>3, SendStarts
<1>5. /\ xhr' \in [Xhrs -> Requests]
      /\ \A y \in Xhrs : xhr'[y] = IF xs[y].state = "done" /\ y \notin {x, reqGet} THEN Free ELSE xs[y]
    BY <1>1, <1>4, CollectForgets
<1>. HIDE DEF xs
\* The sign-in before this one, if any, is over and forgotten.
<1>6. /\ xhr'[x].kind = "signIn" /\ xhr'[x].state = "sent" /\ xhr'[x].ok
      /\ \A y \in Xhrs : y # x =>
            \/ xhr'[y].kind = "none" /\ xhr'[y].state = "free" /\ y # reqGet /\ xhr[y].state \in {"done", "free"}
            \/ xhr'[y] = xhr[y] /\ xhr[y].kind = "wait"
    <2>1. \A y \in Xhrs : xhr[y].kind = "signIn" => xhr[y].state = "done" /\ y # reqGet
        <3>1. ASSUME NEW y \in Xhrs, xhr[y].kind = "signIn"
              PROVE  xhr[y].state \in {"sent", "replied", "headers", "done"}
            BY <3>1 DEF ReflectorInv, OneRequest
        <3>2. \A y \in Xhrs : xhr[y].kind = "signIn" =>
                 xhr[y].state \notin {"sent", "held", "replied", "headers"}
            BY <1>2 DEF Settled, Pending
        <3>. QED
            BY <3>1, <3>2, Referred, BrokenNoXhr
    <2>2. \A y \in Xhrs : xhr[y].kind \in {"none", "signIn", "wait"}
        BY <1>3 DEF Requests
    <2>3. reqGet \in Xhrs => xhr[reqGet].kind = "wait"
        BY Referred, BrokenNoXhr
    <2>. QED
        BY <1>3, <1>4, <1>5, <2>1, <2>2, <2>3 DEF Free, ReflectorInv, OneRequest
<1>7. reqGet # 0 => reqGet \in Xhrs /\ reqGet # x /\ xhr'[reqGet] = xhr[reqGet]
    BY <1>3, <1>6, Referred
<1>8. TypeOK'
    <2>1. x \in 0..MaxXhrs
        BY <1>3 DEF Xhrs
    <2>. QED
        BY <1>1, <1>2, <1>5, <2>1 DEF ReflectorInv, TypeOK
<1>9. OneRequest'
    <2>1. \A y \in Xhrs :
             /\ xhr'[y].kind = "none" <=> xhr'[y].state = "free"
             /\ xhr'[y].kind = "signIn" =>
                   y = x /\ xhr'[y].state \in {"sent", "replied", "headers", "done"}
             /\ xhr'[y].state \in {"sent", "held"} => xhr'[y].ok
        BY <1>6 DEF ReflectorInv, OneRequest
    <2>2. \A y \in Xhrs : xhr'[y].kind = "wait" => xhr'[y] = xhr[y]
        BY <1>6
    <2>3. \A y \in Xhrs : xhr'[y].kind = "wait" =>
                /\ xhr'[y].pragma \in 1..(nextPeer - 1)
                /\ xhr'[y].pragma = peerId => y = reqGet
                /\ devices /\ xhr'[y].state \notin {"cut", "gone"} => y = reqGet
        BY <2>2 DEF ReflectorInv, OneRequest
    <2>4. \A y, z \in Xhrs :
             xhr'[y].kind = "wait" /\ xhr'[z].kind = "wait" /\ xhr'[y].pragma = xhr'[z].pragma => y = z
        BY <2>2 DEF ReflectorInv, OneRequest
    <2>5. reqGet # 0 => /\ xhr'[reqGet].kind = "wait"
                        /\ xhr'[reqGet].pragma = peerId
                        /\ xhr'[reqGet].state \notin {"cut", "gone"}
                        /\ timers = 0
        BY <1>7 DEF ReflectorInv, OneRequest
    <2>. QED
        BY <1>1, <1>2, <1>6, <2>1, <2>3, <2>4, <2>5 DEF OneRequest
<1>10. OneCall' /\ OneNegotiates' /\ AnswerFitsOffer' /\ CandidatesFit' /\ OneOffer' /\ NoGap'
    BY <1>2 DEF ReflectorInv, OneCall, OneNegotiates, AnswerFitsOffer, CandidatesFit, OneOffer, NoGap
<1>11. NothingSaid'
    BY <1>2, <1>6 DEF ReflectorInv, NothingSaid
<1>12. NewSessions'
    <2>1. ASSUME NEW q \in Peers, Untouched(q) PROVE Untouched(q)'
        BY <1>2, <1>6, <2>1 DEF Untouched
    <2>2. \A y \in Xhrs, q \in 0..MaxPeers : ~Granted(y, q)'
        BY <1>6 DEF Granted
    <2>3. Peers \subseteq 0..MaxPeers /\ 0 \in 0..MaxPeers
        BY ReflectorAssumption DEF Peers
    <2>. QED
        BY <1>2, <2>1, <2>2, <2>3 DEF ReflectorInv, NewSessions
<1>13. WaitsParked'
    BY <1>2, <1>3, <1>6, <1>7 DEF ReflectorInv, WaitsParked
<1>14. Delivery'
    BY <1>2, <1>7 DEF ReflectorInv, Delivery, Taken
<1>. QED
    BY <1>8, <1>9, <1>10, <1>11, <1>12, <1>13, <1>14 DEF ReflectorInv

LEMMA WaitOnInv ==
    ASSUME ReflectorInv, WaitOn, UNCHANGED serverVars
    PROVE  ReflectorInv'
<1>1. PICK x \in Unused(xhr) :
         xhr' = Collect(Send(xhr, x, "wait", peerId), {req, x}) /\ reqGet' = x
    BY DEF WaitOn
<1>2. /\ timers > 0 /\ timers' = timers - 1
      /\ UNCHANGED <<connected, devices, peerId, peerConnection, calls, req,
                     mediaCalls, received, iceCandidateMsg, pc, posts,
                     session, nextPeer, closeWait, crashed>>
    BY DEF WaitOn, uiVars, mediaVars, callVars, serverVars
<1>3. /\ xhr \in [Xhrs -> Requests] /\ x \in Xhrs /\ xhr[x].state = "free" /\ xhr[x].kind = "none"
      /\ peerId \in 0..MaxPeers
    BY <1>1 DEF Unused, ReflectorInv, TypeOK, OneRequest
<1>4. /\ timers = 1 /\ reqGet = 0 /\ connected /\ devices /\ peerId \in Peers
      /\ peerId \in 1..(nextPeer - 1)
    BY <1>2, Referred DEF ReflectorInv, OneCall, TypeOK, Peers
<1>. DEFINE xs == Send(xhr, x, "wait", peerId)
<1>5. /\ xs \in [Xhrs -> Requests] /\ \A y \in Xhrs : y # x => xs[y] = xhr[y]
      /\ xs[x].kind = "wait" /\ xs[x].state = "sent" /\ xs[x].ok /\ xs[x].pragma = peerId
    BY <1>3, SendStarts
<1>6. /\ xhr' \in [Xhrs -> Requests]
      /\ \A y \in Xhrs : xhr'[y] = IF xs[y].state = "done" /\ y \notin {req, x} THEN Free ELSE xs[y]
    BY <1>1, <1>5, CollectForgets
<1>. HIDE DEF xs
<1>7. /\ xhr'[x].kind = "wait" /\ xhr'[x].state = "sent" /\ xhr'[x].ok /\ xhr'[x].pragma = peerId
      /\ \A y \in Xhrs : y # x =>
            \/ xhr'[y].kind = "none" /\ xhr'[y].state = "free" /\ y # req /\ xhr[y].state = "done"
            \/ xhr'[y] = xhr[y]
    BY <1>3, <1>5, <1>6 DEF Free
\* No other wait is left: the last one was answered.
<1>8. \A y \in Xhrs : xhr[y].kind = "wait" => xhr[y].pragma # peerId /\ xhr[y].state \in {"cut", "gone"}
    BY <1>4, BrokenNoXhr DEF ReflectorInv, OneRequest
<1>9. TypeOK'
    <2>1. x \in 0..MaxXhrs
        BY <1>3 DEF Xhrs
    <2>2. timers' \in Nat
        BY <1>2, <1>4
    <2>. QED
        BY <1>1, <1>2, <1>6, <2>1, <2>2 DEF ReflectorInv, TypeOK
<1>10. OneRequest'
    <2>1. req # 0 => req \in Xhrs /\ req # x /\ xhr'[req] = xhr[req]
        BY <1>3, <1>7, Referred
    <2>2. \A y \in Xhrs :
             /\ xhr'[y].kind = "none" <=> xhr'[y].state = "free"
             /\ xhr'[y].kind = "signIn" =>
                   y = req /\ xhr'[y].state \in {"sent", "replied", "headers", "done"}
             /\ xhr'[y].state \in {"sent", "held"} => xhr'[y].ok
        BY <1>7 DEF ReflectorInv, OneRequest
    <2>3. \A y \in Xhrs : xhr'[y].kind = "wait" =>
             y = x \/ (xhr'[y] = xhr[y] /\ xhr[y].pragma # peerId /\ xhr[y].state \in {"cut", "gone"})
        BY <1>7, <1>8
    <2>4. \A y \in Xhrs : xhr'[y].kind = "wait" =>
                /\ xhr'[y].pragma \in 1..(nextPeer - 1)
                /\ xhr'[y].pragma = peerId => y = x
                /\ devices /\ xhr'[y].state \notin {"cut", "gone"} => y = x
        BY <1>4, <1>7, <2>3 DEF ReflectorInv, OneRequest
    <2>5. \A y, z \in Xhrs :
             xhr'[y].kind = "wait" /\ xhr'[z].kind = "wait" /\ xhr'[y].pragma = xhr'[z].pragma => y = z
        BY <1>7, <2>3 DEF ReflectorInv, OneRequest
    <2>6. timers' = 0
        BY <1>2, <1>4
    <2>. QED
        BY <1>1, <1>2, <1>7, <2>1, <2>2, <2>4, <2>5, <2>6, Referred DEF OneRequest
<1>11. OneCall'
    <2>1. Pending("signIn") = {} => Pending("signIn")' = {}
        BY <1>7 DEF Pending
    <2>. QED
        BY <1>2, <1>4, <2>1 DEF ReflectorInv, OneCall
<1>12. OneNegotiates' /\ AnswerFitsOffer' /\ CandidatesFit' /\ OneOffer' /\ NoGap' /\ NothingSaid'
    BY <1>2, <1>4 DEF ReflectorInv, OneNegotiates, AnswerFitsOffer, CandidatesFit, OneOffer, NoGap,
          NothingSaid
<1>13. NewSessions'
    <2>1. ASSUME NEW q \in Peers, Untouched(q) PROVE Untouched(q)'
        BY <1>2, <1>7, <2>1 DEF Untouched
    <2>2. \A y \in Xhrs, q \in 0..MaxPeers : Granted(y, q)' => Granted(y, q)
        BY <1>7 DEF Granted
    <2>3. Peers \subseteq 0..MaxPeers /\ 0 \in 0..MaxPeers
        BY ReflectorAssumption DEF Peers
    <2>. QED
        BY <1>2, <2>1, <2>2, <2>3 DEF ReflectorInv, NewSessions
<1>14. WaitsParked'
    BY <1>2, <1>3, <1>4, <1>7 DEF ReflectorInv, WaitsParked
<1>15. Delivery'
    BY <1>1, <1>2, <1>4, <1>7 DEF ReflectorInv, Delivery, Taken
<1>. QED
    BY <1>9, <1>10, <1>11, <1>12, <1>13, <1>14, <1>15 DEF ReflectorInv


LEMMA SignedInInv ==
    ASSUME ReflectorInv, NEW x \in Xhrs, SignedIn(x), UNCHANGED serverVars
    PROVE  ReflectorInv'
<1>. DEFINE p == xhr[req].reply.from
<1>1. PICK y \in Unused(xhr) : reqGet' = y /\ xhr' = Collect(Send(Changed(x), y, "wait", peerId'), {req, y})
    BY DEF SignedIn
<1>2. /\ xhr[x].kind = "signIn" /\ xhr[x].state \in {"replied", "headers"}
      /\ Succeeded(Changed(x), req) /\ calls < MaxCalls /\ peerId' = p
      /\ calls' = calls + 1 /\ peerConnection' = calls + 1 /\ connected' = (connected \/ devices)
      /\ mediaCalls' = (IF devices THEN mediaCalls + 1 ELSE mediaCalls)
      /\ UNCHANGED <<devices, req, timers, received, iceCandidateMsg, pc, posts,
                     session, nextPeer, closeWait, crashed>>
    BY DEF SignedIn, Event, serverVars
<1>3. /\ xhr \in [Xhrs -> Requests] /\ y \in Xhrs /\ xhr[y].state = "free" /\ xhr[y].kind = "none"
      /\ connected \in BOOLEAN /\ devices \in BOOLEAN /\ calls \in Nat /\ mediaCalls \in Nat
      /\ \A z \in Xhrs : xhr[z].kind \in {"none", "signIn", "wait"}
    BY <1>1, PageAssumption DEF Unused, ReflectorInv, TypeOK, OneRequest, Requests
\* The sign-in is the one that the page waits for, and was successful.
<1>4. x = req /\ req # 0 /\ \A z \in Xhrs : xhr[z].kind = "signIn" => z = x
    BY <1>2, BrokenNoXhr DEF ReflectorInv, OneRequest
<1>5. xhr[x].state = "headers" /\ xhr[x].ok /\ Changed(x)[x].state = "done"
    BY <1>2, <1>4, ChangedRequest DEF Succeeded
<1>6. Granted(x, p)
    BY <1>2, <1>4, <1>5 DEF Granted
<1>7. p \in Peers /\ p < nextPeer /\ Untouched(p) /\ p \in 0..MaxPeers /\ p \in 1..(nextPeer - 1)
    <2>1. p \in 0..MaxPeers /\ nextPeer \in Nat
        BY <1>3, <1>4, ReflectorAssumption DEF Requests, Messages, ReflectorInv, TypeOK
    <2>2. p # 0
        BY <1>6 DEF ReflectorInv, NewSessions
    <2>3. p \in Peers
        BY <2>1, <2>2, ReflectorAssumption DEF Peers
    <2>4. p < nextPeer /\ Untouched(p)
        BY <1>6, <2>3 DEF ReflectorInv, NewSessions
    <2>. QED
        BY <2>1, <2>2, <2>3, <2>4
<1>. HIDE DEF p
<1>8. ~connected /\ timers = 0 /\ mediaCalls = 0
    <2>1. x \in Pending("signIn")
        BY <1>2 DEF Pending
    <2>2. timers \in Nat
        BY DEF ReflectorInv, TypeOK
    <2>. QED
        BY <1>3, <2>1, <2>2 DEF ReflectorInv, OneCall
<1>9. devices => peerId = 0 /\ peerConnection = 0 /\ reqGet = 0
    <2>1. devices => peerId = 0 /\ peerConnection = 0
        BY <1>8 DEF ReflectorInv, OneCall
    <2>2. 0 \notin Peers
        BY ReflectorAssumption DEF Peers
    <2>. QED
        BY <2>1, <2>2, Referred
<1>. DEFINE xs == Send(Changed(x), y, "wait", p)
<1>10. /\ xs \in [Xhrs -> Requests] /\ \A z \in Xhrs : z # y => xs[z] = Changed(x)[z]
       /\ xs[y].kind = "wait" /\ xs[y].state = "sent" /\ xs[y].ok /\ xs[y].pragma = p
    BY <1>2, <1>3, <1>7, SendStarts, ChangedRequest
<1>11. /\ xhr' \in [Xhrs -> Requests]
       /\ \A z \in Xhrs : xhr'[z] = IF xs[z].state = "done" /\ z \notin {req, y} THEN Free ELSE xs[z]
    BY <1>1, <1>2, <1>10, CollectForgets
<1>. HIDE DEF xs
<1>12. /\ x # y
       /\ xhr'[y].kind = "wait" /\ xhr'[y].state = "sent" /\ xhr'[y].ok /\ xhr'[y].pragma = p
       /\ xhr'[x].kind = "signIn" /\ xhr'[x].state = "done"
       /\ \A z \in Xhrs : z \notin {x, y} =>
             \/ xhr'[z].kind = "none" /\ xhr'[z].state = "free" /\ xhr[z].state \in {"done", "free"}
             \/ xhr'[z] = xhr[z] /\ xhr[z].kind = "wait"
    <2>1. x # y
        BY <1>2, <1>3
    <2>2. xhr'[x] = Changed(x)[x]
        BY <1>4, <1>10, <1>11, <2>1
    <2>3. \A z \in Xhrs : z \notin {x, y} => xs[z] = xhr[z] /\ z # req
        BY <1>2, <1>4, <1>10, ChangedRequest
    <2>4. \A z \in Xhrs : z # x => xhr[z].kind = "wait" \/ (xhr[z].state = "free" /\ xhr[z].kind = "none")
        BY <1>3, <1>4 DEF ReflectorInv, OneRequest
    <2>. QED
        BY <1>2, <1>3, <1>5, <1>10, <1>11, <2>1, <2>2, <2>3, <2>4, ChangedRequest DEF Free
<1>13. \A z \in Xhrs : xhr'[z].kind = "wait" =>
          z = y \/ (xhr'[z] = xhr[z] /\ xhr[z].kind = "wait" /\ xhr[z].pragma # p)
    BY <1>7, <1>12 DEF Untouched
<1>14. TypeOK'
    <2>1. y \in 0..MaxXhrs /\ calls + 1 \in 0..MaxCalls /\ mediaCalls' \in Nat
        BY <1>2, <1>3, PageAssumption DEF Xhrs
    <2>. QED
        BY <1>1, <1>2, <1>3, <1>7, <1>11, <2>1 DEF ReflectorInv, TypeOK
<1>15. OneRequest'
    <2>1. \A z \in Xhrs :
             /\ xhr'[z].kind = "none" <=> xhr'[z].state = "free"
             /\ xhr'[z].kind = "signIn" =>
                   z = x /\ xhr'[z].state \in {"sent", "replied", "headers", "done"}
             /\ xhr'[z].state \in {"sent", "held"} => xhr'[z].ok
        BY <1>12 DEF ReflectorInv, OneRequest
    <2>2. \A z \in Xhrs : xhr'[z].kind = "wait" =>
                /\ xhr'[z].pragma \in 1..(nextPeer - 1)
                /\ xhr'[z].pragma = p => z = y
                /\ devices /\ xhr'[z].state \notin {"cut", "gone"} => z = y
        <3>1. \A z \in Xhrs : xhr[z].kind = "wait" =>
                /\ xhr[z].pragma \in 1..(nextPeer - 1)
                /\ devices => xhr[z].state \in {"cut", "gone"}
            BY <1>9, BrokenNoXhr DEF ReflectorInv, OneRequest
        <3>. QED
            BY <1>7, <1>12, <1>13, <3>1
    <2>3. \A z, w \in Xhrs :
             xhr'[z].kind = "wait" /\ xhr'[w].kind = "wait" /\ xhr'[z].pragma = xhr'[w].pragma => z = w
        BY <1>12, <1>13 DEF ReflectorInv, OneRequest
    <2>4. peerId' = p /\ reqGet' = y /\ req' = x /\ timers' = 0 /\ nextPeer' = nextPeer /\ devices' = devices
        BY <1>1, <1>2, <1>4, <1>8
    <2>. QED
        BY <1>12, <2>1, <2>2, <2>3, <2>4 DEF OneRequest
<1>16. OneCall'
    <2>1. Pending("signIn")' = {}
        BY <1>12 DEF Pending
    <2>2. peerId' # 0 /\ peerConnection' # 0
        BY <1>2, <1>3, <1>7
    <2>. QED
        BY <1>2, <1>3, <1>7, <1>8, <2>1, <2>2 DEF OneCall
<1>17. OneNegotiates'
    <2>1. iceCandidateMsg = {} /\ \A k \in Calls : pc[k].creating = 0 /\ ~(pc[k].gathering = "gathering" /\ ~pc[k].closed)
        <3>1. 0 \notin Calls /\ iceCandidateMsg \subseteq Calls /\ \A k \in Calls : pc[k].creating \in Nat
            BY PageAssumption DEF Calls, ReflectorInv, TypeOK, PcStates
        <3>2. CASE devices
            BY <1>9, <3>1, <3>2 DEF ReflectorInv, OneNegotiates
        <3>3. CASE ~devices
            BY <3>3 DEF ReflectorInv, NothingSaid
        <3>. QED
            BY <3>2, <3>3
    <2>. QED
        BY <1>2, <2>1 DEF OneNegotiates
<1>18. AnswerFitsOffer' /\ CandidatesFit' /\ NoGap'
    BY <1>2 DEF ReflectorInv, AnswerFitsOffer, CandidatesFit, NoGap
<1>19. NothingSaid'
    BY <1>2, <1>12 DEF ReflectorInv, NothingSaid
<1>20. NewSessions'
    <2>1. ASSUME NEW q \in Peers, Untouched(q), q # p PROVE Untouched(q)'
        BY <1>2, <1>12, <2>1 DEF Untouched
    <2>2. \A z \in Xhrs, q \in 0..MaxPeers : ~Granted(z, q)'
        BY <1>12 DEF Granted
    <2>3. Peers \subseteq 0..MaxPeers /\ 0 \in 0..MaxPeers
        BY ReflectorAssumption DEF Peers
    <2>4. \A q \in Peers : q >= nextPeer => q # p
        BY <1>7, ReflectorAssumption DEF ReflectorInv, TypeOK, Peers
    <2>. QED
        BY <1>2, <2>1, <2>2, <2>3, <2>4 DEF ReflectorInv, NewSessions
<1>21. session[p].m_clientSocket = 0
    BY <1>7, BlankNotParked DEF Untouched
<1>22. WaitsParked'
    <2>1. \A q \in Peers : session[q].m_clientSocket \in Xhrs =>
             session[q].m_clientSocket \notin {x, y}
        BY <1>2, <1>3 DEF ReflectorInv, WaitsParked
    <2>2. \A z \in Xhrs : z \notin {x, y} /\ xhr[z].state \in {"held", "gone"} => xhr'[z] = xhr[z]
        BY <1>12
    <2>. QED
        BY <1>2, <1>21, <2>1, <2>2, BrokenNoXhr DEF ReflectorInv, WaitsParked, Broken
<1>23. /\ \A k \in 0..MaxCalls : About(session[p], k)
       /\ Sent(session[p]) = 0
    BY <1>7 DEF Untouched, Blank, Unborn, About, Sent
<1>24. OneOffer'
    <2>1. calls + 1 \in 0..MaxCalls
        BY <1>2, <1>3, PageAssumption
    <2>. QED
        BY <1>2, <1>7, <1>23, <2>1 DEF ReflectorInv, OneOffer, Untouched
<1>25. Delivery'
    <2>1. Taken(p) = 0
        <3>1. {j \in DOMAIN received : received[j].from = p} = {}
            BY <1>7 DEF Untouched
        <3>. QED
            BY <3>1, FS_EmptySet DEF Taken
    <2>. QED
        BY <1>1, <1>2, <1>8, <1>12, <1>23, <2>1 DEF ReflectorInv, Delivery, Taken
<1>. QED
    BY <1>14, <1>15, <1>16, <1>17, <1>18, <1>19, <1>20, <1>22, <1>24, <1>25 DEF ReflectorInv


LEMMA StopRecordingInv ==
    ASSUME ~Impatient, ReflectorInv, StopRecording, UNCHANGED serverVars
    PROVE  ReflectorInv'
<1>0. PICK xs \in (IF req = 0 THEN {xhr} ELSE Abort(xhr, req)) :
         \E ys \in (IF reqGet = 0 THEN {xs} ELSE Abort(xs, reqGet)) : xhr' = Collect(ys, {})
    BY DEF StopRecording
<1>1. PICK ys \in (IF reqGet = 0 THEN {xs} ELSE Abort(xs, reqGet)) : xhr' = Collect(ys, {})
    BY <1>0
<1>2. /\ connected /\ Settled /\ peerConnection' = 0 /\ peerId' = 0 /\ iceCandidateMsg' = {}
      /\ req' = 0 /\ reqGet' = 0 /\ connected' = FALSE
      /\ pc' = (IF peerConnection = 0 THEN pc
                ELSE [pc EXCEPT ![peerConnection].closed = TRUE, ![peerConnection].creating = 0])
      /\ UNCHANGED <<devices, calls, timers, mediaCalls, received, posts,
                     session, nextPeer, closeWait, crashed>>
    BY DEF StopRecording, Click, serverVars
<1>3. /\ xhr \in [Xhrs -> Requests] /\ pc \in [Calls -> PcStates] /\ peerConnection \in 0..MaxCalls
      /\ \A y \in Xhrs : xhr[y].kind \in {"none", "signIn", "wait"}
    BY DEF ReflectorInv, TypeOK, Requests
<1>4. devices /\ timers = 0 /\ mediaCalls = 0
    BY <1>2 DEF Settled, ReflectorInv, OneCall
\* The sign-in is over, and forgotten.
<1>5. /\ xs \in [Xhrs -> Requests]
      /\ \A y \in Xhrs : y # req => xs[y] = xhr[y]
      /\ req # 0 => xs[req] = Free
    <2>1. CASE req = 0
        BY <1>0, <1>3, <2>1
    <2>2. CASE req # 0
        <3>1. req \in Xhrs /\ xhr[req].kind = "signIn"
            BY <2>2, Referred
        <3>2. xhr[req].state = "done"
            <4>1. xhr[req].state \in {"sent", "replied", "headers", "done"}
                BY <3>1 DEF ReflectorInv, OneRequest
            <4>2. xhr[req].state \notin {"sent", "held", "replied", "headers"}
                BY <1>2, <3>1 DEF Settled, Pending
            <4>. QED
                BY <4>1, <4>2
        <3>3. xs = [xhr EXCEPT ![req] = Free]
            BY <1>0, <2>2, <3>2 DEF Abort
        <3>. QED
            BY <1>3, <3>1, <3>3, FreeTyped
    <2>. QED
        BY <2>1, <2>2
\* The wait is aborted.
<1>6. /\ ys \in [Xhrs -> Requests]
      /\ \A y \in Xhrs : y # reqGet => ys[y] = xs[y]
      /\ reqGet # 0 =>
            \/ ys[reqGet] = Free /\ xhr[reqGet].state # "held"
            \/ /\ ys[reqGet].state \in {"cut", "gone"} /\ ys[reqGet].kind = "wait"
               /\ ys[reqGet].pragma = xhr[reqGet].pragma
               /\ xhr[reqGet].state = "held" => ys[reqGet].state = "gone"
    <2>1. CASE reqGet = 0
        BY <1>1, <1>5, <2>1
    <2>2. CASE reqGet # 0
        <3>1. reqGet \in Xhrs /\ xhr[reqGet].kind = "wait" /\ reqGet # req
            BY <2>2, Referred
        <3>2. xs[reqGet] = xhr[reqGet]
            BY <1>5, <3>1
        <3>3. \/ ys = [xs EXCEPT ![reqGet] = Free] /\ xhr[reqGet].state # "held"
              \/ ys = [xs EXCEPT ![reqGet].state = "cut"] /\ xhr[reqGet].state # "held"
              \/ ys = [xs EXCEPT ![reqGet].state = "gone"]
            BY <1>1, <2>2, <3>2 DEF Abort
        <3>. QED
            BY <1>5, <3>1, <3>2, <3>3, FreeTyped DEF Requests, XhrStates
    <2>. QED
        BY <2>1, <2>2
<1>7. /\ xhr' \in [Xhrs -> Requests]
      /\ \A y \in Xhrs : xhr'[y] = IF ys[y].state = "done" /\ y \notin {} THEN Free ELSE ys[y]
    BY <1>1, <1>6, CollectForgets
<1>8. \A y \in Xhrs :
         \/ /\ xhr'[y].kind = "none" /\ xhr'[y].state = "free" /\ ~(xhr[y].kind = "wait" /\ xhr[y].state = "held")
            /\ ~(xhr[y].kind = "wait" /\ xhr[y].state = "gone")
         \/ /\ y # reqGet /\ xhr'[y] = xhr[y] /\ xhr[y].kind = "wait" /\ xhr[y].state \in {"cut", "gone"}
         \/ /\ y = reqGet /\ xhr[y].kind = "wait" /\ xhr'[y].kind = "wait" /\ xhr'[y].pragma = xhr[y].pragma
            /\ xhr'[y].state \in {"cut", "gone"}
            /\ xhr[y].state = "held" => xhr'[y].state = "gone"
    <2>. TAKE y \in Xhrs
    <2>1. Free.kind = "none" /\ Free.state = "free"
        BY DEF Free
    <2>2. CASE y = req
        BY <1>5, <1>6, <1>7, <2>1, <2>2, Referred, BrokenNoXhr
    <2>3. CASE y = reqGet
        <3>1. reqGet # 0 /\ xhr[y].kind = "wait" /\ xhr[y].state # "gone"
            BY <2>3, Referred, BrokenNoXhr DEF ReflectorInv, OneRequest
        <3>. QED
            BY <1>6, <1>7, <2>1, <2>3, <3>1
    <2>4. CASE y # req /\ y # reqGet
        <3>1. ys[y] = xhr[y]
            BY <1>5, <1>6, <2>4
        <3>2. xhr[y].kind # "signIn"
            BY <2>4 DEF ReflectorInv, OneRequest
        <3>3. xhr[y].kind = "wait" => xhr[y].state \in {"cut", "gone"}
            BY <1>4, <2>4 DEF ReflectorInv, OneRequest
        <3>4. xhr[y].kind = "none" => xhr[y].state = "free"
            BY DEF ReflectorInv, OneRequest
        <3>. QED
            BY <1>3, <1>7, <2>4, <3>1, <3>2, <3>3, <3>4
    <2>. QED
        BY <2>2, <2>3, <2>4
<1>9. /\ pc' \in [Calls -> PcStates]
      /\ \A k \in Calls : pc'[k].remote = pc[k].remote /\ pc'[k].given = pc[k].given
      /\ \A k \in Calls : ~(pc'[k].creating > 0) /\ ~(pc'[k].gathering = "gathering" /\ ~pc'[k].closed)
    <2>1. \A k \in Calls : k # peerConnection =>
             ~(pc[k].creating > 0) /\ ~(pc[k].gathering = "gathering" /\ ~pc[k].closed)
        BY DEF ReflectorInv, OneNegotiates
    <2>2. CASE peerConnection = 0
        <3>1. 0 \notin Calls
            BY PageAssumption DEF Calls
        <3>. QED
            BY <1>2, <1>3, <2>1, <2>2, <3>1
    <2>3. CASE peerConnection # 0
        <3>1. peerConnection \in Calls
            BY <1>3, <2>3, PageAssumption DEF Calls
        <3>. DEFINE c == [pc[peerConnection] EXCEPT !.closed = TRUE, !.creating = 0]
        <3>2. pc' = [pc EXCEPT ![peerConnection] = c]
            BY <1>2, <1>3, <2>3, <3>1 DEF PcStates
        <3>3. /\ c \in PcStates /\ c.closed /\ c.creating = 0
              /\ c.remote = pc[peerConnection].remote /\ c.given = pc[peerConnection].given
            <4>1. pc[peerConnection] \in PcStates
                BY <1>3, <3>1
            <4>2. c \in PcStates
                BY <4>1 DEF PcStates
            <4>3. c.closed = TRUE /\ c.creating = 0
                BY <4>1 DEF PcStates
            <4>4. c.remote = pc[peerConnection].remote /\ c.given = pc[peerConnection].given
                BY <4>1 DEF PcStates
            <4>. QED
                BY <4>2, <4>3, <4>4
        <3>. HIDE DEF c
        <3>4. \A k \in Calls : pc'[k] = IF k = peerConnection THEN c ELSE pc[k]
            BY <1>3, <3>2
        <3>5. pc' \in [Calls -> PcStates]
            BY <1>3, <3>2, <3>3
        <3>. QED
            BY <2>1, <3>3, <3>4, <3>5
    <2>. QED
        BY <2>2, <2>3
<1>10. TypeOK'
    <2>1. 0 \in 0..MaxXhrs /\ 0 \in 0..MaxPeers /\ 0 \in 0..MaxCalls
        BY PageAssumption, ReflectorAssumption
    <2>. QED
        BY <1>2, <1>7, <1>9, <2>1 DEF ReflectorInv, TypeOK
<1>11. OneRequest'
    <2>1. \A y \in Xhrs :
             /\ xhr'[y].kind = "none" <=> xhr'[y].state = "free"
             /\ xhr'[y].kind # "signIn"
             /\ xhr'[y].state \notin {"sent", "held"}
             /\ xhr'[y].kind = "wait" =>
                   /\ xhr'[y].state \in {"cut", "gone"}
                   /\ xhr[y].kind = "wait" /\ xhr'[y].pragma = xhr[y].pragma
        BY <1>8
    <2>2. \A y \in Xhrs : xhr'[y].kind = "wait" => xhr'[y].pragma \in 1..(nextPeer - 1)
        BY <2>1 DEF ReflectorInv, OneRequest
    <2>3. \A y, z \in Xhrs :
             xhr'[y].kind = "wait" /\ xhr'[z].kind = "wait" /\ xhr'[y].pragma = xhr'[z].pragma => y = z
        BY <2>1 DEF ReflectorInv, OneRequest
    <2>4. \A y \in Xhrs : xhr'[y].kind = "wait" => xhr'[y].pragma # 0
        BY <2>2
    <2>. QED
        BY <1>2, <2>1, <2>2, <2>3, <2>4 DEF OneRequest
<1>12. OneCall'
    <2>1. 0 < nextPeer
        BY DEF ReflectorInv, TypeOK
    <2>. QED
        BY <1>2, <1>4, <2>1 DEF OneCall
<1>13. OneNegotiates' /\ AnswerFitsOffer' /\ CandidatesFit' /\ NoGap' /\ NothingSaid'
    BY <1>2, <1>4, <1>9 DEF ReflectorInv, OneNegotiates, AnswerFitsOffer, CandidatesFit, NoGap, NothingSaid
<1>14. NewSessions'
    <2>1. 0 \notin Peers /\ Peers \subseteq 0..MaxPeers /\ 0 \in 0..MaxPeers
        BY ReflectorAssumption DEF Peers
    <2>2. ASSUME NEW q \in Peers, Untouched(q) PROVE Untouched(q)'
        BY <1>2, <1>8, <2>1, <2>2 DEF Untouched
    <2>3. \A y \in Xhrs, q \in 0..MaxPeers : ~Granted(y, q)'
        BY <1>8 DEF Granted
    <2>. QED
        BY <1>2, <2>1, <2>2, <2>3 DEF ReflectorInv, NewSessions
<1>15. WaitsParked'
    <2>1. 0 \notin Peers
        BY ReflectorAssumption DEF Peers
    <2>2. \A q \in Peers :
             LET z == session[q].m_clientSocket IN
             z \in Xhrs => xhr[z].kind = "wait" /\ xhr[z].pragma = q /\ xhr[z].state \in {"held", "gone"}
        BY DEF ReflectorInv, WaitsParked
    <2>3. ASSUME NEW z \in Xhrs, xhr[z].kind = "wait", xhr[z].state \in {"held", "gone"}
          PROVE  xhr'[z].kind = "wait" /\ xhr'[z].pragma = xhr[z].pragma /\ xhr'[z].state \in {"held", "gone"}
        <3>1. z = reqGet => xhr[z].state = "held"
            BY <2>3, BrokenNoXhr DEF ReflectorInv, OneRequest
        <3>. QED
            BY <1>8, <2>3, <3>1
    <2>. QED
        BY <1>2, <2>1, <2>2, <2>3 DEF WaitsParked
<1>16. OneOffer'
    <2>1. 0 \notin Peers
        BY ReflectorAssumption DEF Peers
    <2>. QED
        BY <1>2, <2>1 DEF ReflectorInv, OneOffer
<1>17. Delivery'
    BY <1>2, <1>4 DEF ReflectorInv, Delivery
<1>. QED
    BY <1>10, <1>11, <1>12, <1>13, <1>14, <1>15, <1>16, <1>17 DEF ReflectorInv


\* What has been taken, with one more message.
LEMMA TakenGrows ==
    ASSUME ReflectorInv, NEW m \in Messages, received' = Append(received, m)
    PROVE  /\ received' \in Seq(Messages)
           /\ \A i \in DOMAIN received' :
                 \/ i \in DOMAIN received /\ received'[i] = received[i]
                 \/ i = Len(received) + 1 /\ received'[i] = m
           /\ Cardinality({j \in DOMAIN received : received[j].from = m.from}) \in Nat
           /\ Cardinality({j \in DOMAIN received' : received'[j].from = m.from})
                 = Cardinality({j \in DOMAIN received : received[j].from = m.from}) + 1
<1>1. received \in Seq(Messages)
    BY DEF ReflectorInv, TypeOK
<1>2. /\ received' \in Seq(Messages) /\ Len(received) \in Nat /\ Len(received') = Len(received) + 1
      /\ DOMAIN received = 1..Len(received) /\ DOMAIN received' = 1..(Len(received) + 1)
      /\ \A i \in 1..Len(received) : received'[i] = received[i]
      /\ received'[Len(received) + 1] = m
    BY <1>1
<1>. DEFINE S == {j \in DOMAIN received : received[j].from = m.from}
            T == {j \in DOMAIN received' : received'[j].from = m.from}
<1>3. T = S \cup {Len(received) + 1} /\ Len(received) + 1 \notin S
    BY <1>2
<1>4. IsFiniteSet(S)
    <2>1. IsFiniteSet(1..Len(received)) /\ S \subseteq 1..Len(received)
        BY <1>2, FS_Interval
    <2>. QED
        BY <2>1, FS_Subset
<1>5. Cardinality(S) \in Nat /\ Cardinality(T) = Cardinality(S) + 1
    BY <1>3, <1>4, FS_CardinalityType, FS_AddElement
<1>6. \A i \in DOMAIN received' :
         \/ i \in DOMAIN received /\ received'[i] = received[i]
         \/ i = Len(received) + 1 /\ received'[i] = m
    BY <1>2
<1>. QED
    BY <1>2, <1>5, <1>6

\* The handler takes the message of the only wait.  Whether it throws or has
\* waitOn called again, the invariant holds if only the current peer connection
\* is given what the message is about.
LEMMA TakesMessage ==
    ASSUME ReflectorInv, NEW x \in Xhrs, Event(x, "wait"), Succeeded(Changed(x), reqGet),
           received' = Append(received, Received),
           NextWait(x) \/ HandlerThrows(x),
           pc' \in [Calls -> PcStates],
           \A k \in Calls :
              /\ pc'[k].creating = pc[k].creating /\ pc'[k].gathering = pc[k].gathering
              /\ pc'[k].closed = pc[k].closed
              /\ pc'[k].remote # pc[k].remote =>
                    k = peerConnection /\ pc'[k].remote = pc[k].remote \cup Received.of
              /\ pc'[k].given # pc[k].given =>
                    k = peerConnection /\ pc'[k].given = pc[k].given \cup Received.of,
           UNCHANGED <<label, connected, mediaVars, peerConnection, calls, iceCandidateMsg, peerId,
                       req, serverVars>>
    PROVE  ReflectorInv'
<1>. DEFINE m == Received
<1>1. /\ xhr[x].kind = "wait" /\ xhr[x].state \in {"replied", "headers"}
      /\ UNCHANGED <<connected, devices, peerId, peerConnection, calls, req, mediaCalls,
                     iceCandidateMsg, posts, session, nextPeer, closeWait, crashed>>
    BY DEF Event, mediaVars, serverVars
<1>2. xhr \in [Xhrs -> Requests] /\ timers \in Nat /\ nextPeer \in 1..(MaxPeers + 1)
    BY DEF ReflectorInv, TypeOK
<1>3. reqGet # 0 /\ reqGet \in Xhrs /\ xhr[reqGet].kind = "wait" /\ peerId \in Peers /\ timers = 0
    BY Referred DEF Succeeded, ReflectorInv, OneRequest
<1>4. devices
    <2>1. Changed(x)[reqGet].state = "done" /\ Changed(x)[reqGet].ok
        BY DEF Succeeded
    <2>2. xhr[reqGet].ok /\ xhr[reqGet].state \in {"replied", "headers", "done"}
        BY <1>1, <1>3, <2>1, ChangedRequest
    <2>. QED
        BY <1>3, <2>2 DEF ReflectorInv, NothingSaid
<1>5. x = reqGet
    BY <1>1, <1>4 DEF ReflectorInv, OneRequest
<1>6. xhr[x].state = "headers" /\ xhr[x].ok /\ Changed(x)[x].state = "done"
    BY <1>1, <1>5, ChangedRequest DEF Succeeded
<1>7. /\ m = xhr[x].reply /\ m \in Messages
      /\ m.from = peerId /\ m.of \subseteq {peerConnection} /\ m.number = Taken(peerId) + 1
      /\ session[peerId].life = "alive" => Sent(session[peerId]) = Taken(peerId) + 1
    <2>1. m = xhr[x].reply /\ m \in Messages
        BY <1>2, <1>5 DEF Received, Requests
    <2>. QED
        BY <1>3, <1>5, <1>6, <2>1 DEF ReflectorInv, Delivery
<1>. HIDE DEF m
<1>8. /\ received' \in Seq(Messages)
      /\ \A i \in DOMAIN received' :
            \/ i \in DOMAIN received /\ received'[i] = received[i]
            \/ i = Len(received) + 1 /\ received'[i] = m
      /\ Taken(peerId) \in Nat /\ Taken(peerId)' = Taken(peerId) + 1
    <2>1. received' = Append(received, m)
        BY DEF m
    <2>2. Taken(peerId) = Cardinality({j \in DOMAIN received : received[j].from = m.from})
        BY <1>7 DEF Taken
    <2>3. Taken(peerId)' = Cardinality({j \in DOMAIN received' : received'[j].from = m.from})
        BY <1>1, <1>7 DEF Taken
    <2>. QED
        BY <1>7, <2>1, <2>2, <2>3, TakenGrows
<1>9. connected
    BY <1>3, <1>4, ReflectorAssumption DEF ReflectorInv, OneCall, Peers
\* The two ways to leave.
<1>10. /\ xhr' \in [Xhrs -> Requests]
       /\ \A y \in Xhrs : y # x =>
             \/ xhr'[y].kind = "none" /\ xhr'[y].state = "free" /\ xhr[y].state = "done" /\ y # req
             \/ xhr'[y] = xhr[y]
       /\ \/ reqGet' = 0 /\ timers' = 1 /\ xhr'[x].kind = "none" /\ xhr'[x].state = "free"
          \/ /\ reqGet' = x /\ timers' = 0 /\ xhr'[x].kind = "wait" /\ xhr'[x].state = "done"
             /\ xhr'[x].pragma = xhr[x].pragma
    <2>. DEFINE refs == IF NextWait(x) THEN {req} ELSE {req, reqGet}
    <2>1. xhr' = Collect(Changed(x), refs)
        BY DEF NextWait, HandlerThrows
    <2>2. /\ Changed(x) \in [Xhrs -> Requests]
          /\ \A y \in Xhrs : y # x => Changed(x)[y] = xhr[y]
          /\ Changed(x)[x].kind = "wait" /\ Changed(x)[x].pragma = xhr[x].pragma
        BY <1>1, ChangedRequest
    <2>3. /\ xhr' \in [Xhrs -> Requests]
          /\ \A y \in Xhrs : xhr'[y] = IF Changed(x)[y].state = "done" /\ y \notin refs THEN Free
                                       ELSE Changed(x)[y]
        BY <2>1, <2>2, CollectForgets
    <2>4. req \in refs /\ x # req
        BY <1>1, <1>3, <1>5, Referred
    <2>5. CASE NextWait(x)
        <3>1. x \notin refs /\ reqGet' = 0 /\ timers' = 1
            BY <1>3, <2>4, <2>5 DEF NextWait
        <3>. QED
            BY <1>6, <2>2, <2>3, <2>4, <3>1 DEF Free
    <2>6. CASE ~NextWait(x)
        <3>1. x \in refs /\ reqGet' = x /\ timers' = 0
            BY <1>3, <1>5, <2>6 DEF HandlerThrows
        <3>. QED
            BY <1>6, <2>2, <2>3, <2>4, <3>1 DEF Free
    <2>. QED
        BY <2>5, <2>6
\* Nothing else of the page is a wait that is not aborted.
<1>11. \A y \in Xhrs : xhr[y].kind = "wait" /\ y # x => xhr[y].pragma # peerId /\ xhr[y].state \in {"cut", "gone"}
    BY <1>4, <1>5 DEF ReflectorInv, OneRequest
<1>12. TypeOK'
    <2>1. reqGet' \in 0..MaxXhrs /\ timers' \in Nat
        BY <1>10, PageAssumption DEF Xhrs
    <2>. QED
        BY <1>1, <1>8, <1>10, <2>1 DEF ReflectorInv, TypeOK
<1>13. OneRequest'
    <2>1. \A y \in Xhrs :
             /\ xhr'[y].kind = "none" <=> xhr'[y].state = "free"
             /\ xhr'[y].kind = "signIn" =>
                   y = req /\ xhr'[y].state \in {"sent", "replied", "headers", "done"}
             /\ xhr'[y].state \in {"sent", "held"} => xhr'[y].ok
        BY <1>10 DEF ReflectorInv, OneRequest
    <2>2. \A y \in Xhrs : xhr'[y].kind = "wait" =>
             /\ xhr[y].kind = "wait" /\ xhr'[y].pragma = xhr[y].pragma
             /\ y = x => reqGet' = x
             /\ y # x => xhr'[y] = xhr[y]
        BY <1>1, <1>10
    <2>3. \A y \in Xhrs : xhr'[y].kind = "wait" =>
                /\ xhr'[y].pragma \in 1..(nextPeer - 1)
                /\ xhr'[y].pragma = peerId => y = reqGet'
                /\ devices /\ xhr'[y].state \notin {"cut", "gone"} => y = reqGet'
        BY <1>11, <2>2 DEF ReflectorInv, OneRequest
    <2>4. \A y, z \in Xhrs :
             xhr'[y].kind = "wait" /\ xhr'[z].kind = "wait" /\ xhr'[y].pragma = xhr'[z].pragma => y = z
        BY <2>2 DEF ReflectorInv, OneRequest
    <2>5. req # 0 => xhr'[req].kind = "signIn"
        BY <1>1, <1>10, Referred
    <2>6. reqGet' # 0 =>
             /\ xhr'[reqGet'].kind = "wait"
             /\ xhr'[reqGet'].pragma = peerId
             /\ xhr'[reqGet'].state \notin {"cut", "gone"}
             /\ timers' = 0
        BY <1>3, <1>5, <1>10 DEF ReflectorInv, OneRequest
    <2>. QED
        BY <1>1, <2>1, <2>3, <2>4, <2>5, <2>6 DEF OneRequest
<1>14. OneCall'
    <2>1. Pending("signIn") = {} => Pending("signIn")' = {}
        BY <1>1, <1>10 DEF Pending
    <2>. QED
        BY <1>1, <1>9, <1>10, <2>1 DEF ReflectorInv, OneCall
<1>15. OneNegotiates' /\ NothingSaid' /\ OneOffer'
    BY <1>1, <1>4 DEF ReflectorInv, OneNegotiates, NothingSaid, OneOffer
<1>16. AnswerFitsOffer' /\ CandidatesFit'
    BY <1>1, <1>7 DEF ReflectorInv, AnswerFitsOffer, CandidatesFit, m
<1>17. NewSessions'
    <2>1. ASSUME NEW q \in Peers, Untouched(q) PROVE Untouched(q)'
        <3>1. \A i \in DOMAIN received' : received'[i].from # q
            BY <1>7, <1>8, <2>1 DEF Untouched
        <3>2. \A y \in Xhrs : xhr'[y].kind = "wait" => xhr[y].kind = "wait" /\ xhr'[y].pragma = xhr[y].pragma
            BY <1>1, <1>10
        <3>. QED
            BY <1>1, <2>1, <3>1, <3>2 DEF Untouched
    <2>2. \A y \in Xhrs, q \in 0..MaxPeers : Granted(y, q)' => Granted(y, q)
        BY <1>10 DEF Granted
    <2>3. Peers \subseteq 0..MaxPeers /\ 0 \in 0..MaxPeers
        BY ReflectorAssumption DEF Peers
    <2>. QED
        BY <1>1, <2>1, <2>2, <2>3 DEF ReflectorInv, NewSessions
<1>18. WaitsParked'
    <2>1. session[peerId].m_clientSocket # Broken
        BY <1>3, <1>5, <1>6 DEF ReflectorInv, WaitsParked
    <2>2. \A q \in Peers : session[q].m_clientSocket # x
        BY <1>6 DEF ReflectorInv, WaitsParked
    <2>3. \A y \in Xhrs : y # x /\ xhr[y].state \in {"held", "gone"} => xhr'[y] = xhr[y]
        BY <1>10
    <2>. QED
        BY <1>1, <2>1, <2>2, <2>3 DEF ReflectorInv, WaitsParked
<1>19. Delivery'
    BY <1>1, <1>3, <1>7, <1>8, <1>10 DEF ReflectorInv, Delivery
<1>20. NoGap'
    <2>1. SUFFICES ASSUME NEW i \in DOMAIN received'
                   PROVE  received'[i].number =
                             Cardinality({j \in 1..i : received'[j].from = received'[i].from})
        BY DEF NoGap
    <2>2. CASE i \in DOMAIN received /\ received'[i] = received[i]
        <3>1. \A j \in 1..i : received'[j] = received[j]
            <4>1. received \in Seq(Messages) /\ Len(received) \in Nat /\ i \in 1..Len(received)
                BY <2>2 DEF ReflectorInv, TypeOK
            <4>. QED
                BY <1>7, <4>1 DEF m
        <3>2. {j \in 1..i : received'[j].from = received'[i].from}
                = {j \in 1..i : received[j].from = received[i].from}
            BY <2>2, <3>1
        <3>. QED
            BY <2>2, <3>2 DEF ReflectorInv, NoGap
    <2>3. CASE i = Len(received) + 1 /\ received'[i] = m
        <3>1. DOMAIN received' = 1..i
            BY <1>7, <2>3 DEF ReflectorInv, TypeOK, m
        <3>2. {j \in 1..i : received'[j].from = received'[i].from}
                = {j \in DOMAIN received' : received'[j].from = peerId'}
            BY <1>1, <1>7, <2>3, <3>1
        <3>. QED
            BY <1>7, <1>8, <2>3, <3>2 DEF Taken
    <2>. QED
        BY <1>8, <2>2, <2>3
<1>. QED
    BY <1>12, <1>13, <1>14, <1>15, <1>16, <1>17, <1>18, <1>19, <1>20 DEF ReflectorInv


LEMMA WaitSdpInv ==
    ASSUME ReflectorInv, NEW x \in Xhrs, WaitSdp(x), UNCHANGED serverVars
    PROVE  ReflectorInv'
<1>1. /\ xhr \in [Xhrs -> Requests] /\ pc \in [Calls -> PcStates] /\ peerConnection \in 0..MaxCalls
      /\ reqGet \in Xhrs
    BY Referred DEF ReflectorInv, TypeOK, WaitSdp, Succeeded
<1>2. Received.of \in SUBSET Calls
    BY <1>1 DEF Received, Requests, Messages
<1>. DEFINE c == [pc[peerConnection] EXCEPT !.remote = @ \cup Received.of]
<1>3. pc' = pc \/ (peerConnection \in Calls /\ pc' = [pc EXCEPT ![peerConnection] = c])
    BY <1>1, PageAssumption DEF WaitSdp, Calls
<1>4. peerConnection \in Calls =>
         /\ c \in PcStates /\ c.remote = pc[peerConnection].remote \cup Received.of
         /\ c.creating = pc[peerConnection].creating /\ c.gathering = pc[peerConnection].gathering
         /\ c.closed = pc[peerConnection].closed /\ c.given = pc[peerConnection].given
    BY <1>1, <1>2 DEF PcStates
<1>. HIDE DEF c
<1>5. /\ pc' \in [Calls -> PcStates]
      /\ \A k \in Calls : pc'[k] = pc[k] \/ (k = peerConnection /\ pc'[k] = c)
    BY <1>1, <1>3, <1>4
<1>. QED
    BY <1>4, <1>5, TakesMessage DEF WaitSdp

LEMMA WaitIceInv ==
    ASSUME ReflectorInv, NEW x \in Xhrs, WaitIce(x), UNCHANGED serverVars
    PROVE  ReflectorInv'
<1>1. /\ xhr \in [Xhrs -> Requests] /\ pc \in [Calls -> PcStates] /\ peerConnection \in 0..MaxCalls
      /\ reqGet \in Xhrs
    BY Referred DEF ReflectorInv, TypeOK, WaitIce, Succeeded
<1>2. Received.of \in SUBSET Calls
    BY <1>1 DEF Received, Requests, Messages
<1>. DEFINE c == [pc[peerConnection] EXCEPT !.given = @ \cup Received.of]
<1>3. pc' = pc \/ (peerConnection \in Calls /\ pc' = [pc EXCEPT ![peerConnection] = c])
    BY <1>1, PageAssumption DEF WaitIce, Calls
<1>4. peerConnection \in Calls =>
         /\ c \in PcStates /\ c.given = pc[peerConnection].given \cup Received.of
         /\ c.creating = pc[peerConnection].creating /\ c.gathering = pc[peerConnection].gathering
         /\ c.closed = pc[peerConnection].closed /\ c.remote = pc[peerConnection].remote
    BY <1>1, <1>2 DEF PcStates
<1>. HIDE DEF c
<1>5. /\ pc' \in [Calls -> PcStates]
      /\ \A k \in Calls : pc'[k] = pc[k] \/ (k = peerConnection /\ pc'[k] = c)
    BY <1>1, <1>3, <1>4
<1>. QED
    BY <1>4, <1>5, TakesMessage DEF WaitIce

-----------------------------------------------------------------------------
(***************************************************************************)
(* The theorems.                                                           *)
(***************************************************************************)
LEMMA ReflectorInit == Init => ReflectorInv
<1>. SUFFICES ASSUME Init PROVE ReflectorInv
    OBVIOUS
<1>. USE DEF Init, PageInit
<1>1. /\ \A p \in Peers : session[p] = Unborn
      /\ \A x \in Xhrs : xhr[x] = Free
      /\ \A k \in Calls : pc[k] = NewPc
    OBVIOUS
<1>2. TypeOK
    <2>1. /\ 0 \in 0..MaxPeers /\ 0 \in 0..MaxCalls /\ 0 \in 0..MaxXhrs /\ 0 \in Nat
          /\ 1 \in 1..(MaxPeers + 1)
        BY PageAssumption, ReflectorAssumption
    <2>2. /\ xhr \in [Xhrs -> Requests] /\ pc \in [Calls -> PcStates]
          /\ session \in [Peers -> Sessions]
        BY FreeTyped, NewPcTyped, UnbornTyped
    <2>3. posts \in Seq([to : 0..MaxPeers, body : Bodies]) /\ received \in Seq(Messages)
        OBVIOUS
    <2>4. connected \in BOOLEAN /\ devices \in BOOLEAN /\ closeWait \in BOOLEAN /\ crashed \in BOOLEAN
        OBVIOUS
    <2>5. peerId = 0 /\ nextPeer = 1 /\ peerConnection = 0 /\ calls = 0 /\ iceCandidateMsg = {}
          /\ req = 0 /\ reqGet = 0 /\ timers = 0 /\ mediaCalls = 0
        OBVIOUS
    <2>. HIDE DEF Init, PageInit
    <2>. QED
        BY <2>1, <2>2, <2>3, <2>4, <2>5 DEF TypeOK
<1>3. OneRequest /\ OneCall /\ OneNegotiates
    BY <1>1 DEF OneRequest, OneCall, OneNegotiates, Pending, Free, NewPc
<1>4. NothingSaid /\ NewSessions
    BY <1>1 DEF NothingSaid, NewSessions, Granted, Untouched, Quiet, Blank, Unborn, Free, NewPc
<1>5. WaitsParked
    BY <1>1, BrokenNoXhr DEF WaitsParked, Unborn, Broken
<1>6. OneOffer
    <2>1. 0 \in 0..MaxCalls /\ 0 \notin Peers
        BY PageAssumption, ReflectorAssumption DEF Peers
    <2>2. About(Unborn, 0)
        BY DEF About, Unborn
    <2>. QED
        BY <1>1, <2>1, <2>2 DEF OneOffer
<1>7. Delivery
    BY <1>1 DEF Delivery, Numbered, Sent, Unborn
<1>8. AnswerFitsOffer /\ CandidatesFit /\ NoGap
    BY <1>1 DEF AnswerFitsOffer, CandidatesFit, NoGap, NewPc, Unborn
<1>. QED
    BY <1>2, <1>3, <1>4, <1>5, <1>6, <1>7, <1>8 DEF ReflectorInv

LEMMA StutterInv ==
    ASSUME ReflectorInv, UNCHANGED vars
    PROVE  ReflectorInv'
<1>1. UNCHANGED <<connected, devices, peerId, peerConnection, calls, req, reqGet, timers, xhr,
                  received, serverVars, mediaCalls, pc, iceCandidateMsg, posts>>
    BY DEF vars, pageVars, uiVars, mediaVars, callVars
<1>2. mediaCalls \in Nat /\ pc \in [Calls -> PcStates] /\ iceCandidateMsg \in SUBSET Calls
    BY DEF ReflectorInv, TypeOK
<1>3. OneNegotiates'
    BY <1>1 DEF ReflectorInv, OneNegotiates
<1>. QED
    BY <1>1, <1>2, <1>3, PageStep

LEMMA ReflectorNext ==
    ASSUME ~Impatient, ReflectorInv, [Next]_vars
    PROVE  ReflectorInv'
<1>1. CASE UserNext
    BY <1>1, StartRecordingInv, StopThrowsInv, StopRecordingInv DEF UserNext
<1>2. CASE BrowserNext
    <2>1. ASSUME NEW x \in Xhrs, SignInIgnored(x) \/ SignedIn(x) \/ WaitIgnored(x) \/ WaitSdp(x) \/ WaitIce(x)
          PROVE  ReflectorInv'
        BY <1>2, <2>1, IgnoredInv, SignedInInv, WaitSdpInv, WaitIceInv DEF BrowserNext
    <2>2. ASSUME NEW k \in Calls, OfferCreated(k) \/ OnIceGatheringStateChange(k)
          PROVE  ReflectorInv'
        BY <1>2, <2>2, OfferCreatedInv, OnIceGatheringStateChangeInv DEF BrowserNext
    <2>3. ASSUME WaitOn \/ GotMedia \/ MediaFails PROVE ReflectorInv'
        BY <1>2, <2>3, WaitOnInv, MediaInv DEF BrowserNext
    <2>. QED
        BY <1>2, <2>1, <2>2, <2>3 DEF BrowserNext, BrowserStep
<1>3. CASE CandidateNext
    BY <1>3, OnIceCandidateInv DEF CandidateNext
<1>4. CASE ServerNext
    <2>1. ASSUME NEW x \in Xhrs, SignIn(x) \/ Wait(x) \/ WaitUnknown(x) PROVE ReflectorInv'
        BY <2>1, SignInInv, WaitInv, WaitUnknownInv
    <2>2. ASSUME NEW i \in 1..Len(posts), Message(i) PROVE ReflectorInv'
        BY <2>2, MessageInv
    <2>3. ASSUME NEW p \in Peers, HandleSdp(p) \/ HandleIce(p) \/ OnSuccess(p) \/ OnFailure(p)
          PROVE  ReflectorInv'
        BY <2>3, HandleSdpInv, HandleIceInv, OnSuccessInv, OnFailureInv
    <2>4. ASSUME NEW p \in Peers, ServerGathered(p) \/ SendMessage(p) PROVE ReflectorInv'
        BY <2>4, ServerGatheredInv, SendMessageInv
    <2>. QED
        BY <1>4, <2>1, <2>2, <2>3, <2>4 DEF ServerNext
<1>5. CASE Environment
    <2>1. ASSUME NEW p \in Peers, ServerCandidate(p) \/ End(p) \/ Delete(p) PROVE ReflectorInv'
        BY <2>1, ServerCandidateInv, EndInv, DeleteInv
    <2>2. ASSUME NEW x \in Xhrs, Break(x) PROVE ReflectorInv'
        BY <2>2, BreakInv
    <2>3. ASSUME NEW i \in 1..Len(posts), Lose(i) PROVE ReflectorInv'
        BY <2>3, LoseInv
    <2>. QED
        BY <1>5, <2>1, <2>2, <2>3 DEF Environment
<1>6. CASE UNCHANGED vars
    BY <1>6, StutterInv
<1>. QED
    BY <1>1, <1>2, <1>3, <1>4, <1>5, <1>6 DEF Next

\* With a patient user the page's global variables are what its handlers take
\* them for, whatever the network loses and however often the user connects:
\* at most one wait and one sign-in are not over, only the current peer
\* connection negotiates, a session is about one peer connection, and the page
\* has taken every message that was sent before the one it waits for.
THEOREM ReflectorInvariant == ASSUME ~Impatient PROVE Spec => []ReflectorInv
<1>1. ReflectorInv /\ [Next]_vars => ReflectorInv'
    BY ReflectorNext
<1>. QED
    BY <1>1, ReflectorInit, PTL DEF Spec

\* A peer connection of the page gets no answer but the one to its own offer.
THEOREM AnswersFitOffers == ASSUME ~Impatient PROVE Spec => []AnswerFitsOffer
<1>1. ReflectorInv => AnswerFitsOffer
    BY DEF ReflectorInv
<1>. QED
    BY <1>1, ReflectorInvariant, PTL

\* Neither side is given the candidates of another peer connection than the one
\* it negotiates with.
THEOREM CandidatesFitOffers == ASSUME ~Impatient PROVE Spec => []CandidatesFit
<1>1. ReflectorInv => CandidatesFit
    BY DEF ReflectorInv
<1>. QED
    BY <1>1, ReflectorInvariant, PTL

\* The page has taken the first messages of every session, in order.
THEOREM NoGaps == ASSUME ~Impatient PROVE Spec => []NoGap
<1>1. ReflectorInv => NoGap
    BY DEF ReflectorInv
<1>. QED
    BY <1>1, ReflectorInvariant, PTL

\* A step of the server that parks a wait finds no other request there that the
\* page waits for; every other step leaves the socket, takes it or breaks it.
LEMMA SocketKept ==
    ASSUME ReflectorInv, Next, NEW p \in Peers
    PROVE  LET x == session[p].m_clientSocket IN
           x \in Xhrs /\ xhr[x].state = "held" => session'[p].m_clientSocket \in {x, 0, Broken}
<1>. DEFINE x == session[p].m_clientSocket
            Kept == session'[p].m_clientSocket \in {x, 0, Broken}
<1>. SUFFICES ASSUME x \in Xhrs PROVE Kept
    OBVIOUS
<1>1. session \in [Peers -> Sessions]
    BY DEF ReflectorInv, TypeOK
<1>2. ASSUME session' = session PROVE Kept
    BY <1>2
<1>3. ASSUME NEW q \in Peers, NEW s, Thread(q, s), s.m_clientSocket = session[q].m_clientSocket
      PROVE  Kept
    BY <1>1, <1>3 DEF Thread
<1>4. CASE UserNext \/ BrowserNext \/ CandidateNext
    BY <1>2, <1>4 DEF UserNext, BrowserNext, CandidateNext, serverVars
<1>5. ASSUME NEW y \in Xhrs, SignIn(y) PROVE Kept
    BY <1>1, <1>5 DEF SignIn, Sessions
<1>6. ASSUME NEW y \in Xhrs, Wait(y) PROVE Kept
    <2>1. xhr[y].pragma \in Peers /\ Arrived(y, "wait")
        BY <1>6 DEF Wait, Listed
    <2>2. xhr[y].pragma # p
        BY <2>1, NoOtherWait, BrokenNoXhr
    <2>. QED
        BY <1>1, <1>6, <2>2 DEF Wait
<1>7. ASSUME NEW y \in Xhrs, WaitUnknown(y) PROVE Kept
    BY <1>2, <1>7 DEF WaitUnknown, serverVars
<1>8. ASSUME NEW i \in 1..Len(posts), Message(i) PROVE Kept
    BY <1>1, <1>8 DEF Message, Sessions
<1>9. ASSUME NEW i \in 1..Len(posts), Lose(i) PROVE Kept
    BY <1>2, <1>9 DEF Lose, serverVars
<1>10. ASSUME NEW q \in Peers,
              HandleSdp(q) \/ HandleIce(q) \/ OnSuccess(q) \/ OnFailure(q) \/ ServerGathered(q)
              \/ ServerCandidate(q) \/ End(q)
       PROVE  Kept
    <2>. DEFINE Leaves(s) == Thread(q, s) /\ s.m_clientSocket = session[q].m_clientSocket
    <2>1. session[q] \in Sessions
        BY <1>1
    <2>2. CASE HandleSdp(q)
        <3>1. PICK k, phase : Leaves([session[q] EXCEPT !.m_queue = Tail(@),
                                         !.offer = IF phase = "missing" THEN 0 ELSE k,
                                         !.phase = phase, !.added = {}])
            BY <2>1, <2>2 DEF HandleSdp, Sessions
        <3>. QED
            BY <3>1, <1>3
    <2>3. CASE HandleIce(q)
        <3>. DEFINE cands == Head(session[q].m_queue).of
                    s == IF session[q].offer = 0
                         THEN [session[q] EXCEPT !.m_queue = Tail(@), !.m_remoteIceCandidateMsg = cands]
                         ELSE [session[q] EXCEPT !.m_queue = Tail(@),
                                 !.added = IF session[q].phase = "refused" THEN @ ELSE @ \cup cands]
        <3>1. Thread(q, s)
            BY <2>3 DEF HandleIce
        <3>2. s.m_clientSocket = session[q].m_clientSocket
            BY <2>1 DEF Sessions
        <3>. QED
            BY <3>1, <3>2, <1>3
    <2>4. CASE OnSuccess(q)
        <3>. DEFINE t == [session[q] EXCEPT !.phase = "answered",
                             !.added = @ \cup session[q].m_remoteIceCandidateMsg]
        <3>1. Leaves(Queue(t, "SDP", {session[q].offer}, q))
            BY <2>1, <2>4 DEF OnSuccess, Queue, Sessions
        <3>. QED
            BY <3>1, <1>3
    <2>5. CASE ServerGathered(q)
        <3>. DEFINE t == [session[q] EXCEPT !.phase = "complete"]
        <3>1. Leaves(Queue(t, "ICE", session[q].m_iceCandidateMsg, q))
            BY <2>1, <2>5 DEF ServerGathered, Queue, Sessions
        <3>. QED
            BY <3>1, <1>3
    <2>6. CASE OnFailure(q)
        <3>1. Leaves([session[q] EXCEPT !.phase = "failed"])
            BY <2>1, <2>6 DEF OnFailure, Sessions
        <3>. QED
            BY <3>1, <1>3
    <2>7. CASE ServerCandidate(q)
        <3>1. Leaves([session[q] EXCEPT !.m_iceCandidateMsg = @ \cup {session[q].offer}])
            BY <2>1, <2>7 DEF ServerCandidate, Sessions
        <3>. QED
            BY <3>1, <1>3
    <2>8. CASE End(q)
        <3>1. Leaves([Unborn EXCEPT !.life = "ended", !.m_queue = session[q].m_queue,
                                    !.m_clientSocket = session[q].m_clientSocket])
            BY <2>1, <2>8 DEF End, Unborn
        <3>. QED
            BY <3>1, <1>3
    <2>. QED
        BY <1>10, <2>2, <2>3, <2>4, <2>5, <2>6, <2>7, <2>8
<1>11. ASSUME NEW q \in Peers, SendMessage(q) PROVE Kept
    BY <1>1, <1>11 DEF SendMessage, Sessions
<1>12. ASSUME NEW q \in Peers, Delete(q) PROVE Kept
    BY <1>1, <1>12 DEF Delete, Unborn
<1>13. ASSUME NEW y \in Xhrs, Break(y) PROVE Kept
    BY <1>1, <1>13 DEF Break, Sessions
<1>. HIDE DEF Kept
<1>14. CASE ServerNext
    BY <1>14, <1>5, <1>6, <1>7, <1>8, <1>10, <1>11 DEF ServerNext
<1>15. CASE Environment
    BY <1>15, <1>9, <1>10, <1>12, <1>13 DEF Environment
<1>. QED
    BY <1>4, <1>14, <1>15 DEF Next

\* setOutboundSocket overwrites no parked wait that the page still waits for:
\* such a wait is answered, or its connection breaks, or it stays.
THEOREM WaitsNotOverwritten == ASSUME ~Impatient PROVE Spec => WaitNotOverwritten
<1>1. ReflectorInv /\ [Next]_vars =>
         [\A p \in Peers :
             LET x == session[p].m_clientSocket IN
             x \in Xhrs /\ xhr[x].state = "held" =>
                session'[p].m_clientSocket \in {x, 0, Broken}]_vars
    BY SocketKept
<1>. QED
    BY <1>1, ReflectorInvariant, PTL DEF Spec, WaitNotOverwritten
=============================================================================
