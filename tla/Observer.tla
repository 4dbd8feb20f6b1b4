------------------------------ MODULE Observer ------------------------------
(***************************************************************************)
(* Class Observer (observer.cpp): the WebRTC side of one connection.  It   *)
(* takes the browser's signaling messages from Run(), drives one libwebrtc *)
(* peer connection at a time, and queues the messages for the browser.     *)
(* Everything here happens on the connection's thread, which is also the   *)
(* signaling thread of its peer connections: inside onSignalingMessage,    *)
(* inside the callbacks that ProcessMessages delivers, and in Run()'s call *)
(* of getSignalingMessage.                                                 *)
(*                                                                         *)
(* The browser posts its offer and its candidates in requests of their     *)
(* own, so they arrive in either order, and a browser whose user was quick *)
(* may send a second offer under the same peer id.  An SDP is abstracted   *)
(* to its streams, a stream to the kinds of its tracks, and a message with *)
(* candidates to its number.  A message that cannot be parsed, and an SDP  *)
(* for which there is no factory, change nothing and are left out.         *)
(* libwebrtc is external: it takes or refuses a description, reports its   *)
(* streams, takes or refuses tracks and streams to send, answers or fails  *)
(* a CreateAnswer later, and gathers candidates once it has a local        *)
(* description.  A pending CreateAnswer of a peer connection that is       *)
(* replaced ends with it, one way or the other.                            *)
(***************************************************************************)
EXTENDS Naturals, Sequences

CONSTANTS MaxOffers,  \* bound: SDP messages
          MaxIce      \* bound: ICE messages

ASSUME ObserverAssumption == MaxOffers \in Nat /\ MaxIce \in Nat

Kinds == {"audio", "video"}
Streams == SUBSET Kinds \ {{}}
Offers == 1..MaxOffers

\* Tracks, as offered by the browser or sent back: whose offer, and which kind.
Tracks == Offers \X Kinds

VARIABLES
    step,                     \* "idle", or "type": in onSignalingMessage, before type() is read
    streams,                  \* the remote streams SetRemoteDescription has still to report
    m_peer_connection_,       \* 0: nullptr, k: the one created for the k-th SDP message
    session_description,      \* "none", "live", "freed"
    remote, local,            \* the peer connection's descriptions: set or not
    sending,                  \* the tracks it sends
    added,                    \* the ICE messages whose candidates it was given
    gathering,                \* "new", "gathering", "complete"
    answering,                \* a CreateAnswer is pending
    m_localStream,            \* the tracks of the last stream that was made
    m_iceCandidateMsg,        \* the peer connections whose candidates it lists
    m_remoteIceCandidateMsg,  \* the ICE message kept for later, or 0
    m_msgQueue,               \* messages for the browser
    offered,                  \* ghost: the streams of each SDP message so far
    reported,                 \* ghost: the offers for which OnAddStream logged a failure
    ices,                     \* ghost: m_peer_connection_ when each ICE message came
    out                       \* ghost: all messages ever queued, kind and offer

pcVars == <<m_peer_connection_, remote, local, sending, added, gathering>>
streamVars == <<streams, m_localStream, reported>>
queueVars == <<m_msgQueue, out>>
vars == <<step, session_description, pcVars, streamVars, answering, m_iceCandidateMsg,
          m_remoteIceCandidateMsg, queueVars, offered, ices>>

SdpMessages == [kind : {"SDP"}, of : Offers, tracks : SUBSET Tracks, cands : {{}}]
IceMessages == [kind : {"ICE"}, of : Offers, tracks : {{}}, cands : SUBSET Offers]
Signals == SdpMessages \cup IceMessages

TypeOK ==
    /\ step \in {"idle", "type"}
    /\ streams \subseteq Streams
    /\ m_peer_connection_ \in 0..MaxOffers
    /\ session_description \in {"none", "live", "freed"}
    /\ remote \in BOOLEAN
    /\ local \in BOOLEAN
    /\ sending \subseteq Tracks
    /\ added \subseteq 1..MaxIce
    /\ gathering \in {"new", "gathering", "complete"}
    /\ answering \in BOOLEAN
    /\ m_localStream \subseteq Tracks
    /\ m_iceCandidateMsg \subseteq Offers
    /\ m_remoteIceCandidateMsg \in 0..MaxIce
    /\ m_msgQueue \in Seq(Signals)
    /\ offered \in Seq(SUBSET Streams)
    /\ reported \subseteq Offers
    /\ ices \in Seq(0..MaxOffers)
    /\ out \in Seq({"SDP", "ICE"} \X Offers)

Init ==
    /\ step = "idle"
    /\ streams = {}
    /\ m_peer_connection_ = 0
    /\ session_description = "none"
    /\ remote = FALSE
    /\ local = FALSE
    /\ sending = {}
    /\ added = {}
    /\ gathering = "new"
    /\ answering = FALSE
    /\ m_localStream = {}
    /\ m_iceCandidateMsg = {}
    /\ m_remoteIceCandidateMsg = 0
    /\ m_msgQueue = <<>>
    /\ offered = <<>>
    /\ reported = {}
    /\ ices = <<>>
    /\ out = <<>>

-----------------------------------------------------------------------------
(***************************************************************************)
(* Helpers.                                                                *)
(***************************************************************************)

sendSignalingMessage(message) ==
    /\ m_msgQueue' = Append(m_msgQueue, message)
    /\ out' = Append(out, <<message.kind, message.of>>)

Answer == [kind |-> "SDP", of |-> m_peer_connection_, tracks |-> sending, cands |-> {}]

IceMessage == [kind |-> "ICE", of |-> m_peer_connection_, tracks |-> {}, cands |-> m_iceCandidateMsg]

\* addIceCandidate for every candidate of message n, or for none: libwebrtc
\* refuses them while there is no remote description.
addIceCandidates(n) ==
    added' = IF remote /\ n # 0 THEN added \cup {n} ELSE added

\* Mutant: a peer connection is created only once.
initPeerConnectionOnce(k) ==
    /\ m_peer_connection_' = IF m_peer_connection_ = 0 THEN k ELSE m_peer_connection_
    /\ local' = FALSE
    /\ sending' = {}
    /\ added' = {}
    /\ gathering' = "new"
    /\ answering' = FALSE
    /\ UNCHANGED queueVars

\* initPeerConnection assigns m_peer_connection_: k is new, or nullptr if
\* libwebrtc did not create one, and then the old one is released.  Its
\* pending answer fails, or OnSuccess is still called for it: that queues the
\* answer, and the new peer connection, which has no remote description, takes
\* neither it nor the kept candidates.
initPeerConnection(k) ==
    /\ m_peer_connection_' = k
    /\ local' = FALSE
    /\ sending' = {}
    /\ added' = {}
    /\ gathering' = "new"
    /\ answering' = FALSE
    /\ \/ UNCHANGED queueVars
       \/ k # 0 /\ answering /\ remote /\ sendSignalingMessage(Answer)

-----------------------------------------------------------------------------
(***************************************************************************)
(* onSignalingMessage.                                                     *)
(***************************************************************************)

ReceiveSdp(remoteStreams) ==
    /\ step = "idle"
    /\ Len(offered) < MaxOffers
    /\ offered' = Append(offered, remoteStreams)
    /\ UNCHANGED <<m_localStream, reported, m_iceCandidateMsg, m_remoteIceCandidateMsg, ices>>

\* No peer connection: m_peer_connection_ is nullptr from now on.
SdpWithoutPeerConnection(remoteStreams) ==
    /\ ReceiveSdp(remoteStreams)
    /\ initPeerConnection(0)
    /\ remote' = FALSE
    /\ UNCHANGED <<step, session_description, streams>>

\* SetRemoteDescription takes the offer.  Before it returns it calls
\* OnAddStream for each of its streams.
SdpTaken(remoteStreams) ==
    /\ ReceiveSdp(remoteStreams)
    /\ initPeerConnection(Len(offered) + 1)
    /\ remote' = TRUE
    /\ streams' = remoteStreams
    /\ session_description' = "live"
    /\ step' = "type"

\* SetRemoteDescription refuses the description, and deletes it.
SdpRefused(remoteStreams) ==
    /\ ReceiveSdp(remoteStreams)
    /\ initPeerConnection(Len(offered) + 1)
    /\ remote' = FALSE
    /\ session_description' = "freed"
    /\ step' = "type"
    /\ UNCHANGED streams

\* Mutant: the local stream is made once, and used for every remote stream.
OnAddStreamReusing(stream) ==
    /\ step = "type"
    /\ stream \in streams
    /\ streams' = streams \ {stream}
    /\ \E kept \in SUBSET stream, ok \in BOOLEAN :
          /\ m_localStream' = m_localStream \cup {m_peer_connection_} \X kept
          /\ sending' = IF ok THEN sending \cup m_localStream' ELSE sending
          /\ reported' = IF ok /\ kept = stream THEN reported ELSE reported \cup {m_peer_connection_}
    /\ UNCHANGED <<step, session_description, m_peer_connection_, remote, local, added, gathering,
                   answering, m_iceCandidateMsg, m_remoteIceCandidateMsg, queueVars, offered, ices>>

\* OnAddStream: the first track of each kind is put on a new local stream, and
\* that is added to the peer connection.  What AddTrack or AddStream refuses is
\* logged, and the answer goes out without it.
OnAddStream(stream) ==
    /\ step = "type"
    /\ stream \in streams
    /\ streams' = streams \ {stream}
    /\ \E kept \in SUBSET stream, ok \in BOOLEAN :
          /\ m_localStream' = {m_peer_connection_} \X kept
          /\ sending' = IF ok THEN sending \cup m_localStream' ELSE sending
          /\ reported' = IF ok /\ kept = stream THEN reported ELSE reported \cup {m_peer_connection_}
    /\ UNCHANGED <<step, session_description, m_peer_connection_, remote, local, added, gathering,
                   answering, m_iceCandidateMsg, m_remoteIceCandidateMsg, queueVars, offered, ices>>

\* session_description->type() is kOffer: CreateAnswer.  The type of a freed
\* description may be read as anything.
TypeIsOffer ==
    /\ step = "type"
    /\ streams = {}
    /\ step' = "idle"
    /\ session_description' = "none"
    /\ answering' = TRUE
    /\ UNCHANGED <<pcVars, streamVars, m_iceCandidateMsg, m_remoteIceCandidateMsg, queueVars,
                   offered, ices>>

TypeIsNoOffer ==
    /\ step = "type"
    /\ session_description = "freed"
    /\ step' = "idle"
    /\ session_description' = "none"
    /\ UNCHANGED <<pcVars, streamVars, answering, m_iceCandidateMsg, m_remoteIceCandidateMsg,
                   queueVars, offered, ices>>

ReceiveIce ==
    /\ step = "idle"
    /\ Len(ices) < MaxIce
    /\ ices' = Append(ices, m_peer_connection_)
    /\ UNCHANGED <<step, session_description, m_peer_connection_, remote, local, sending, gathering,
                   streamVars, answering, m_iceCandidateMsg, queueVars, offered>>

\* Mutant: candidates that come before the offer are dropped.
IceDropped ==
    /\ ReceiveIce
    /\ m_peer_connection_ = 0
    /\ UNCHANGED <<m_remoteIceCandidateMsg, added>>

\* There is no peer connection yet: the message is kept, in place of the one
\* that was kept before.
IceKept ==
    /\ ReceiveIce
    /\ m_peer_connection_ = 0
    /\ m_remoteIceCandidateMsg' = Len(ices) + 1
    /\ UNCHANGED added

IceAdded ==
    /\ ReceiveIce
    /\ m_peer_connection_ # 0
    /\ addIceCandidates(Len(ices) + 1)
    /\ UNCHANGED m_remoteIceCandidateMsg

-----------------------------------------------------------------------------
(***************************************************************************)
(* Callbacks, delivered in ProcessMessages.                                *)
(***************************************************************************)

\* OnSuccess: the answer is queued, then set as the local description, which
\* starts the gathering; the kept candidates are added.  Nothing clears them.
OnSuccess ==
    /\ step = "idle"
    /\ answering
    /\ remote
    /\ sendSignalingMessage(Answer)
    /\ answering' = FALSE
    /\ local' = TRUE
    /\ gathering' = "gathering"
    /\ addIceCandidates(m_remoteIceCandidateMsg)
    /\ UNCHANGED <<step, session_description, m_peer_connection_, remote, sending, streamVars,
                   m_iceCandidateMsg, m_remoteIceCandidateMsg, offered, ices>>

OnFailure ==
    /\ step = "idle"
    /\ answering
    /\ answering' = FALSE
    /\ UNCHANGED <<step, session_description, pcVars, streamVars, m_iceCandidateMsg,
                   m_remoteIceCandidateMsg, queueVars, offered, ices>>

\* OnIceCandidate: the candidate is added to the message, which nothing clears.
OnIceCandidate ==
    /\ step = "idle"
    /\ gathering = "gathering"
    /\ m_iceCandidateMsg' = m_iceCandidateMsg \cup {m_peer_connection_}
    /\ UNCHANGED <<step, session_description, pcVars, streamVars, answering,
                   m_remoteIceCandidateMsg, queueVars, offered, ices>>

\* Mutant: the message is queued at every change of the gathering state.
OnIceGatheringAnyChange ==
    /\ step = "idle"
    /\ gathering = "gathering"
    /\ sendSignalingMessage(IceMessage)
    /\ UNCHANGED <<step, session_description, pcVars, streamVars, answering, m_iceCandidateMsg,
                   m_remoteIceCandidateMsg, offered, ices>>

\* OnIceGatheringChange(kIceGatheringComplete): the message is queued, also
\* when it is empty.
OnIceGatheringChange ==
    /\ step = "idle"
    /\ gathering = "gathering"
    /\ gathering' = "complete"
    /\ sendSignalingMessage(IceMessage)
    /\ UNCHANGED <<step, session_description, m_peer_connection_, remote, local, sending, added,
                   streamVars, answering, m_iceCandidateMsg, m_remoteIceCandidateMsg, offered, ices>>

\* Run() fetches the oldest message.
getSignalingMessage ==
    /\ step = "idle"
    /\ m_msgQueue # <<>>
    /\ m_msgQueue' = Tail(m_msgQueue)
    /\ UNCHANGED <<step, session_description, pcVars, streamVars, answering, m_iceCandidateMsg,
                   m_remoteIceCandidateMsg, offered, ices, out>>

-----------------------------------------------------------------------------
Next ==
    \/ \E remoteStreams \in SUBSET Streams :
          \/ SdpWithoutPeerConnection(remoteStreams)
          \/ SdpTaken(remoteStreams)
          \/ SdpRefused(remoteStreams)
    \/ \E stream \in Streams : OnAddStream(stream)
    \/ TypeIsOffer
    \/ TypeIsNoOffer
    \/ IceKept
    \/ IceAdded
    \/ OnSuccess
    \/ OnFailure
    \/ OnIceCandidate
    \/ OnIceGatheringChange
    \/ getSignalingMessage

Spec == Init /\ [][Next]_vars

-----------------------------------------------------------------------------
\* The tracks of some streams of the k-th offer.
TracksOf(k, remoteStreams) == {k} \X UNION remoteStreams

\* README.md: the server sends the browser's audio and video tracks back.
\* m_localStream, and an answer that is pending, outlive the peer connection
\* they were made for.  Still every answer has only tracks of its own offer,
\* and a kind of track is missing only if OnAddStream has logged why.
AnswersReflect ==
    \A i \in 1..Len(m_msgQueue) :
       LET m == m_msgQueue[i] IN
       m.kind = "SDP" =>
          /\ m.tracks \subseteq TracksOf(m.of, offered[m.of])
          /\ m.of \notin reported => m.tracks = TracksOf(m.of, offered[m.of])

\* The i-th ICE message came when there was no peer connection.
Early(i) == ices[i] = 0

\* onSignalingMessage keeps one message for later: this one is lost because
\* another came before the offer.
Overwritten(i) == Early(i) /\ \E j \in (i + 1)..Len(ices) : Early(j)

\* A peer connection that has answered was given the candidates of every ICE
\* message of the session, before the offer or after it, before or after
\* OnSuccess, except those that came when it was not there yet: an older peer
\* connection got them, or they were kept and replaced by a later message.  The
\* page sends one such message per peer connection (index.html), so in a
\* session with one offer nothing is lost.
CandidatesApplied ==
    local =>
       \A i \in 1..Len(ices) :
          \/ i \in added
          \/ ices[i] \in 1..(m_peer_connection_ - 1)
          \/ Overwritten(i)

\* How far the negotiation of the last SDP message is.
Phase ==
    CASE step = "type" \/ answering -> "offered"
      [] step = "idle" /\ ~answering /\ gathering = "complete" -> "complete"
      [] step = "idle" /\ ~answering /\ gathering = "gathering" -> "answered"
      [] OTHER -> "none"
Dialog == INSTANCE Negotiation WITH offers <- Len(offered), phase <- Phase

\* The Observer talks to the browser as Negotiation says: per offer at most
\* one answer, and then at most one list of candidates, across the late
\* callbacks of libwebrtc and offers that replace each other.
ImplementsNegotiation == Dialog!Spec

-----------------------------------------------------------------------------
(***************************************************************************)
(* The invariant the proofs rest on: the fields of the Observer are about  *)
(* the peer connection of the last SDP message.                            *)
(***************************************************************************)
PcState ==
    /\ m_peer_connection_ # 0 => m_peer_connection_ = Len(offered)
    /\ remote \/ answering \/ step = "type" => m_peer_connection_ # 0
    /\ step = "type" => ~answering /\ ~local
    /\ answering => ~local
    /\ local => remote
    /\ session_description = "freed" => ~remote
    /\ local <=> gathering # "new"

\* It sends what was reported to OnAddStream so far.
StreamState ==
    /\ streams # {} => step = "type" /\ remote
    /\ reported \subseteq 1..Len(offered)
    /\ sending # {} => remote
    /\ remote =>
          /\ streams \subseteq offered[m_peer_connection_]
          /\ sending \subseteq TracksOf(m_peer_connection_, offered[m_peer_connection_])
          /\ m_peer_connection_ \notin reported =>
                sending = TracksOf(m_peer_connection_, offered[m_peer_connection_] \ streams)

\* The candidates that it was not given are kept, or lost.
IceState ==
    /\ \A i \in 1..Len(ices) :
          /\ ices[i] <= Len(offered)
          /\ remote /\ ices[i] = m_peer_connection_ => i \in added
          /\ Early(i) => i = m_remoteIceCandidateMsg \/ Overwritten(i)
    /\ local /\ m_remoteIceCandidateMsg # 0 => m_remoteIceCandidateMsg \in added

ObserverInv ==
    /\ TypeOK
    /\ PcState
    /\ StreamState
    /\ IceState
    /\ \A i \in 1..Len(m_msgQueue) : m_msgQueue[i].of <= Len(offered)
    /\ AnswersReflect
    /\ CandidatesApplied

\* peerconnectioninterface.h: SetRemoteDescription takes the ownership of the
\* description even if it fails.  onSignalingMessage does not read it any more
\* when libwebrtc has deleted it.
DescriptionAlive == step = "type" => session_description # "freed"
=============================================================================
