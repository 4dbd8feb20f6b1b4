--------------------------- MODULE ObserverProofs ---------------------------
(***************************************************************************)
(* For any number of offers and of ICE messages: every answer of the       *)
(* Observer reflects its own offer, a peer connection that answers has     *)
(* every candidate that could still be given to it, and the Observer keeps *)
(* to Negotiation.                                                         *)
(***************************************************************************)
EXTENDS Observer, SequenceTheorems, TLAPS

\* An answer with what AnswersReflect asks for.
Reflects(message) ==
    message.kind = "SDP" =>
       /\ message.tracks \subseteq TracksOf(message.of, offered[message.of])
       /\ message.of \notin reported => message.tracks = TracksOf(message.of, offered[message.of])

\* A message of the right form keeps the types of the queue and of its history.
LEMMA SendType ==
    ASSUME TypeOK, NEW message \in Signals, sendSignalingMessage(message)
    PROVE  /\ m_msgQueue' \in Seq(Signals)
           /\ out' \in Seq({"SDP", "ICE"} \X Offers)
<1>1. message.kind \in {"SDP", "ICE"} /\ message.of \in Offers
  BY DEF Signals, SdpMessages, IceMessages
<1> QED
  BY <1>1, AppendProperties DEF TypeOK, sendSignalingMessage

\* What AnswersReflect says holds of the queue after a message for which it
\* holds.
LEMMA SendReflects ==
    ASSUME ObserverInv, NEW message \in Signals, sendSignalingMessage(message),
           message.of <= Len(offered), Reflects(message)
    PROVE  \A i \in 1..Len(m_msgQueue') :
              m_msgQueue'[i].of <= Len(offered) /\ Reflects(m_msgQueue'[i])
<1>1. /\ Len(m_msgQueue) \in Nat
      /\ Len(m_msgQueue') = Len(m_msgQueue) + 1
      /\ \A i \in 1..Len(m_msgQueue) : m_msgQueue'[i] = m_msgQueue[i]
      /\ m_msgQueue'[Len(m_msgQueue) + 1] = message
  BY AppendProperties DEF sendSignalingMessage, ObserverInv, TypeOK
<1>2. \A i \in 1..Len(m_msgQueue) : m_msgQueue[i].of <= Len(offered) /\ Reflects(m_msgQueue[i])
  BY DEF ObserverInv, AnswersReflect, Reflects
<1>3. ASSUME NEW i \in 1..Len(m_msgQueue')
      PROVE  m_msgQueue'[i].of <= Len(offered) /\ Reflects(m_msgQueue'[i])
  <2>1. CASE i \in 1..Len(m_msgQueue)
    BY <1>1, <1>2, <2>1
  <2>2. CASE i = Len(m_msgQueue) + 1
    BY <1>1, <2>2
  <2> QED
    BY <1>1, <2>1, <2>2
<1> QED
  BY <1>3

\* The answer of a peer connection reflects the offer it was made for.
LEMMA AnswerReflects ==
    ASSUME ObserverInv, step = "idle", answering, remote
    PROVE  Answer \in Signals /\ Answer.of <= Len(offered) /\ Reflects(Answer)
<1>0. TypeOK /\ Len(offered) \in Nat
  BY DEF ObserverInv, TypeOK
<1>1. m_peer_connection_ \in Offers /\ m_peer_connection_ = Len(offered)
  BY <1>0, ObserverAssumption DEF ObserverInv, PcState, TypeOK, Offers
<1>2. Answer \in Signals
  BY <1>0, <1>1 DEF Answer, Signals, SdpMessages, TypeOK
<1>3. offered[m_peer_connection_] \ streams = offered[m_peer_connection_]
  BY DEF ObserverInv, StreamState
<1>4. Reflects(Answer)
  BY <1>3 DEF Reflects, Answer, ObserverInv, StreamState
<1> QED
  BY <1>0, <1>1, <1>2, <1>4 DEF Answer

\* The constructor establishes the invariant.
LEMMA InitInv == Init => ObserverInv
<1> SUFFICES ASSUME Init PROVE ObserverInv
  OBVIOUS
<1>1. 0 \in 0..MaxOffers /\ 0 \in 0..MaxIce
  BY ObserverAssumption
<1>2. TypeOK
  <2>1. /\ m_msgQueue \in Seq(Signals)
        /\ offered \in Seq(SUBSET Streams)
        /\ ices \in Seq(0..MaxOffers)
        /\ out \in Seq({"SDP", "ICE"} \X Offers)
    BY EmptySeq DEF Init
  <2> QED
    BY <1>1, <2>1 DEF Init, TypeOK
<1>3. 1..Len(m_msgQueue) = {} /\ 1..Len(ices) = {}
  BY DEF Init
<1>4. PcState /\ StreamState
  BY DEF Init, PcState, StreamState
<1>5. IceState /\ CandidatesApplied
  BY <1>3 DEF Init, IceState, CandidatesApplied
<1> QED
  BY <1>2, <1>3, <1>4, <1>5 DEF ObserverInv, AnswersReflect

\* An SDP message replaces the peer connection and all that was about it.
LEMMA StepSdp ==
    ASSUME ObserverInv, NEW remoteStreams \in SUBSET Streams,
           \/ SdpWithoutPeerConnection(remoteStreams)
           \/ SdpTaken(remoteStreams)
           \/ SdpRefused(remoteStreams)
    PROVE  ObserverInv'
<1>0. TypeOK /\ Len(offered) \in Nat
  BY DEF ObserverInv, TypeOK
<1>1. /\ Len(offered) < MaxOffers
      /\ offered' = Append(offered, remoteStreams)
      /\ UNCHANGED <<m_localStream, reported, m_iceCandidateMsg, m_remoteIceCandidateMsg, ices>>
      /\ step = "idle"
      /\ answering' = FALSE /\ sending' = {} /\ local' = FALSE /\ added' = {}
      /\ gathering' = "new"
      /\ \/ UNCHANGED <<m_msgQueue, out>>
         \/ answering /\ remote /\ sendSignalingMessage(Answer)
  BY DEF SdpWithoutPeerConnection, SdpTaken, SdpRefused, ReceiveSdp, initPeerConnection, queueVars
<1>2. /\ offered' \in Seq(SUBSET Streams)
      /\ Len(offered') = Len(offered) + 1
      /\ \A k \in 1..Len(offered) : offered'[k] = offered[k]
      /\ offered'[Len(offered) + 1] = remoteStreams
  BY <1>0, <1>1, AppendProperties DEF TypeOK
<1>3. Len(offered) + 1 \in 0..MaxOffers /\ 0 \in 0..MaxOffers
  BY <1>0, <1>1, ObserverAssumption
<1>4. m_msgQueue' \in Seq(Signals) /\ out' \in Seq({"SDP", "ICE"} \X Offers)
  BY <1>0, <1>1, AnswerReflects, SendType DEF TypeOK
<1>5. /\ m_peer_connection_' \in {0, Len(offered) + 1}
      /\ step' = "type" \/ remote' => m_peer_connection_' = Len(offered) + 1
      /\ remote' \in BOOLEAN /\ step' \in {"idle", "type"}
      /\ session_description' \in {"none", "live", "freed"}
      /\ remote' => session_description' = "live"
      /\ \/ step' = "type" /\ remote' = TRUE /\ streams' = remoteStreams
         \/ remote' = FALSE /\ streams' = streams
  BY <1>0, <1>1 DEF SdpWithoutPeerConnection, SdpTaken, SdpRefused, initPeerConnection, TypeOK
<1>6. streams = {}
  BY <1>1 DEF ObserverInv, StreamState
<1>7. TypeOK'
  BY <1>0, <1>1, <1>2, <1>3, <1>4, <1>5 DEF TypeOK
<1>8. PcState'
  BY <1>0, <1>1, <1>2, <1>5 DEF PcState
<1>9. StreamState'
  <2>1. reported' \subseteq 1..Len(offered')
    BY <1>0, <1>1, <1>2 DEF ObserverInv, StreamState
  <2>2. ASSUME remote'
        PROVE  /\ streams' \subseteq offered'[m_peer_connection_']
               /\ TracksOf(m_peer_connection_', offered'[m_peer_connection_'] \ streams') = {}
    <3>1. streams' = offered'[m_peer_connection_']
      BY <1>2, <1>5, <2>2
    <3>2. UNION (offered'[m_peer_connection_'] \ streams') = {}
      BY <3>1
    <3> QED
      BY <3>1, <3>2 DEF TracksOf
  <2>3. streams' # {} => step' = "type" /\ remote'
    BY <1>5, <1>6
  <2> QED
    BY <1>1, <2>1, <2>2, <2>3 DEF StreamState
<1>10. IceState'
  <2>1. ASSUME NEW i \in 1..Len(ices)
        PROVE  /\ ices[i] <= Len(offered')
               /\ remote' => ices[i] # m_peer_connection_'
               /\ Early(i) => i = m_remoteIceCandidateMsg \/ Overwritten(i)
    <3>1. ices[i] <= Len(offered)
      BY DEF ObserverInv, IceState
    <3>2. ices[i] \in Nat
      <4>1. ices \in Seq(0..MaxOffers)
        BY <1>0 DEF TypeOK
      <4>2. ices[i] \in 0..MaxOffers
        BY <4>1, ElementOfSeq
      <4> QED
        BY <4>2, ObserverAssumption
    <3>3. ices[i] <= Len(offered') /\ ices[i] # Len(offered) + 1
      BY <1>0, <1>2, <3>1, <3>2
    <3> QED
      BY <1>5, <3>3 DEF ObserverInv, IceState
  <2> QED
    BY <1>1, <2>1 DEF IceState, Early, Overwritten
<1>11. ASSUME NEW i \in 1..Len(m_msgQueue')
       PROVE  /\ m_msgQueue'[i].of <= Len(offered')
              /\ m_msgQueue'[i].kind = "SDP" =>
                    /\ m_msgQueue'[i].tracks
                          \subseteq TracksOf(m_msgQueue'[i].of, offered'[m_msgQueue'[i].of])
                    /\ m_msgQueue'[i].of \notin reported' =>
                          m_msgQueue'[i].tracks
                             = TracksOf(m_msgQueue'[i].of, offered'[m_msgQueue'[i].of])
  <2>1. m_msgQueue'[i].of <= Len(offered) /\ Reflects(m_msgQueue'[i])
    <3>1. CASE UNCHANGED <<m_msgQueue, out>>
      BY <3>1 DEF ObserverInv, AnswersReflect, Reflects
    <3>2. CASE answering /\ remote /\ sendSignalingMessage(Answer)
      BY <1>1, <3>2, AnswerReflects, SendReflects
    <3> QED
      BY <1>1, <3>1, <3>2
  <2>2. m_msgQueue'[i] \in Signals
    BY <1>4
  <2>3. m_msgQueue'[i].of \in 1..MaxOffers
    BY <2>2 DEF Signals, SdpMessages, IceMessages, Offers
  <2>4. m_msgQueue'[i].of \in 1..Len(offered)
    BY <1>0, <2>1, <2>3, ObserverAssumption
  <2> QED
    BY <1>0, <1>1, <1>2, <2>1, <2>4 DEF Reflects
<1> QED
  BY <1>1, <1>7, <1>8, <1>9, <1>10, <1>11
     DEF ObserverInv, AnswersReflect, CandidatesApplied

\* One more set in a union.
LEMMA UnionWith ==
    ASSUME NEW A, NEW b
    PROVE  UNION (A \cup {b}) = (UNION A) \cup b
<1>1. ASSUME NEW x PROVE x \in UNION (A \cup {b}) <=> x \in (UNION A) \cup b
  <2>1. x \in UNION (A \cup {b}) <=> \E S \in A \cup {b} : x \in S
    OBVIOUS
  <2>2. (\E S \in A \cup {b} : x \in S) <=> (\E S \in A : x \in S) \/ x \in b
    OBVIOUS
  <2> QED
    BY <2>1, <2>2
<1> QED
  BY <1>1

\* OnAddStream sends the stream back, or reports what it cannot send.
LEMMA StepOnAddStream ==
    ASSUME ObserverInv, NEW stream \in Streams, OnAddStream(stream)
    PROVE  ObserverInv'
<1>0. TypeOK /\ Len(offered) \in Nat
  BY DEF ObserverInv, TypeOK
<1>1. PICK kept \in SUBSET stream, ok \in BOOLEAN :
         /\ m_localStream' = {m_peer_connection_} \X kept
         /\ sending' = IF ok THEN sending \cup m_localStream' ELSE sending
         /\ reported' = IF ok /\ kept = stream THEN reported ELSE reported \cup {m_peer_connection_}
  BY DEF OnAddStream
<1>2. /\ stream \in streams /\ streams' = streams \ {stream}
      /\ UNCHANGED <<step, session_description, m_peer_connection_, remote, local, added, gathering,
                     answering, m_iceCandidateMsg, m_remoteIceCandidateMsg, m_msgQueue, out,
                     offered, ices>>
  BY DEF OnAddStream, queueVars
<1>3. /\ step = "type" /\ remote
      /\ m_peer_connection_ \in Offers /\ m_peer_connection_ = Len(offered)
      /\ stream \in offered[m_peer_connection_]
  BY <1>0, <1>2, ObserverAssumption DEF ObserverInv, PcState, StreamState, TypeOK, Offers
<1> DEFINE O == offered[m_peer_connection_]
<1>4. {m_peer_connection_} \X kept \subseteq {m_peer_connection_} \X UNION O
  BY <1>3
<1>5. {m_peer_connection_} \X kept \subseteq Tracks
  BY <1>1, <1>3 DEF Tracks, Streams
<1>6. TypeOK'
  BY <1>0, <1>1, <1>2, <1>3, <1>5 DEF TypeOK
<1>7. StreamState'
  <2>1. reported' \subseteq 1..Len(offered)
    BY <1>0, <1>1, <1>3 DEF ObserverInv, StreamState, Offers
  <2>2. sending' \subseteq TracksOf(m_peer_connection_, O)
    BY <1>1, <1>3, <1>4 DEF ObserverInv, StreamState, TracksOf
  <2>3. ASSUME m_peer_connection_ \notin reported'
        PROVE  sending' = TracksOf(m_peer_connection_, O \ streams')
    <3>1. ok /\ kept = stream /\ reported' = reported
      BY <1>1, <2>3
    <3>2. sending = TracksOf(m_peer_connection_, O \ streams)
      BY <1>3, <2>3, <3>1 DEF ObserverInv, StreamState
    <3>3. UNION (O \ streams') = (UNION (O \ streams)) \cup stream
      <4>1. O \ streams' = (O \ streams) \cup {stream}
        BY <1>2, <1>3
      <4>2. UNION ((O \ streams) \cup {stream}) = (UNION (O \ streams)) \cup stream
        BY UnionWith
      <4> QED
        BY <4>1, <4>2
    <3> DEFINE U == UNION (O \ streams)
    <3>4. {m_peer_connection_} \X (U \cup stream)
             = ({m_peer_connection_} \X U) \cup ({m_peer_connection_} \X stream)
      OBVIOUS
    <3>5. sending' = sending \cup ({m_peer_connection_} \X stream)
      BY <1>1, <3>1
    <3>6. TracksOf(m_peer_connection_, O \ streams') = {m_peer_connection_} \X (U \cup stream)
      BY <3>3 DEF TracksOf
    <3>7. sending = {m_peer_connection_} \X U
      BY <3>2 DEF TracksOf
    <3> QED
      BY <3>4, <3>5, <3>6, <3>7
  <2>4. streams' \subseteq O
    BY <1>2, <1>3 DEF ObserverInv, StreamState
  <2> QED
    BY <1>2, <1>3, <2>1, <2>2, <2>3, <2>4 DEF StreamState
<1>8. reported \subseteq reported'
  BY <1>1
<1> QED
  BY <1>2, <1>6, <1>7, <1>8
     DEF ObserverInv, PcState, IceState, Early, Overwritten, AnswersReflect, CandidatesApplied

\* The type of the description is read.
LEMMA StepType ==
    ASSUME ObserverInv, TypeIsOffer \/ TypeIsNoOffer
    PROVE  ObserverInv'
<1>1. /\ UNCHANGED <<pcVars, streamVars, m_iceCandidateMsg, m_remoteIceCandidateMsg, queueVars,
                     offered, ices>>
      /\ step = "type" /\ step' = "idle" /\ session_description' = "none"
      /\ answering' \in {TRUE, answering}
  BY DEF TypeIsOffer, TypeIsNoOffer
<1>2. streams = {}
  BY DEF ObserverInv, StreamState, TypeIsOffer, TypeIsNoOffer, PcState
<1> QED
  BY <1>1, <1>2
     DEF ObserverInv, TypeOK, PcState, StreamState, IceState, Early, Overwritten, AnswersReflect,
         CandidatesApplied, pcVars, streamVars, queueVars

\* A message with candidates is kept, or given to the peer connection.
LEMMA StepIce ==
    ASSUME ObserverInv, IceKept \/ IceAdded
    PROVE  ObserverInv'
<1> DEFINE n == Len(ices) + 1
<1>0. TypeOK /\ Len(ices) \in Nat /\ Len(offered) \in Nat
  BY DEF ObserverInv, TypeOK
<1>1. /\ Len(ices) < MaxIce
      /\ ices' = Append(ices, m_peer_connection_)
      /\ UNCHANGED <<step, session_description, m_peer_connection_, remote, local, sending,
                     gathering, streams, m_localStream, reported, answering, m_iceCandidateMsg,
                     m_msgQueue, out, offered>>
      /\ \/ /\ m_peer_connection_ = 0
            /\ m_remoteIceCandidateMsg' = n
            /\ added' = added
         \/ /\ m_peer_connection_ # 0
            /\ added' = IF remote THEN added \cup {n} ELSE added
            /\ m_remoteIceCandidateMsg' = m_remoteIceCandidateMsg
  BY <1>0 DEF IceKept, IceAdded, ReceiveIce, addIceCandidates, queueVars, streamVars
<1>2. /\ ices' \in Seq(0..MaxOffers)
      /\ Len(ices') = n
      /\ \A i \in 1..Len(ices) : ices'[i] = ices[i]
      /\ ices'[n] = m_peer_connection_
  BY <1>0, <1>1, AppendProperties DEF TypeOK
<1>3. n \in 1..MaxIce /\ n \in 0..MaxIce
  BY <1>0, <1>1, ObserverAssumption
<1>4. added' \subseteq 1..MaxIce /\ m_remoteIceCandidateMsg' \in 0..MaxIce
  BY <1>0, <1>1, <1>3 DEF TypeOK
<1>5. TypeOK'
  BY <1>0, <1>1, <1>2, <1>4 DEF TypeOK
<1>6. \A i \in 1..Len(ices') : i \in 1..Len(ices) \/ i = n
  BY <1>0, <1>2
<1>7. ASSUME NEW i \in 1..Len(ices), Overwritten(i)
      PROVE  Overwritten(i)'
  <2>1. PICK j \in (i + 1)..Len(ices) : ices[i] = 0 /\ ices[j] = 0
    BY <1>7 DEF Overwritten, Early
  <2>2. j \in 1..Len(ices) /\ j \in (i + 1)..Len(ices')
    BY <1>0, <1>2, <2>1
  <2> QED
    BY <1>2, <2>1, <2>2 DEF Overwritten, Early
<1>8. ASSUME NEW i \in 1..Len(ices), ices[i] = 0, m_peer_connection_ = 0
      PROVE  Overwritten(i)'
  <2>1. n \in (i + 1)..Len(ices')
    BY <1>0, <1>2
  <2> QED
    BY <1>2, <1>8, <2>1 DEF Overwritten, Early
<1>9. m_peer_connection_ <= Len(offered)
  BY <1>0 DEF ObserverInv, PcState
<1>10. IceState'
  <2>1. ASSUME NEW i \in 1..Len(ices')
        PROVE  /\ ices'[i] <= Len(offered')
               /\ remote' /\ ices'[i] = m_peer_connection_' => i \in added'
               /\ Early(i)' => i = m_remoteIceCandidateMsg' \/ Overwritten(i)'
    <3>1. CASE i \in 1..Len(ices)
      <4>1. /\ ices'[i] = ices[i]
            /\ ices[i] <= Len(offered)
            /\ remote /\ ices[i] = m_peer_connection_ => i \in added
            /\ ices[i] = 0 => i = m_remoteIceCandidateMsg \/ Overwritten(i)
        BY <1>2, <3>1 DEF ObserverInv, IceState, Early
      <4>2. ices[i] = 0 => i = m_remoteIceCandidateMsg' \/ Overwritten(i)'
        BY <1>1, <1>7, <1>8, <3>1, <4>1
      <4> QED
        BY <1>1, <4>1, <4>2 DEF Early
    <3>2. CASE i = n
      <4>1. remote => m_peer_connection_ # 0
        BY DEF ObserverInv, PcState
      <4> QED
        BY <1>1, <1>2, <1>9, <3>2, <4>1 DEF Early
    <3> QED
      BY <1>6, <3>1, <3>2
  <2>2. local' /\ m_remoteIceCandidateMsg' # 0 => m_remoteIceCandidateMsg' \in added'
    BY <1>1 DEF ObserverInv, PcState, IceState
  <2> QED
    BY <2>1, <2>2 DEF IceState
<1>11. CandidatesApplied'
  <2>1. ASSUME local, NEW i \in 1..Len(ices')
        PROVE  \/ i \in added'
               \/ ices'[i] \in 1..(m_peer_connection_ - 1)
               \/ Overwritten(i)'
    <3>1. CASE i \in 1..Len(ices)
      BY <1>1, <1>2, <1>7, <2>1, <3>1 DEF ObserverInv, CandidatesApplied
    <3>2. CASE i = n
      BY <1>1, <2>1, <3>2 DEF ObserverInv, PcState
    <3> QED
      BY <1>6, <3>1, <3>2
  <2> QED
    BY <1>1, <2>1 DEF CandidatesApplied
<1> QED
  BY <1>1, <1>5, <1>10, <1>11 DEF ObserverInv, PcState, StreamState, AnswersReflect

\* OnSuccess queues an answer that reflects the offer, and adds the kept
\* candidates.
LEMMA StepOnSuccess ==
    ASSUME ObserverInv, OnSuccess
    PROVE  ObserverInv'
<1>0. TypeOK /\ Len(offered) \in Nat
  BY DEF ObserverInv, TypeOK
<1>1. /\ step = "idle" /\ answering /\ remote /\ sendSignalingMessage(Answer)
      /\ answering' = FALSE /\ local' = TRUE /\ gathering' = "gathering"
      /\ added' = IF m_remoteIceCandidateMsg # 0 THEN added \cup {m_remoteIceCandidateMsg} ELSE added
      /\ UNCHANGED <<step, session_description, m_peer_connection_, remote, sending, streams,
                     m_localStream, reported, m_iceCandidateMsg, m_remoteIceCandidateMsg, offered,
                     ices>>
  BY DEF OnSuccess, addIceCandidates, streamVars
<1>2. Answer \in Signals /\ Answer.of <= Len(offered) /\ Reflects(Answer)
  BY <1>1, AnswerReflects
<1>3. m_msgQueue' \in Seq(Signals) /\ out' \in Seq({"SDP", "ICE"} \X Offers)
  BY <1>0, <1>1, <1>2, SendType
<1>4. \A i \in 1..Len(m_msgQueue') :
         m_msgQueue'[i].of <= Len(offered) /\ Reflects(m_msgQueue'[i])
  BY <1>1, <1>2, SendReflects
<1>5. TypeOK'
  <2>1. added' \subseteq 1..MaxIce
    BY <1>0, <1>1, ObserverAssumption DEF TypeOK
  <2> QED
    BY <1>0, <1>1, <1>3, <2>1 DEF TypeOK
<1>6. PcState' /\ StreamState'
  BY <1>1 DEF ObserverInv, PcState, StreamState
<1>7. IceState'
  BY <1>1 DEF ObserverInv, IceState, Early, Overwritten
<1>8. CandidatesApplied'
  <2>1. ASSUME NEW i \in 1..Len(ices)
        PROVE  i \in added' \/ ices[i] \in 1..(m_peer_connection_ - 1) \/ Overwritten(i)
    <3>1. ices \in Seq(0..MaxOffers)
      BY <1>0 DEF TypeOK
    <3>2. ices[i] \in 0..MaxOffers
      BY <3>1, ElementOfSeq
    <3>3. m_peer_connection_ = Len(offered) /\ ices[i] <= Len(offered)
      BY <1>1 DEF ObserverInv, PcState, IceState
    <3>4. CASE ices[i] = 0
      <4>1. i = m_remoteIceCandidateMsg \/ Overwritten(i)
        BY <3>4 DEF ObserverInv, IceState, Early
      <4>2. i # 0
        BY <1>0
      <4> QED
        BY <1>1, <4>1, <4>2
    <3>5. CASE ices[i] = m_peer_connection_
      BY <1>1, <3>5 DEF ObserverInv, IceState
    <3>6. CASE ices[i] # 0 /\ ices[i] # m_peer_connection_
      BY <1>0, <3>2, <3>3, <3>6, ObserverAssumption
    <3> QED
      BY <3>4, <3>5, <3>6
  <2> QED
    BY <1>1, <2>1 DEF CandidatesApplied, Overwritten, Early
<1> QED
  BY <1>1, <1>4, <1>5, <1>6, <1>7, <1>8 DEF ObserverInv, AnswersReflect, Reflects

\* OnIceGatheringChange queues a message that is no answer.
LEMMA StepGathered ==
    ASSUME ObserverInv, OnIceGatheringChange
    PROVE  ObserverInv'
<1>0. TypeOK /\ Len(offered) \in Nat
  BY DEF ObserverInv, TypeOK
<1>1. /\ sendSignalingMessage(IceMessage)
      /\ gathering = "gathering" /\ gathering' = "complete"
      /\ UNCHANGED <<step, session_description, m_peer_connection_, remote, local, sending, added,
                     streams, m_localStream, reported, answering, m_iceCandidateMsg,
                     m_remoteIceCandidateMsg, offered, ices>>
  BY DEF OnIceGatheringChange, streamVars
<1>2. m_peer_connection_ \in Offers /\ m_peer_connection_ = Len(offered)
  BY <1>0, <1>1, ObserverAssumption DEF ObserverInv, PcState, TypeOK, Offers
<1>3. IceMessage \in Signals /\ IceMessage.of <= Len(offered) /\ Reflects(IceMessage)
  BY <1>0, <1>2 DEF IceMessage, Signals, IceMessages, TypeOK, Reflects
<1>4. m_msgQueue' \in Seq(Signals) /\ out' \in Seq({"SDP", "ICE"} \X Offers)
  BY <1>0, <1>1, <1>3, SendType
<1>5. \A i \in 1..Len(m_msgQueue') :
         m_msgQueue'[i].of <= Len(offered) /\ Reflects(m_msgQueue'[i])
  BY <1>1, <1>3, SendReflects
<1>6. TypeOK'
  BY <1>0, <1>1, <1>4 DEF TypeOK
<1> QED
  BY <1>1, <1>5, <1>6
     DEF ObserverInv, PcState, StreamState, IceState, Early, Overwritten, AnswersReflect, Reflects,
         CandidatesApplied

\* The remaining callbacks and getSignalingMessage keep the invariant.
LEMMA StepOther ==
    ASSUME ObserverInv,
           \/ OnFailure \/ OnIceCandidate \/ getSignalingMessage \/ UNCHANGED vars
    PROVE  ObserverInv'
<1>0. TypeOK
  BY DEF ObserverInv
<1> USE DEF ObserverInv, PcState, StreamState, IceState, Early, Overwritten, AnswersReflect,
            CandidatesApplied, pcVars, streamVars, queueVars
<1>1. CASE OnFailure
  BY <1>1 DEF OnFailure, TypeOK
<1>2. CASE OnIceCandidate
  <2>1. m_peer_connection_ \in Offers
    BY <1>2, ObserverAssumption DEF OnIceCandidate, TypeOK, Offers
  <2> QED
    BY <1>2, <2>1 DEF OnIceCandidate, TypeOK
<1>3. CASE getSignalingMessage
  <2>1. /\ m_msgQueue' \in Seq(Signals)
        /\ Len(m_msgQueue') = Len(m_msgQueue) - 1
        /\ \A i \in 1..Len(m_msgQueue') : m_msgQueue'[i] = m_msgQueue[i + 1]
        /\ Len(m_msgQueue) \in Nat
    BY <1>0, <1>3, HeadTailProperties DEF getSignalingMessage, TypeOK
  <2>2. \A i \in 1..Len(m_msgQueue') : i + 1 \in 1..Len(m_msgQueue)
    BY <2>1
  <2>3. TypeOK'
    BY <1>0, <1>3, <2>1 DEF getSignalingMessage, TypeOK
  <2> QED
    BY <1>3, <2>1, <2>2, <2>3 DEF getSignalingMessage
<1>4. CASE UNCHANGED vars
  BY <1>4 DEF vars, TypeOK
<1> QED
  BY <1>1, <1>2, <1>3, <1>4

\* onSignalingMessage, the callbacks of libwebrtc and getSignalingMessage never
\* leave the invariant.
THEOREM ObserverInvariant == Spec => []ObserverInv
<1>1. ObserverInv /\ [Next]_vars => ObserverInv'
  BY StepSdp, StepOnAddStream, StepType, StepIce, StepOnSuccess, StepGathered, StepOther DEF Next
<1> QED
  BY InitInv, <1>1, PTL DEF Spec

\* Every queued answer sends back tracks of its own offer, and all of them
\* unless OnAddStream has logged a failure for this offer.
THEOREM AnswersReflectOffers == Spec => []AnswersReflect
<1>1. ObserverInv => AnswersReflect
  BY DEF ObserverInv
<1> QED
  BY ObserverInvariant, <1>1, PTL

\* When OnSuccess has answered, the peer connection was given the candidates of
\* every ICE message that onSignalingMessage got, except those that went to an
\* older peer connection and those replaced while they were kept.
THEOREM AllCandidatesApplied == Spec => []CandidatesApplied
<1>1. ObserverInv => CandidatesApplied
  BY DEF ObserverInv
<1> QED
  BY ObserverInvariant, <1>1, PTL

\* The Observer implements Negotiation.
THEOREM NegotiationImplemented == Spec => ImplementsNegotiation
<1>1. Init => Dialog!Init
  BY DEF Init, Dialog!Init, Phase
<1>2. ObserverInv /\ [Next]_vars => [Dialog!Next]_(Dialog!vars)
  <2> SUFFICES ASSUME ObserverInv, [Next]_vars PROVE [Dialog!Next]_(Dialog!vars)
    OBVIOUS
  <2>0. TypeOK /\ Len(offered) \in Nat
    BY DEF ObserverInv, TypeOK
  <2>1. ASSUME NEW remoteStreams \in SUBSET Streams,
               \/ SdpWithoutPeerConnection(remoteStreams)
               \/ SdpTaken(remoteStreams)
               \/ SdpRefused(remoteStreams)
        PROVE  Dialog!Offer
    <3>1. Len(offered') = Len(offered) + 1
      BY <2>0, <2>1, AppendProperties
         DEF SdpWithoutPeerConnection, SdpTaken, SdpRefused, ReceiveSdp, TypeOK
    <3>2. Phase' \in {"offered", "none"}
      BY <2>1 DEF Phase, SdpWithoutPeerConnection, SdpTaken, SdpRefused, ReceiveSdp,
                  initPeerConnection
    <3>3. \/ out' = out
          \/ answering /\ out' = Append(out, <<"SDP", m_peer_connection_>>)
      BY <2>1 DEF SdpWithoutPeerConnection, SdpTaken, SdpRefused, initPeerConnection,
                  sendSignalingMessage, Answer, queueVars
    <3>4. answering => Phase = "offered" /\ m_peer_connection_ = Len(offered)
      BY DEF Phase, ObserverInv, PcState
    <3> QED
      BY <3>1, <3>2, <3>3, <3>4 DEF Dialog!Offer
  <2>2. CASE TypeIsOffer
    BY <2>2 DEF TypeIsOffer, Phase, Dialog!vars, queueVars
  <2>3. CASE TypeIsNoOffer
    BY <2>3 DEF TypeIsNoOffer, ObserverInv, Phase, Dialog!Next, Dialog!Fail, queueVars,
                streamVars, pcVars, PcState
  <2>4. CASE OnSuccess
    BY <2>4 DEF OnSuccess, sendSignalingMessage, Answer, ObserverInv, PcState, Phase, Dialog!Next,
                Dialog!Answer
  <2>5. CASE OnFailure
    BY <2>5 DEF OnFailure, ObserverInv, PcState, Phase, Dialog!Next, Dialog!Fail, queueVars, pcVars
  <2>6. CASE OnIceGatheringChange
    BY <2>6 DEF OnIceGatheringChange, sendSignalingMessage, ObserverInv, Phase, Dialog!Next,
                Dialog!Complete, IceMessage, PcState
  <2>7. CASE UNCHANGED <<step, answering, gathering, offered, out>>
    BY <2>7 DEF Phase, Dialog!vars
  <2> QED
    BY <2>1, <2>2, <2>3, <2>4, <2>5, <2>6, <2>7
       DEF Next, OnAddStream, IceKept, IceAdded, ReceiveIce, OnIceCandidate, getSignalingMessage, vars,
           pcVars, streamVars, queueVars, Dialog!Next
<1> QED
  BY ObserverInvariant, <1>1, <1>2, PTL DEF Spec, ImplementsNegotiation, Dialog!Spec
=============================================================================
