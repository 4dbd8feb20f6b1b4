---------------------------- MODULE ServiceProofs ----------------------------
(***************************************************************************)
(* The service for every command line, files of any size and any number of *)
(* requests.                                                               *)
(***************************************************************************)
EXTENDS Service, TLAPS

\* The blocks that were copied and the bytes that are left make up the file.
IconInv ==
    /\ size \in Nat
    /\ step = "copying" => left \in Nat /\ totalBytes \in Nat /\ size = left + Block * totalBytes

RepliesInv == IconInv /\ PageWhole

\* There are replies only after a startup that was complete.
ServiceInv ==
    /\ StartupInv
    /\ RepliesInv
    /\ reply.kind # "none" => failed = {} /\ pc = "loop"

-----------------------------------------------------------------------------
\* The formatted page fits: at most 15 + 5 + 10 characters come in for the six
\* of the conversions, and lone percent signs only go away.
LEMMA PageFits ==
    ASSUME NEW n \in FileSizes, NEW lone \in Percents, NEW ip \in IpLengths, NEW port \in 1..5,
           NEW log \in {1, 10}, NEW printed \in 0..lone, n >= Conversions + lone
    PROVE  LET text == n - Conversions - lone + printed + ip + port + log
           IN  Lesser(text, pageSize(n) - 2) = text
<1>1. n \in Nat /\ lone \in Nat /\ ip \in 0..15
    BY RepliesAssumption
<1>. QED
    BY <1>1 DEF Conversions, Lesser, pageSize, Slack

LEMMA RepliesStep == RepliesInv /\ [RepliesNext]_replyVars => RepliesInv'
<1>. SUFFICES ASSUME RepliesInv, [RepliesNext]_replyVars PROVE RepliesInv'
    OBVIOUS
<1>. USE DEF RepliesInv, IconInv, PageWhole, Write
<1>1. CASE InvalidRequest \/ sendReply \/ FaviconMissing
    BY <1>1 DEF InvalidRequest, sendReply, FaviconMissing, Take, sendReplyError
<1>2. CASE sendReplyPage
    <2>1. CASE sendReplyError(19)
        BY <1>2, <2>1 DEF sendReplyPage, Take, sendReplyError
    <2>2. CASE ~sendReplyError(19)
        <3>1. PICK n \in FileSizes, lone \in Percents, ip \in IpLengths, port \in 1..5,
                   log \in {1, 10} :
                 /\ n >= Conversions + lone
                 /\ \E printed \in 0..lone :
                       LET text == n - Conversions - lone + printed + ip + port + log
                           page == Lesser(text, pageSize(n) - 2)
                       IN  Write("page", page, text)
            BY <1>2, <2>2 DEF sendReplyPage
        <3>2. PICK printed \in 0..lone :
                 LET text == n - Conversions - lone + printed + ip + port + log
                     page == Lesser(text, pageSize(n) - 2)
                 IN  Write("page", page, text)
            BY <3>1
        <3>. DEFINE text == n - Conversions - lone + printed + ip + port + log
        <3>3. Write("page", text, text)
            BY <3>1, <3>2, PageFits
        <3>. HIDE DEF text
        <3>. QED
            BY <1>2, <3>3 DEF sendReplyPage, Take
    <2>. QED
        BY <2>1, <2>2
<1>3. CASE FaviconOpen \/ FaviconRefused
    <2>1. CASE FaviconOpen
        <3>1. size' \in Nat
            BY <2>1, RepliesAssumption DEF FaviconOpen
        <3>. QED
            BY <2>1, <3>1 DEF FaviconOpen
    <2>2. CASE FaviconRefused
        BY <2>2 DEF FaviconRefused, sendReplyError
    <2>. QED
        BY <1>3, <2>1, <2>2
<1>4. CASE FaviconStat
    BY <1>4 DEF FaviconStat, Block
<1>5. CASE FaviconBlock
    BY <1>5 DEF FaviconBlock, Block
<1>6. CASE FaviconEnd
    BY <1>6 DEF FaviconEnd
<1>7. CASE UNCHANGED replyVars
    BY <1>7 DEF replyVars
<1>. QED
    BY <1>1, <1>2, <1>3, <1>4, <1>5, <1>6, <1>7 DEF RepliesNext

-----------------------------------------------------------------------------
LEMMA StartupStep == StartupInv /\ [StartupNext]_startupVars => StartupInv'
<1>. SUFFICES ASSUME StartupInv, [StartupNext]_startupVars PROVE StartupInv'
    OBVIOUS
<1>. USE DEF StartupInv
<1>1. CASE Usage \/ CertificateFails \/ AssertFails \/ CertificateLoaded
    BY <1>1 DEF Usage, CertificateFails, AssertFails, CertificateLoaded
<1>2. CASE GetOpt
    BY <1>2 DEF GetOpt
<1>3. CASE create \/ createFails
    BY <1>3 DEF create, createFails
<1>4. CASE bind \/ bindFails
    BY <1>4 DEF bind, bindFails
<1>5. CASE listen \/ listenFails
    BY <1>5 DEF listen, listenFails
<1>6. CASE \E how \in {"error", "timeout", "client"} : acceptReturns(how)
    BY <1>6 DEF acceptReturns
<1>7. CASE Exited \/ UNCHANGED startupVars
    BY <1>7 DEF Exited, startupVars
<1>. QED
    BY <1>1, <1>2, <1>3, <1>4, <1>5, <1>6, <1>7 DEF StartupNext

\* Nothing fails once the loop is reached.
LEMMA LoopForever ==
    ASSUME StartupNext, pc = "loop"
    PROVE  failed' = failed /\ pc' = "loop"
BY DEF StartupNext, Usage, GetOpt, CertificateLoaded, CertificateFails, AssertFails, create,
       createFails, bind, bindFails, listen, listenFails, acceptReturns, Exited

LEMMA ServiceStep == ServiceInv /\ [Next]_vars => ServiceInv'
<1>. SUFFICES ASSUME ServiceInv, [Next]_vars PROVE ServiceInv'
    OBVIOUS
<1>1. CASE Prepare
    <2>1. StartupInv' /\ RepliesInv'
        BY <1>1, StartupStep, RepliesStep DEF Prepare, ServiceInv
    <2>2. reply' = reply
        BY <1>1 DEF Prepare, replyVars
    <2>. QED
        BY <1>1, <2>1, <2>2, LoopForever DEF Prepare, ServiceInv
<1>2. CASE Serve
    <2>1. RepliesInv'
        BY <1>2, RepliesStep DEF Serve, ServiceInv
    <2>2. StartupInv'
        BY <1>2 DEF Serve, ServiceInv, StartupInv
    <2>3. failed' = {} /\ pc' = "loop"
        BY <1>2 DEF Serve, ServiceInv, StartupInv
    <2>. QED
        BY <2>1, <2>2, <2>3 DEF ServiceInv
<1>3. CASE UNCHANGED vars
    <2>1. StartupInv' /\ RepliesInv'
        BY <1>3, StartupStep, RepliesStep DEF vars, ServiceInv
    <2>. QED
        BY <1>3, <2>1 DEF vars, startupVars, replyVars, ServiceInv
<1>. QED
    BY <1>1, <1>2, <1>3 DEF Next

\* The invariant that startup, requests and replies keep together.
THEOREM ServiceInvariant == Spec => []ServiceInv
<1>1. Init => ServiceInv
    <2>1. StartupInit => StartupInv
        BY DEF StartupInit, StartupInv
    <2>2. RepliesInit => RepliesInv /\ reply.kind = "none"
        BY DEF RepliesInit, RepliesInv, IconInv, NoReply, PageWhole
    <2>. QED
        BY <2>1, <2>2 DEF Init, ServiceInv
<1>. QED
    BY <1>1, ServiceStep, PTL DEF Spec

\* main() replies to clients only if create(), bind() and listen() all
\* succeeded, although it ignores what they return.
THEOREM RepliesIfReady == Spec => []RepliesOnlyIfReady
<1>1. ServiceInv => RepliesOnlyIfReady
    BY DEF ServiceInv, RepliesOnlyIfReady
<1>. QED
    BY <1>1, ServiceInvariant, PTL

\* Whatever the size of the icon, sendReplyFavicon copies no more than it has
\* allocated: for every byte it counts, fread has used up a block.
THEOREM IconsFit == Spec => []IconFits
<1>1. ServiceInv => IconFits
    BY DEF ServiceInv, RepliesInv, IconInv, IconFits, Block
<1>. QED
    BY <1>1, ServiceInvariant, PTL

\* Whatever the size of the page, and whatever a build prints for its lone
\* percent signs, the formatted page fits in the buffer.
THEOREM PagesWhole == Spec => []PageWhole
<1>1. ServiceInv => PageWhole
    BY DEF ServiceInv, RepliesInv
<1>. QED
    BY <1>1, ServiceInvariant, PTL
=============================================================================
