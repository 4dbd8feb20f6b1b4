-------------------------------- MODULE Page --------------------------------
(***************************************************************************)
(* The script of bin/index.html: one page in one browser.  It runs in one  *)
(* thread; an action here is one event (a click, a timer, an answer of the *)
(* browser's media or WebRTC functions, a change of an XMLHttpRequest)     *)
(* with the whole handler it calls.  Handlers look at the page's global    *)
(* variables, not at the object whose event they handle.                   *)
(*                                                                         *)
(* XMLHttpRequests that have a handler are members of Xhrs, used again     *)
(* when nothing refers to them any more; posts have none and go straight   *)
(* to the network.  A peer connection, and the offer and the candidates it *)
(* makes, are named by the peer connection's number, media streams are     *)
(* numbered.  Devices, playback, statistics and the log are left out, and  *)
(* so is the difference between Safari's and the others' createOffer.      *)
(***************************************************************************)
EXTENDS Integers, Sequences, SequencesExt

CONSTANTS MaxXhrs,     \* bound: XMLHttpRequests in use at once
          MaxCalls,    \* bound: peer connections the page creates
          MaxClicks,   \* bound: clicks on the button
          Impatient    \* the user also clicks while the page is busy

ASSUME PageAssumption ==
    /\ MaxXhrs \in Nat /\ MaxCalls \in Nat /\ MaxClicks \in Nat
    /\ Impatient \in BOOLEAN

Xhrs == 1..MaxXhrs
Calls == 1..MaxCalls

VARIABLES
    label,            \* what the button says
    connected, peerId, peerConnection, mediaStream,
    iceCandidateMsg,  \* the peer connections whose candidates it lists; {} is null
    req, reqGet,      \* an XMLHttpRequest or 0
    timers,           \* pending setTimeout(waitOn, 0)
    mediaCalls,       \* pending getUserMedia
    streams,          \* media streams so far
    playing,          \* the streams whose tracks were not stopped
    calls,            \* peer connections so far
    pc,               \* the peer connections
    clicks,
    devices,          \* the computer has a camera and a microphone
    xhr, posts,       \* what is between page and server
    received          \* ghost: the messages taken from the server

uiVars == <<label, connected, clicks, devices>>
mediaVars == <<mediaStream, mediaCalls, streams, playing>>
callVars == <<peerConnection, calls, pc, iceCandidateMsg>>
pageVars == <<uiVars, mediaVars, callVars, peerId, req, reqGet, timers, xhr, posts, received>>

(***************************************************************************)
(* state: "free"; "sent", the request is on its way; "held", the server    *)
(* keeps it; "replied"; "headers", the browser saw the beginning of the    *)
(* reply; "done"; "cut", aborted on its way, "gone", aborted or broken     *)
(* while the server keeps it.  ok is the status.  A reply carries the peer *)
(* id of its session (from), and for a wait a message: an answer or a list *)
(* of candidates, the offers it belongs to, and its number in the session. *)
(***************************************************************************)
NoReply == [kind |-> "none", of |-> {}, from |-> 0, number |-> 0]
Free == [kind |-> "none", state |-> "free", pragma |-> 0, ok |-> TRUE, reply |-> NoReply]
NewPc == [creating |-> 0, local |-> FALSE, remote |-> {}, gathering |-> "new", given |-> {},
          closed |-> FALSE]

PageInit ==
    /\ label = "Connect"
    /\ connected = FALSE
    /\ peerId = 0
    /\ peerConnection = 0
    /\ mediaStream = 0
    /\ iceCandidateMsg = {}
    /\ req = 0
    /\ reqGet = 0
    /\ timers = 0
    /\ mediaCalls = 0
    /\ streams = 0
    /\ playing = {}
    /\ calls = 0
    /\ pc = [k \in Calls |-> NewPc]
    /\ clicks = 0
    /\ devices \in BOOLEAN
    /\ xhr = [x \in Xhrs |-> Free]
    /\ posts = <<>>
    /\ received = <<>>

-----------------------------------------------------------------------------
(***************************************************************************)
(* Requests.                                                               *)
(***************************************************************************)

\* new XMLHttpRequest, open and send.
Send(xs, x, kind, pragma) ==
    [xs EXCEPT ![x] = [Free EXCEPT !.kind = kind, !.state = "sent", !.pragma = pragma]]

Unused(xs) ==
    {x \in Xhrs : xs[x].state = "free" /\ \A y \in 1..(x - 1) : xs[y].state # "free"}

\* abort(): a request that is done is forgotten; one on its way may still
\* reach the server.
Abort(xs, x) ==
    CASE xs[x].state = "sent" -> {[xs EXCEPT ![x] = Free], [xs EXCEPT ![x].state = "cut"]}
      [] xs[x].state = "held" -> {[xs EXCEPT ![x].state = "gone"]}
      [] OTHER -> {[xs EXCEPT ![x] = Free]}

\* Requests that are done and that no variable refers to have no effect.
Collect(xs, refs) ==
    [x \in Xhrs |-> IF xs[x].state = "done" /\ x \notin refs THEN Free ELSE xs[x]]

Pending(kind) ==
    {x \in Xhrs : xhr[x].kind = kind /\ xhr[x].state \in {"sent", "held", "replied", "headers"}}

sendMessage(body) == posts' = Append(posts, [to |-> peerId, body |-> body])

-----------------------------------------------------------------------------
(***************************************************************************)
(* The button.                                                             *)
(***************************************************************************)

\* A patient user waits for the sign-in and for the camera, and is slower
\* than a timer of 0 ms.
Settled == Pending("signIn") = {} /\ mediaCalls = 0 /\ timers = 0

Click ==
    /\ clicks < MaxClicks
    /\ Impatient \/ Settled
    /\ clicks' = clicks + 1
    /\ UNCHANGED <<devices, received>>

\* handleConnect, startRecording, signIn.
StartRecording ==
    /\ Click
    /\ ~connected
    /\ \E x \in Unused(xhr) :
          /\ xhr' = Collect(Send(xhr, x, "signIn", 0), {x, reqGet})
          /\ req' = x
    /\ label' = "Disconnect"
    /\ UNCHANGED <<connected, mediaVars, callVars, peerId, reqGet, timers, posts>>

\* handleConnect, stopRecording.  Without a media stream its first line
\* throws, and nothing else happens.
StopThrows ==
    /\ Click
    /\ connected
    /\ mediaStream = 0
    /\ UNCHANGED <<label, connected, mediaVars, callVars, peerId, req, reqGet, timers, xhr, posts>>

\* Mutant: the list of candidates is not cleared.
StopRecordingKeepingIce ==
    /\ Click
    /\ connected
    /\ mediaStream # 0
    /\ playing' = playing \ {mediaStream}
    /\ peerConnection' = 0
    /\ pc' = IF peerConnection = 0 THEN pc
             ELSE [pc EXCEPT ![peerConnection].closed = TRUE, ![peerConnection].creating = 0]
    /\ peerId' = 0
    /\ \E xs \in (IF req = 0 THEN {xhr} ELSE Abort(xhr, req)) :
          \E ys \in (IF reqGet = 0 THEN {xs} ELSE Abort(xs, reqGet)) :
             xhr' = Collect(ys, {})
    /\ req' = 0
    /\ reqGet' = 0
    /\ connected' = FALSE
    /\ label' = "Connect"
    /\ UNCHANGED <<mediaStream, mediaCalls, streams, calls, iceCandidateMsg, timers, posts>>

\* The aborted wait request calls its handler once more, which returns
\* because the status is not 200.
StopRecording ==
    /\ Click
    /\ connected
    /\ mediaStream # 0
    /\ playing' = playing \ {mediaStream}
    /\ peerConnection' = 0
    /\ pc' = IF peerConnection = 0 THEN pc
             ELSE [pc EXCEPT ![peerConnection].closed = TRUE, ![peerConnection].creating = 0]
    /\ peerId' = 0
    /\ iceCandidateMsg' = {}
    /\ \E xs \in (IF req = 0 THEN {xhr} ELSE Abort(xhr, req)) :
          \E ys \in (IF reqGet = 0 THEN {xs} ELSE Abort(xs, reqGet)) :
             xhr' = Collect(ys, {})
    /\ req' = 0
    /\ reqGet' = 0
    /\ connected' = FALSE
    /\ label' = "Connect"
    /\ UNCHANGED <<mediaStream, mediaCalls, streams, calls, timers, posts>>

-----------------------------------------------------------------------------
(***************************************************************************)
(* Events of XMLHttpRequests.                                              *)
(***************************************************************************)

\* The request as it is when its handler is called: the beginning of the
\* reply, then the end of it, or the end of the connection.
Changed(x) ==
    IF xhr[x].state = "replied" /\ xhr[x].ok
    THEN [xhr EXCEPT ![x].state = "headers"]
    ELSE [xhr EXCEPT ![x].state = "done"]

Event(x, kind) ==
    /\ xhr[x].kind = kind
    /\ xhr[x].state \in {"replied", "headers"}
    /\ UNCHANGED <<clicks, devices, posts>>

Succeeded(xs, x) == x # 0 /\ xs[x].state = "done" /\ xs[x].ok

\* onreadystatechange of signIn: neither done nor successful, or null.
SignInIgnored(x) ==
    /\ Event(x, "signIn")
    /\ ~Succeeded(Changed(x), req)
    /\ xhr' = Collect(Changed(x), {req, reqGet})
    /\ UNCHANGED <<label, connected, mediaVars, callVars, peerId, req, reqGet, timers, received>>

\* The request that req refers to is done: waitOn, getMediaStream.  Without
\* devices getMediaStream throws after it has created the peer connection.
SignedIn(x) ==
    /\ Event(x, "signIn")
    /\ Succeeded(Changed(x), req)
    /\ calls < MaxCalls
    /\ peerId' = xhr[req].reply.from
    /\ \E y \in Unused(xhr) :
          /\ reqGet' = y
          /\ xhr' = Collect(Send(Changed(x), y, "wait", peerId'), {req, y})
    /\ calls' = calls + 1
    /\ peerConnection' = calls + 1
    /\ connected' = (connected \/ devices)
    /\ mediaCalls' = IF devices THEN mediaCalls + 1 ELSE mediaCalls
    /\ UNCHANGED <<label, mediaStream, streams, playing, pc, iceCandidateMsg, req, timers, received>>

\* Mutant: the handler does not call waitOn again.
NextWaitOnce(x) ==
    /\ xhr' = Collect(Changed(x), {req})
    /\ reqGet' = 0
    /\ UNCHANGED timers

\* What a handler that is through with its message leaves: the request is
\* forgotten, and waitOn will be called.
NextWait(x) ==
    /\ xhr' = Collect(Changed(x), {req})
    /\ reqGet' = 0
    /\ timers' = timers + 1

\* Mutant: the handler calls waitOn again after a failure, too.
WaitRetries(x) ==
    /\ Event(x, "wait")
    /\ ~Succeeded(Changed(x), reqGet)
    /\ IF reqGet = x /\ Changed(x)[x].state = "done"
       THEN NextWait(x)
       ELSE xhr' = Collect(Changed(x), {req, reqGet}) /\ UNCHANGED <<reqGet, timers>>
    /\ UNCHANGED <<label, connected, mediaVars, callVars, peerId, req, received>>

\* Mutant: the handler calls waitOn while the request is not done.
WaitRestarts(x) ==
    /\ Event(x, "wait")
    /\ ~Succeeded(Changed(x), reqGet)
    /\ xhr' = Collect(Changed(x), {req, reqGet})
    /\ timers' = IF reqGet # 0 /\ Changed(x)[reqGet].state # "done" THEN timers + 1 ELSE timers
    /\ UNCHANGED <<label, connected, mediaVars, callVars, peerId, req, reqGet, received>>

\* onreadystatechange of waitOn: not done, not successful, or null.
WaitIgnored(x) ==
    /\ Event(x, "wait")
    /\ ~Succeeded(Changed(x), reqGet)
    /\ xhr' = Collect(Changed(x), {req, reqGet})
    /\ UNCHANGED <<label, connected, mediaVars, callVars, peerId, req, reqGet, timers, received>>

\* What a handler that throws leaves.
HandlerThrows(x) ==
    /\ xhr' = Collect(Changed(x), {req, reqGet})
    /\ UNCHANGED <<reqGet, timers>>

Received == xhr[reqGet].reply

\* An answer.  It is given to the current peer connection.
WaitSdp(x) ==
    /\ Event(x, "wait")
    /\ Succeeded(Changed(x), reqGet)
    /\ Received.kind = "SDP"
    /\ received' = Append(received, Received)
    /\ IF peerConnection = 0
       THEN HandlerThrows(x) /\ UNCHANGED pc
       ELSE /\ NextWait(x)
            /\ pc' = [pc EXCEPT ![peerConnection].remote = @ \cup Received.of]
    /\ UNCHANGED <<label, connected, mediaVars, peerConnection, calls, iceCandidateMsg, peerId, req>>

\* Candidates.  An empty list is an unknown message, and the line that logs
\* it throws.
WaitIce(x) ==
    /\ Event(x, "wait")
    /\ Succeeded(Changed(x), reqGet)
    /\ Received.kind = "ICE"
    /\ IF Received.of = {} THEN HandlerThrows(x) ELSE NextWait(x)
    /\ received' = Append(received, Received)
    /\ pc' = IF peerConnection = 0 THEN pc
             ELSE [pc EXCEPT ![peerConnection].given = @ \cup Received.of]
    /\ UNCHANGED <<label, connected, mediaVars, peerConnection, calls, iceCandidateMsg, peerId, req>>

\* setTimeout(waitOn, 0)
WaitOn ==
    /\ timers > 0
    /\ timers' = timers - 1
    /\ \E x \in Unused(xhr) :
          /\ reqGet' = x
          /\ xhr' = Collect(Send(xhr, x, "wait", peerId), {req, x})
    /\ UNCHANGED <<uiVars, mediaVars, callVars, peerId, req, posts, received>>

-----------------------------------------------------------------------------
(***************************************************************************)
(* Media and WebRTC, as far as the handlers see them.                      *)
(***************************************************************************)

\* getUserMedia: the tracks are added to the current peer connection, and an
\* offer is asked for.  Without one addTrack throws, and the stream plays on.
GotMedia ==
    /\ mediaCalls > 0
    /\ mediaCalls' = mediaCalls - 1
    /\ streams' = streams + 1
    /\ mediaStream' = streams + 1
    /\ playing' = playing \cup {streams + 1}
    /\ pc' = IF peerConnection = 0 THEN pc ELSE [pc EXCEPT ![peerConnection].creating = @ + 1]
    /\ UNCHANGED <<uiVars, peerConnection, calls, iceCandidateMsg, peerId, req, reqGet, timers,
                   xhr, posts, received>>

\* getUserMedia fails, or the user refuses: only logged.
MediaFails ==
    /\ mediaCalls > 0
    /\ mediaCalls' = mediaCalls - 1
    /\ UNCHANGED <<uiVars, mediaStream, streams, playing, callVars, peerId, req, reqGet, timers,
                   xhr, posts, received>>

\* createOffer of k succeeds: the offer becomes the local description of the
\* current peer connection, which takes it only if it is its own, and is sent.
OfferCreated(k) ==
    /\ pc[k].creating > 0
    /\ pc' = [pc EXCEPT ![k].creating = @ - 1,
                        ![k].local = @ \/ peerConnection = k,
                        ![k].gathering = IF peerConnection = k THEN "gathering" ELSE @]
    /\ IF peerConnection = 0 THEN UNCHANGED posts ELSE sendMessage([kind |-> "SDP", of |-> {k}])
    /\ UNCHANGED <<uiVars, mediaVars, peerConnection, calls, iceCandidateMsg, peerId, req, reqGet,
                   timers, xhr, received>>

OnIceCandidate(k) ==
    /\ pc[k].gathering = "gathering"
    /\ ~pc[k].closed
    /\ k \notin iceCandidateMsg
    /\ iceCandidateMsg' = iceCandidateMsg \cup {k}
    /\ UNCHANGED <<uiVars, mediaVars, peerConnection, calls, pc, peerId, req, reqGet, timers,
                   xhr, posts, received>>

\* The gathering of k is complete; the handler asks the current one.
OnIceGatheringStateChange(k) ==
    /\ pc[k].gathering = "gathering"
    /\ ~pc[k].closed
    /\ pc' = [pc EXCEPT ![k].gathering = "complete"]
    /\ IF peerConnection # 0 /\ pc'[peerConnection].gathering = "complete"
       THEN sendMessage([kind |-> "ICE", of |-> iceCandidateMsg])
       ELSE UNCHANGED posts
    /\ UNCHANGED <<uiVars, mediaVars, peerConnection, calls, iceCandidateMsg, peerId, req, reqGet,
                   timers, xhr, received>>

BrowserStep ==
    \/ \E x \in Xhrs :
          \/ SignInIgnored(x)
          \/ SignedIn(x)
          \/ WaitIgnored(x)
          \/ WaitSdp(x)
          \/ WaitIce(x)
    \/ WaitOn
    \/ GotMedia
    \/ MediaFails
    \/ \E k \in Calls :
          \/ OfferCreated(k)
          \/ OnIceGatheringStateChange(k)
=============================================================================
