# WebRTC Reflector: a TLA+ verification project

The reflector is a small HTTPS server. A browser loads a page from it, signs in,
exchanges SDP and ICE messages through HTTP requests, and the server sends the
browser's camera and microphone back to it over WebRTC. The modules in this
directory model the server's own code (startup, the main loop, the session threads,
the queue between them, the WebRTC observer, sockets, requests and replies), the
script of the page, and both together over an unreliable network. TLC checks them on
small instances; TLAPS proves every safety property of these runs for every size,
those of page and server together for a user who waits for the page to settle.

## 1. Inventory

| Component | State | Operations | Talks to |
|---|---|---|---|
| Main loop, `server.cpp` | `clientSocket`, `httpReq`, `closeWait`, `peerId`, `webrtcConnectionList` | accept; cleanup of ended sessions; requests index page, favicon, `signIn`, `signOut`, `message`, `wait` | owns sockets until it parks one with a session; calls `WebrtcConnection` |
| `WebrtcConnection` | parked socket `m_clientSocket` under `m_mutex`, `m_queue`, `m_state`, `m_alive` | `connect`, `disconnect`, `pushMessage`, `setOutboundSocket` by the main thread; `Run()` by the session's thread | `MessageQueue`, `Observer`, `TcpSocket` |
| `MessageQueue` | `m_queue`, `m_mutex`, `m_condvar` | `enqueue`, `dequeue` with a wait of 100 ms | main thread and session threads |
| `Observer`, `observer.cpp` | the peer connection, local and remote candidates kept, outgoing messages, ICE state | `onSignalingMessage`; callbacks of libwebrtc; `getSignalingMessage` | libwebrtc, `Run()` |
| `TcpSocket`, `platform_socket.cpp` | OS handle and SSL session | create, bind, listen; accept (select 10 s, handshake), read (select 200 ms), write, destructor | main thread, session threads |
| HTTP parser, `http.cpp` | none (pure) | `parseHttpMessage`, `parseUrl`, `splitString` | main loop |
| Startup, `server.cpp` | `g_serverIp`, `g_httpsPort`, the listening socket | getopt, certificate, create, bind, listen | `TcpSocket` |
| Request buffer, `server.cpp` | `httpRwBuffer`, one for all requests and replies | read until silence, terminate, parse in place, reply | `TcpSocket`, parser |
| Replies, `server.cpp` | none | `sendReply`, `sendReplyPage`, `sendReplyFavicon`, `sendReplyError` | `TcpSocket` |
| Browser page, `bin/index.html` | `peerId`, `peerConnection`, `mediaStream`, `iceCandidateMsg`, `connected`, pending requests `req` and `reqGet` | sign in, wait loop, offer, candidates, disconnect | main loop over HTTP |
| Log, getopt, jsoncpp, libwebrtc, BoringSSL | | | third-party or I/O only |

How they interact: there is one main thread and one thread per session. The main
thread executes one request at a time. A `message` request goes through the
session's `MessageQueue` to `Run()`, which gives it to the `Observer`. What the
`Observer` produces waits until the browser has a `wait` request parked with the
session; `Run()` then writes one message to that socket and deletes it. Sessions
end by themselves and are deleted by the main thread when `accept()` is idle.

What is hard here, and would hardly be reached by a test:

- a socket is a raw pointer that moves from the main thread to a session, which
  deletes it, while the main thread decides in the same turn whether to delete it;
- a session's object is deleted by one thread while its own thread is ending;
- the main thread takes a lock that a session holds while it writes to the network;
- timeouts race with arrivals (dequeue, ICE, the 60 s limit);
- offer and candidates arrive in either order, and a second offer may replace a
  negotiation whose answer is still pending;
- state that survives longer than intended (`closeWait`, candidate lists, the bytes
  of earlier requests in the one buffer);
- `select()` and `SSL_read` disagree about whether there is something to read;
- handlers of the page look at global variables, not at the request they are set
  for, while the user disconnects and connects again, requests are aborted and
  messages are lost.

What makes each component correct:

- main loop and sessions: one live owner per socket; a wait answered at most once
  and by the right session; nothing used after it is freed; the main thread always
  gets back to `accept()`; dead sessions go away;
- `MessageQueue`: a FIFO queue with no lost wakeup;
- `Observer`: each answer reflects its own offer, or a failure was logged; a peer
  connection is given the candidates that are meant for it, whether they come before
  or after the offer; answer before candidates and each at most once;
- parser: the request it returns is the one in the buffer, however its lines end;
- request buffer: all that came is taken, and a session gets nothing but the body of
  its own request;
- replies: no buffer is too small, and the page is whole;
- startup: no clients on a socket that is only partly set up;
- page and server together: an answer or a candidate never reaches a peer
  connection it does not belong to, no message is skipped, and a negotiation that
  nothing disturbs completes.

`PROJECT.json` lists the hazards line by line with the properties aimed at them.

## 2. Modules

| Module | Models | Notes |
|---|---|---|
| `TcpSocket` | `TcpSocket` objects and their handles | addresses are reused, so a stale pointer can hit somebody else's socket |
| `WebrtcConnection` | `WebrtcConnection` and its thread, with the `Observer` as `Run()` sees it | extends `TcpSocket` |
| `Server` | the main loop, composed with any number of sessions | extends `WebrtcConnection`; properties and the inductive invariant |
| `MCServer` | | symmetry for TLC |
| `MessageQueue`, `FifoQueue` | the queue, and what it promises | refinement |
| `Observer`, `Negotiation` | the observer, and the dialog it promises to the browser | refinement |
| `StringFields`, `SplitString`, `MCSplitString` | `splitString`: what it returns, and its loop | |
| `HttpMessage`, `MCHttpMessage` | `parseHttpMessage` and `parseUrl` over a buffer of symbols | uses `StringFields` for the calls of `splitString` |
| `RequestReader` | the read loop, `Socket::read` over TLS records, and the shared buffer | |
| `Replies` | the four reply functions, by the lengths of the bodies they write | |
| `Startup` | `main()` up to its loop; `create`, `bind`, `listen` | |
| `Service` | the main thread from the command line to its replies | extends `Startup` and `Replies` |
| `Page` | the script of `bin/index.html` | |
| `Reflector` | the page, the network and a coarse server | extends `Page` |
| `ServerProofs`, `MessageQueueProofs`, `ObserverProofs`, `SplitStringProofs`, `HttpMessageProofs`, `RequestReaderProofs`, `ServiceProofs`, `ReflectorProofs` | | TLAPS proofs |

### Correspondence with the code

Variables carry the source's names where the source has one. Ghost variables are
the histories (`posted`, `handled`, `produced`, `sent`, `enqueued`, `dequeued`,
`out`, `offered`, `reported`, `ices`), `object` (life of a heap object), `handle`,
`written` and `wanted` (a socket's state, how many replies it had, and which
session its request asked for), and the program counters `mainPc`, `runPc`, `pc`.

**Server.** One action per request handler and per step of the loop. Reading and
parsing end in one of three ways: a request (`ReadRequest`), a header that never
ended (`ParseFails`), or the exception of `parseUrl` on a URL that ends in `?`
alone (`ParseThrows`). A request keeps what the handlers look at: command, the
`Pragma` number, and whether any data followed the header. Whatever a browser can
send in whatever order is in the model; the page's own order is not assumed. The
handler is one action because the main thread shares with the sessions only what
the handler touches once: the queue, or the parked socket under its mutex.
`CloseClient` is the `if (closeWait) delete clientSocket` at the end of the loop,
a step of its own because a session may use and delete the socket in between.
Cleanup is split at `disconnect()`, which waits for the thread. `crashed` is the
end of the process, by a null pointer given to `std::string` or an exception that
nobody catches.

**WebrtcConnection.** `Run()` is split where another thread can see or influence
it: the test of `m_alive`, dequeue (find, start waiting, time out), the return
from `onSignalingMessage`, taking `m_mutex` and the message, the write, the delete
and release, the ICE check, `ProcessMessages`, the write of `m_state`, the return.
Callbacks happen only in the program points where the thread is inside
libwebrtc. `expired` is the clock: it becomes true at any time, once, after
`Run()` has begun. `m_queue` is used through one atomic step per operation; that
this is sound is what `MessageQueue` shows against `FifoQueue`.

**MessageQueue.** The condition variable follows the C++ standard: a wait ends by
notification, timeout or spuriously, the mutex is taken again, and a timeout may
be reported even if a notification came.

**Observer.** The action names are the source's methods; `onSignalingMessage` for
an SDP is split at the calls of `OnAddStream`, one per remote stream, and at the read
of `session_description->type()`. A stream is the set of its kinds of track:
`OnAddStream` uses the first video and the first audio track and no other. ICE
messages are numbered, and `ices` records which peer connection there was when each
came, so that one that is lost can be told from one that was applied. libwebrtc's
part is chosen nondeterministically: whether a peer connection is created, whether
the description is taken, which tracks `AddTrack` and which stream `AddStream`
refuses (`reported`: the code logs it and answers all the same), whether and when the
answer is created, how many candidates are found and when gathering is complete.

**SplitString, HttpMessage.** One action per turn of the loop, offsets from 0 as in
the source. A buffer is a sequence of symbols: the characters the parser tests (the
blank is `"SP"`), a header's name or a number as one symbol, anything else. The properties do not
follow the loop: they say of the whole buffer where the first empty line is, which
line is the last `Pragma` header, and which word the URL ends in. `Server` uses the
outcomes: `data` is missing exactly if nothing follows the header
(`HeaderFound`), and the exception is real (`CommandFound`).

**RequestReader.** A request is a number and a length; its k-th byte is `<<r, k>>`,
so that bytes of different requests can be told apart in the buffer. The network
delivers TLS records; `SSL_read` takes one record from the handle and keeps what the
caller had no room for, and `select()` sees only the records on the handle. The read
loop ends with silence, the end of the connection or a full buffer. `Terminate` may
write one byte behind the buffer (slot `Size`), as the code does. What
`parseHttpMessage` decides is reduced to whether the header is complete and whether
data follows, which is what `HttpMessage` shows it does.

**Replies.** The reply functions of the main thread; the reply to a wait is written
by `WebrtcConnection::sendMessage` and is a step of `WebrtcConnection`. The numbers are
the source's: buffer sizes, block size, length of the error page. A body is its
length, headers are left out. `sendReplyPage` uses the file as a format string, and the style sheet
of `index.html` has lone percent signs whose output C leaves undefined: `printed` of
them appear, any number. `fread` returns whole blocks.

**Startup.** One action per call whose result `main()` could look at and does not,
and one for its failure. The OS refuses a handle that is no socket, a foreign
address and `listen` without `bind`, and may refuse anything else. `asserts` says
whether the build has assertions. `Service` continues with the replies: a client is
accepted, and one of the functions of `Replies` answers it or none does.

**Page.** One action per event with the whole handler. An `XMLHttpRequest` with a
handler has an entry in `xhr` that says how far it is; `readyState` 4 is `done`.
`abort()` on a request on its way leaves open whether the server still gets it.
`SignedIn` is the handler of `signIn` with `waitOn` and `getMediaStream`; the handler
of `waitOn` is `WaitIgnored`, `WaitSdp` or `WaitIce`. A peer connection, its offer
and its candidates share a number, so a mix-up is visible: `remote` and `given` are
the numbers of what a peer connection was given. Handlers that throw
(`StopThrows`, `HandlerThrows`, an answer without peer connection, no devices) do
what comes before the line that throws. `reqGet.ontimeout` is never called, because
`timeout` is never set.

**Reflector.** The server at the granularity of requests and callbacks: this is
sound because `Server`, `MessageQueue` and `Observer` show that the threads handle
messages in order, answer one wait with one message and give the answer before the
candidates. Requests overtake each other; if `Lossy`, posts are lost and connections
break at any point, without the server noticing. A patient user
(`Impatient = FALSE`) waits before the next click until sign-in and camera are settled
and until a `setTimeout(waitOn, 0)` of the page (`bin/index.html:335`, which
`stopRecording` does not cancel) has run (`Settled`); an impatient one clicks at any
time. A post without candidates ends the process
(see Findings), after which all connections break.

### Assumptions about what is not under the repository's control

- libwebrtc calls back on the thread that created the peer connection, inside
  `ProcessMessages` or inside the call that triggers it (`OnAddStream` inside
  `SetRemoteDescription`); a pending `CreateAnswer` of a peer connection ends, with
  `OnSuccess` or `OnFailure`, when that is replaced, and not later (if `OnSuccess` then
  finds the new peer connection, that has no remote description yet and refuses the
  answer and the kept candidates); a peer connection that is new refuses anything but
  an offer; `Completed` is reported on the offering side only and `Closed` only after
  `Close()`, so neither reaches this server.
- Reads and writes of `m_alive` and `m_state` are atomic (both are aligned words
  on the x86 build).
- `peerId` does not wrap around: 2^32 sign-ins.
- `SSL_read` returns at most what is left of one record, and waits for the rest of a
  record that has begun to arrive.
- In the page, a peer connection takes only an offer of its own as its local
  description, and calls nothing after `close()`.
- An address given with `-i` has at most 15 characters: it is "any" or a dotted address
  in its usual form, or `bind()` refuses it.
- The files that are served are not replaced while they are: `sendReplyFavicon` asks
  for the size by name, after it has opened the file (`server.cpp:88`).
- The page's messages are well formed: a message that jsoncpp parses but that has
  other types than expected, or an empty one, makes a session thread throw and is
  not modelled.

## 3. Runs

| Run | Instance | Shows |
|---|---|---|
| `two_peers` | 2 sessions, 2 socket addresses, 1 message per direction and session, 1.5 M states | `TypeOK`, `OneOwner`, `WaitAnsweredOnce`, `OwnWait`, `NoUseAfterFree`, `ServerInv` |
| `liveness` | 1 session, 2 addresses, 2 messages to the browser, all ICE histories, fair threads, 0.13 M states | `MainReturns`, `UnconnectedEnds`, `EndedDeleted`, `WaitAnswered`, `PostHandled`, `OutboxInOrder` |
| `message_queue` | 2 producers, 2 consumers, 3 messages, fair | `QueueInv`, `NoLostWakeup`, `ImplementsFifo` |
| `observer` | 2 offers with any set of the 3 possible streams, 2 ICE messages, 1.8 M states | `ObserverInv`, `AnswersReflect`, `CandidatesApplied`, `ImplementsNegotiation` |
| `split_string` | all texts of up to 6 characters, all pieces of them | `SplitInv`, `ReturnsFields` |
| `http_message` | 6720 buffers: request line, two headers and data with right, broken, missing and doubled line ends | `HeaderFound`, `PragmaFound`, `CommandFound`, `ParserInv` |
| `request_reader` | buffer of 5 bytes, header of 2, requests of 1 to 7 bytes in records of up to 3, 2 requests, 6 579 states | `ReaderInv`, `TakesAllThatCame`, `MessageIsBody` |
| `service` | ports 0, 80, 65535, 65536, 65537 and the default, every failure; files around the block size and of the page's size, 0 or 4 lone percent signs, 2 requests, 0.2 M states | `RepliesOnlyIfReady`, `IconFits`, `PageWhole` |
| `reflector` | 2 sessions, 2 peer connections, 3 clicks, 4 requests at once, lossy network, 1.6 M states | `AnswerFitsOffer`, `CandidatesFit`, `WaitNotOverwritten`, `NoGap`, `ReflectorInv` |
| `negotiates` | the same with 3 requests at once on a network that works, fair, 0.5 M states | `Negotiates` |
| `closed_after_reply` | violation | sockets stay open after the first wait |
| `description_alive` | violation | a refused description is read after it was deleted |

**Bounds.** Two sessions are the smallest number in which a socket can end up with
the wrong session and in which erasing from the list moves another element. Two
addresses are enough for a parked socket and the main thread's next one, and make
every freed address come back at once; the second may also be a second wait for the
same session. In `two_peers` no ICE state is reported (`IceReported = {}`),
so sessions end by the 60 s limit; `liveness` has every ICE
history. Two messages to the browser show their order. A session gets one message
from it, so the runs of `Server` say nothing of the order of these: it is checked in
`message_queue` with three, and proved of `Server` (`MessagesHandledInOrder`).
Addresses that leak stay open, so
a behaviour ends up without free addresses; the main loop then idles and sessions
go on, which is why the bound on addresses does not hide the end of sessions.
Two offers let one replace another in every phase; two ICE messages let one be
kept in place of another, and come on either side of each offer. In `splitString` only membership
in the separators matters, so one separator and one other character are enough, and
six characters hold three fields. In `request_reader` the lengths lie below the
header, at its end, just below, at and above the buffer's size and beyond, and a
record may be larger than the room that is left; the second request finds the first
and its reply in the buffer. In `service` the sizes are 0, 1, the real icon's 1150,
both sides of a block and two, and the real page's size. In `reflector` three clicks
are connect, disconnect, connect: the smallest number in which anything of an old
session can meet a new one; four requests are the sign-in and the wait of each.
`reflector` and `negotiates` do not check for deadlock: when clicks are used up and
sessions are over nothing is left to happen.
The proofs remove the bounds for the safety properties of all runs.

**Fairness.** `FairSpec` assumes that a thread that can take a step does so
eventually: the main thread's steps, idle `accept()`, each session thread, and its
clock. The waits of the code have timeouts (100 ms in dequeue and
`ProcessMessages`, 200 ms in read, 10 s in accept). `SSL_accept`, `SSL_read` after
a successful select, and `SSL_write` have none: the runs assume that a client does
its part or closes its connection. Nothing else is assumed of browsers, and nothing
of libwebrtc's callbacks. `EndedDeleted` has its own condition, that `accept()` is
idle again and again: with a request every few seconds the code never cleans up.
In `MessageQueue`, consumers call `dequeue` again and again, as `Run()` does, and
a single consumer is promised nothing while others compete. In `Reflector` the
browser handles its events and the camera is granted or refused, the server handles
requests and messages, and libwebrtc answers an offer or fails and completes
gathering (`ServerNext` contains these callbacks); the user, the finding of
candidates, breaks, and the end of sessions happen or not. `Negotiates` excludes
nothing else: a failed negotiation, an ended session, a click on the button and the
end of the process are in its conclusion.

**The impatient user.** With `Impatient = TRUE` the safety properties of
`reflector` are violated: a second sign-in before the first is answered makes two
waits and two offers under one peer id, and the answer to one offer is given to the
peer connection of the other. A click to disconnect while a `setTimeout(waitOn, 0)` is
pending violates `NoGap` by itself: the wait that is then sent has no session, and the
event of that request runs the handler on the `reqGet` of a later one, whose message is
taken twice. No document says how the page behaves then, so
this is no finding; the button invites that click (see below).

### Findings

1. `closed_after_reply`: `closeWait` (`server.cpp:201`) is set to `false` by the
   first `wait` and never set back, so no later request's socket is closed although
   each reply says `Connection: close`.
2. `description_alive`: `observer.cpp:267` reads the description after giving it to
   `SetRemoteDescription`, which owns it even if it fails.

The models contain more that the code does and hardly means to do; there is no run
for it, and the properties above are about what holds in spite of it:

- A POST to a live session without data is not answered: the handler builds a
  `std::string` from a null pointer (`server.cpp:256`) and the process ends
  (`crashed`). The page sends one if gathering completes without a candidate
  (`bin/index.html:188`).
- The button is labelled "Disconnect" when the sign-in is sent
  (`bin/index.html:421`), but `handleConnect` goes by `connected`, which is set when
  it is answered: until then, and for good if signing in fails, a click signs in
  again (`StartRecording`). After a refused camera `stopRecording` throws at its
  first line (`StopThrows`).
- `fread(buffer, 4096, 1, file)` (`server.cpp:104`) returns blocks, the loop counts
  bytes (`FaviconBlock`); the 1150 bytes of `favicon.ico` are served as none.
- `onSignalingMessage` keeps one ICE message until there is a peer connection: a
  second one that comes before the offer replaces it (`observer.cpp:277`, `IceKept`).
  Candidates that overtake a second offer are given to the peer connection of the first
  (`IceAdded`). The page sends one such message per peer connection, so neither happens
  in a session with one offer.
- The header of a reply is cut off without notice if the `Origin` has more than some
  800 characters (`server.cpp:125`); nothing bounds it. Header texts are not modelled.
- `main()` lets an empty address and port 0 (`-p 65536`) through to `create()`, which
  asserts that there are both (`AssertFails`).
- `bind()` takes "any" for every address, and `sendReplyPage` writes the same text
  into the page's URL.

## 4. Proofs

All theorems hold for every value of the constants that satisfies the named
assumptions (`SocketsAssumption`, `PeersAssumption`, `PostedAssumption`,
`ThreadsAssumption`, `ObserverAssumption`, `StringsAssumption`, `ReaderAssumption`,
`RepliesAssumption`, `StartupAssumption`, `BuffersAssumption`, `PageAssumption`,
`ReflectorAssumption`: bounds are natural
numbers, special values are not members of the sets, texts are sequences; a header
and a reply are shorter than the buffer; addresses have at most 15 characters).
The theorems of `ReflectorProofs` have the hypothesis `~Impatient`: no click before
sign-in, camera and the page's timers are settled. Without it they are false.

- `ServerProofs`. `ServerInv` is inductive. `OneOwner` alone is not: that `Run()`
  may delete the parked socket needs that `m_mutex` is held exactly between taking
  the message and dropping the socket (`ConnectionState`), and that a freshly
  accepted address is nobody's needs that parked sockets are open. `NoUseAfterFree`
  needs that the list has no duplicates and that iterators stay inside
  (`ListState`), that ids above `peerId` are unborn, and that `END` is published
  only by a thread that will not touch the object again. `WaitAnsweredOnce` and
  `OwnWait` need that the request at hand has a socket without a reply
  (`RequestState`). There is one lemma per conjunct (`StepType`,
  `StepConnectionState`, `StepListState`, `StepNoUseAfterFree`,
  `StepRequestState`, `StepOneOwner`, `StepWaits`, `StepInbox`, `StepOutbox`), each
  with one case per action that can disturb it.
- `MessageQueueProofs`. `QueueInv` is inductive: the lock's discipline (`Locked`),
  what was pushed is what was popped followed by what is queued (`InOrder`), and no
  lost wakeup. From `InOrder`, every step is a `Put`, a `Get` or a stutter of
  `FifoQueue` (`ImplementsFifoSteps`).
- `ObserverProofs`. `ObserverInv` ties all fields to the peer connection of the
  last SDP message (`PcState`). `AnswersReflect` needs `StreamState`: between the calls
  of `OnAddStream`, the tracks it sends are those of the streams reported so far, unless
  a failure was logged. `CandidatesApplied` needs `IceState`: a message that came for
  this peer connection was given to it, and one that came without a peer connection is
  the kept one or was replaced. `NegotiationImplemented` maps every step to a step or
  stutter of `Negotiation`.
- `SplitStringProofs`. `SplitInv` is the loop invariant: all fields before `s` are
  listed, `[s, i)` is part of one, and `s` starts the text or follows a separator.
  `PushFacts` is the one place where a field is added. `ReturnsFields` compares the
  list with `Fields`, which places each field by the number of fields in front of it
  (`Rank`). No induction is needed: by `SplitInv` the list is a bijection onto the
  fields that is increasing, so the fields in front of the k-th are those of the
  indices below k (`ListIsFields`).
- `HttpMessageProofs`. `ParserInv` is the loop invariant. `AtLine`: the current line
  starts behind every line end before `i`, and no line before `i` is empty.
  `FoundSoFar`: what has been found is what the header lines that end before `i` say.
  The conclusions speak of the first empty line, the last `Pragma` line and the last
  word of the URL; that these exist comes from the well-foundedness of `<` on the
  naturals (`LeastNat`, `MinOfNats`, `MaxOfBounded`). `parseUrl` looks at the last of
  the parts between slashes; `FieldsListed` shows that `Fields` lists all fields in
  order (ranks are different and there are as many as fields), and `LastPart` that
  its last element is what lies between `LastStart` and `LastEnd`. The step lemmas
  are one per action; `EndOfLineFacts` and `PragmaLine` say which line has just ended.
- `RequestReaderProofs`. `ReaderInv` is inductive. `TakesAllThatCame` alone is not:
  that silence on the handle means that nothing is left needs `Stream`: the records
  are increasing and end at what arrived, and SSL holds bytes back only when the
  buffer is full, because the loop always asks for all the room there is.
  `MessageIsBody` needs `BufferState`: the request's own bytes up to `totalBytes`,
  then the terminator; `MessageText` says what `std::string` makes of that.
- `ServiceProofs`. `ServiceInv` is inductive. `RepliesOnlyIfReady` alone is not: it
  needs `StartupInv`, that a failed call leaves the socket in a state in which the
  next call fails, so that ignoring the results is harmless, and that nothing fails
  in the loop (`LoopForever`). `IconFits` needs `IconInv`: every byte counted stands
  for a block that `fread` has used up. That the formatted page fits in its buffer
  (15 + 5 + 10 characters at most replace 6, and there is room for 62 more than the
  file has) is `PageFits`.
- `ReflectorProofs`. `ReflectorInv` is inductive for a patient user, for any number of
  sessions, peer connections, clicks and requests, and for a network that breaks
  connections or does not. The handlers of the page use global variables, so
  `AnswerFitsOffer` needs to know that these are still about the request that is being
  answered. `OneRequest`: a sign-in or wait that is not over is the one that `req` or
  `reqGet` refers to, and no session has two waits. `OneCall`: with devices the page
  signs in only when it has neither session nor peer connection. `OneNegotiates`: only
  the current peer connection creates an offer or gathers. `NewSessions`: a session the
  page has not been told of has never been spoken to, and neither post nor wait names
  it. `OneOffer`: everything a session was told, keeps and will say, and every post on
  its way to it, is about one peer connection, the current one if it is the current
  session; this is why the candidate lists that the `Observer` never clears do no harm.
  `NothingSaid` covers the page without devices, which may sign in again and again and
  have many waits: nothing is ever sent to any of them.
  `NoGap` needs `Delivery`: while the page may still take a message, it has taken all
  that were sent but the one on its way; a lost message leaves the page with a request
  that failed, after which it does not wait again. `WaitNotOverwritten` follows from
  `OneRequest` and `WaitsParked` (`SocketKept`). There is one lemma per action; the
  lemmas `PageStep`, `ThreadStep` and `RequestStep` reduce a step that touches only the
  page, one session or the requests to what it must keep of these.

Only model-checked: liveness (`MainReturns`, `UnconnectedEnds`, `EndedDeleted`,
`WaitAnswered`, `PostHandled`, `Negotiates`, and the fairness part of
`ImplementsFifo`), because fairness and ENABLED are out of the prover's reach. The two
runs that expect a violation have no theorem.

## 5. Plan

Done: the core (`TcpSocket`, `WebrtcConnection`, `Server`), the queue and the
observer with their abstract specifications, the parser, request buffer, replies,
startup, the page and its composition with the server, and proofs of all safety
properties.

Next: an abstract lifecycle of sessions (accepted, negotiating, connected, ended,
deleted) that `Server` and the server's side of `Reflector` both implement, so that
the granularity of `Reflector` becomes a refinement.

## 6. Not modelled

- `log.cpp`: prints only.
- The page's layout, menus of devices, statistics and the playback of the reflected
  video: they read the state that is modelled and change none of it.
- JSON and SDP texts; a message that does not parse. The texts of reply headers.
- `Socket::connect`, the address getters and `Observer::deletePeerConnection`:
  nothing calls them. `Observer`'s callbacks that only log.
- Third-party code: `getopt.cpp`, `jsoncpp.cpp`, `json/`, and the headers of libwebrtc
  and BoringSSL under `webrtc/include`, which are about 99 % of the repository's lines.
  Their implementation is not in the repository, so the share of its lines that these
  modules can cover is small whatever is added; of the program's own files (`server`,
  `webrtc_connection`, `observer`, `message_queue`, `platform_socket`, `http`, and the
  script of `index.html`) every operation that changes state is modelled.
