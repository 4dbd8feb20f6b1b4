------------------------------- MODULE Replies -------------------------------
(***************************************************************************)
(* The reply functions of server.cpp, which the main thread calls, by the  *)
(* lengths of the bodies they write (the reply to a wait is written by     *)
(* WebrtcConnection).  The texts of the headers are left out.              *)
(*                                                                         *)
(* sendReplyPage uses the file as a format string.  index.html has three   *)
(* conversions for the address, the port and the log level, and lone       *)
(* percent signs in its style sheet, whose output C does not define: a     *)
(* build may print them or drop them.                                      *)
(***************************************************************************)
EXTENDS Integers

CONSTANTS FileSizes,    \* of the page and of the icon, in bytes
          Percents,     \* lone percent signs in a page
          IpLengths,    \* of the address given with -i
          MaxRequests   \* bound: requests

ASSUME RepliesAssumption ==
    /\ FileSizes \subseteq Nat /\ Percents \subseteq Nat
    /\ IpLengths \subseteq 0..15     \* 255.255.255.255
    /\ MaxRequests \in Nat

ErrorTemplate == 145    \* the page without the text
ErrorMax == 126         \* snprintf(errorPage, 127, ...)
Slack == 64             \* pageSize - size of the file
Block == 4096
Conversions == 6        \* "%s", "%d", "%d"

VARIABLES
    step,       \* "idle"; in sendReplyFavicon "opened", "copying"
    requests,
    size,       \* of the file of this request
    left,       \* bytes fread has not seen
    totalBytes,
    files,      \* FILEs that are open
    reply       \* the last reply: kind, body (its length), wanted (the length of a whole one)

replyVars == <<step, requests, size, left, totalBytes, files, reply>>

NoReply == [kind |-> "none", body |-> 0, wanted |-> 0]

RepliesInit ==
    /\ step = "idle"
    /\ requests = 0
    /\ size = 0
    /\ left = 0
    /\ totalBytes = 0
    /\ files = 0
    /\ reply = NoReply

-----------------------------------------------------------------------------
Lesser(m, n) == IF m < n THEN m ELSE n

Write(kind, body, wanted) == reply' = [kind |-> kind, body |-> body, wanted |-> wanted]

Take ==
    /\ step = "idle"
    /\ requests < MaxRequests
    /\ requests' = requests + 1

\* The page around the text is cut off, and sent like that.
sendReplyError(errorTxt) ==
    Write("error", Lesser(ErrorTemplate + errorTxt, ErrorMax), ErrorTemplate + errorTxt)

InvalidRequest ==
    /\ Take
    /\ sendReplyError(16)
    /\ UNCHANGED <<step, size, left, totalBytes, files>>

\* signIn and message: a header only.
sendReply ==
    /\ Take
    /\ Write("reply", 0, 0)
    /\ UNCHANGED <<step, size, left, totalBytes, files>>

-----------------------------------------------------------------------------
\* Mutant: the page is formatted into a buffer of the file's size.
pageSizeOfFile(n) == n + 1

pageSize(n) == n + Slack

\* The file, formatted, as far as it fits in pageSize - 1 bytes.
sendReplyPage ==
    /\ Take
    /\ \/ sendReplyError(19)
       \/ \E n \in FileSizes, lone \in Percents, ip \in IpLengths, port \in 1..5, log \in {1, 10} :
             /\ n >= Conversions + lone
             /\ \E printed \in 0..lone :
                   LET text == n - Conversions - lone + printed + ip + port + log
                       page == Lesser(text, pageSize(n) - 2)
                   IN  Write("page", page, text)
    /\ UNCHANGED <<step, size, left, totalBytes, files>>

-----------------------------------------------------------------------------
(***************************************************************************)
(* sendReplyFavicon.                                                       *)
(***************************************************************************)

FaviconMissing ==
    /\ Take
    /\ sendReplyError(19)
    /\ UNCHANGED <<step, size, left, totalBytes, files>>

FaviconOpen ==
    /\ Take
    /\ step' = "opened"
    /\ size' \in FileSizes
    /\ files' = files + 1
    /\ UNCHANGED <<left, totalBytes, reply>>

\* stat fails, because the file was removed meanwhile, or the file is empty:
\* the FILE stays open.
FaviconRefused ==
    /\ step = "opened"
    /\ sendReplyError(19)
    /\ step' = "idle"
    /\ UNCHANGED <<requests, size, left, totalBytes, files>>

FaviconStat ==
    /\ step = "opened"
    /\ size > 0
    /\ step' = "copying"
    /\ left' = size
    /\ totalBytes' = 0
    /\ UNCHANGED <<requests, size, files, reply>>

\* Mutant: the whole buffer is copied whenever fread has read something.
FaviconBlockWhole ==
    /\ step = "copying"
    /\ left > 0
    /\ left' = left - Lesser(left, Block)
    /\ totalBytes' = totalBytes + Block
    /\ UNCHANGED <<step, requests, size, files, reply>>

\* fread(buffer, 4096, 1, file) returns the number of whole blocks, 1 or 0,
\* and the loop counts it as bytes.
FaviconBlock ==
    /\ step = "copying"
    /\ left >= Block
    /\ left' = left - Block
    /\ totalBytes' = totalBytes + 1
    /\ UNCHANGED <<step, requests, size, files, reply>>

\* fread returns 0: what was copied is sent.
FaviconEnd ==
    /\ step = "copying"
    /\ left < Block
    /\ Write("icon", totalBytes, size)
    /\ step' = "idle"
    /\ files' = files - 1
    /\ UNCHANGED <<requests, size, left, totalBytes>>

-----------------------------------------------------------------------------
RepliesNext ==
    \/ InvalidRequest
    \/ sendReply
    \/ sendReplyPage
    \/ FaviconMissing
    \/ FaviconOpen
    \/ FaviconRefused
    \/ FaviconStat
    \/ FaviconBlock
    \/ FaviconEnd

\* sendReplyFavicon allocates fileContent by what stat() says, and copies until
\* fread() stops: the loop does not compare the two.  It never copies behind the
\* end of fileContent, although its count of bytes is one of blocks.
IconFits == step = "copying" => totalBytes <= size

\* The page with its address, port and log level filled in is never cut off at
\* the end of the buffer of sendReplyPage, whose size is a guess.
PageWhole == reply.kind = "page" => reply.body = reply.wanted
=============================================================================
