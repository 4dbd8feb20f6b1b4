---------------------------- MODULE RequestReader ----------------------------
(***************************************************************************)
(* How the main loop (server.cpp) gets a request into httpRwBuffer and a   *)
(* message out of it.  The buffer is one array for the whole life of the   *)
(* process: every request is read into it, parsed in place, and the reply  *)
(* is formatted into it too.                                               *)
(*                                                                         *)
(* Socket::read waits in select() for the TCP handle, at most 200 ms, and  *)
(* then calls SSL_read.  The two look at different things: SSL_read takes  *)
(* a whole TLS record from the handle and keeps what the caller had no     *)
(* room for, and select() does not know of it.  Content-Length is not      *)
(* looked at: a request is what came before the first silence.             *)
(*                                                                         *)
(* Byte k of the r-th request is <<r, k>>.  A request is its header and,   *)
(* for a POST, a body.  A record arrives as a whole (SSL_read waits for    *)
(* the rest of one).                                                       *)
(***************************************************************************)
EXTENDS Integers, Sequences

CONSTANTS Size,         \* HTTP_RW_BUFFER_SIZE
          Header,       \* the length of a header, its empty line included
          ReplySize,    \* what sendReply formats, its terminator included
          Lengths,      \* bound: the lengths of the requests
          MaxRecord,    \* the length of the longest TLS record
          MaxRequests   \* bound: requests

ASSUME ReaderAssumption ==
    /\ Header \in Nat \ {0}
    /\ ReplySize \in Nat \ {0}
    /\ Size \in Nat
    /\ Header < Size /\ ReplySize < Size
    /\ Lengths \subseteq Nat
    /\ MaxRecord \in Nat
    /\ MaxRequests \in Nat

VARIABLES pc,            \* where the main thread is
          request,       \* the number of the request
          length,        \* the length of the request
          arrived,       \* how much of it has arrived while the loop was reading
          records,       \* the records on the handle: where in the request each one ends
          decrypted,     \* where in the request the last record ends that SSL_read took
          closed,        \* the browser has closed the connection
          httpRwBuffer,  \* slot Size is the byte behind the buffer
          totalBytes,
          message        \* what the "message" handler takes for the body

netVars == <<request, length, arrived, records, closed>>
vars == <<pc, netVars, decrypted, httpRwBuffer, totalBytes, message>>

NUL == <<0, 0>>        \* the terminator
Other == <<0, 1>>      \* a byte of a reply, or one never written
Bytes == {NUL, Other} \cup ((1..MaxRequests) \X Nat)

TypeOK ==
    /\ pc \in {"accept", "read", "terminate", "parse", "message", "reply", "crashed"}
    /\ request \in 0..MaxRequests
    /\ length \in Nat
    /\ arrived \in 0..length
    /\ records \in Seq(Nat)
    /\ decrypted \in Nat
    /\ closed \in BOOLEAN
    /\ httpRwBuffer \in [0..Size -> Bytes]
    /\ totalBytes \in 0..Size
    /\ message \in Seq(Bytes)

Init ==
    /\ pc = "accept"
    /\ request = 0
    /\ length = 0
    /\ arrived = 0
    /\ records = <<>>
    /\ decrypted = 0
    /\ closed = FALSE
    /\ httpRwBuffer = [i \in 0..Size |-> Other]
    /\ totalBytes = 0
    /\ message = <<>>

-----------------------------------------------------------------------------
(***************************************************************************)
(* The browser.                                                            *)
(***************************************************************************)

Accept ==
    /\ pc = "accept"
    /\ request < MaxRequests
    /\ pc' = "read"
    /\ request' = request + 1
    /\ length' \in Lengths
    /\ arrived' = 0
    /\ records' = <<>>
    /\ decrypted' = 0
    /\ closed' = FALSE
    /\ totalBytes' = 0
    /\ message' = <<>>
    /\ UNCHANGED httpRwBuffer

Arrive ==
    /\ pc = "read"
    /\ ~closed
    /\ \E n \in 1..MaxRecord :
          /\ arrived + n <= length
          /\ arrived' = arrived + n
          /\ records' = Append(records, arrived + n)
    /\ UNCHANGED <<pc, request, length, decrypted, closed, httpRwBuffer, totalBytes, message>>

\* What is on the handle can still be read, or is lost if the connection was
\* reset.
Close ==
    /\ pc = "read"
    /\ ~closed
    /\ closed' = TRUE
    /\ \/ UNCHANGED <<arrived, records>>
       \/ arrived' = decrypted /\ records' = <<>>
    /\ UNCHANGED <<pc, request, length, decrypted, httpRwBuffer, totalBytes, message>>

-----------------------------------------------------------------------------
(***************************************************************************)
(* while ((bytes = clientSocket->read(...)) > 0)                           *)
(***************************************************************************)

\* FD_ISSET: the handle has data, or its end.
Readable == records # <<>> \/ closed

Lesser(m, n) == IF m <= n THEN m ELSE n

\* Mutant: the loop reads in portions smaller than a record.
RoomOfOne == Lesser(1, Size - totalBytes)

\* The size that is asked for.
Room == Size - totalBytes

\* Where the bytes end that SSL_read can return: those it has kept from the
\* last record, or those of the next one.
Available ==
    IF decrypted > totalBytes \/ records = <<>> THEN decrypted ELSE Head(records)

\* What SSL_read returns.
SslRead == Lesser(Available - totalBytes, Room)

\* Mutant: every read goes to the beginning of the buffer.
ReadBytesAtStart ==
    /\ pc = "read"
    /\ Readable
    /\ SslRead > 0
    /\ httpRwBuffer' = [i \in 0..Size |->
                          IF i < SslRead THEN <<request, totalBytes + i + 1>> ELSE httpRwBuffer[i]]
    /\ totalBytes' = totalBytes + SslRead
    /\ decrypted' = Available
    /\ records' = IF decrypted > totalBytes THEN records ELSE Tail(records)
    /\ UNCHANGED <<pc, request, length, arrived, closed, message>>

ReadBytes ==
    /\ pc = "read"
    /\ Readable
    /\ SslRead > 0
    /\ httpRwBuffer' = [i \in 0..Size |->
                          IF i \in totalBytes..(totalBytes + SslRead - 1)
                          THEN <<request, i + 1>> ELSE httpRwBuffer[i]]
    /\ totalBytes' = totalBytes + SslRead
    /\ decrypted' = Available
    /\ records' = IF decrypted > totalBytes THEN records ELSE Tail(records)
    /\ UNCHANGED <<pc, request, length, arrived, closed, message>>

\* select() times out, the connection has ended, or the buffer is full and 0
\* bytes are asked for.
ReadEnds ==
    /\ pc = "read"
    /\ ~Readable \/ SslRead = 0
    /\ pc' = "terminate"
    /\ UNCHANGED <<netVars, decrypted, httpRwBuffer, totalBytes, message>>

\* Mutant: the terminator is left out.
TerminateNot ==
    /\ pc = "terminate"
    /\ pc' = "parse"
    /\ UNCHANGED <<netVars, decrypted, httpRwBuffer, totalBytes, message>>

\* httpRwBuffer[totalBytes] = '\0'
Terminate ==
    /\ pc = "terminate"
    /\ httpRwBuffer' = [httpRwBuffer EXCEPT ![totalBytes] = NUL]
    /\ pc' = "parse"
    /\ UNCHANGED <<netVars, decrypted, totalBytes, message>>

-----------------------------------------------------------------------------
(***************************************************************************)
(* The request is parsed and executed.                                     *)
(***************************************************************************)

IsPost == length > Header

\* The header did not end: no reply.
ParseFails ==
    /\ pc = "parse"
    /\ totalBytes < Header
    /\ pc' = "accept"
    /\ UNCHANGED <<netVars, decrypted, httpRwBuffer, totalBytes, message>>

ParseGet ==
    /\ pc = "parse"
    /\ totalBytes >= Header
    /\ ~IsPost
    /\ pc' = "reply"
    /\ UNCHANGED <<netVars, decrypted, httpRwBuffer, totalBytes, message>>

\* httpReq.data is set if anything follows the header, and a null pointer is
\* not survived otherwise.
ParsePost ==
    /\ pc = "parse"
    /\ totalBytes >= Header
    /\ IsPost
    /\ pc' = IF totalBytes > Header THEN "message" ELSE "crashed"
    /\ UNCHANGED <<netVars, decrypted, httpRwBuffer, totalBytes, message>>

\* The text at an offset of the buffer, as std::string takes it from a char*.
CString(start) ==
    LET Ends(i) == httpRwBuffer[i] = NUL /\ \A j \in start..(i - 1) : httpRwBuffer[j] # NUL
        end == IF \E i \in start..Size : Ends(i) THEN CHOOSE i \in start..Size : Ends(i)
               ELSE Size + 1
    IN  [i \in 1..(end - start) |-> httpRwBuffer[start + i - 1]]

\* A reply in the buffer.
Replied == [i \in 0..Size |-> IF i < ReplySize - 1 THEN Other
                              ELSE IF i = ReplySize - 1 THEN NUL
                              ELSE httpRwBuffer[i]]

\* std::string message = (char*)httpReq.data; connection->pushMessage(message)
Message ==
    /\ pc = "message"
    /\ message' = CString(Header)
    /\ pc' = "reply"
    /\ UNCHANGED <<netVars, decrypted, httpRwBuffer, totalBytes>>

\* sendReply formats into the buffer that the request is in.
Reply ==
    /\ pc = "reply"
    /\ httpRwBuffer' = Replied
    /\ pc' = "accept"
    /\ UNCHANGED <<netVars, decrypted, totalBytes, message>>

Crashed ==
    /\ pc = "crashed"
    /\ UNCHANGED vars

AllServed ==
    /\ pc = "accept"
    /\ request = MaxRequests
    /\ UNCHANGED vars

Next ==
    \/ Accept
    \/ Arrive
    \/ Close
    \/ ReadBytes
    \/ ReadEnds
    \/ Terminate
    \/ ParseFails
    \/ ParseGet
    \/ ParsePost
    \/ Message
    \/ Reply
    \/ Crashed
    \/ AllServed

Spec == Init /\ [][Next]_vars

-----------------------------------------------------------------------------
\* When the read loop of server.cpp ends, it has all that arrived before the
\* silence that ended it, up to the size of the buffer: SSL_read never keeps
\* bytes that select() does not see while there is room for them.  At most
\* one byte behind the buffer is written, and only if that many bytes came.
TakesAllThatCame ==
    pc \in {"terminate", "parse", "message"} => totalBytes = Lesser(arrived, Size)

\* The message that a POST leaves with its session is the beginning of its
\* own body, all of it that came: nothing of an earlier request or of a reply
\* that was in the buffer before, and nothing of its own reply.
MessageIsBody ==
    pc = "reply" /\ IsPost =>
       message = [k \in 1..(Lesser(arrived, Size) - Header) |-> <<request, Header + k>>]

\* What is in the buffer of the request at hand.
BufferState ==
    /\ pc \in {"read", "terminate", "parse", "message"} =>
          \A i \in 0..(totalBytes - 1) : httpRwBuffer[i] = <<request, i + 1>>
    /\ pc \in {"parse", "message"} => httpRwBuffer[totalBytes] = NUL

\* The records follow each other, and SSL keeps bytes only if the buffer is
\* full.
Stream ==
    /\ totalBytes <= decrypted /\ decrypted <= arrived
    /\ decrypted > totalBytes => totalBytes = Size
    /\ records = <<>> => arrived = decrypted
    /\ records # <<>> => records[1] > decrypted /\ records[Len(records)] = arrived
    /\ \A i, j \in 1..Len(records) : i < j => records[i] < records[j]

\* The invariant of the main loop around the buffer.
ReaderInv ==
    /\ TypeOK
    /\ pc # "accept" => request > 0
    /\ pc = "message" => IsPost /\ totalBytes > Header
    /\ Stream
    /\ BufferState
    /\ TakesAllThatCame
    /\ MessageIsBody
=============================================================================
