------------------------- MODULE RequestReaderProofs -------------------------
(***************************************************************************)
(* RequestReader for every size of the buffer, of records and of requests. *)
(***************************************************************************)
EXTENDS RequestReader, TLAPS

\* A read that returns bytes returns those of a new record: if SSL kept some of
\* the last one, the buffer is full.
LEMMA ReadFacts ==
    ASSUME ReaderInv, ReadBytes
    PROVE  /\ decrypted = totalBytes
           /\ records # <<>> /\ Len(records) \in Nat \ {0}
           /\ Available = records[1] /\ records[1] \in Nat
           /\ records[1] > totalBytes /\ records[1] <= arrived
           /\ SslRead \in Nat \ {0}
           /\ totalBytes + SslRead <= Size
           /\ totalBytes + SslRead <= records[1]
           /\ records[1] > totalBytes + SslRead => totalBytes + SslRead = Size
           /\ records' = Tail(records)
<1>. /\ totalBytes \in Nat /\ decrypted \in Nat /\ arrived \in Nat /\ Size \in Nat
     /\ totalBytes <= Size /\ records \in Seq(Nat)
    BY ReaderAssumption DEF ReaderInv, TypeOK
<1>1. decrypted = totalBytes
    BY DEF ReaderInv, Stream, ReadBytes, SslRead, Room, Available, Lesser
<1>2. records # <<>>
    BY <1>1 DEF ReadBytes, SslRead, Room, Available, Lesser
<1>3. Available = records[1] /\ records[1] \in Nat /\ Len(records) \in Nat \ {0}
    BY <1>1, <1>2 DEF Available
<1>4. records[1] > totalBytes /\ records[1] <= arrived
    BY <1>1, <1>2, <1>3 DEF ReaderInv, Stream
<1>5. SslRead = Lesser(records[1] - totalBytes, Size - totalBytes) /\ SslRead > 0
    BY <1>3 DEF SslRead, Room, ReadBytes
<1>6. /\ SslRead \in Nat \ {0}
      /\ totalBytes + SslRead <= Size
      /\ totalBytes + SslRead <= records[1]
      /\ records[1] > totalBytes + SslRead => totalBytes + SslRead = Size
    BY <1>3, <1>4, <1>5 DEF Lesser
<1>. QED
    BY <1>1, <1>2, <1>3, <1>4, <1>6 DEF ReadBytes

\* The message that the handler takes from the buffer ends where the bytes of
\* the request end: the terminator is there, and no byte of a request is one.
LEMMA MessageText ==
    ASSUME ReaderInv, Message
    PROVE  /\ message' = [k \in 1..(totalBytes - Header) |-> <<request, Header + k>>]
           /\ message' \in Seq(Bytes)
<1>. DEFINE Ends(i) == httpRwBuffer[i] = NUL /\ \A j \in Header..(i - 1) : httpRwBuffer[j] # NUL
<1>1. /\ totalBytes \in 0..Size /\ Header \in Nat /\ Size \in Nat /\ totalBytes > Header
      /\ request \in 1..MaxRequests
    BY ReaderAssumption DEF Message, ReaderInv, TypeOK
<1>2. \A i \in 0..(totalBytes - 1) : httpRwBuffer[i] = <<request, i + 1>> /\ httpRwBuffer[i] # NUL
    BY <1>1 DEF Message, ReaderInv, BufferState, NUL
<1>3. httpRwBuffer[totalBytes] = NUL
    BY DEF Message, ReaderInv, BufferState
<1>4. totalBytes \in Header..Size /\ Ends(totalBytes)
    BY <1>1, <1>2, <1>3
<1>5. \A i \in Header..Size : Ends(i) => i = totalBytes
    BY <1>1, <1>2, <1>3
<1>6. (CHOOSE i \in Header..Size : Ends(i)) = totalBytes
    BY <1>4, <1>5
<1>7. message' = [k \in 1..(totalBytes - Header) |-> httpRwBuffer[Header + k - 1]]
    BY <1>4, <1>6 DEF Message, CString
<1>8. \A k \in 1..(totalBytes - Header) : httpRwBuffer[Header + k - 1] = <<request, Header + k>>
    BY <1>1, <1>2
<1>9. message' = [k \in 1..(totalBytes - Header) |-> <<request, Header + k>>]
    BY <1>7, <1>8
<1>10. \A k \in 1..(totalBytes - Header) : <<request, Header + k>> \in Bytes
    BY <1>1 DEF Bytes
<1>11. message' \in [1..(totalBytes - Header) -> Bytes]
    BY <1>9, <1>10
<1>12. totalBytes - Header \in Nat
    BY <1>1
<1>. QED
    BY <1>9, <1>11, <1>12

LEMMA StepType == ReaderInv /\ [Next]_vars => TypeOK'
<1>. SUFFICES ASSUME ReaderInv, [Next]_vars PROVE TypeOK'
    OBVIOUS
<1>. USE ReaderAssumption
<1>1. CASE Accept
    BY <1>1 DEF Accept, ReaderInv, TypeOK
<1>2. CASE Arrive
    <2>1. PICK n \in 1..MaxRecord :
             arrived + n <= length /\ arrived' = arrived + n /\ records' = Append(records, arrived + n)
        BY <1>2 DEF Arrive
    <2>2. arrived' \in 0..length /\ arrived' \in Nat /\ records' \in Seq(Nat)
        BY <2>1 DEF ReaderInv, TypeOK
    <2>. QED
        BY <1>2, <2>2 DEF Arrive, ReaderInv, TypeOK
<1>3. CASE Close
    <2>1. decrypted \in 0..length
        BY DEF ReaderInv, TypeOK, Stream
    <2>2. arrived' \in 0..length /\ records' \in Seq(Nat)
        <3>1. CASE UNCHANGED <<arrived, records>>
            BY <3>1 DEF ReaderInv, TypeOK
        <3>2. CASE arrived' = decrypted /\ records' = <<>>
            BY <2>1, <3>2
        <3>. QED
            BY <1>3, <3>1, <3>2 DEF Close
    <2>. QED
        BY <1>3, <2>2 DEF Close, ReaderInv, TypeOK
<1>4. CASE ReadBytes
    <2>1. request \in 1..MaxRequests
        BY <1>4 DEF ReadBytes, ReaderInv, TypeOK
    <2>2. \A i \in 0..Size : <<request, i + 1>> \in Bytes
        BY <2>1 DEF Bytes
    <2>3. httpRwBuffer' \in [0..Size -> Bytes]
        BY <1>4, <2>2 DEF ReadBytes, ReaderInv, TypeOK
    <2>4. totalBytes' \in 0..Size
        BY <1>4, ReadFacts DEF ReadBytes, ReaderInv, TypeOK
    <2>5. records' \in Seq(Nat) /\ decrypted' \in Nat
        BY <1>4, ReadFacts DEF ReadBytes, ReaderInv, TypeOK
    <2>. QED
        BY <1>4, <2>3, <2>4, <2>5 DEF ReadBytes, ReaderInv, TypeOK
<1>5. CASE ReadEnds \/ ParseFails \/ ParseGet \/ ParsePost \/ Crashed \/ AllServed \/ UNCHANGED vars
    BY <1>5 DEF ReadEnds, ParseFails, ParseGet, ParsePost, Crashed, AllServed, vars, netVars,
                ReaderInv, TypeOK
<1>6. CASE Terminate
    BY <1>6 DEF Terminate, netVars, ReaderInv, TypeOK, Bytes
<1>7. CASE Message
    <2>1. message' \in Seq(Bytes)
        BY <1>7, MessageText
    <2>. QED
        BY <1>7, <2>1 DEF Message, netVars, ReaderInv, TypeOK
<1>8. CASE Reply
    BY <1>8 DEF Reply, Replied, netVars, ReaderInv, TypeOK, Bytes
<1>. QED
    BY <1>1, <1>2, <1>3, <1>4, <1>5, <1>6, <1>7, <1>8 DEF Next

LEMMA StepStream == ReaderInv /\ [Next]_vars => Stream'
<1>. SUFFICES ASSUME ReaderInv, [Next]_vars PROVE Stream'
    OBVIOUS
<1>. /\ totalBytes \in Nat /\ decrypted \in Nat /\ arrived \in Nat /\ Size \in Nat
     /\ totalBytes <= Size /\ records \in Seq(Nat) /\ Len(records) \in Nat
    BY ReaderAssumption DEF ReaderInv, TypeOK
<1>1. CASE Accept
    BY <1>1 DEF Accept, Stream
<1>2. CASE Arrive
    <2>1. PICK n \in 1..MaxRecord : arrived' = arrived + n /\ records' = Append(records, arrived + n)
        BY <1>2 DEF Arrive
    <2>2. /\ n \in Nat /\ n > 0
          /\ Len(records') = Len(records) + 1 /\ records' # <<>>
          /\ records'[Len(records) + 1] = arrived + n
          /\ \A i \in 1..Len(records) : records'[i] = records[i]
        BY <2>1, ReaderAssumption
    <2>3. \A i \in 1..Len(records) : records[i] \in Nat /\ records[i] <= arrived
        BY DEF ReaderInv, Stream
    <2>4. records'[1] > decrypted
        BY <2>2 DEF ReaderInv, Stream
    <2>5. ASSUME NEW i \in 1..Len(records'), NEW j \in 1..Len(records'), i < j
          PROVE  records'[i] < records'[j]
        <3>1. i \in 1..Len(records) /\ records'[i] = records[i]
            BY <2>2, <2>5
        <3>2. CASE j = Len(records) + 1
            BY <2>2, <2>3, <3>1, <3>2
        <3>3. CASE j \in 1..Len(records)
            BY <2>2, <2>5, <3>1, <3>3 DEF ReaderInv, Stream
        <3>. QED
            BY <2>2, <3>2, <3>3
    <2>. QED
        BY <1>2, <2>1, <2>2, <2>4, <2>5 DEF Arrive, ReaderInv, Stream
<1>3. CASE Close
    BY <1>3 DEF Close, ReaderInv, Stream
<1>4. CASE ReadBytes
    <2>1. /\ totalBytes' = totalBytes + SslRead
          /\ decrypted' = records[1]
          /\ arrived' = arrived
          /\ records' = Tail(records)
        BY <1>4, ReadFacts DEF ReadBytes
    <2>2. /\ Len(records') = Len(records) - 1
          /\ \A i \in 1..Len(records') : records'[i] = records[i + 1]
        BY <1>4, <2>1, ReadFacts
    <2>3. totalBytes' <= decrypted' /\ decrypted' <= arrived'
        BY <1>4, <2>1, ReadFacts
    <2>4. decrypted' > totalBytes' => totalBytes' = Size
        BY <1>4, <2>1, ReadFacts
    <2>5. records' = <<>> => arrived' = decrypted'
        <3>1. SUFFICES ASSUME records' = <<>> PROVE arrived' = decrypted'
            OBVIOUS
        <3>2. Len(records) = 1
            BY <1>4, <2>2, <3>1, ReadFacts
        <3>3. records[Len(records)] = arrived
            BY <1>4, ReadFacts DEF ReaderInv, Stream
        <3>. QED
            BY <2>1, <3>2, <3>3
    <2>6. records' # <<>> => records'[1] > decrypted' /\ records'[Len(records')] = arrived'
        <3>1. SUFFICES ASSUME records' # <<>> PROVE records'[1] > decrypted' /\ records'[Len(records')] = arrived'
            OBVIOUS
        <3>2. Len(records) >= 2
            BY <1>4, <2>1, <3>1, ReadFacts
        <3>3. records[1] < records[2] /\ records[Len(records)] = arrived
            BY <1>4, <3>2, ReadFacts DEF ReaderInv, Stream
        <3>4. records'[1] = records[2] /\ records'[Len(records')] = records[Len(records)]
            <4>1. 1 \in 1..Len(records') /\ Len(records') \in 1..Len(records')
                BY <2>2, <3>2
            <4>2. 1 + 1 = 2 /\ Len(records') + 1 = Len(records)
                BY <2>2
            <4>. QED
                BY <2>2, <4>1, <4>2
        <3>5. records[1] \in Nat /\ records[2] \in Nat
            BY <3>2
        <3>. QED
            BY <2>1, <3>3, <3>4, <3>5
    <2>7. ASSUME NEW i \in 1..Len(records'), NEW j \in 1..Len(records'), i < j
          PROVE  records'[i] < records'[j]
        <3>1. i + 1 \in 1..Len(records) /\ j + 1 \in 1..Len(records) /\ i + 1 < j + 1
            BY <2>2, <2>7
        <3>2. records[i + 1] < records[j + 1]
            BY <3>1 DEF ReaderInv, Stream
        <3>. QED
            BY <2>2, <3>2
    <2>. QED
        BY <2>3, <2>4, <2>5, <2>6, <2>7 DEF Stream
<1>5. CASE UNCHANGED <<totalBytes, decrypted, arrived, records>>
    BY <1>5 DEF ReaderInv, Stream
<1>. QED
    BY <1>1, <1>2, <1>3, <1>4, <1>5 DEF Next, ReadEnds, Terminate, ParseFails, ParseGet, ParsePost,
       Message, Reply, Crashed, AllServed, vars, netVars

LEMMA StepBuffer == ReaderInv /\ [Next]_vars => BufferState'
<1>. SUFFICES ASSUME ReaderInv, [Next]_vars PROVE BufferState'
    OBVIOUS
<1>. /\ totalBytes \in Nat /\ Size \in Nat /\ totalBytes <= Size
     /\ httpRwBuffer \in [0..Size -> Bytes]
    BY ReaderAssumption DEF ReaderInv, TypeOK
<1>1. CASE Accept
    BY <1>1 DEF Accept, BufferState
<1>2. CASE ReadBytes
    <2>1. /\ totalBytes' = totalBytes + SslRead /\ totalBytes + SslRead <= Size /\ SslRead \in Nat
          /\ request' = request /\ pc' = "read"
        BY <1>2, ReadFacts DEF ReadBytes
    <2>2. ASSUME NEW i \in 0..(totalBytes' - 1) PROVE httpRwBuffer'[i] = <<request', i + 1>>
        BY <1>2, <2>1, <2>2 DEF ReadBytes, ReaderInv, BufferState
    <2>. QED
        BY <2>1, <2>2 DEF BufferState
<1>3. CASE Terminate
    BY <1>3 DEF Terminate, netVars, ReaderInv, BufferState
<1>4. CASE Reply
    BY <1>4 DEF Reply, BufferState
<1>5. CASE Arrive \/ Close \/ ReadEnds \/ ParseFails \/ ParseGet \/ ParsePost \/ Message \/ Crashed
           \/ AllServed \/ UNCHANGED vars
    BY <1>5 DEF Arrive, Close, ReadEnds, ParseFails, ParseGet, ParsePost, Message, Crashed, AllServed,
                vars, netVars, ReaderInv, BufferState
<1>. QED
    BY <1>1, <1>2, <1>3, <1>4, <1>5 DEF Next

LEMMA StepRequest ==
    ReaderInv /\ [Next]_vars =>
       /\ (pc # "accept" => request > 0)'
       /\ (pc = "message" => IsPost /\ totalBytes > Header)'
<1>. SUFFICES ASSUME ReaderInv, [Next]_vars
              PROVE  /\ (pc # "accept" => request > 0)'
                     /\ (pc = "message" => IsPost /\ totalBytes > Header)'
    OBVIOUS
<1>. request \in Nat
    BY ReaderAssumption DEF ReaderInv, TypeOK
<1>. QED
    BY DEF Next, Accept, Arrive, Close, ReadBytes, ReadEnds, Terminate, ParseFails, ParseGet, ParsePost,
           Message, Reply, Crashed, AllServed, vars, netVars, ReaderInv, IsPost

\* The loop ends in silence, with everything taken, or with a full buffer.
LEMMA StepTakes == ReaderInv /\ [Next]_vars => TakesAllThatCame'
<1>. SUFFICES ASSUME ReaderInv, [Next]_vars PROVE TakesAllThatCame'
    OBVIOUS
<1>. /\ totalBytes \in Nat /\ decrypted \in Nat /\ arrived \in Nat /\ Size \in Nat
     /\ totalBytes <= Size /\ records \in Seq(Nat)
    BY ReaderAssumption DEF ReaderInv, TypeOK
<1>1. CASE ReadEnds
    <2>1. CASE records = <<>>
        <3>1. arrived = decrypted
            BY <2>1 DEF ReaderInv, Stream
        <3>2. totalBytes = Lesser(arrived, Size)
            BY <3>1 DEF ReaderInv, Stream, Lesser
        <3>. QED
            BY <1>1, <3>2 DEF ReadEnds, netVars, TakesAllThatCame
    <2>2. CASE records # <<>>
        <3>1. SslRead = 0
            BY <1>1, <2>2 DEF ReadEnds, Readable
        <3>2. Available \in Nat /\ Available > totalBytes /\ arrived > decrypted
            BY <2>2 DEF Available, ReaderInv, Stream
        <3>3. totalBytes = Size
            BY <3>1, <3>2 DEF SslRead, Lesser, Room
        <3>4. totalBytes = Lesser(arrived, Size)
            BY <3>2, <3>3 DEF Lesser, ReaderInv, Stream
        <3>. QED
            BY <1>1, <3>4 DEF ReadEnds, netVars, TakesAllThatCame
    <2>. QED
        BY <2>1, <2>2
<1>2. CASE Accept \/ Arrive \/ Close \/ ReadBytes
    BY <1>2 DEF Accept, Arrive, Close, ReadBytes, TakesAllThatCame
<1>3. CASE Terminate \/ ParseFails \/ ParseGet \/ ParsePost \/ Message \/ Reply \/ Crashed \/ AllServed
           \/ UNCHANGED vars
    BY <1>3 DEF Terminate, ParseFails, ParseGet, ParsePost, Message, Reply, Crashed, AllServed, vars,
                netVars, ReaderInv, TakesAllThatCame
<1>. QED
    BY <1>1, <1>2, <1>3 DEF Next

LEMMA StepMessage == ReaderInv /\ [Next]_vars => MessageIsBody'
<1>. SUFFICES ASSUME ReaderInv, [Next]_vars PROVE MessageIsBody'
    OBVIOUS
<1>1. CASE Message
    <2>1. totalBytes = Lesser(arrived, Size)
        BY <1>1 DEF Message, ReaderInv, TakesAllThatCame
    <2>2. message' = [k \in 1..(Lesser(arrived, Size) - Header) |-> <<request, Header + k>>]
        BY <1>1, <2>1, MessageText
    <2>. QED
        BY <1>1, <2>2 DEF Message, netVars, MessageIsBody
<1>2. CASE ParseGet
    BY <1>2 DEF ParseGet, netVars, MessageIsBody, IsPost
<1>3. CASE Accept \/ Arrive \/ Close \/ ReadBytes \/ ReadEnds \/ Terminate \/ ParseFails \/ ParsePost
           \/ Reply
    BY <1>3 DEF Accept, Arrive, Close, ReadBytes, ReadEnds, Terminate, ParseFails, ParsePost, Reply,
                MessageIsBody
<1>4. CASE Crashed \/ AllServed \/ UNCHANGED vars
    BY <1>4 DEF Crashed, AllServed, vars, netVars, ReaderInv, MessageIsBody, IsPost
<1>. QED
    BY <1>1, <1>2, <1>3, <1>4 DEF Next

\* ReaderInv is an invariant of the loop of server.cpp that reads requests,
\* for every size of the buffer.
THEOREM ReaderInvariant == Spec => []ReaderInv
<1>1. Init => ReaderInv
    <2>. SUFFICES ASSUME Init PROVE ReaderInv
        OBVIOUS
    <2>1. Other \in Bytes /\ <<>> \in Seq(Nat) /\ <<>> \in Seq(Bytes)
        BY DEF Bytes
    <2>2. httpRwBuffer \in [0..Size -> Bytes] /\ message \in Seq(Bytes)
        BY <2>1 DEF Init
    <2>3. TypeOK
        BY <2>1, <2>2, ReaderAssumption DEF Init, TypeOK
    <2>4. Stream
        BY DEF Init, Stream
    <2>. QED
        BY <2>3, <2>4 DEF Init, ReaderInv, BufferState, TakesAllThatCame, MessageIsBody
<1>2. ReaderInv /\ [Next]_vars => ReaderInv'
    BY StepType, StepRequest, StepStream, StepBuffer, StepTakes, StepMessage DEF ReaderInv
<1>. QED
    BY <1>1, <1>2, PTL DEF Spec

\* However the records of TLS cut a request, the loop takes all of it that came
\* before the silence, and as much as fits.
THEOREM ReaderTakesAll == Spec => []TakesAllThatCame
<1>1. ReaderInv => TakesAllThatCame
    BY DEF ReaderInv
<1>. QED
    BY <1>1, ReaderInvariant, PTL

\* A message has nothing in it but the body of its own request.
THEOREM ReaderKeepsApart == Spec => []MessageIsBody
<1>1. ReaderInv => MessageIsBody
    BY DEF ReaderInv
<1>. QED
    BY <1>1, ReaderInvariant, PTL
=============================================================================
