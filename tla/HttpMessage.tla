---------------------------- MODULE HttpMessage -----------------------------
(***************************************************************************)
(* parseHttpMessage (http.cpp): one call of it, one action per turn of its *)
(* loop over the buffer.  The text is a sequence of symbols: a character   *)
(* that matters to the parser, or the name of a header, or a number.       *)
(* splitString appears as what it returns, see SplitString.  Of HttpReq_t  *)
(* the fields are kept on which the server decides: the command of the     *)
(* URL, pragma, and where the data starts.  The URL's parameters and type, *)
(* version, origin, keepAlive and dataSize are left out.                   *)
(***************************************************************************)
EXTENDS StringFields

CONSTANTS Buffers,  \* bound: what the main loop may have read
          Number    \* the value of the symbols that are numbers

ASSUME BuffersAssumption == Buffers \subseteq Seq(STRING)

NoData == -1        \* nullptr

VARIABLES buffer,
          i, lineStart, lineNo,
          cmd, pragma, data,   \* fields of httpReq
          ret, pc

vars == <<buffer, i, lineStart, lineNo, cmd, pragma, data, ret, pc>>

Init ==
    /\ buffer \in Buffers
    /\ i = 0
    /\ lineStart = 0
    /\ lineNo = 0
    /\ cmd = <<>>
    /\ pragma = 0
    /\ data = NoData
    /\ ret = FALSE
    /\ pc = "parse"

\* The line ends at k.  Behind the last symbol is the terminator.
Eol(k) ==
    /\ k >= 0
    /\ k + 1 < Len(buffer)
    /\ Char(buffer, k) = "CR"
    /\ Char(buffer, k + 1) = "LF"

\* Blanks in front of a number are skipped; what is no number is 0.
atoi(text) ==
    LET k == SelectInSeq(text, LAMBDA c : c # "SP")
    IN  IF k > 0 /\ text[k] \in DOMAIN Number THEN Number[text[k]] ELSE 0

\* Mutant: the first part of the path is taken.
parseUrlFirst(url) ==
    LET parts == Fields(url, 0, Len(url), {"/"})
        part == parts[1]
        names == Fields(url, part.start, part.start + part.length, {"?"})
    IN  IF parts = <<>> THEN [cmd |-> <<>>, throws |-> FALSE]
        ELSE IF names = <<>> THEN [cmd |-> <<>>, throws |-> TRUE]
        ELSE [cmd |-> Text(url, names[1]), throws |-> FALSE]

\* The last part of the path, up to "?".  at(0) throws if nothing is left.
parseUrl(url) ==
    LET parts == Fields(url, 0, Len(url), {"/"})
        part == parts[Len(parts)]
        names == Fields(url, part.start, part.start + part.length, {"?"})
    IN  IF parts = <<>> THEN [cmd |-> <<>>, throws |-> FALSE]
        ELSE IF names = <<>> THEN [cmd |-> <<>>, throws |-> TRUE]
        ELSE [cmd |-> Text(url, names[1]), throws |-> FALSE]

-----------------------------------------------------------------------------
Advance ==
    /\ pc = "parse"
    /\ i < Len(buffer)
    /\ ~Eol(i)
    /\ i' = i + 1
    /\ UNCHANGED <<buffer, lineStart, lineNo, cmd, pragma, data, ret, pc>>

\* Mutant: the next line starts at the second symbol of the line end.
EndOfLineShort ==
    /\ pc = "parse"
    /\ Eol(i)
    /\ i # lineStart
    /\ lineNo' = lineNo + 1
    /\ lineStart' = i + 1
    /\ i' = i + 2
    /\ UNCHANGED <<buffer, data, ret>>

\* A line that is not empty ends.
EndOfLine ==
    /\ pc = "parse"
    /\ Eol(i)
    /\ i # lineStart
    /\ lineNo' = lineNo + 1
    /\ lineStart' = i + 2
    /\ i' = i + 2
    /\ UNCHANGED <<buffer, data, ret>>

RequestLine ==
    /\ EndOfLine
    /\ lineNo = 0
    /\ LET descList == Fields(buffer, lineStart, i, {"SP"})
           url == parseUrl(Text(buffer, descList[2]))
       IN  IF Len(descList) > 1
           THEN /\ cmd' = url.cmd
                /\ pc' = IF url.throws THEN "thrown" ELSE pc
           ELSE UNCHANGED <<cmd, pc>>
    /\ UNCHANGED pragma

\* Mutant: any header is taken for Pragma.
HeaderLineAny ==
    /\ EndOfLine
    /\ lineNo > 0
    /\ LET line == SubSeq(buffer, lineStart + 1, i)
           pos == SelectInSeq(line, LAMBDA c : c = "SP")
       IN  pragma' = IF pos > 0 THEN atoi(SubSeq(line, pos + 1, Len(line))) ELSE pragma
    /\ UNCHANGED <<cmd, pc>>

HeaderLine ==
    /\ EndOfLine
    /\ lineNo > 0
    /\ LET line == SubSeq(buffer, lineStart + 1, i)
           pos == SelectInSeq(line, LAMBDA c : c = "SP")
       IN  pragma' = IF pos > 0 /\ SubSeq(line, 1, pos - 1) = <<"Pragma:">>
                     THEN atoi(SubSeq(line, pos + 1, Len(line)))
                     ELSE pragma
    /\ UNCHANGED <<cmd, pc>>

\* Mutant: data is set although nothing follows the header.
EndOfHeaderWithData ==
    /\ pc = "parse"
    /\ Eol(i)
    /\ i = lineStart
    /\ i' = i + 2
    /\ ret' = TRUE
    /\ data' = i + 2
    /\ pc' = "done"
    /\ UNCHANGED <<buffer, lineStart, lineNo, cmd, pragma>>

\* An empty line.
EndOfHeader ==
    /\ pc = "parse"
    /\ Eol(i)
    /\ i = lineStart
    /\ i' = i + 2
    /\ ret' = TRUE
    /\ data' = IF i + 2 < Len(buffer) THEN i + 2 ELSE data
    /\ pc' = "done"
    /\ UNCHANGED <<buffer, lineStart, lineNo, cmd, pragma>>

EndOfBuffer ==
    /\ pc = "parse"
    /\ i >= Len(buffer)
    /\ pc' = "done"
    /\ UNCHANGED <<buffer, i, lineStart, lineNo, cmd, pragma, data, ret>>

Next == Advance \/ RequestLine \/ HeaderLine \/ EndOfHeader \/ EndOfBuffer

Spec == Init /\ [][Next]_vars

-----------------------------------------------------------------------------
(***************************************************************************)
(* What the parser is to find, told of the whole buffer at once.           *)
(***************************************************************************)

Offsets == 0..(Len(buffer) - 1)

StartsLine(k) == k = 0 \/ Eol(k - 2)

EmptyLines == {k \in Offsets : Eol(k) /\ StartsLine(k)}

\* The lines before the first empty one, as pairs of offsets.
HeaderLines ==
    LET header == 0..Min(EmptyLines \cup {Len(buffer)})
    IN  {l \in header \X header :
           /\ l[1] < l[2]
           /\ Eol(l[2])
           /\ StartsLine(l[1])
           /\ \A k \in l[1]..(l[2] - 1) : ~Eol(k)}

First == CHOOSE l \in HeaderLines : \A m \in HeaderLines : l[1] <= m[1]

\* A line that is exactly the header's name, a blank and something else.
IsPragma(l) == Char(buffer, l[1]) = "Pragma:" /\ Char(buffer, l[1] + 1) = "SP"

Pragmas == {l \in HeaderLines : IsPragma(l) /\ \E m \in HeaderLines : m[1] < l[1]}

\* The number in the last of them.
LastPragma(lines) ==
    LET l == CHOOSE l \in lines : \A m \in lines : m[1] <= l[1]
    IN  IF lines = {} THEN 0 ELSE atoi(SubSeq(buffer, l[1] + 3, l[2]))

\* The second word of the request line.
Url ==
    LET words == Fields(buffer, First[1], First[2], {"SP"})
    IN  IF HeaderLines = {} \/ Len(words) < 2 THEN <<>> ELSE Text(buffer, words[2])

\* Where the words behind the last "/" that has something behind it start and
\* end.
LastEnd(url) == Max({0} \cup {k \in 1..Len(url) : url[k] # "/"})
LastStart(url) == Max({0} \cup {k \in 1..LastEnd(url) : url[k] = "/"})
Names(url) == Fields(url, LastStart(url), LastEnd(url), {"?"})

\* The first of the words, without the parameters.
Command(url) == IF Names(url) = <<>> THEN <<>> ELSE Text(url, Names(url)[1])

\* There is something behind the "/" and it has no word.
NoCommand(url) == Names(url) = <<>> /\ \E k \in 1..Len(url) : url[k] # "/"

\* parseHttpMessage succeeds exactly if there is an empty line, and data is
\* what follows the first one, or nullptr if nothing does: this is what the
\* "message" handler of server.cpp dereferences.
HeaderFound ==
    pc = "done" =>
       /\ ret <=> EmptyLines # {}
       /\ ret => data = IF Min(EmptyLines) + 2 < Len(buffer)
                        THEN Min(EmptyLines) + 2
                        ELSE NoData

\* The peer id of the request is the number in its last Pragma header, and 0
\* without one; the request line and the data are not mistaken for headers.
PragmaFound == pc = "done" /\ ret => pragma = LastPragma(Pragmas)

\* The command is the word behind the last "/" of the URL, without its
\* parameters.  parseUrl throws exactly if there is something behind the "/"
\* and it has no word.
CommandFound ==
    /\ pc = "done" /\ ret => cmd = Command(Url)
    /\ pc # "parse" /\ (ret \/ pc = "thrown") => (pc = "thrown" <=> NoCommand(Url))

-----------------------------------------------------------------------------
(***************************************************************************)
(* Why it finds it: the invariant of the loop.                             *)
(***************************************************************************)
TypeOK ==
    /\ buffer \in Seq(STRING)
    /\ i \in 0..Len(buffer)
    /\ lineStart \in 0..i
    /\ lineNo \in Nat
    /\ ret \in BOOLEAN
    /\ pc \in {"parse", "done", "thrown"}

\* The line at i starts behind every end of a line before i, and no line
\* before i is empty.
AtLine ==
    /\ StartsLine(lineStart)
    /\ lineNo = 0 <=> lineStart = 0
    /\ \A k \in 0..(i - 1) : Eol(k) => k + 2 <= lineStart
    /\ \A k \in EmptyLines : i <= k

\* What the lines before i say is what has been found so far.
FoundSoFar ==
    /\ ~ret
    /\ data = NoData
    /\ pragma = LastPragma({l \in Pragmas : l[2] < i})
    /\ lineNo = 0 => cmd = <<>>
    /\ lineNo > 0 =>
          /\ \E l \in HeaderLines : l[1] = 0
          /\ cmd = Command(Url)
          /\ ~NoCommand(Url)

ParserInv ==
    /\ TypeOK
    /\ pc = "parse" => AtLine /\ FoundSoFar
    /\ HeaderFound
    /\ PragmaFound
    /\ CommandFound
=============================================================================
