--------------------------- MODULE MCHttpMessage ----------------------------
(***************************************************************************)
(* HttpMessage for TLC: a request line, two headers and data, with line    *)
(* ends between them that are right, broken, missing or doubled.           *)
(***************************************************************************)
EXTENDS HttpMessage

Eol1 == {<<"CR", "LF">>}
Eol2 == {<<"CR", "LF", "CR", "LF">>}
Broken == {<<"CR">>, <<"LF">>, <<>>}
RequestLines ==
    {<<"a", "SP", "/">>, <<"a", "SP", "/", "a", "/", "b">>, <<"a", "SP", "/", "a", "?", "b">>,
     <<"a", "SP", "/", "?">>, <<"a">>, <<>>, <<"Pragma:", "SP", "1">>}
Headers ==
    {<<"Pragma:", "SP", "1">>, <<"Pragma:", "SP", "SP", "2">>, <<"Pragma:", "1">>,
     <<"Origin:", "SP", "2">>}
Data == {<<>>, <<"b">>}

MCBuffers ==
    {FlattenSeq(<<request, e1, h1, e2, h2, e3, d>>) :
       request \in RequestLines, h1 \in Headers, h2 \in Headers,
       e1 \in Eol1 \cup Eol2 \cup Broken, e2 \in Eol1 \cup Eol2 \cup {<<"CR">>},
       e3 \in Eol1 \cup Eol2, d \in Data}
MCNumber == [c \in {"1", "2"} |-> IF c = "1" THEN 1 ELSE 2]
=============================================================================
