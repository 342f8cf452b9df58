--------------------------- MODULE MCFlowAssembly ---------------------------
(* Small instances of FlowAssembly for TLC. *)
EXTENDS FlowAssembly, HttpTraffic

Content(n) == <<"{">> \o [i \in 1 .. n - 2 |-> Other] \o <<"}">>

Text        == <<TypeLine.unknown>>
Application == <<TypeLine.application>>
WithLength  == <<TypeLine.application, PartLength>>

\* Where a request with a short content is cut, in all ways into up to 3
\* frames, at the places where it makes a difference: within the header,
\* around its end, behind the part's header, and before the last byte.
Cuts == {c \in SUBSET {3, 7, 8, 9, 18, 28} : Cardinality(c) <= 2}

\* Requests that precede it on the connection.  Where the short body ends,
\* the third one has a boundary and the fourth one a CRLF; the fourth one has
\* more bytes than U16; the second one has its content in a frame of its own;
\* the fifth and the sixth have a length in the part's header, with the request's
\* header in the same frame and in another one; the sixth one's content makes
\* ParseHttp give up, and the last one's puts a GET where a frame begins.
Longer == <<Post(Text, Content(4), {20}),
            Post(Application, Content(6), {18, 24}),
            Post(Text, Content(9), {8}),
            Post(Application, Content(11), {18}),
            Post(WithLength, Content(5), {19}),
            Post(WithLength, <<"{", GivesUp, "}">>, {8, 19}),
            Post(Text, <<"{", Get, "}">>, {8, 19})>>

\* Two that come behind a GET, which begins the frame or does not; one whose
\* Content-Type is cut, and one whose Content-Length is cut, so that what is
\* left of it reads as the length of the next frame; and one with a negative
\* Content-Length.
Whole(n) == Len(Body(Text, Content(n)))
Odd == <<PostOf(PipelinedHeader(<<>>), Text, Content(4), {14, 24}, Whole(4)),
         PostOf(PipelinedHeader(CRLF), Text, Content(4), {16, 26}, Whole(4)),
         PostOf(HeaderCutInType, Application, Content(4), {CutInLine, 24}, Whole(4)),
         PostOf(HeaderCutInLength, Text, Content(4), {CutInLine, 27}, 27 - CutInLine),
         PostOf(HttpHeader, Text, Content(4), {18}, -1)>>

MCConnections ==
  {<<Longer[i], Post(Text, Content(2), c)>> : i \in DOMAIN Longer, c \in Cuts}
  \union {<<Odd[i], Post(Text, Content(2), {cut})>> : i \in DOMAIN Odd, cut \in {8, 18}}

\* The positions PostOf gives for the content are those of HasOnePart.
ASSUME RequestsHaveOnePart ==
  \A connection \in MCConnections :
    \A n \in DOMAIN connection : HasOnePart(connection[n])

MCTrailers == {<<Other, Other, Other>>, <<"-", "-", Other>>, <<LF, "-", "-">>}
=============================================================================
