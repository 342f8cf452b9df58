----------------------------- MODULE HttpTraffic -----------------------------
(***************************************************************************)
(* What a client sends: multipart requests with one part, as strings of    *)
(* HttpParse's symbols, each cut into frames by its TCP.                   *)
(***************************************************************************)
EXTENDS HttpParse

HttpHeader == <<"POST /", Host, RequestLength, TypeLine.multipart>> \o HeadersEnd

\* The same behind a GET, in one frame with it; `lead` is what stands before the
\* GET: nothing, or the empty line that some clients add to a request.
PipelinedHeader(lead) == lead \o <<Get, Host>> \o HeadersEnd \o HttpHeader

\* The same when the frame ends within the Content-Type, or within the number
\* of the Content-Length: the rest of the line is in the next frame.
HeaderCutInType   == <<"POST /", Host, RequestLength, TypeLine.unknown, Other>> \o HeadersEnd
HeaderCutInLength == <<"POST /", Host, TypeLine.multipart, RequestLength, Other>> \o HeadersEnd
CutInLine         == 4

\* `part` is the header of the part.
Body(part, content) ==
  Hyphens \o <<"boundary">> \o CRLF \o part \o HeadersEnd \o content \o
  Delimiter \o <<"boundary">> \o CloseEnd

\* The request, cut after each of the given numbers of symbols, and with what is
\* read of its two Content-Length lines; `number` is what is read of the request's.
PostOf(header, part, content, cuts, number) ==
  LET text == header \o Body(part, content)
      from == 9 + Len(part)
  IN  [text      |-> text,
       ends      |-> SetToSortSeq(cuts \union {Len(text)}, <),
       headerLen |-> Len(header),
       content   |-> [from |-> from, upto |-> from + Len(content)],
       lengths   |-> [line \in LengthLines |->
                        IF line = RequestLength THEN number ELSE Len(content)]]

Post(part, content, cuts) ==
  PostOf(HttpHeader, part, content, cuts, Len(Body(part, content)))
=============================================================================
