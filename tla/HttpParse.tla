------------------------------ MODULE HttpParse ------------------------------
(***************************************************************************)
(* ParseHttp of src/src/http_parse.cpp: what it finds in the payload of    *)
(* one frame.  It goes through the payload from its first byte to its last *)
(* and compares the 4 bytes at each position with the beginnings of the    *)
(* fields it knows, wherever they stand: nothing tells it whether a frame  *)
(* is the header of a request, a part of a body, or content.               *)
(*                                                                         *)
(* A payload is a sequence of symbols, each as long as a byte: the bytes   *)
(* CR, LF, hyphen and brace one by one; the beginning of a header's line   *)
(* as one symbol (the Content-Type lines of the three kinds the code tells *)
(* apart, the Content-Length of the request and of a part, GET, POST and   *)
(* Host); and a text on which the parser gives up (GET or POST that no     *)
(* path follows, a proxy's request, a refer that is no URL).  A line that  *)
(* is cut by the frame's end is a symbol like any other: a type cut short  *)
(* is of the unknown kind, and what a length cut short says is up to       *)
(* whoever sends it (HttpTraffic).  What Host, path, refer and user agent  *)
(* say is not kept: nothing uses it.                                       *)
(***************************************************************************)
EXTENDS Integers, SequencesExt

CR == "\r"
LF == "\n"

CRLF        == <<CR, LF>>
Hyphens     == <<"-", "-">>
HeadersEnd  == CRLF \o CRLF      \* 0x0D0A0D0A
Delimiter   == CRLF \o Hyphens   \* 0x0D0A2D2D
CloseEnd    == Hyphens \o CRLF   \* 0x2D2D0D0A

TypeLine   == [multipart   |-> "Content-Type: multipart",
               application |-> "Content-Type: application",
               unknown     |-> "Content-Type: text"]
RequestLength == "Content-Length of the request"
PartLength    == "Content-Length of the part"
Get           == "GET /"
Host          == "Host"
GivesUp       == "POST ?"

TypeLines   == {TypeLine[t] : t \in DOMAIN TypeLine}
LengthLines == {RequestLength, PartLength}
NoLine      == "none"

\* "{" stands for {"os, "boundary" for its text, "." for every other byte and
\* for the bytes of a node that was never used.
Other == "."
Byte  == {CR, LF, "-", "{", "}", "boundary", "POST /", Get, Host, GivesUp, Other}
           \union TypeLines \union LengthLines

PlacesOf(data, lines) == {i \in DOMAIN data : data[i] \in lines}

\* The mutant lets a later type overwrite the first.
ContentType_Last(data) ==
  LET found == PlacesOf(data, TypeLines)
  IN  IF found = {} THEN "unknown"
      ELSE CHOOSE t \in DOMAIN TypeLine : TypeLine[t] = data[Max(found)]

\* The type is protected once a GET and a Host have come, or a type: the two
\* bits of the flag that it needs are those of GET and Host.
Protected(data, i) ==
  \A field \in {Get, Host} : \E j \in PlacesOf(data, {field}) : j < i

\* The first Content-Type counts, unless it is protected already.
ContentType(data) ==
  LET found == PlacesOf(data, TypeLines)
  IN  IF found = {} \/ Protected(data, Min(found)) THEN "unknown"
      ELSE CHOOSE t \in DOMAIN TypeLine : TypeLine[t] = data[Min(found)]

\* The last Content-Length counts: it is assigned at each match.
ContentLength(data) ==
  LET found == PlacesOf(data, LengthLines)
  IN  IF found = {} THEN NoLine ELSE data[Max(found)]

ParseOk(data) == data # <<>> /\ PlacesOf(data, {GivesUp}) = {}
=============================================================================
