---------------------------- MODULE FlowAssembly ----------------------------
(***************************************************************************)
(* How the bytes of one flow become a message: the HandleFrame of          *)
(* src/src/packet_sniffer.cpp with its RecvStart, RecvModify, RecvFinished *)
(* and SendMsg, for one flow key and one node of the pool, on the capture  *)
(* thread alone (PacketSniffer has the threads and the pool).  The node    *)
(* keeps its bytes when it is released and used again.                     *)
(*                                                                         *)
(* A client sends a few requests on one connection, each cut into frames,  *)
(* and the frames reach the sniffer in any order, some of them twice, some *)
(* never.  Payloads are sequences of HttpParse's symbols.                  *)
(***************************************************************************)
EXTENDS HttpParse

CONSTANTS
  Connections,    \* what clients may send: sequences of requests
  Trailers,       \* what may follow a frame in libpcap's buffer: 3 bytes
  MinPayload,     \* 20: a shorter payload is ignored, as is
  MaxPayload,     \* 3000: a longer one
  U16,            \* the number of values of a uint16_t: 2^16
  MAX_BUF_LEN,    \* bytes of data[] in a node
  MaxArrivals,    \* bound: frames that reach the sniffer
  MaxDuplicates   \* bound: frames that reach it again

\* A request: its text, the places behind which TCP cuts it into frames, how long
\* its header is, where the content of its part lies in the body, and what atoi
\* reads of its Content-Length lines, a negative number perhaps.
Request == [text : Seq(Byte), ends : Seq(Nat), headerLen : Nat,
            content : [from : Nat, upto : Nat], lengths : [LengthLines -> Int]]

\* The header ends with an empty line, and the frames make up the whole text.
WellFormed(request) ==
  /\ request.headerLen \in 4 .. Len(request.text)
  /\ SubSeq(request.text, request.headerLen - 3, request.headerLen) = HeadersEnd
  /\ request.ends # <<>> /\ Last(request.ends) = Len(request.text)
  /\ \A i, j \in DOMAIN request.ends : i < j => request.ends[i] < request.ends[j]

ASSUME AssemblyAssumption ==
  /\ Connections \subseteq Seq(Request)
  /\ \A connection \in Connections :
       \A n \in DOMAIN connection : WellFormed(connection[n])
  /\ Trailers \subseteq Seq(Byte) /\ \A t \in Trailers : Len(t) = 3
  /\ U16 \in Nat \ {0}
  /\ MAX_BUF_LEN \in Nat /\ MAX_BUF_LEN >= U16 + 3
  /\ MinPayload \in Nat \ {0} /\ MaxPayload \in Nat
  /\ MaxArrivals \in Nat /\ MaxDuplicates \in Nat

VARIABLES
  traffic,     \* what is sent on the connection that is watched
  arrived,     \* its frames that reached the sniffer, as <<request, frame>>
  duplicates,  \* how many of them have reached it again
  isOpen,      \* whether the flow is in flowtable
  cache,       \* its node, or the node it will get
  seen,        \* history: the frames that came since it opened (or, when it
               \* is not open, since a request's first frame did),
  own,         \* history: and, for the positions of data[] written since,
               \* the frame whose byte is there
  sent,        \* the messages passed to SendMsg
  used,        \* history: of each, the frames whose bytes are in it
  done,        \* history: the last flow that was complete
  aborted      \* the process has faulted

network == <<traffic, arrived, duplicates>>
avars   == <<network, isOpen, cache, seen, own, sent, used, done, aborted>>

FrameIds == UNION {{n} \X DOMAIN traffic[n].ends : n \in DOMAIN traffic}

\* A frame's payload, and a request's body.
StartOf(ends, i) == IF i = 1 THEN 0 ELSE ends[i - 1]
Data(id) ==
  LET request == traffic[id[1]]
  IN  SubSeq(request.text, StartOf(request.ends, id[2]) + 1, request.ends[id[2]])
BodyOf(request) == SubSeq(request.text, request.headerLen + 1, Len(request.text))

\* What ParseHttp leaves in info->contentLen.
ContentLen(id) ==
  LET line == ContentLength(Data(id))
  IN  IF line = NoLine THEN 0 ELSE traffic[id[1]].lengths[line]

\* No message, and no place of one.
NoMessage == <<>>
NoSpan    == [from |-> 0, upto |-> 0]

TypeOK ==
  /\ arrived \subseteq FrameIds /\ duplicates \in 0 .. MaxDuplicates
  /\ isOpen \in BOOLEAN
  /\ cache \in [cLen : 0 .. U16 - 1, usedCnt : 0 .. U16 - 1,
                data : [1 .. MAX_BUF_LEN -> Byte]]
  /\ seen \in Seq(FrameIds) /\ (isOpen => seen # <<>>)
  /\ DOMAIN own \subseteq 0 .. MAX_BUF_LEN - 1
  /\ \A i \in DOMAIN own : own[i] \in arrived
  /\ sent \in Seq(Seq(Byte)) /\ used \in Seq(SUBSET arrived)
  /\ aborted \in BOOLEAN

Init ==
  /\ traffic \in Connections
  /\ arrived = {} /\ duplicates = 0
  /\ isOpen = FALSE
  /\ cache = [cLen |-> 0, usedCnt |-> 0,
              data |-> [i \in 1 .. MAX_BUF_LEN |-> Other]]
  /\ seen = <<>> /\ own = <<>>
  /\ sent = <<>> /\ used = <<>> /\ done = [frames |-> <<>>, message |-> NoMessage, behind |-> <<>>]
  /\ aborted = FALSE

-----------------------------------------------------------------------------
(* The handlers' scans and copies.  Positions are those of the code, from 0. *)

\* Those of the first `len` positions of d where the marker's 4 bytes start, and
\* the last of them, 0 if none: what a loop over them that overwrites its result
\* at each match leaves.
MarkersIn(d, len, marker) == {i \in 0 .. len - 1 : SubSeq(d, i + 1, i + 4) = marker}
LastMarker(d, len, marker) ==
  LET found == MarkersIn(d, len, marker) IN IF found = {} THEN 0 ELSE Max(found)

\* d with the bytes s at position `at`, and with data[0] = '\0'.
CopyTo(d, at, s) == SubSeq(d, 1, at) \o s \o SubSeq(d, at + Len(s) + 1, Len(d))
Terminated(d)    == [d EXCEPT ![1] = Other]

\* RecvStart looks for the last delimiter that starts in the frame, reading
\* up to 3 bytes beyond it, and takes what follows the delimiter's CRLF: this
\* many bytes, -1 when the CR is the frame's last byte.
StartAt(data, trailer) == LastMarker(data \o trailer, Len(data), Delimiter)

\* The mutant takes one byte less.
StartCnt_OneLess(data, trailer) ==
  LET at == StartAt(data, trailer)
  IN  IF at = 0 THEN 0 ELSE Min({Len(data) - (at + 3), MAX_BUF_LEN})

StartCnt(data, trailer) ==
  LET at == StartAt(data, trailer)
  IN  IF at = 0 THEN 0 ELSE Min({Len(data) - (at + 2), MAX_BUF_LEN})

\* The mutant takes the CRLF too.
Taken_WithCRLF(data, trailer) ==
  LET at == StartAt(data, trailer)
  IN  IF at = 0 THEN <<>> ELSE SubSeq(data, at + 1, Len(data))

\* Those bytes.
Taken(data, trailer) ==
  LET at == StartAt(data, trailer)
  IN  IF at = 0 THEN <<>>
      ELSE SubSeq(data, at + 3, at + 2 + StartCnt(data, trailer))

\* RecvFinished, on the first len bytes of d (and up to 3 beyond them): where
\* the message is.  A delimiter before the end of the headers means that the
\* frames came out of order; then it is what follows the body's close.
MessageSpan(d, len) ==
  LET start   == LastMarker(d, len, HeadersEnd)
      end     == LastMarker(d, len, Delimiter)
      last    == LastMarker(d, len, CloseEnd)
      found   == start + 4 < len /\ end > 0
      ordered == end >= start + 4
  IN  CASE found /\ ordered                    -> [from |-> start + 4, upto |-> end]
        [] found /\ ~ordered /\ last + 4 < len -> [from |-> last + 4, upto |-> len]
        [] OTHER                               -> NoSpan

MessageIn(d, span) ==
  IF span = NoSpan THEN NoMessage ELSE SubSeq(d, span.from + 1, span.upto)

-----------------------------------------------------------------------------
(* The handler. *)

\* HandleFrame's checks of the payload: its length, that it does not begin with
\* a GET (whatever it is the payload of), and that ParseHttp accepts it and finds
\* no application/... with a length.
Accepted(id) ==
  /\ Len(Data(id)) >= MinPayload /\ Len(Data(id)) <= MaxPayload
  /\ Head(Data(id)) # Get
  /\ ParseOk(Data(id))
  /\ ~(ContentType(Data(id)) = "application" /\ ContentLen(id) > 0)

MayArrive == Cardinality(arrived) + duplicates < MaxArrivals

\* A frame reaches the sniffer, perhaps again.
Arrives(id) ==
  /\ MayArrive
  /\ arrived' = arrived \union {id}
  /\ duplicates' = IF id \in arrived THEN duplicates + 1 ELSE duplicates
  /\ duplicates' <= MaxDuplicates
  /\ UNCHANGED <<traffic, aborted>>

Noted(id) == IF ~isOpen /\ id[2] = 1 THEN <<id>> ELSE Append(seen, id)

IgnoreFrame(id) ==
  /\ Arrives(id) /\ ~Accepted(id)
  /\ seen' = Noted(id)
  /\ UNCHANGED <<isOpen, cache, own, sent, used, done>>

Opens(id) == ContentType(Data(id)) # "unknown" /\ ContentLen(id) < MAX_BUF_LEN

\* No flow, and none to open.  RecvModify passes on a frame that looks like a
\* whole body.
LooksWhole(id) ==
  ContentType(Data(id)) = "unknown" /\ Head(Data(id)) = "{" /\ Last(Data(id)) = "}"

PassOn(id) ==
  IF LooksWhole(id)
  THEN /\ sent' = Append(sent, Data(id)) /\ used' = Append(used, {id})
  ELSE UNCHANGED <<sent, used>>

NoFlow(id) ==
  /\ ~isOpen /\ Arrives(id) /\ Accepted(id) /\ ~Opens(id)
  /\ PassOn(id)
  /\ seen' = Noted(id)
  /\ UNCHANGED <<isOpen, cache, own, done>>

\* The mutant adds to what the node counted before.
OpenFlow_NotReset(id, trailer) ==
  LET first == Taken(Data(id), trailer)
  IN  /\ ~isOpen /\ Arrives(id) /\ Accepted(id) /\ Opens(id)
      /\ StartCnt(Data(id), trailer) >= 0
      /\ isOpen' = TRUE
      /\ cache' = [cLen    |-> ContentLen(id) % U16,
                   usedCnt |-> (cache.usedCnt + Len(first)) % U16,
                   data    |-> CopyTo(Terminated(cache.data), cache.usedCnt, first)]
      /\ seen' = <<id>> /\ own' = [i \in cache.usedCnt .. cache.usedCnt + Len(first) - 1 |-> id]
      /\ UNCHANGED <<sent, used, done>>

\* A new flow: the node takes the Content-Length and what RecvStart finds.
OpenFlow(id, trailer) ==
  LET first == Taken(Data(id), trailer)
  IN  /\ ~isOpen /\ Arrives(id) /\ Accepted(id) /\ Opens(id)
      /\ StartCnt(Data(id), trailer) >= 0
      /\ isOpen' = TRUE
      /\ cache' = [cLen    |-> ContentLen(id) % U16,
                   usedCnt |-> Len(first) % U16,
                   data    |-> CopyTo(Terminated(cache.data), 0, first)]
      /\ seen' = <<id>> /\ own' = [i \in 0 .. Len(first) - 1 |-> id]
      /\ UNCHANGED <<sent, used, done>>

\* RecvStart copies -1 bytes, which faults.
OpenFaulted(id, trailer) ==
  /\ ~isOpen /\ MayArrive /\ Accepted(id) /\ Opens(id)
  /\ StartCnt(Data(id), trailer) < 0
  /\ aborted' = TRUE
  /\ UNCHANGED <<network, isOpen, cache, seen, own, sent, used, done>>

\* The node after the bytes of a frame are added to it: as many of them as
\* fit.
SliceCnt(data) ==
  IF cache.usedCnt + Len(data) >= MAX_BUF_LEN
  THEN MAX_BUF_LEN - cache.usedCnt ELSE Len(data)

\* The mutant keeps all the bits.
UsedAfter_Wide(data) == cache.usedCnt + SliceCnt(data)

UsedAfter(data) == (cache.usedCnt + SliceCnt(data)) % U16

Added(data) ==
  [cache EXCEPT !.usedCnt = UsedAfter(data),
                !.data = CopyTo(@, cache.usedCnt, SubSeq(data, 1, SliceCnt(data)))]

AddedAt(data) == cache.usedCnt .. cache.usedCnt + SliceCnt(data) - 1

OwnAfter(id) ==
  LET at == AddedAt(Data(id))
  IN  [i \in DOMAIN own \union at |-> IF i \in at THEN id ELSE own[i]]

\* The mutant passes on what looks like a whole body as well.
AppendFrame_PassesOn(id) ==
  /\ isOpen /\ Arrives(id) /\ Accepted(id)
  /\ UsedAfter(Data(id)) # cache.cLen
  /\ cache' = Added(Data(id))
  /\ seen' = Noted(id) /\ own' = OwnAfter(id)
  /\ PassOn(id)
  /\ UNCHANGED <<isOpen, done>>

\* A frame of an open flow that does not complete it.
AppendFrame(id) ==
  /\ isOpen /\ Arrives(id) /\ Accepted(id)
  /\ UsedAfter(Data(id)) # cache.cLen
  /\ cache' = Added(Data(id))
  /\ seen' = Noted(id) /\ own' = OwnAfter(id)
  /\ UNCHANGED <<isOpen, sent, used, done>>

\* The frames whose bytes are in a span of data[].
FramesIn(owner, span) ==
  {owner[i] : i \in DOMAIN owner \intersect span.from .. span.upto - 1}

\* The frame that completes it: RecvFinished passes the message on, if it
\* finds one, and clears the node; the flow is closed in any case.
CompleteFlow(id) ==
  LET full == Added(Data(id))
      span == MessageSpan(full.data, full.usedCnt)
  IN  /\ isOpen /\ Arrives(id) /\ Accepted(id)
      /\ UsedAfter(Data(id)) = cache.cLen
      /\ isOpen' = FALSE
      /\ cache' = IF span = NoSpan THEN full
                  ELSE [cLen |-> 0, usedCnt |-> 0, data |-> Terminated(full.data)]
      /\ IF span = NoSpan THEN UNCHANGED <<sent, used>>
         ELSE /\ sent' = Append(sent, MessageIn(full.data, span))
              /\ used' = Append(used, FramesIn(OwnAfter(id), span))
      /\ done' = [frames  |-> Append(seen, id),
                  message |-> MessageIn(full.data, span),
                  behind  |-> SubSeq(full.data, full.usedCnt + 1, full.usedCnt + 2)]
      /\ seen' = <<>> /\ own' = OwnAfter(id)

\* LRUClear.
Evict ==
  /\ isOpen /\ isOpen' = FALSE /\ seen' = <<>>
  /\ UNCHANGED <<network, cache, own, sent, used, done, aborted>>

HandleFrame(id) ==
  \/ IgnoreFrame(id) \/ NoFlow(id) \/ AppendFrame(id) \/ CompleteFlow(id)
  \/ \E t \in Trailers : OpenFlow(id, t) \/ OpenFaulted(id, t)

Next == ~aborted /\ (Evict \/ \E id \in FrameIds : HandleFrame(id))

Spec == Init /\ [][Next]_avars
-----------------------------------------------------------------------------
IdsOf(n) == [i \in DOMAIN traffic[n].ends |-> <<n, i>>]

\* The body has one part: its content begins behind the last empty line, ends in
\* front of the last delimiter, and the delimiter closes the body.
HasOnePart(request) ==
  LET body    == BodyOf(request)
      last    == Len(body) - 4
      heads   == MarkersIn(body, last + 1, HeadersEnd)
      ends    == MarkersIn(body, last + 1, Delimiter)
      content == request.content
  IN  /\ content.from - 4 \in heads /\ \A i \in heads : i <= content.from - 4
      /\ content.upto \in ends /\ \A i \in ends : i <= content.upto
      /\ content.from <= content.upto
      /\ last \in MarkersIn(body, last + 1, CloseEnd)

\* The requests the sniffer can put together: at least two frames, none of
\* which HandleFrame rejects; a first frame whose first Content-Type is that of a
\* multipart, with no GET, the Content-Length of the whole body and no length of a
\* part; a body of one part, whose length 16 bits can hold; and the first boundary
\* is the only delimiter RecvStart sees, whatever follows the frame in the buffer,
\* or the frame ends with the HTTP header.
Assembles(n) ==
  LET request == traffic[n]
      first   == Data(<<n, 1>>)
      seenBy(t) == MarkersIn(first \o t, Len(first), Delimiter)
  IN  /\ Len(request.ends) >= 2
      /\ \A i \in DOMAIN request.ends : Accepted(<<n, i>>)
      /\ \E i \in PlacesOf(first, {TypeLine.multipart}) :
           \A j \in PlacesOf(first, TypeLines) : i <= j
      /\ PlacesOf(first, {Get}) = {}
      /\ PlacesOf(first, {RequestLength}) # {} /\ PlacesOf(first, {PartLength}) = {}
      /\ request.lengths[RequestLength] = Len(BodyOf(request))
      /\ Len(BodyOf(request)) < U16
      /\ HasOnePart(request)
      /\ \A t \in Trailers : \/ seenBy(t) = {request.headerLen - 2}
                             \/ seenBy(t) = {} /\ Len(first) = request.headerLen

\* Such a request is sent when its frames have come in order to a closed flow,
\* whatever came before, and not earlier than that; the message is the part's
\* content, whatever the node held before, unless the two bytes behind the
\* body's last CRLF happen to complete a marker (ParseHttp, RecvStart,
\* HandleFrame and RecvFinished, packet_sniffer.cpp:149-372: the code counts
\* bytes, and never parses the body before it is complete).
OrderlyIsAssembled ==
  \A n \in DOMAIN traffic :
    /\ seen = IdsOf(n) => ~Assembles(n)
    /\ done.frames # <<>> /\ IsPrefix(done.frames, IdsOf(n)) /\ Assembles(n) =>
         /\ done.frames = IdsOf(n)
         /\ done.behind \notin {Hyphens, CRLF} =>
              done.message = MessageIn(BodyOf(traffic[n]), traffic[n].content)

\* A message holds no byte that its flow did not bring, although nodes are
\* never wiped, counts wrap around at 2^16 and frames come in any order.
OwnBytesOnly ==
  [][\A id \in FrameIds : CompleteFlow(id) =>
       LET full == Added(Data(id))
           span == MessageSpan(full.data, full.usedCnt)
       IN  span # NoSpan => span.from .. span.upto - 1 \subseteq DOMAIN own']_avars

\* Unless the network repeats a frame, no frame has its bytes in two messages:
\* it is not sent whole by RecvModify and once more from its flow, nor from two
\* flows that had the same node (HandleFrame and RecvModify,
\* packet_sniffer.cpp:149-230, 280-299: frames that come in the wrong order go
\* both ways).
NoBodyTwice ==
  duplicates = 0 =>
    \A i, j \in DOMAIN used : i # j => used[i] \intersect used[j] = {}

\* RecvStart copies a negative number of bytes only when a frame is cut behind the
\* CR of a delimiter and the buffer behind it holds the delimiter's other bytes:
\* no other frame, and no other rest of an earlier one, ends the process
\* (packet_sniffer.cpp:246-270).
FaultNeedsCutDelimiter ==
  [][aborted' # aborted =>
       \A id \in FrameIds, t \in Trailers :
         OpenFaulted(id, t) => Last(Data(id)) = CR /\ t = <<LF>> \o Hyphens]_avars

\* A flow does not stay open when all the frames of its request have come, in
\* order, also when there is one that holds everything ("find out whether content
\* sticks to the header", packet_sniffer.cpp:182).
CompleteIsClosed == isOpen => \A n \in DOMAIN traffic : seen # IdsOf(n)

\* What is sent of a request whose frames came in order is the part's content
\* ("send the final body", packet_sniffer.cpp:337).
FinalBodyIsSent ==
  \A n \in DOMAIN traffic :
    done.frames = IdsOf(n) /\ Assembles(n) =>
      done.message = MessageIn(BodyOf(traffic[n]), traffic[n].content)
=============================================================================
