---------------------------- MODULE MCHttpFraming ----------------------------
(***************************************************************************)
(* Instances of HttpFraming for TLC: messages built the way a server       *)
(* builds them, bodies put together from any pieces, and answers to a      *)
(* conditional request.                                                    *)
(***************************************************************************)
EXTENDS HttpFraming, SequencesExt

CONSTANT MaxPieces   \* bound: pieces in a body put together from any pieces

Field(name, value) == [name |-> name, value |-> value]
HeadWith(status, fields) == [valid |-> TRUE, status |-> status, fields |-> fields]
BadHead == [valid |-> FALSE, status |-> 200, fields |-> << >>]

Message(head, kind, wire, means, extent) ==
  [head |-> head, kind |-> kind, wire |-> wire, means |-> means, extent |-> extent]
InChunksOf(m, chunks, last) == m @@ [chunks |-> chunks, last |-> last]

ChunkedFields == <<Field("transfer-encoding", "chunked"), Field("etag", "e1")>>
BothFields == <<Field("content-length", "1")>> \o ChunkedFields
LengthDigit == <<"0", "1", "2">>
LengthFields(n) ==
  <<Field("content-length", "junk"), Field("content-length", LengthDigit[n + 1]),
    Field("last-modified", "t1"), Field("transfer-encoding", "gzip")>>
NoFields == <<Field("etag", "e1"), Field("etag", "e2")>>
-----------------------------------------------------------------------------
(***************************************************************************)
(* What servers build.  SamplePayloads look like framing where they can.         *)
(***************************************************************************)
SamplePayloads == {<<"x">>, <<"0">>, <<"CR", "LF">>, <<"LF", "CR">>, <<"1", "CR">>}
Extensions == {<< >>, <<";", "x">>}
SizeDigit == <<"1", "2">>
Sized(digits, extension, payload) ==
  [digits |-> digits, extension |-> extension, payload |-> payload]
Chunks(list, extension) ==
  [i \in DOMAIN list |-> Sized(<<SizeDigit[Len(list[i])]>>, extension, list[i])]
Chunked(list, extension, zero) ==
  FlattenSeq([i \in DOMAIN list |-> Encoding(Chunks(list, extension)[i])])
    \o Line(Sized(zero, extension, << >>))

PayloadLists == {<< >>} \cup {<<p>> : p \in SamplePayloads} \cup (SamplePayloads \X SamplePayloads)
After == {<< >>, <<"x">>, <<"1">> \o CRLF}   \* bytes that follow the message
Trailer == <<"x">> \o CRLF

ChunkedMessage(kind, head, list, extension, zero, end, after) ==
  LET wire == Chunked(list, extension, zero) \o end
  IN  InChunksOf(Message(head, kind, wire \o after, FlattenSeq(list), Len(wire)),
                 Chunks(list, extension), Sized(zero, extension, << >>))

ChunkedMessages ==
  {ChunkedMessage("framed", HeadWith(200, fields), list, extension, zero, CRLF, after) :
     list \in PayloadLists, extension \in Extensions, zero \in {<<"0">>, <<"0", "0">>},
     after \in After, fields \in {ChunkedFields, BothFields}}

TrailedMessages ==
  {ChunkedMessage("trailed", HeadWith(200, ChunkedFields), <<p>>, << >>, <<"0">>,
                  Trailer \o CRLF, << >>) : p \in SamplePayloads}

LengthMessages ==
  {Message(HeadWith(status, LengthFields(Len(p))), "framed", p \o after, p, Len(p)) :
     status \in {200, 404}, p \in SamplePayloads \cup {<< >>}, after \in After}

OpenMessages ==
  {Message(HeadWith(200, NoFields), "untilClose", p \o after, Nothing, Nothing) :
     p \in SamplePayloads \cup {<< >>}, after \in After}

ServerMessages == ChunkedMessages \cup TrailedMessages \cup LengthMessages \cup OpenMessages
-----------------------------------------------------------------------------
(***************************************************************************)
(* Bodies put together from any pieces, well formed or not.                *)
(***************************************************************************)
Pieces ==
  {<<"0">> \o CRLF, <<"1">> \o CRLF, <<"2", ";">> \o CRLF, <<"F", "F">> \o CRLF,
   <<"x">>, CRLF, <<"CR">>, <<"LF">>}

Jumbles == {FlattenSeq(list) : list \in BoundedSeq(Pieces, MaxPieces)}

JumbleMessages ==
  {Message(head, "other", wire, Nothing, Nothing) :
     head \in {HeadWith(200, ChunkedFields), HeadWith(200, LengthFields(2)), BadHead},
     wire \in Jumbles}
AllMessages == ServerMessages \cup JumbleMessages
-----------------------------------------------------------------------------
\* 304s, with the length of the body that was not sent or without.
NotModifiedMessages ==
  {Message(HeadWith(304, fields), "other", << >>, Nothing, Nothing) :
     fields \in {LengthFields(0), LengthFields(2)}}
  \cup ServerMessages
=============================================================================
