----------------------------- MODULE HttpFraming -----------------------------
(***************************************************************************)
(* The read loop of https_get_via_ip and the HTTP/1.1 parsing under it     *)
(* (src/http.rs): one response, read from a TLS stream that may hand it    *)
(* over in pieces of any size, go on after its end, or stop before it.     *)
(*                                                                         *)
(* A byte is a string, one of the few that framing tells apart: a hex      *)
(* digit, CR, LF, a semicolon, anything else ("x").  The status line and   *)
(* header fields are one opaque byte on the wire; what they say is the     *)
(* head.                                                                   *)
(***************************************************************************)
EXTENDS Integers, Sequences, FiniteSetsExt

CONSTANTS
  Messages,    \* what servers send: see MessageAssumption
  BufLen,      \* the length of buf: no read returns more
  UsizeMax,    \* the largest usize
  Nothing      \* no value

Byte == {"0", "1", "2", "F", "CR", "LF", ";", "x"}
Endings == {"closed", "eof", "error"}
Headers == {"content-length", "transfer-encoding", "etag", "last-modified"}

(***************************************************************************)
(* A message is a head, well formed or not, with a status and fields in    *)
(* order; the bytes sent after it; and what they are to a reader of the    *)
(* protocol:                                                               *)
(*   "framed"      the head or the chunks say where the body ends;         *)
(*   "trailed"     chunks with trailer fields after the last one;          *)
(*   "untilClose"  the body is all that comes before the end of stream;    *)
(*   "other"       anything, malformed or not.                             *)
(* means is the body it stands for and extent its length on the wire;      *)
(* chunks and last are how it was framed, if it was framed in chunks: see  *)
(* FramingAssumption.                                                      *)
(***************************************************************************)
ASSUME MessageAssumption ==
  \A m \in Messages :
    /\ m.head.valid \in BOOLEAN
    /\ m.head.status \in 100 .. 599
    /\ m.head.fields \in Seq([name : Headers, value : STRING])
    /\ m.wire \in Seq(Byte)
    /\ m.kind \in {"framed", "trailed", "untilClose", "other"}
    /\ m.kind \in {"framed", "trailed"} => m.extent \in 0 .. Len(m.wire)
ASSUME BufAssumption == BufLen \in Nat \ {0}
ASSUME WidthAssumption == UsizeMax \in Nat
ASSUME NothingAssumption ==
  Nothing \notin Int \cup Endings \cup [size : {Nothing} \cup Nat, at : Nat]

VARIABLES
  message,    \* environment: what the server sends, first to last byte
  pc,         \* "reading", "done"
  got,        \* the number of bytes read into response
  ending,     \* history: how the stream ended, or Nothing
  result      \* what https_get_via_ip returns

vars == <<message, pc, got, ending, result>>

CRLF == <<"CR", "LF">>
Semicolon == ";"
Digits == [d \in {"0", "1", "2", "F"} |->
             CASE d = "0" -> 0 [] d = "1" -> 1 [] d = "2" -> 2 [] d = "F" -> 15]
Decimals == {"0", "1", "2"}    \* the values of a Content-Length that is a number

OpaqueHead == <<"head">>
Terminator == CRLF \o CRLF
Stream == OpaqueHead \o Terminator \o message.wire
HeadLen == Len(OpaqueHead \o Terminator)
response == SubSeq(Stream, 1, got)

\* bytes.get(from..from + n): shorter, where Rust has None, if the end is near.
Slice(bytes, from, n) ==
  SubSeq(bytes, from + 1, IF from + n <= Len(bytes) THEN from + n ELSE Len(bytes))

\* The offset of the first occurrence of pattern at from or later.
First(at) == IF at = {} THEN Nothing ELSE Min(at)
PositionOf(bytes, pattern, from) ==
  First({i \in from .. Len(bytes) : Slice(bytes, i, Len(pattern)) = pattern})

\* Outcomes: Ok(Some(..)), Ok(None) and Err of the code.
Some(n) == [kind |-> "some", len |-> n]
None == [kind |-> "none"]
Ok(body) == [kind |-> "ok", body |-> body]
Err(why) == [kind |-> "err", why |-> why]
-----------------------------------------------------------------------------
(***************************************************************************)
(* Faulty variants, each a slip the code could contain.                    *)
(***************************************************************************)
EtagField_Swapped == "last-modified"
DelimiterArrived_Half(body, end) == end + 1 <= Len(body)
BodyArrived_OneShort(body, n) == Len(body) + 1 >= n
BodyArrived_OneMore(body, n) == Len(body) > n
-----------------------------------------------------------------------------
(***************************************************************************)
(* http_response_metadata: nothing before the terminator has arrived.  The *)
(* last Content-Length wins, also when it makes no sense; chunked, once    *)
(* seen, stays.                                                            *)
(***************************************************************************)
EtagField == "etag"

LastField(head, name) ==
  LET at == {i \in DOMAIN head.fields : head.fields[i].name = name}
  IN  IF at = {} THEN Nothing ELSE head.fields[Max(at)].value

Number(value) == IF value \in Decimals THEN Digits[value] ELSE Nothing

SaysLength(head) == Number(LastField(head, "content-length"))

SaysChunked(head) ==
  \E i \in DOMAIN head.fields :
    head.fields[i] = [name |-> "transfer-encoding", value |-> "chunked"]

HeadMetadata(head, end) ==
  [kind |-> "some",
   body |-> end + Len(Terminator),
   status |-> head.status,
   chunked |-> SaysChunked(head),
   length |-> SaysLength(head),
   etag |-> LastField(head, EtagField),
   modified |-> LastField(head, "last-modified")]

Metadata(bytes) ==
  LET end == PositionOf(bytes, Terminator, 0)
  IN  IF end = Nothing THEN None
      ELSE IF ~message.head.valid THEN Err("head")
      ELSE HeadMetadata(message.head, end)
-----------------------------------------------------------------------------
(***************************************************************************)
(* Chunks.  The size line runs to the next CRLF; what follows a semicolon  *)
(* is no part of the size, which is a hex number that fits a usize.        *)
(***************************************************************************)
HexValue(hex) ==
  LET Place(i) == Digits[hex[i]] * 16 ^ (Len(hex) - i)
  IN  MapThenSumSet(Place, DOMAIN hex)

SizeOf(hex) ==
  IF /\ hex # << >>
     /\ \A i \in DOMAIN hex : hex[i] \in DOMAIN Digits
     /\ HexValue(hex) \in 0 .. UsizeMax
  THEN HexValue(hex)
  ELSE Nothing

UpTo(line, semicolon) ==
  IF semicolon = Nothing THEN line ELSE Slice(line, 0, semicolon)

ChunkSize(line) == SizeOf(UpTo(line, PositionOf(line, <<Semicolon>>, 0)))

\* The size at cursor, Nothing if it is none, and where its line ends; or
\* Nothing, if the line has no end yet.
SizeLine(body, cursor) ==
  LET end == PositionOf(body, CRLF, cursor)
  IN  IF end = Nothing THEN Nothing
      ELSE [size |-> ChunkSize(Slice(body, cursor, end - cursor)), at |-> end + 2]

\* body.get(end..end + 2), where a chunk's payload ends.
DelimiterArrived(body, end) == end + 2 <= Len(body)
HasDelimiter(body, end) == Slice(body, end, 2) = CRLF

\* A size of zero ends the body if an empty line follows it at once.
LastChunk(body, at) == IF Slice(body, at, 2) = CRLF THEN Some(at + 2) ELSE None

\* How long the chunked body is on the wire: an error as soon as one shows.
chunked_wire_len(body) ==
  LET scan[cursor \in 0 .. Len(body)] ==
        LET Chunk(line, end) ==
              IF end > UsizeMax THEN Err("overflow")
              ELSE IF ~DelimiterArrived(body, end) THEN None
              ELSE IF ~HasDelimiter(body, end) THEN Err("delimiter")
              ELSE scan[end + 2]
            From(line) ==
              IF line = Nothing THEN None
              ELSE IF line.size = Nothing THEN Err("size")
              ELSE IF line.size = 0 THEN LastChunk(body, line.at)
              ELSE Chunk(line, line.at + line.size)
        IN  From(SizeLine(body, cursor))
  IN  scan[0]

\* The payloads put together: whatever is missing is an error now.
Prepend(payload, rest) ==
  IF rest.kind = "err" THEN rest ELSE Ok(payload \o rest.body)

decode_chunked_body(body) ==
  LET decode[cursor \in 0 .. Len(body)] ==
        LET Chunk(line, end) ==
              IF end > UsizeMax THEN Err("overflow")
              ELSE IF end > Len(body) THEN Err("short")
              ELSE IF ~HasDelimiter(body, end) THEN Err("delimiter")
              ELSE Prepend(Slice(body, line.at, line.size), decode[end + 2])
            From(line) ==
              IF line = Nothing THEN Err("line")
              ELSE IF line.size = Nothing THEN Err("size")
              ELSE IF line.size = 0 THEN Ok(<< >>)
              ELSE Chunk(line, line.at + line.size)
        IN  From(SizeLine(body, cursor))
  IN  decode[0]
-----------------------------------------------------------------------------
\* body.len() >= content_length
BodyArrived(body, n) == Len(body) >= n

\* http_response_complete_len: a body without a length is never complete.
Shifted(outcome, n) == IF outcome.kind = "some" THEN Some(n + outcome.len) ELSE outcome

CompleteAt(meta, body) ==
  IF meta.chunked THEN Shifted(chunked_wire_len(body), meta.body)
  ELSE IF meta.length # Nothing /\ BodyArrived(body, meta.length)
  THEN Some(meta.body + meta.length)
  ELSE None

CompleteLen(bytes) ==
  LET Given(meta) ==
        IF meta.kind # "some" THEN meta
        ELSE CompleteAt(meta, Slice(bytes, meta.body, Len(bytes)))
  IN  Given(Metadata(bytes))

\* parse_http_response
BodyOf(meta, rest) ==
  IF meta.chunked THEN decode_chunked_body(rest)
  ELSE IF meta.length = Nothing THEN Ok(rest)
  ELSE IF Len(rest) < meta.length THEN Err("short")
  ELSE Ok(Slice(rest, 0, meta.length))

Result(meta, body) ==
  IF body.kind = "err" THEN body
  ELSE [kind |-> "ok", body |-> body.body, status |-> meta.status,
        etag |-> meta.etag, modified |-> meta.modified]

Parse(bytes) ==
  LET Given(meta) ==
        IF meta.kind = "none" THEN Err("head")
        ELSE IF meta.kind = "err" THEN meta
        ELSE Result(meta, BodyOf(meta, Slice(bytes, meta.body, Len(bytes))))
  IN  Given(Metadata(bytes))
-----------------------------------------------------------------------------
(***************************************************************************)
(* How a message with a meaning is put together, from the protocol's       *)
(* grammar and not from the reader: a chunk is the hex digits of its size, *)
(* an extension or none, CRLF, the payload, CRLF; the last line has the    *)
(* size zero; the body is the payloads in order.  A response is held in    *)
(* memory, so its length is a usize.                                       *)
(***************************************************************************)
Line(chunk) == chunk.digits \o chunk.extension \o CRLF
Encoding(chunk) == Line(chunk) \o chunk.payload \o CRLF

\* What the first so many of a list of sequences are in a row.
Joined(list) ==
  LET upTo[i \in 0 .. Len(list)] == IF i = 0 THEN << >> ELSE upTo[i - 1] \o list[i]
  IN  upTo
AllJoined(list) == Joined(list)[Len(list)]

IsChunk(chunk) ==
  /\ chunk.digits \in Seq(DOMAIN Digits) /\ chunk.digits # << >>
  /\ chunk.extension \in Seq(Byte \ {"CR"})
  /\ chunk.extension # << >> => chunk.extension[1] = Semicolon
  /\ chunk.payload \in Seq(Byte)
  /\ HexValue(chunk.digits) = Len(chunk.payload)

Encodings(m) == [i \in DOMAIN m.chunks |-> Encoding(m.chunks[i])]
Payloads(m) == [i \in DOMAIN m.chunks |-> m.chunks[i].payload]
LastLineEnd(m) == Len(AllJoined(Encodings(m)) \o Line(m.last))

BeginsWith(bytes, start) == Slice(bytes, 0, Len(start)) = start

InChunks(m) ==
  /\ m.chunks \in Seq([digits : Seq(Byte), extension : Seq(Byte), payload : Seq(Byte)])
  /\ \A i \in DOMAIN m.chunks : IsChunk(m.chunks[i]) /\ m.chunks[i].payload # << >>
  /\ IsChunk(m.last) /\ m.last.payload = << >>
  /\ BeginsWith(m.wire, AllJoined(Encodings(m)) \o Line(m.last))
  /\ m.means = AllJoined(Payloads(m))
  /\ Len(m.wire) <= UsizeMax

ASSUME FramingAssumption ==
  \A m \in Messages :
    /\ m.kind \in {"framed", "trailed"} /\ SaysChunked(m.head) =>
         /\ InChunks(m)
         /\ m.kind = "framed" => /\ m.extent = LastLineEnd(m) + 2
                                /\ Slice(m.wire, LastLineEnd(m), 2) = CRLF
    /\ m.kind = "framed" /\ ~SaysChunked(m.head) =>
         SaysLength(m.head) = m.extent /\ m.means = Slice(m.wire, 0, m.extent)
    /\ m.kind = "trailed" => SaysChunked(m.head)
    /\ m.kind = "untilClose" => ~SaysChunked(m.head) /\ SaysLength(m.head) = Nothing
-----------------------------------------------------------------------------
Init ==
  /\ message \in Messages
  /\ pc = "reading"
  /\ got = 0
  /\ ending = Nothing
  /\ result = Nothing

Return(r) ==
  /\ pc' = "done"
  /\ result' = r

\* The loop's answer for the bytes read so far, once they are complete or
\* wrong: truncate, then parse.
Answer(bytes) ==
  LET Given(complete) ==
        IF complete.kind = "some" THEN Parse(Slice(bytes, 0, complete.len)) ELSE complete
  IN  Given(CompleteLen(bytes))

OrElse(answer, otherwise) == IF answer # None THEN answer ELSE otherwise

\* Ok(read) with read > 0: what arrived may complete the response.
ReadBytes ==
  /\ pc = "reading"
  /\ \E n \in 1 .. BufLen :
       /\ got + n <= Len(Stream)
       /\ got' = got + n
       /\ \E answer \in {Answer(SubSeq(Stream, 1, got + n))} :
            \/ answer = None /\ UNCHANGED <<pc, result>>
            \/ answer # None /\ Return(answer)
  /\ UNCHANGED <<message, ending>>

\* Ok(0): the peer closed the TLS session.
ReadEnd ==
  /\ pc = "reading"
  /\ Return(Parse(response))
  /\ ending' = "closed"
  /\ UNCHANGED <<message, got>>

\* A faulty variant of the next definition: a broken connection is taken for
\* a closed one.
AfterEof_Parse == Parse(response)

\* UnexpectedEof: an answer only if the response is complete.
AfterEof ==
  IF got = 0 THEN Err("eof") ELSE OrElse(Answer(response), Err("eof"))

\* The connection ended without a TLS close.
ReadUnexpectedEof ==
  /\ pc = "reading"
  /\ Return(AfterEof)
  /\ ending' = "eof"
  /\ UNCHANGED <<message, got>>

\* Any other error, a timeout among them.
ReadFails ==
  /\ pc = "reading"
  /\ Return(Err("io"))
  /\ ending' = "error"
  /\ UNCHANGED <<message, got>>

Next == ReadBytes \/ ReadEnd \/ ReadUnexpectedEof \/ ReadFails

Spec == Init /\ [][Next]_vars
-----------------------------------------------------------------------------
FieldValues(name) ==
  {Nothing} \cup {message.head.fields[i].value :
                   i \in {j \in DOMAIN message.head.fields :
                            message.head.fields[j].name = name}}

ErrorCauses == {"head", "line", "size", "overflow", "short", "delimiter", "eof", "io"}

TypeOK ==
  /\ pc \in {"reading", "done"}
  /\ got \in 0 .. Len(Stream)
  /\ ending \in {Nothing} \cup Endings
  /\ \/ result = Nothing
     \/ (result.kind = "err" /\ result.why \in ErrorCauses)
     \/ /\ result.kind = "ok"
        /\ Len(result.body) <= Len(message.wire)
        /\ result.status = message.head.status
        /\ result.etag \in FieldValues("etag")
        /\ result.modified \in FieldValues("last-modified")

(***************************************************************************)
(* An Ok result carries the whole body the server meant and nothing after  *)
(* it, wherever the connection broke and however it was cut into reads; a  *)
(* body that only the end of stream ends is accepted only after a TLS      *)
(* close, so that a cut connection never passes for a short body           *)
(* (src/http.rs:65-88, :104-130).                                          *)
(***************************************************************************)
CompleteOrError ==
  pc = "done" /\ result.kind = "ok" =>
    CASE message.kind \in {"framed", "trailed"} -> result.body = message.means
      [] message.kind = "untilClose" -> /\ ending = "closed"
                                        /\ result.body = Slice(response, HeadLen, got)
      [] OTHER -> TRUE

(***************************************************************************)
(* The result does not depend on how the stream was cut into reads: it is  *)
(* what reading all of it at once gives, also for a malformed message, of  *)
(* which a prefix must not be refused when the rest would make it good     *)
(* (src/http.rs:67-76, :202-244).                                          *)
(***************************************************************************)
InOneRead ==
  OrElse(Answer(Stream), IF ending = "closed" THEN Parse(Stream) ELSE Err("eof"))

FragmentationIndependent ==
  pc = "done" /\ (ending = Nothing \/ (got = Len(Stream) /\ ending # "error"))
  => result = InOneRead

(***************************************************************************)
(* The two readers of a body agree: what http_response_complete_len calls  *)
(* complete, parse_http_response accepts (src/http.rs:104-130, :183-285).  *)
(***************************************************************************)
LengthAgreesWithParse ==
  pc = "done" /\ ending = Nothing /\ CompleteLen(response).kind = "some"
  => result.kind = "ok"

(***************************************************************************)
(* Once a framed response has arrived the loop does not read on: it does   *)
(* not wait for a server that keeps the connection open (src/http.rs:72).  *)
(***************************************************************************)
StopsAtEnd ==
  pc = "reading" /\ message.kind = "framed" => got < HeadLen + message.extent

(***************************************************************************)
(* The doc of https_get_conditional (src/lib.rs:124-125): when the server  *)
(* responds with 304 the body is empty and the validators are preserved.   *)
(* So a 304 that was received to the last byte is not an error.            *)
(***************************************************************************)
DocNotModified ==
  pc = "done" /\ message.head.status = 304 /\ got = Len(Stream) /\ ending # "error"
  => result.kind = "ok" /\ result.body = << >>
=============================================================================
