-------------------------- MODULE HttpFramingProofs --------------------------
(***************************************************************************)
(* Proofs about HttpFraming, for any messages, malformed or not, and any   *)
(* way of cutting them into reads.                                         *)
(*                                                                         *)
(* The heart is how a scanner behaves on a prefix: what chunked_wire_len   *)
(* decides about the bytes that have arrived it decides about every longer *)
(* response, and where it finds an end decode_chunked_body finds the same  *)
(* chunks.  Both scanners are recursive functions of the cursor, and are   *)
(* reasoned about from the end of the body backwards.                      *)
(***************************************************************************)
EXTENDS HttpFraming, InductionFacts, SequenceTheorems

\* The bytes of a stream: those of a body, and the opaque head.
Bytes == Seq(Byte \cup {"head"})

\* The first k bytes.
Prefix(bytes, k) == SubSeq(bytes, 1, k)

LEMMA LengthIsNat ==
  ASSUME NEW bytes \in Bytes
  PROVE  Len(bytes) \in Nat
  BY DEF Bytes

LEMMA PrefixFacts ==
  ASSUME NEW bytes \in Bytes, NEW k \in 0 .. Len(bytes)
  PROVE  /\ Prefix(bytes, k) \in Bytes
         /\ Len(Prefix(bytes, k)) = k
         /\ \A i \in 1 .. k : Prefix(bytes, k)[i] = bytes[i]
  BY DEF Bytes, Prefix

\* What Slice returns.
LEMMA SliceFacts ==
  ASSUME NEW bytes \in Bytes, NEW from \in Nat, NEW n \in Nat
  PROVE  /\ Slice(bytes, from, n) \in Bytes
         /\ Len(Slice(bytes, from, n)) =
              IF from + n <= Len(bytes) THEN n
              ELSE IF from <= Len(bytes) THEN Len(bytes) - from ELSE 0
         /\ \A i \in 1 .. Len(Slice(bytes, from, n)) :
              Slice(bytes, from, n)[i] = bytes[from + i]
  <1> DEFINE to == IF from + n <= Len(bytes) THEN from + n ELSE Len(bytes)
  <1>1. Len(bytes) \in Nat /\ to \in Nat /\ from + 1 \in Nat /\ to <= Len(bytes)
    BY DEF Bytes
  <1>2. Slice(bytes, from, n) = SubSeq(bytes, from + 1, to)
    BY DEF Slice
  <1>3. Len(SubSeq(bytes, from + 1, to)) = IF from + 1 <= to THEN to - (from + 1) + 1 ELSE 0
    BY <1>1 DEF Bytes
  <1>4. SubSeq(bytes, from + 1, to) \in Bytes
    <2>1. \A i \in from + 1 .. to : i \in 1 .. Len(bytes)
      BY <1>1
    <2> HIDE DEF to
    <2> QED BY <1>1, <2>1 DEF Bytes
  <1>5. \A i \in 1 .. Len(SubSeq(bytes, from + 1, to)) :
          SubSeq(bytes, from + 1, to)[i] = bytes[from + i]
    <2> HIDE DEF to
    <2> SUFFICES ASSUME NEW i \in 1 .. Len(SubSeq(bytes, from + 1, to))
                 PROVE  SubSeq(bytes, from + 1, to)[i] = bytes[from + i]
      OBVIOUS
    <2>1. from + 1 <= to /\ i \in 1 .. to - (from + 1) + 1
      BY <1>1, <1>3
    <2>2. SubSeq(bytes, from + 1, to)[i] = bytes[from + 1 + i - 1]
      BY <1>1, <2>1 DEF Bytes
    <2>3. from + 1 + i - 1 = from + i
      BY <2>1
    <2> QED BY <2>2, <2>3
  <1> QED BY <1>1, <1>2, <1>3, <1>4, <1>5

\* A slice that lies within a prefix is the slice of the whole.
LEMMA SameSlice ==
  ASSUME NEW bytes \in Bytes, NEW k \in 0 .. Len(bytes), NEW from \in Nat, NEW n \in Nat,
         from + n <= k
  PROVE  Slice(Prefix(bytes, k), from, n) = Slice(bytes, from, n)
  <1> DEFINE q == Prefix(bytes, k)
             s == Slice(q, from, n)
             t == Slice(bytes, from, n)
  <1>1. /\ q \in Bytes /\ Len(q) = k /\ Len(bytes) \in Nat
        /\ \A i \in 1 .. k : q[i] = bytes[i]
    BY PrefixFacts, LengthIsNat
  <1> HIDE DEF q
  <1>2. /\ s \in Bytes /\ Len(s) = n /\ \A i \in 1 .. n : s[i] = q[from + i]
        /\ t \in Bytes /\ Len(t) = n /\ \A i \in 1 .. n : t[i] = bytes[from + i]
    <2>1. from + n <= Len(q) /\ from + n <= Len(bytes)
      BY <1>1
    <2>2. s \in Bytes /\ Len(s) = n /\ \A i \in 1 .. n : s[i] = q[from + i]
      <3>1. /\ s \in Bytes
            /\ Len(s) = IF from + n <= Len(q) THEN n
                        ELSE IF from <= Len(q) THEN Len(q) - from ELSE 0
            /\ \A i \in 1 .. Len(s) : s[i] = q[from + i]
        BY <1>1, SliceFacts
      <3> HIDE DEF s
      <3> QED BY <2>1, <3>1
    <2>3. t \in Bytes /\ Len(t) = n /\ \A i \in 1 .. n : t[i] = bytes[from + i]
      <3>1. /\ t \in Bytes
            /\ Len(t) = IF from + n <= Len(bytes) THEN n
                        ELSE IF from <= Len(bytes) THEN Len(bytes) - from ELSE 0
            /\ \A i \in 1 .. Len(t) : t[i] = bytes[from + i]
        BY SliceFacts
      <3> HIDE DEF t
      <3> QED BY <2>1, <3>1
    <2> QED BY <2>2, <2>3
  <1> HIDE DEF s, t
  <1>3. \A i \in 1 .. n : s[i] = t[i]
    <2> TAKE i \in 1 .. n
    <2>1. from + i \in 1 .. k
      BY <1>1
    <2> QED BY <2>1, <1>1, <1>2
  <1>4. s = t
    BY <1>2, <1>3, SeqEqual DEF Bytes
  <1> QED BY <1>4 DEF s, t, q

\* pattern is in bytes at this offset.
At(bytes, pattern, i) == Slice(bytes, i, Len(pattern)) = pattern

LEMMA AtEnds ==
  ASSUME NEW bytes \in Bytes, NEW pattern \in Bytes, Len(pattern) > 0,
         NEW i \in Nat, At(bytes, pattern, i)
  PROVE  i + Len(pattern) <= Len(bytes)
  <1>1. Len(pattern) \in Nat /\ Len(bytes) \in Nat
    BY DEF Bytes
  <1>2. Len(Slice(bytes, i, Len(pattern))) = Len(pattern)
    BY DEF At
  <1>3. Len(Slice(bytes, i, Len(pattern))) =
          IF i + Len(pattern) <= Len(bytes) THEN Len(pattern)
          ELSE IF i <= Len(bytes) THEN Len(bytes) - i ELSE 0
    BY <1>1, SliceFacts
  <1> QED BY <1>1, <1>2, <1>3

\* PositionOf finds the first place, if there is one.
LEMMA PositionFacts ==
  ASSUME NEW bytes \in Bytes, NEW pattern \in Bytes, Len(pattern) > 0, NEW from \in Nat
  PROVE  LET p == PositionOf(bytes, pattern, from)
         IN  \/ p = Nothing /\ \A i \in Nat : i >= from => ~At(bytes, pattern, i)
             \/ /\ p \in Nat /\ p >= from /\ p # Nothing
                /\ At(bytes, pattern, p) /\ p + Len(pattern) <= Len(bytes)
                /\ \A i \in from .. p - 1 : ~At(bytes, pattern, i)
  <1> DEFINE places == {i \in from .. Len(bytes) : At(bytes, pattern, i)}
             p == PositionOf(bytes, pattern, from)
  <1>1. p = First(places)
    BY DEF PositionOf, At
  <1>2. Len(bytes) \in Nat /\ Len(pattern) \in Nat
    BY DEF Bytes
  <1>3. \A i \in Nat : i >= from /\ At(bytes, pattern, i) => i \in places
    <2> TAKE i \in Nat
    <2> HAVE i >= from /\ At(bytes, pattern, i)
    <2>1. i + Len(pattern) <= Len(bytes)
      BY AtEnds
    <2> QED BY <1>2, <2>1
  <1> HIDE DEF p
  <1>4. CASE places = {}
    <2>1. p = Nothing
      BY <1>1, <1>4 DEF First
    <2> HIDE DEF places
    <2> QED BY <1>3, <1>4, <2>1 DEF p
  <1>5. CASE places # {}
    <2>1. places \subseteq Nat
      BY <1>2
    <2>2. \E n \in places : \A m \in places : n <= m
      <3> HIDE DEF places
      <3> QED BY <1>5, <2>1, LeastElement
    <2>3. p = Min(places)
      BY <1>1, <1>5 DEF First
    <2>4. p \in places /\ \A m \in places : p <= m
      <3> HIDE DEF places
      <3> QED BY <2>2, <2>3 DEF Min
    <2>5. p \in Nat /\ p >= from /\ At(bytes, pattern, p)
      BY <2>1, <2>4
    <2>6. p # Nothing
      BY <2>5, NothingAssumption
    <2>7. p + Len(pattern) <= Len(bytes)
      BY <2>5, AtEnds
    <2>8. \A i \in from .. p - 1 : ~At(bytes, pattern, i)
      <3> SUFFICES ASSUME NEW i \in from .. p - 1, At(bytes, pattern, i) PROVE FALSE
        OBVIOUS
      <3>1. i \in Nat /\ i >= from /\ i < p
        BY <2>5
      <3> HIDE DEF places
      <3> QED BY <3>1, <1>3, <2>4, <2>5
    <2> QED BY <2>5, <2>6, <2>7, <2>8 DEF p
  <1> QED BY <1>4, <1>5

\* A place with none before it is what PositionOf finds.
LEMMA PositionIs ==
  ASSUME NEW bytes \in Bytes, NEW pattern \in Bytes, Len(pattern) > 0, NEW from \in Nat,
         NEW e \in Nat, e >= from, At(bytes, pattern, e),
         \A i \in from .. e - 1 : ~At(bytes, pattern, i)
  PROVE  PositionOf(bytes, pattern, from) = e
  <1> DEFINE p == PositionOf(bytes, pattern, from)
  <1>1. \/ p = Nothing /\ \A i \in Nat : i >= from => ~At(bytes, pattern, i)
        \/ /\ p \in Nat /\ p >= from /\ At(bytes, pattern, p)
           /\ \A i \in from .. p - 1 : ~At(bytes, pattern, i)
    BY PositionFacts
  <1> HIDE DEF p
  <1>2. /\ p \in Nat /\ p >= from /\ At(bytes, pattern, p)
        /\ \A i \in from .. p - 1 : ~At(bytes, pattern, i)
    BY <1>1
  <1>3. ~(p < e) /\ ~(e < p)
    BY <1>2
  <1> QED BY <1>2, <1>3 DEF p

\* What lies within a prefix is found there and in the whole.
LEMMA PositionInPrefix ==
  ASSUME NEW bytes \in Bytes, NEW k \in 0 .. Len(bytes),
         NEW pattern \in Bytes, Len(pattern) > 0, NEW from \in Nat
  PROVE  LET q == Prefix(bytes, k)
             p == PositionOf(q, pattern, from)
             whole == PositionOf(bytes, pattern, from)
         IN  /\ p # Nothing => whole = p
             /\ whole # Nothing /\ whole + Len(pattern) <= k => p = whole
  <1> DEFINE q == Prefix(bytes, k)
             p == PositionOf(q, pattern, from)
             whole == PositionOf(bytes, pattern, from)
  <1>1. q \in Bytes /\ Len(q) = k /\ Len(pattern) \in Nat /\ Len(bytes) \in Nat
    BY PrefixFacts, LengthIsNat
  <1>2. ASSUME NEW i \in Nat, i + Len(pattern) <= k
        PROVE  At(q, pattern, i) <=> At(bytes, pattern, i)
    BY <1>1, <1>2, SameSlice DEF At
  <1> HIDE DEF q
  <1>3. ASSUME p # Nothing PROVE whole = p
    <2>1. /\ p \in Nat /\ p >= from /\ At(q, pattern, p) /\ p + Len(pattern) <= k
          /\ \A i \in from .. p - 1 : ~At(q, pattern, i)
      BY <1>1, <1>3, PositionFacts
    <2> HIDE DEF p
    <2>2. At(bytes, pattern, p)
      BY <2>1, <1>2
    <2>3. ASSUME NEW i \in from .. p - 1 PROVE ~At(bytes, pattern, i)
      <3>1. i \in Nat /\ i + Len(pattern) <= k
        BY <1>1, <2>1
      <3> QED BY <3>1, <2>1, <1>2
    <2> QED BY <2>1, <2>2, <2>3, PositionIs
  <1>4. ASSUME whole # Nothing, whole + Len(pattern) <= k PROVE p = whole
    <2>1. /\ whole \in Nat /\ whole >= from /\ At(bytes, pattern, whole)
          /\ \A i \in from .. whole - 1 : ~At(bytes, pattern, i)
      BY <1>4, PositionFacts
    <2>2. whole + Len(pattern) <= k
      BY <1>4
    <2> HIDE DEF whole
    <2>3. At(q, pattern, whole)
      BY <2>1, <2>2, <1>2
    <2>4. ASSUME NEW i \in from .. whole - 1 PROVE ~At(q, pattern, i)
      <3>1. i \in Nat /\ i + Len(pattern) <= k
        BY <1>1, <2>1, <2>2
      <3> QED BY <3>1, <2>1, <1>2
    <2> QED BY <2>1, <2>3, <2>4, <1>1, PositionIs
  <1> QED BY <1>3, <1>4 DEF q
-----------------------------------------------------------------------------
(***************************************************************************)
(* Chunks.                                                                 *)
(***************************************************************************)
LEMMA Delimiters ==
  /\ CRLF \in Bytes /\ Len(CRLF) = 2 /\ Len(CRLF) > 0
  /\ Terminator \in Bytes /\ Len(Terminator) = 4 /\ Len(Terminator) > 0
  /\ Terminator[1] = "CR"
  <1>1. CRLF \in Bytes /\ Len(CRLF) = 2 /\ CRLF[1] = "CR"
    <2>1. "CR" \in Byte \cup {"head"} /\ "LF" \in Byte \cup {"head"}
      BY DEF Byte
    <2>2. ASSUME NEW S, NEW x \in S, NEW y \in S
          PROVE  <<x, y>> \in Seq(S) /\ Len(<<x, y>>) = 2 /\ <<x, y>>[1] = x
      OBVIOUS
    <2>3. <<"CR", "LF">> \in Seq(Byte \cup {"head"}) /\ Len(<<"CR", "LF">>) = 2 /\ <<"CR", "LF">>[1] = "CR"
      BY <2>1, <2>2
    <2> QED BY <2>3 DEF CRLF, Bytes
  <1>2. /\ Terminator \in Bytes /\ Len(Terminator) = Len(CRLF) + Len(CRLF)
        /\ \A i \in 1 .. Len(CRLF) + Len(CRLF) :
             Terminator[i] = IF i <= Len(CRLF) THEN CRLF[i] ELSE CRLF[i - Len(CRLF)]
    BY <1>1, ConcatProperties DEF Terminator, Bytes
  <1>3. Terminator[1] = CRLF[1]
    BY <1>1, <1>2
  <1>4. Len(Terminator) = 4
    BY <1>1, <1>2
  <1> QED BY <1>1, <1>2, <1>3, <1>4

\* A size fits a usize.
LEMMA SizeType == \A hex : SizeOf(hex) \in {Nothing} \cup Nat
  <1> TAKE hex
  <1>1. HexValue(hex) \in 0 .. UsizeMax => HexValue(hex) \in Nat
    BY WidthAssumption
  <1> HIDE DEF HexValue
  <1> QED BY <1>1 DEF SizeOf

\* A size is a number or none, and its line ends within the body.
LEMMA SizeLineFacts ==
  ASSUME NEW body \in Bytes, NEW c \in Nat
  PROVE  LET line == SizeLine(body, c)
         IN  \/ line = Nothing
             \/ /\ line # Nothing
                /\ line.size \in {Nothing} \cup Nat
                /\ line.at \in Nat /\ line.at > c + 1 /\ line.at <= Len(body)
  <1> DEFINE end == PositionOf(body, CRLF, c)
  <1>1. \/ end = Nothing
        \/ end \in Nat /\ end >= c /\ end # Nothing /\ end + 2 <= Len(body)
    <2>1. \/ end = Nothing
          \/ end \in Nat /\ end >= c /\ end # Nothing /\ end + Len(CRLF) <= Len(body)
      BY Delimiters, PositionFacts
    <2> HIDE DEF end
    <2> QED BY <2>1, Delimiters
  <1> HIDE DEF end
  <1>2. CASE end = Nothing
    BY <1>2 DEF SizeLine, end
  <1>3. CASE end # Nothing
    <2> DEFINE size == ChunkSize(Slice(body, c, end - c))
    <2>1. SizeLine(body, c) = [size |-> size, at |-> end + 2]
      BY <1>3 DEF SizeLine, end
    <2>2. size \in {Nothing} \cup Nat
      BY SizeType DEF ChunkSize
    <2> HIDE DEF size
    <2>3. [size |-> size, at |-> end + 2] \in [size : {Nothing} \cup Nat, at : Nat]
      BY <1>1, <1>3, <2>2
    <2>4. [size |-> size, at |-> end + 2] # Nothing
      BY <2>3, NothingAssumption
    <2> QED BY <1>1, <1>3, <2>1, <2>2, <2>4
  <1> QED BY <1>2, <1>3

\* The size line at a cursor is the same in a prefix that contains its end.
LEMMA SizeLineInPrefix ==
  ASSUME NEW body \in Bytes, NEW k \in 0 .. Len(body), NEW c \in Nat
  PROVE  LET q == Prefix(body, k)
         IN  /\ SizeLine(q, c) # Nothing => SizeLine(body, c) = SizeLine(q, c)
             /\ SizeLine(body, c) # Nothing /\ SizeLine(body, c).at <= k =>
                  SizeLine(q, c) = SizeLine(body, c)
  <1> DEFINE q == Prefix(body, k)
             p == PositionOf(q, CRLF, c)
             end == PositionOf(body, CRLF, c)
  <1>1. q \in Bytes /\ Len(q) = k /\ Len(body) \in Nat
    BY PrefixFacts, LengthIsNat
  <1>2. /\ p # Nothing => end = p
        /\ end # Nothing /\ end + 2 <= k => p = end
    <2>1. /\ p # Nothing => end = p
          /\ end # Nothing /\ end + Len(CRLF) <= k => p = end
      BY Delimiters, PositionInPrefix
    <2> HIDE DEF p, end
    <2> QED BY <2>1, Delimiters
  <1>3. /\ p # Nothing => p \in Nat /\ p >= c /\ p + 2 <= k
        /\ end # Nothing => end \in Nat /\ end >= c
    <2>1. end # Nothing => end \in Nat /\ end >= c
      BY Delimiters, PositionFacts
    <2> HIDE DEF q
    <2>2. p # Nothing => p \in Nat /\ p >= c /\ p + Len(CRLF) <= Len(q)
      BY <1>1, Delimiters, PositionFacts
    <2> HIDE DEF p, end
    <2> QED BY <1>1, <2>1, <2>2, Delimiters
  <1> HIDE DEF q, p, end
  <1>4. ASSUME p # Nothing, end = p
        PROVE  SizeLine(body, c) = SizeLine(q, c)
    <2>1. p \in Nat /\ p - c \in Nat /\ c + (p - c) <= k
      BY <1>1, <1>3, <1>4
    <2>2. Slice(q, c, p - c) = Slice(body, c, p - c)
      BY <2>1, SameSlice DEF q
    <2> QED BY <2>2, <1>4 DEF SizeLine, p, end
  <1>5. SizeLine(q, c) # Nothing => p # Nothing
    BY DEF SizeLine, p
  <1>6. SizeLine(body, c) # Nothing => end # Nothing /\ SizeLine(body, c).at = end + 2
    BY DEF SizeLine, end
  <1>7. SizeLine(q, c) # Nothing => SizeLine(body, c) = SizeLine(q, c)
    BY <1>2, <1>4, <1>5
  <1>8. SizeLine(body, c) # Nothing /\ SizeLine(body, c).at <= k =>
          SizeLine(q, c) = SizeLine(body, c)
    BY <1>2, <1>4, <1>6
  <1> QED BY <1>7, <1>8 DEF q

\* Where the payload of the chunk at a cursor ends.
ChunkEnd(body, c) == SizeLine(body, c).at + SizeLine(body, c).size

\* A whole chunk with a payload is there, and another one may follow it.
WholeChunk(body, c) ==
  /\ SizeLine(body, c) # Nothing
  /\ SizeLine(body, c).size \notin {Nothing, 0}
  /\ ChunkEnd(body, c) <= UsizeMax
  /\ HasDelimiter(body, ChunkEnd(body, c))

NextChunk(body, c) == IF WholeChunk(body, c) THEN ChunkEnd(body, c) + 2 ELSE 0

\* A delimiter that is there has arrived.
LEMMA DelimiterIsThere ==
  ASSUME NEW body \in Bytes, NEW e \in Nat
  PROVE  Slice(body, e, 2) = CRLF => e + 2 <= Len(body)
  <1> SUFFICES ASSUME Slice(body, e, 2) = CRLF PROVE e + 2 <= Len(body)
    OBVIOUS
  <1>1. At(body, CRLF, e)
    BY Delimiters DEF At
  <1>2. e + Len(CRLF) <= Len(body)
    BY <1>1, Delimiters, AtEnds
  <1> QED BY <1>2, Delimiters

\* The next chunk begins further on, within the body.
LEMMA WholeChunkFacts ==
  ASSUME NEW body \in Bytes, NEW c \in Nat, WholeChunk(body, c)
  PROVE  /\ SizeLine(body, c).size \in Nat /\ SizeLine(body, c).size > 0
         /\ SizeLine(body, c).at \in Nat /\ SizeLine(body, c).at > c + 1
         /\ ChunkEnd(body, c) \in Nat
         /\ ChunkEnd(body, c) = SizeLine(body, c).at + SizeLine(body, c).size
         /\ NextChunk(body, c) = ChunkEnd(body, c) + 2
         /\ NextChunk(body, c) \in c + 1 .. Len(body)
  <1>1. /\ SizeLine(body, c).size \in Nat /\ SizeLine(body, c).size > 0
        /\ SizeLine(body, c).at \in Nat /\ SizeLine(body, c).at > c + 1
    BY SizeLineFacts DEF WholeChunk
  <1>2. ChunkEnd(body, c) \in Nat /\ ChunkEnd(body, c) > c + 1
    BY <1>1 DEF ChunkEnd
  <1>3. ChunkEnd(body, c) + 2 <= Len(body)
    BY <1>2, DelimiterIsThere DEF WholeChunk, HasDelimiter
  <1>4. NextChunk(body, c) = ChunkEnd(body, c) + 2 /\ Len(body) \in Nat
    BY DEF NextChunk, Bytes
  <1> QED BY <1>1, <1>2, <1>3, <1>4 DEF ChunkEnd

LEMMA NextChunkRange ==
  ASSUME NEW body \in Bytes, NEW c \in Nat
  PROVE  /\ NextChunk(body, c) \in Int
         /\ WholeChunk(body, c) <=> NextChunk(body, c) \in c + 1 .. Len(body)
  <1>1. CASE WholeChunk(body, c)
    BY <1>1, WholeChunkFacts
  <1>2. CASE ~WholeChunk(body, c)
    BY <1>2 DEF NextChunk
  <1> QED BY <1>1, <1>2

\* A chunk that lies within a prefix is the same chunk there.
LEMMA WholeChunkInPrefix ==
  ASSUME NEW body \in Bytes, NEW k \in 0 .. Len(body), NEW c \in Nat
  PROVE  LET q == Prefix(body, k)
         IN  /\ WholeChunk(q, c) => /\ WholeChunk(body, c)
                                    /\ SizeLine(body, c) = SizeLine(q, c)
             /\ WholeChunk(body, c) /\ NextChunk(body, c) <= k =>
                  /\ WholeChunk(q, c)
                  /\ SizeLine(q, c) = SizeLine(body, c)
  <1> DEFINE q == Prefix(body, k)
  <1>1. q \in Bytes /\ Len(q) = k /\ Len(body) \in Nat
    BY PrefixFacts, LengthIsNat
  <1>2. ASSUME WholeChunk(q, c)
        PROVE  WholeChunk(body, c) /\ SizeLine(body, c) = SizeLine(q, c)
    <2>1. SizeLine(body, c) = SizeLine(q, c)
      BY <1>2, SizeLineInPrefix DEF WholeChunk
    <2>2. ChunkEnd(body, c) = ChunkEnd(q, c)
      BY <2>1 DEF ChunkEnd
    <2>3. ChunkEnd(q, c) \in Nat /\ ChunkEnd(q, c) + 2 <= k
      <3> HIDE DEF q
      <3> QED BY <1>1, <1>2, WholeChunkFacts
    <2>4. Slice(q, ChunkEnd(q, c), 2) = Slice(body, ChunkEnd(q, c), 2)
      BY <2>3, SameSlice
    <2> HIDE DEF q
    <2> QED BY <1>2, <2>1, <2>2, <2>4 DEF WholeChunk, HasDelimiter
  <1>3. ASSUME WholeChunk(body, c), NextChunk(body, c) <= k
        PROVE  WholeChunk(q, c) /\ SizeLine(q, c) = SizeLine(body, c)
    <2>1. /\ ChunkEnd(body, c) \in Nat /\ ChunkEnd(body, c) + 2 <= k
          /\ SizeLine(body, c).at <= k /\ SizeLine(body, c) # Nothing
      BY <1>1, <1>3, WholeChunkFacts DEF WholeChunk
    <2>2. SizeLine(q, c) = SizeLine(body, c)
      BY <2>1, SizeLineInPrefix
    <2>3. ChunkEnd(q, c) = ChunkEnd(body, c)
      BY <2>2 DEF ChunkEnd
    <2>4. Slice(q, ChunkEnd(body, c), 2) = Slice(body, ChunkEnd(body, c), 2)
      BY <2>1, SameSlice
    <2> HIDE DEF q
    <2> QED BY <1>3, <2>2, <2>3, <2>4 DEF WholeChunk, HasDelimiter
  <1> QED BY <1>2, <1>3
-----------------------------------------------------------------------------
(***************************************************************************)
(* The two scanners, as recursive functions of the cursor that refer       *)
(* forward: at a whole chunk to the next one.                              *)
(***************************************************************************)
Errors == [kind : {"err"}, why : ErrorCauses]
WireOutcomes == [kind : {"some"}, len : Nat] \cup {None} \cup Errors
Decodings == [kind : {"ok"}, body : Bytes] \cup Errors

\* What chunked_wire_len says where there is no whole chunk.
WireVerdict(body, c) ==
  IF SizeLine(body, c) = Nothing THEN None
  ELSE IF SizeLine(body, c).size = Nothing THEN Err("size")
  ELSE IF SizeLine(body, c).size = 0 THEN LastChunk(body, SizeLine(body, c).at)
  ELSE IF ChunkEnd(body, c) > UsizeMax THEN Err("overflow")
  ELSE IF ~DelimiterArrived(body, ChunkEnd(body, c)) THEN None
  ELSE Err("delimiter")

\* What decode_chunked_body says there.
DecodeVerdict(body, c) ==
  IF SizeLine(body, c) = Nothing THEN Err("line")
  ELSE IF SizeLine(body, c).size = Nothing THEN Err("size")
  ELSE IF SizeLine(body, c).size = 0 THEN Ok(<< >>)
  ELSE IF ChunkEnd(body, c) > UsizeMax THEN Err("overflow")
  ELSE IF ChunkEnd(body, c) > Len(body) THEN Err("short")
  ELSE Err("delimiter")

Payload(body, c) == Slice(body, SizeLine(body, c).at, SizeLine(body, c).size)

Scanning(scan, body) ==
  /\ scan \in [0 .. Len(body) -> WireOutcomes]
  /\ \A c \in 0 .. Len(body) :
       scan[c] = IF WholeChunk(body, c) THEN scan[NextChunk(body, c)] ELSE WireVerdict(body, c)

Decoding(decode, body) ==
  /\ decode \in [0 .. Len(body) -> Decodings]
  /\ \A c \in 0 .. Len(body) :
       decode[c] = IF WholeChunk(body, c)
                   THEN Prepend(Payload(body, c), decode[NextChunk(body, c)])
                   ELSE DecodeVerdict(body, c)

LEMMA VerdictTypes ==
  ASSUME NEW body \in Bytes, NEW c \in Nat
  PROVE  /\ WireVerdict(body, c) \in WireOutcomes
         /\ DecodeVerdict(body, c) \in Decodings
  <1>1. \/ SizeLine(body, c) = Nothing
        \/ SizeLine(body, c).at \in Nat
    BY SizeLineFacts
  <1>2. \A why \in ErrorCauses : Err(why) \in Errors
    BY DEF Err, Errors
  <1>3. {"line", "size", "overflow", "short", "delimiter"} \subseteq ErrorCauses
    BY DEF ErrorCauses
  <1>4. \A why \in {"line", "size", "overflow", "short", "delimiter"} :
          Err(why) \in WireOutcomes /\ Err(why) \in Decodings
    BY <1>2, <1>3 DEF WireOutcomes, Decodings
  <1>5. None \in WireOutcomes
    BY DEF WireOutcomes
  <1>6. SizeLine(body, c) # Nothing => LastChunk(body, SizeLine(body, c).at) \in WireOutcomes
    BY <1>1 DEF LastChunk, Some, WireOutcomes
  <1>7. Ok(<< >>) \in Decodings
    BY DEF Ok, Decodings, Bytes
  <1>8. WireVerdict(body, c) \in WireOutcomes
    BY <1>4, <1>5, <1>6 DEF WireVerdict
  <1>9. DecodeVerdict(body, c) \in Decodings
    BY <1>4, <1>7 DEF DecodeVerdict
  <1> QED BY <1>8, <1>9

\* The recursive function under chunked_wire_len is Scanning.
LEMMA WireSteps ==
  ASSUME NEW body \in Bytes
  PROVE  \E scan : Scanning(scan, body) /\ chunked_wire_len(body) = scan[0]
  <1> DEFINE n == Len(body)
             Is(scan) == scan = [cursor \in 0 .. Len(body) |->
               LET Chunk(line, end) ==
                     IF end > UsizeMax THEN Err("overflow")
                     ELSE IF ~DelimiterArrived(body, end) THEN None
                     ELSE IF ~HasDelimiter(body, end) THEN Err("delimiter")
                     ELSE scan[end + 2]
                   From(line) ==
                     IF line = Nothing THEN None
                     ELSE IF line.size = Nothing THEN Err("size")
                     ELSE IF line.size = 0 THEN LastChunk(body, line.at)
                     ELSE Chunk(line, line.at + line.size)
               IN  From(SizeLine(body, cursor))]
             Steps(scan) == scan = [c \in 0 .. Len(body) |->
               IF WholeChunk(body, c) THEN scan[NextChunk(body, c)] ELSE WireVerdict(body, c)]
  <1>1. n \in Nat
    BY DEF Bytes
  <1>2. ASSUME NEW scan PROVE Is(scan) <=> Steps(scan)
    <2>1. ASSUME NEW c \in 0 .. Len(body)
          PROVE  (LET Chunk(line, end) ==
                        IF end > UsizeMax THEN Err("overflow")
                        ELSE IF ~DelimiterArrived(body, end) THEN None
                        ELSE IF ~HasDelimiter(body, end) THEN Err("delimiter")
                        ELSE scan[end + 2]
                      From(line) ==
                        IF line = Nothing THEN None
                        ELSE IF line.size = Nothing THEN Err("size")
                        ELSE IF line.size = 0 THEN LastChunk(body, line.at)
                        ELSE Chunk(line, line.at + line.size)
                  IN  From(SizeLine(body, c)))
                 = IF WholeChunk(body, c) THEN scan[NextChunk(body, c)] ELSE WireVerdict(body, c)
      <3>0. c \in Nat
        OBVIOUS
      <3>1. CASE WholeChunk(body, c)
        <4>1. DelimiterArrived(body, ChunkEnd(body, c))
          BY <3>0, <3>1, WholeChunkFacts DEF DelimiterArrived
        <4>2. NextChunk(body, c) = ChunkEnd(body, c) + 2 /\ ChunkEnd(body, c) <= UsizeMax
              /\ ChunkEnd(body, c) \in Nat
          BY <3>0, <3>1, WholeChunkFacts DEF WholeChunk
        <4>3. ~(ChunkEnd(body, c) > UsizeMax)
          BY <4>2, WidthAssumption
        <4> QED BY <3>1, <4>1, <4>2, <4>3 DEF WholeChunk, ChunkEnd
      <3>2. CASE ~WholeChunk(body, c)
        <4>1. CASE \/ SizeLine(body, c) = Nothing
                   \/ SizeLine(body, c).size = Nothing
                   \/ SizeLine(body, c).size = 0
          BY <3>2, <4>1 DEF WireVerdict
        <4>2. CASE /\ SizeLine(body, c) # Nothing
                   /\ SizeLine(body, c).size # Nothing
                   /\ SizeLine(body, c).size # 0
          <5>1. ChunkEnd(body, c) \in Nat
            BY <3>0, <4>2, SizeLineFacts DEF ChunkEnd
          <5>2. ChunkEnd(body, c) > UsizeMax \/ ~HasDelimiter(body, ChunkEnd(body, c))
            BY <3>2, <4>2, <5>1, WidthAssumption DEF WholeChunk
          <5> QED BY <3>2, <4>2, <5>2 DEF WireVerdict, ChunkEnd
        <4> QED BY <4>1, <4>2
      <3> QED BY <3>1, <3>2
    <2> QED BY <2>1
  <1> DEFINE next == [c \in 0 .. n |-> NextChunk(body, c)]
             step == [x \in (0 .. n) \X WireOutcomes |-> x[2]]
             verdict == [c \in 0 .. n |-> WireVerdict(body, c)]
  <1>3. next \in [0 .. n -> Int] /\ verdict \in [0 .. n -> WireOutcomes]
    BY <1>1, NextChunkRange, VerdictTypes
  <1>4. step \in [(0 .. n) \X WireOutcomes -> WireOutcomes]
    OBVIOUS
  <1>5. PICK f : Forward(f, n, WireOutcomes, next, step, verdict)
    <2> HIDE DEF next, step, verdict, n
    <2> QED BY <1>1, <1>3, <1>4, ForwardExists
  <1>6. Steps(f)
    <2>1. f \in [0 .. n -> WireOutcomes]
      BY <1>5 DEF Forward
    <2>2. ASSUME NEW c \in 0 .. n
          PROVE  f[c] = IF WholeChunk(body, c) THEN f[NextChunk(body, c)] ELSE WireVerdict(body, c)
      <3>1. next[c] = NextChunk(body, c) /\ verdict[c] = WireVerdict(body, c)
        OBVIOUS
      <3>2. WholeChunk(body, c) <=> next[c] \in c + 1 .. n
        BY <1>1, <3>1, NextChunkRange
      <3>3. f[c] = IF next[c] \in c + 1 .. n THEN step[<<c, f[next[c]]>>] ELSE verdict[c]
        BY <1>5 DEF Forward
      <3>4. next[c] \in c + 1 .. n => step[<<c, f[next[c]]>>] = f[next[c]]
        <4> SUFFICES ASSUME next[c] \in c + 1 .. n PROVE step[<<c, f[next[c]]>>] = f[next[c]]
          OBVIOUS
        <4>1. next[c] \in 0 .. n
          BY <1>1
        <4> HIDE DEF next
        <4>2. f[next[c]] \in WireOutcomes
          BY <2>1, <4>1
        <4> QED BY <4>2
      <3> HIDE DEF next, step, verdict
      <3> QED BY <3>1, <3>2, <3>3, <3>4
    <2> QED BY <2>1, <2>2
  <1> DEFINE wire == CHOOSE scan : Is(scan)
  <1>7. Steps(wire)
    <2> HIDE DEF Is, Steps
    <2> QED BY <1>2, <1>6
  <1>8. chunked_wire_len(body) = wire[0]
    BY DEF chunked_wire_len
  <1> HIDE DEF wire, Is
  <1>9. \A c \in 0 .. n :
          wire[c] = IF WholeChunk(body, c) THEN wire[NextChunk(body, c)] ELSE WireVerdict(body, c)
    BY <1>7
  <1> DEFINE T == {c \in Int : wire[c] \in WireOutcomes}
  <1>10. ASSUME NEW c \in 0 .. n, \A i \in c + 1 .. n : i \in T
         PROVE  c \in T
    <2>1. CASE WholeChunk(body, c)
      <3>1. NextChunk(body, c) \in c + 1 .. n
        BY <2>1, <1>1, WholeChunkFacts
      <3> QED BY <3>1, <2>1, <1>9, <1>10
    <2>2. CASE ~WholeChunk(body, c)
      BY <2>2, <1>1, <1>9, VerdictTypes
    <2> QED BY <2>1, <2>2
  <1>11. \A c \in 0 .. n : c \in T
    <2> HIDE DEF T, n
    <2> QED BY <1>1, <1>10, DownwardInduction
  <1>12. wire \in [0 .. n -> WireOutcomes]
    BY <1>7, <1>11
  <1> QED BY <1>8, <1>9, <1>12 DEF Scanning

LEMMA PayloadType ==
  ASSUME NEW body \in Bytes, NEW c \in Nat, WholeChunk(body, c)
  PROVE  /\ Payload(body, c) \in Bytes
         /\ Len(Payload(body, c)) = SizeLine(body, c).size
  <1> DEFINE at == SizeLine(body, c).at
             size == SizeLine(body, c).size
  <1>1. /\ at \in Nat /\ size \in Nat /\ at + size = ChunkEnd(body, c)
        /\ ChunkEnd(body, c) + 2 <= Len(body) /\ Len(body) \in Nat
    BY WholeChunkFacts DEF Bytes
  <1> HIDE DEF at, size
  <1>2. /\ Slice(body, at, size) \in Bytes
        /\ Len(Slice(body, at, size)) =
             IF at + size <= Len(body) THEN size
             ELSE IF at <= Len(body) THEN Len(body) - at ELSE 0
    BY <1>1, SliceFacts
  <1>3. at + size <= Len(body)
    BY <1>1
  <1> QED BY <1>2, <1>3 DEF Payload, at, size

LEMMA PrependType ==
  ASSUME NEW payload \in Bytes, NEW rest \in Decodings
  PROVE  /\ Prepend(payload, rest) \in Decodings
         /\ rest.kind = "ok" => /\ Prepend(payload, rest).kind = "ok"
                                /\ rest.body \in Bytes
                                /\ Len(Prepend(payload, rest).body) = Len(payload) + Len(rest.body)
         /\ rest.kind # "ok" => Prepend(payload, rest) = rest
  <1>1. CASE rest \in Errors
    BY <1>1 DEF Prepend, Decodings, Errors
  <1>2. CASE rest \in [kind : {"ok"}, body : Bytes]
    <2>1. rest.kind = "ok" /\ rest.body \in Bytes /\ Prepend(payload, rest) = Ok(payload \o rest.body)
      BY <1>2 DEF Prepend
    <2>2. /\ payload \o rest.body \in Bytes
          /\ Len(payload \o rest.body) = Len(payload) + Len(rest.body)
      BY <2>1, ConcatProperties DEF Bytes
    <2> QED BY <2>1, <2>2 DEF Ok, Decodings
  <1> QED BY <1>1, <1>2 DEF Decodings

\* The recursive function under decode_chunked_body is Decoding.
LEMMA DecodeSteps ==
  ASSUME NEW body \in Bytes
  PROVE  \E decode : Decoding(decode, body) /\ decode_chunked_body(body) = decode[0]
  <1> DEFINE n == Len(body)
             Is(decode) == decode = [cursor \in 0 .. Len(body) |->
               LET Chunk(line, end) ==
                     IF end > UsizeMax THEN Err("overflow")
                     ELSE IF end > Len(body) THEN Err("short")
                     ELSE IF ~HasDelimiter(body, end) THEN Err("delimiter")
                     ELSE Prepend(Slice(body, line.at, line.size), decode[end + 2])
                   From(line) ==
                     IF line = Nothing THEN Err("line")
                     ELSE IF line.size = Nothing THEN Err("size")
                     ELSE IF line.size = 0 THEN Ok(<< >>)
                     ELSE Chunk(line, line.at + line.size)
               IN  From(SizeLine(body, cursor))]
             Goes(decode, c) == IF WholeChunk(body, c)
                                THEN Prepend(Payload(body, c), decode[NextChunk(body, c)])
                                ELSE DecodeVerdict(body, c)
             Steps(decode) == decode = [c \in 0 .. Len(body) |-> Goes(decode, c)]
  <1>1. n \in Nat
    BY DEF Bytes
  <1>2. ASSUME NEW decode PROVE Is(decode) <=> Steps(decode)
    <2>1. ASSUME NEW c \in 0 .. Len(body)
          PROVE  (LET Chunk(line, end) ==
                        IF end > UsizeMax THEN Err("overflow")
                        ELSE IF end > Len(body) THEN Err("short")
                        ELSE IF ~HasDelimiter(body, end) THEN Err("delimiter")
                        ELSE Prepend(Slice(body, line.at, line.size), decode[end + 2])
                      From(line) ==
                        IF line = Nothing THEN Err("line")
                        ELSE IF line.size = Nothing THEN Err("size")
                        ELSE IF line.size = 0 THEN Ok(<< >>)
                        ELSE Chunk(line, line.at + line.size)
                  IN  From(SizeLine(body, c)))
                 = Goes(decode, c)
      <3>0. c \in Nat
        OBVIOUS
      <3>1. CASE WholeChunk(body, c)
        <4>1. /\ NextChunk(body, c) = ChunkEnd(body, c) + 2 /\ ChunkEnd(body, c) <= UsizeMax
              /\ ChunkEnd(body, c) \in Nat /\ ChunkEnd(body, c) + 2 <= Len(body)
          BY <3>0, <3>1, WholeChunkFacts DEF WholeChunk
        <4>2. ~(ChunkEnd(body, c) > UsizeMax) /\ ~(ChunkEnd(body, c) > Len(body))
          BY <4>1, <1>1, WidthAssumption
        <4> QED BY <3>1, <4>1, <4>2 DEF WholeChunk, ChunkEnd, Payload
      <3>2. CASE ~WholeChunk(body, c)
        <4>1. CASE \/ SizeLine(body, c) = Nothing
                   \/ SizeLine(body, c).size = Nothing
                   \/ SizeLine(body, c).size = 0
          BY <3>2, <4>1 DEF DecodeVerdict
        <4>2. CASE /\ SizeLine(body, c) # Nothing
                   /\ SizeLine(body, c).size # Nothing
                   /\ SizeLine(body, c).size # 0
          <5>1. ChunkEnd(body, c) \in Nat
            BY <3>0, <4>2, SizeLineFacts DEF ChunkEnd
          <5>2. ChunkEnd(body, c) > UsizeMax \/ ~HasDelimiter(body, ChunkEnd(body, c))
            BY <3>2, <4>2, <5>1, WidthAssumption DEF WholeChunk
          <5> QED BY <3>2, <4>2, <5>2 DEF DecodeVerdict, ChunkEnd
        <4> QED BY <4>1, <4>2
      <3> QED BY <3>1, <3>2
    <2> HIDE DEF Goes
    <2> QED BY <2>1
  <1> DEFINE next == [c \in 0 .. n |-> NextChunk(body, c)]
             step == [x \in (0 .. n) \X Decodings |->
                        IF WholeChunk(body, x[1]) THEN Prepend(Payload(body, x[1]), x[2]) ELSE x[2]]
             verdict == [c \in 0 .. n |-> DecodeVerdict(body, c)]
  <1>3. next \in [0 .. n -> Int] /\ verdict \in [0 .. n -> Decodings]
    BY <1>1, NextChunkRange, VerdictTypes
  <1>4. step \in [(0 .. n) \X Decodings -> Decodings]
    <2>1. ASSUME NEW c \in 0 .. n, NEW rest \in Decodings, WholeChunk(body, c)
          PROVE  Prepend(Payload(body, c), rest) \in Decodings
      BY <1>1, <2>1, PayloadType, PrependType
    <2> QED BY <2>1
  <1>5. PICK f : Forward(f, n, Decodings, next, step, verdict)
    <2> HIDE DEF next, step, verdict, n
    <2> QED BY <1>1, <1>3, <1>4, ForwardExists
  <1>6. Steps(f)
    <2>1. f \in [0 .. n -> Decodings]
      BY <1>5 DEF Forward
    <2>2. ASSUME NEW c \in 0 .. n
          PROVE  f[c] = Goes(f, c)
      <3>1. next[c] = NextChunk(body, c) /\ verdict[c] = DecodeVerdict(body, c)
        OBVIOUS
      <3>2. WholeChunk(body, c) <=> next[c] \in c + 1 .. n
        BY <1>1, <3>1, NextChunkRange
      <3>3. f[c] = IF next[c] \in c + 1 .. n THEN step[<<c, f[next[c]]>>] ELSE verdict[c]
        BY <1>5 DEF Forward
      <3>4. next[c] \in c + 1 .. n => step[<<c, f[next[c]]>>] = Prepend(Payload(body, c), f[next[c]])
        <4> SUFFICES ASSUME next[c] \in c + 1 .. n
                     PROVE  step[<<c, f[next[c]]>>] = Prepend(Payload(body, c), f[next[c]])
          OBVIOUS
        <4>1. next[c] \in 0 .. n /\ WholeChunk(body, c)
          BY <1>1, <3>2
        <4> HIDE DEF next
        <4>2. f[next[c]] \in Decodings
          BY <2>1, <4>1
        <4> QED BY <4>1, <4>2
      <3> HIDE DEF next, step, verdict
      <3> QED BY <3>1, <3>2, <3>3, <3>4
    <2> HIDE DEF Goes
    <2> QED BY <2>1, <2>2
  <1> DEFINE decoded == CHOOSE decode : Is(decode)
  <1>7. Steps(decoded)
    <2> HIDE DEF Is, Steps
    <2> QED BY <1>2, <1>6
  <1>8. decode_chunked_body(body) = decoded[0]
    BY DEF decode_chunked_body
  <1> HIDE DEF decoded, Is
  <1>9. \A c \in 0 .. n : decoded[c] = Goes(decoded, c)
    <2> HIDE DEF Goes
    <2> QED BY <1>7
  <1> DEFINE T == {c \in Int : decoded[c] \in Decodings}
  <1>10. ASSUME NEW c \in 0 .. n, \A i \in c + 1 .. n : i \in T
         PROVE  c \in T
    <2>1. CASE WholeChunk(body, c)
      <3>1. NextChunk(body, c) \in c + 1 .. n
        BY <2>1, <1>1, WholeChunkFacts
      <3>2. decoded[NextChunk(body, c)] \in Decodings
        BY <3>1, <1>10
      <3> QED BY <3>2, <2>1, <1>1, <1>9, PayloadType, PrependType
    <2>2. CASE ~WholeChunk(body, c)
      BY <2>2, <1>1, <1>9, VerdictTypes
    <2> QED BY <2>1, <2>2
  <1>11. \A c \in 0 .. n : c \in T
    <2> HIDE DEF T, n
    <2> QED BY <1>1, <1>10, DownwardInduction
  <1>12. decoded \in [0 .. n -> Decodings]
    BY <1>7, <1>11
  <1> QED BY <1>8, <1>9, <1>12 DEF Decoding
-----------------------------------------------------------------------------
(***************************************************************************)
(* What a scanner says of a prefix and of the whole.                       *)
(***************************************************************************)
\* A verdict other than "not yet" is final.
LEMMA VerdictIsFinal ==
  ASSUME NEW body \in Bytes, NEW k \in 0 .. Len(body), NEW c \in Nat,
         ~WholeChunk(Prefix(body, k), c), WireVerdict(Prefix(body, k), c) # None
  PROVE  /\ ~WholeChunk(body, c)
         /\ WireVerdict(body, c) = WireVerdict(Prefix(body, k), c)
  <1> DEFINE q == Prefix(body, k)
  <1>1. q \in Bytes /\ Len(q) = k /\ Len(body) \in Nat
    BY PrefixFacts, LengthIsNat
  <1>2. SizeLine(q, c) # Nothing
    BY DEF WireVerdict
  <1>3. SizeLine(body, c) = SizeLine(q, c)
    BY <1>2, SizeLineInPrefix
  <1>4. ChunkEnd(body, c) = ChunkEnd(q, c)
    BY <1>3 DEF ChunkEnd
  <1>5. SizeLine(q, c).size \in {Nothing} \cup Nat /\ SizeLine(q, c).at \in Nat
    <2> HIDE DEF q
    <2> QED BY <1>1, <1>2, SizeLineFacts
  <1>6. WireVerdict(q, c) # None /\ ~WholeChunk(q, c)
    OBVIOUS
  <1>7. CASE SizeLine(q, c).size = Nothing
    <2> HIDE DEF q
    <2> QED BY <1>2, <1>3, <1>7 DEF WireVerdict, WholeChunk, q
  <1>8. CASE SizeLine(q, c).size = 0
    <2> DEFINE at == SizeLine(q, c).at
    <2>0. 0 # Nothing
      BY NothingAssumption
    <2>1. Slice(q, at, 2) = CRLF
      <3> HIDE DEF q
      <3> QED BY <1>2, <1>6, <1>8, <2>0 DEF WireVerdict, LastChunk
    <2>2. at \in Nat /\ at + 2 <= k
      <3> HIDE DEF q
      <3> QED BY <1>1, <1>5, <2>1, DelimiterIsThere
    <2>3. Slice(body, at, 2) = CRLF
      BY <2>1, <2>2, SameSlice
    <2> HIDE DEF q
    <2> QED BY <1>2, <1>3, <1>8, <2>0, <2>1, <2>3 DEF WireVerdict, LastChunk, WholeChunk, q
  <1>9. CASE SizeLine(q, c).size \notin {Nothing, 0}
    <2> DEFINE e == ChunkEnd(q, c)
    <2>1. e \in Nat
      <3> HIDE DEF q
      <3> QED BY <1>5, <1>9 DEF ChunkEnd
    <2>2. CASE e > UsizeMax
      <3>1. ~(e <= UsizeMax)
        BY <2>1, <2>2, WidthAssumption
      <3> HIDE DEF q
      <3> QED BY <1>2, <1>3, <1>4, <1>9, <2>2, <3>1 DEF WireVerdict, WholeChunk, q
    <2>3. CASE ~(e > UsizeMax)
      <3>0. e <= UsizeMax
        BY <2>1, <2>3, WidthAssumption
      <3> HIDE DEF q
      <3>1. DelimiterArrived(q, e)
        BY <1>2, <1>6, <1>9, <2>3 DEF WireVerdict
      <3>2. ~HasDelimiter(q, e)
        BY <1>2, <1>6, <1>9, <2>1, <3>0 DEF WholeChunk
      <3>3. e + 2 <= k
        BY <1>1, <3>1 DEF DelimiterArrived
      <3> HIDE DEF e
      <3>4. Slice(q, e, 2) = Slice(body, e, 2)
        BY <2>1, <3>3, SameSlice DEF q
      <3>5. ~HasDelimiter(body, e) /\ DelimiterArrived(body, e)
        BY <1>1, <2>1, <3>2, <3>3, <3>4 DEF HasDelimiter, DelimiterArrived
      <3> QED BY <1>2, <1>3, <1>4, <1>9, <2>3, <3>1, <3>5 DEF WireVerdict, WholeChunk, e, q
    <2> QED BY <2>2, <2>3
  <1> QED BY <1>7, <1>8, <1>9

\* What chunked_wire_len decides about a prefix it decides about the whole
\* (src/http.rs:202-244).
LEMMA WireStable ==
  ASSUME NEW body \in Bytes, NEW k \in 0 .. Len(body),
         chunked_wire_len(Prefix(body, k)) # None
  PROVE  chunked_wire_len(body) = chunked_wire_len(Prefix(body, k))
  <1> DEFINE q == Prefix(body, k)
  <1>1. q \in Bytes /\ Len(q) = k /\ Len(body) \in Nat
    BY PrefixFacts, LengthIsNat
  <1>2. PICK part : Scanning(part, q) /\ chunked_wire_len(q) = part[0]
    <2> HIDE DEF q
    <2> QED BY <1>1, WireSteps
  <1>3. PICK scan : Scanning(scan, body) /\ chunked_wire_len(body) = scan[0]
    BY WireSteps
  <1> DEFINE T == {c \in Int : part[c] # None => scan[c] = part[c]}
  <1>4. ASSUME NEW c \in 0 .. k, \A i \in c + 1 .. k : i \in T
        PROVE  c \in T
    <2> SUFFICES ASSUME part[c] # None PROVE scan[c] = part[c]
      OBVIOUS
    <2>1. c \in Nat /\ c \in 0 .. Len(body)
      BY <1>1
    <2>2. /\ part[c] = IF WholeChunk(q, c) THEN part[NextChunk(q, c)] ELSE WireVerdict(q, c)
          /\ scan[c] = IF WholeChunk(body, c) THEN scan[NextChunk(body, c)]
                       ELSE WireVerdict(body, c)
      BY <1>1, <1>2, <1>3, <2>1 DEF Scanning
    <2>3. CASE WholeChunk(q, c)
      <3>1. WholeChunk(body, c) /\ SizeLine(body, c) = SizeLine(q, c)
        BY <2>1, <2>3, WholeChunkInPrefix
      <3>2. NextChunk(body, c) = NextChunk(q, c)
        BY <2>3, <3>1 DEF NextChunk, ChunkEnd
      <3>3. NextChunk(q, c) \in c + 1 .. k
        <4> HIDE DEF q
        <4> QED BY <1>1, <2>1, <2>3, WholeChunkFacts
      <3>4. NextChunk(q, c) \in T
        BY <3>3, <1>4
      <3> QED BY <2>2, <2>3, <3>1, <3>2, <3>4
    <2>4. CASE ~WholeChunk(q, c)
      <3>1. WireVerdict(q, c) # None
        BY <2>2, <2>4
      <3>2. ~WholeChunk(body, c) /\ WireVerdict(body, c) = WireVerdict(q, c)
        BY <2>1, <2>4, <3>1, VerdictIsFinal
      <3> QED BY <2>2, <2>4, <3>2
    <2> QED BY <2>3, <2>4
  <1>5. \A c \in 0 .. k : c \in T
    <2> HIDE DEF T
    <2>1. k \in Nat
      BY <1>1
    <2> QED BY <2>1, <1>4, DownwardInduction
  <1>6. 0 \in T
    BY <1>1, <1>5
  <1> QED BY <1>2, <1>3, <1>6

\* A cursor from which the scan ends at k is before it, and if no whole chunk is
\* there, the last one is.
LEMMA ScanEnds ==
  ASSUME NEW body \in Bytes, NEW scan, Scanning(scan, body), NEW k,
         NEW c0 \in 0 .. Len(body), scan[c0] = Some(k)
  PROVE  /\ k \in Nat /\ c0 < k /\ k <= Len(body)
         /\ ~WholeChunk(body, c0) =>
              /\ SizeLine(body, c0) # Nothing /\ SizeLine(body, c0).size = 0
              /\ SizeLine(body, c0).at \in Nat /\ SizeLine(body, c0).at > c0
              /\ k = SizeLine(body, c0).at + 2
  <1>1. Len(body) \in Nat
    BY DEF Bytes
  <1>2. ASSUME NEW c \in 0 .. Len(body)
        PROVE  scan[c] = IF WholeChunk(body, c) THEN scan[NextChunk(body, c)]
                         ELSE WireVerdict(body, c)
    BY DEF Scanning
  <1>3. \A n : Some(n) = Some(k) => n = k
    BY DEF Some
  <1>4. \A why : Err(why) # Some(k) /\ None # Some(k)
    BY DEF Some, Err, None
  \* The end of the body, from any cursor from which it is found.
  <1>5. ASSUME NEW c \in 0 .. Len(body), ~WholeChunk(body, c), scan[c] = Some(k)
        PROVE  /\ SizeLine(body, c) # Nothing /\ SizeLine(body, c).size = 0
               /\ SizeLine(body, c).at \in Nat /\ SizeLine(body, c).at > c
               /\ k = SizeLine(body, c).at + 2 /\ k <= Len(body)
    <2>1. WireVerdict(body, c) = Some(k)
      BY <1>2, <1>5
    <2>2. /\ SizeLine(body, c) # Nothing /\ SizeLine(body, c).size = 0
          /\ LastChunk(body, SizeLine(body, c).at) = Some(k)
      BY <2>1, <1>4 DEF WireVerdict
    <2>3. /\ Slice(body, SizeLine(body, c).at, 2) = CRLF
          /\ Some(SizeLine(body, c).at + 2) = Some(k)
      BY <2>2, <1>4 DEF LastChunk
    <2>4. SizeLine(body, c).at \in Nat /\ SizeLine(body, c).at > c
      BY <2>2, <1>1, SizeLineFacts
    <2>5. SizeLine(body, c).at + 2 <= Len(body)
      BY <2>3, <2>4, DelimiterIsThere
    <2> QED BY <2>2, <2>3, <2>4, <2>5, <1>3
  <1> DEFINE T == {c \in Int : scan[c] = Some(k) => k \in Nat /\ c < k /\ k <= Len(body)}
  <1>6. ASSUME NEW c \in 0 .. Len(body), \A i \in c + 1 .. Len(body) : i \in T
        PROVE  c \in T
    <2> SUFFICES ASSUME scan[c] = Some(k) PROVE k \in Nat /\ c < k /\ k <= Len(body)
      OBVIOUS
    <2>1. CASE WholeChunk(body, c)
      <3>1. NextChunk(body, c) \in c + 1 .. Len(body)
        BY <2>1, <1>1, WholeChunkFacts
      <3>2. scan[NextChunk(body, c)] = Some(k)
        BY <2>1, <1>2
      <3> QED BY <3>1, <3>2, <1>1, <1>6
    <2>2. CASE ~WholeChunk(body, c)
      BY <2>2, <1>5, <1>1
    <2> QED BY <2>1, <2>2
  <1>7. \A c \in 0 .. Len(body) : c \in T
    <2> HIDE DEF T
    <2> QED BY <1>1, <1>6, DownwardInduction
  <1>8. c0 \in T
    BY <1>7
  <1> QED BY <1>5, <1>8

\* Where chunked_wire_len finds the end of a body, it lies within the bytes
\* and decode_chunked_body accepts what is before it (src/http.rs:202-285).
LEMMA WireEndDecodes ==
  ASSUME NEW body \in Bytes, NEW k, chunked_wire_len(body) = Some(k)
  PROVE  /\ k \in 0 .. Len(body)
         /\ decode_chunked_body(Prefix(body, k)).kind = "ok"
  <1>1. PICK scan : Scanning(scan, body) /\ chunked_wire_len(body) = scan[0]
    BY WireSteps
  <1>2. Len(body) \in Nat
    BY LengthIsNat
  <1>3. ASSUME NEW c \in 0 .. Len(body)
        PROVE  scan[c] = IF WholeChunk(body, c) THEN scan[NextChunk(body, c)]
                         ELSE WireVerdict(body, c)
    BY <1>1 DEF Scanning
  <1>4. ASSUME NEW c \in 0 .. Len(body), scan[c] = Some(k)
        PROVE  /\ k \in Nat /\ c < k /\ k <= Len(body)
               /\ ~WholeChunk(body, c) =>
                    /\ SizeLine(body, c) # Nothing /\ SizeLine(body, c).size = 0
                    /\ SizeLine(body, c).at \in Nat /\ SizeLine(body, c).at > c
                    /\ k = SizeLine(body, c).at + 2
    BY <1>1, <1>4, ScanEnds
  <1>5. k \in Nat /\ k <= Len(body) /\ k \in 0 .. Len(body)
    <2>1. 0 \in 0 .. Len(body) /\ scan[0] = Some(k)
      BY <1>1, <1>2
    <2>2. k \in Nat /\ k <= Len(body)
      BY <2>1, <1>4
    <2> QED BY <2>2, <1>2
  <1> DEFINE q == Prefix(body, k)
  <1>6. q \in Bytes /\ Len(q) = k
    BY <1>5, PrefixFacts
  <1>7. PICK decode : Decoding(decode, q) /\ decode_chunked_body(q) = decode[0]
    <2> HIDE DEF q
    <2> QED BY <1>6, DecodeSteps
  <1> DEFINE U == {c \in Int : scan[c] = Some(k) => decode[c].kind = "ok"}
  <1>8. ASSUME NEW c \in 0 .. k, \A i \in c + 1 .. k : i \in U
         PROVE  c \in U
    <2> SUFFICES ASSUME scan[c] = Some(k) PROVE decode[c].kind = "ok"
      OBVIOUS
    <2>1. c \in 0 .. Len(body) /\ c \in Nat
      BY <1>2, <1>5
    <2>2. decode[c] = IF WholeChunk(q, c) THEN Prepend(Payload(q, c), decode[NextChunk(q, c)])
                      ELSE DecodeVerdict(q, c)
      BY <1>6, <1>7 DEF Decoding
    <2>3. CASE WholeChunk(body, c)
      <3>1. NextChunk(body, c) \in c + 1 .. Len(body)
        BY <2>1, <2>3, WholeChunkFacts
      <3>2. scan[NextChunk(body, c)] = Some(k)
        BY <2>1, <2>3, <1>3
      <3>3. NextChunk(body, c) \in 0 .. Len(body)
        BY <3>1, <2>1
      <3>4. NextChunk(body, c) <= k
        BY <3>2, <3>3, <1>4, <1>5
      <3>5. WholeChunk(q, c) /\ SizeLine(q, c) = SizeLine(body, c)
        BY <2>1, <2>3, <3>4, <1>5, WholeChunkInPrefix
      <3>6. NextChunk(q, c) = NextChunk(body, c)
        BY <2>3, <3>5 DEF NextChunk, ChunkEnd
      <3>7. NextChunk(body, c) \in c + 1 .. k
        BY <3>1, <3>4, <1>5
      <3>8. decode[NextChunk(body, c)].kind = "ok"
        BY <3>2, <3>7, <1>8
      <3>9. Prepend(Payload(q, c), decode[NextChunk(body, c)]).kind = "ok"
        BY <3>8 DEF Prepend, Ok
      <3> QED BY <2>2, <3>5, <3>6, <3>9
    <2>4. CASE ~WholeChunk(body, c)
      <3>1. /\ SizeLine(body, c) # Nothing /\ SizeLine(body, c).size = 0
            /\ SizeLine(body, c).at <= k
        BY <2>1, <2>4, <1>4, <1>5
      <3>2. SizeLine(q, c) = SizeLine(body, c)
        BY <2>1, <3>1, <1>5, SizeLineInPrefix
      <3>3. ~WholeChunk(q, c)
        BY <3>1, <3>2 DEF WholeChunk
      <3>4. 0 # Nothing
        BY NothingAssumption
      <3>5. DecodeVerdict(q, c) = Ok(<< >>)
        BY <3>1, <3>2, <3>4 DEF DecodeVerdict
      <3> QED BY <2>2, <3>3, <3>5 DEF Ok
    <2> QED BY <2>3, <2>4
  <1>9. \A c \in 0 .. k : c \in U
    <2> HIDE DEF U
    <2> QED BY <1>5, <1>8, DownwardInduction
  <1>10. 0 \in U
    BY <1>5, <1>9
  <1> QED BY <1>1, <1>5, <1>7, <1>10

\* The end is found as soon as it has arrived.
LEMMA WireEndInPrefix ==
  ASSUME NEW body \in Bytes, NEW e, chunked_wire_len(body) = Some(e),
         NEW k \in 0 .. Len(body), e <= k
  PROVE  chunked_wire_len(Prefix(body, k)) = Some(e)
  <1> DEFINE q == Prefix(body, k)
  <1>1. q \in Bytes /\ Len(q) = k /\ Len(body) \in Nat
    BY PrefixFacts, LengthIsNat
  <1>2. PICK part : Scanning(part, q) /\ chunked_wire_len(q) = part[0]
    <2> HIDE DEF q
    <2> QED BY <1>1, WireSteps
  <1>3. PICK scan : Scanning(scan, body) /\ chunked_wire_len(body) = scan[0]
    BY WireSteps
  <1> DEFINE T == {c \in Int : scan[c] = Some(e) => part[c] = Some(e)}
  <1>4. ASSUME NEW c \in 0 .. k, \A i \in c + 1 .. k : i \in T
        PROVE  c \in T
    <2> SUFFICES ASSUME scan[c] = Some(e) PROVE part[c] = Some(e)
      OBVIOUS
    <2>1. c \in Nat /\ c \in 0 .. Len(body)
      BY <1>1
    <2>2. /\ part[c] = IF WholeChunk(q, c) THEN part[NextChunk(q, c)] ELSE WireVerdict(q, c)
          /\ scan[c] = IF WholeChunk(body, c) THEN scan[NextChunk(body, c)]
                       ELSE WireVerdict(body, c)
      BY <1>1, <1>2, <1>3, <2>1 DEF Scanning
    <2>3. /\ e \in Nat /\ e <= Len(body)
          /\ ~WholeChunk(body, c) =>
               /\ SizeLine(body, c) # Nothing /\ SizeLine(body, c).size = 0
               /\ SizeLine(body, c).at \in Nat /\ e = SizeLine(body, c).at + 2
      BY <1>3, <2>1, ScanEnds
    <2>4. CASE WholeChunk(body, c)
      <3>1. NextChunk(body, c) \in c + 1 .. Len(body)
        BY <2>1, <2>4, WholeChunkFacts
      <3>2. scan[NextChunk(body, c)] = Some(e)
        BY <2>2, <2>4
      <3>3. NextChunk(body, c) \in 0 .. Len(body)
        BY <2>1, <3>1
      <3>4. NextChunk(body, c) < e
        BY <1>3, <3>2, <3>3, ScanEnds
      <3>5. NextChunk(body, c) <= k /\ NextChunk(body, c) \in c + 1 .. k
        BY <1>1, <2>1, <2>3, <3>1, <3>4
      <3>6. WholeChunk(q, c) /\ SizeLine(q, c) = SizeLine(body, c)
        BY <2>1, <2>4, <3>5, WholeChunkInPrefix
      <3>7. NextChunk(q, c) = NextChunk(body, c)
        BY <2>4, <3>6 DEF NextChunk, ChunkEnd
      <3>8. part[NextChunk(body, c)] = Some(e)
        BY <3>2, <3>5, <1>4
      <3> QED BY <2>2, <3>6, <3>7, <3>8
    <2>5. CASE ~WholeChunk(body, c)
      <3> DEFINE at == SizeLine(body, c).at
      <3>1. at \in Nat /\ at + 2 <= k /\ at <= k
        BY <1>1, <2>3, <2>5
      <3>2. SizeLine(q, c) = SizeLine(body, c)
        BY <2>1, <2>3, <2>5, <3>1, SizeLineInPrefix
      <3>3. ~WholeChunk(q, c)
        BY <2>3, <2>5, <3>2 DEF WholeChunk
      <3>4. 0 # Nothing
        BY NothingAssumption
      <3>5. LastChunk(body, at) = Some(e)
        BY <2>2, <2>3, <2>5, <3>4 DEF WireVerdict
      <3>6. Slice(q, at, 2) = Slice(body, at, 2)
        <4> HIDE DEF at
        <4> QED BY <3>1, SameSlice
      <3>7. LastChunk(q, at) = Some(e)
        BY <3>5, <3>6 DEF LastChunk
      <3>8. WireVerdict(q, c) = Some(e)
        BY <2>3, <2>5, <3>2, <3>4, <3>7 DEF WireVerdict
      <3> QED BY <2>2, <3>3, <3>8
    <2> QED BY <2>4, <2>5
  <1>5. \A c \in 0 .. k : c \in T
    <2> HIDE DEF T
    <2>1. k \in Nat
      BY <1>1
    <2> QED BY <2>1, <1>4, DownwardInduction
  <1>6. 0 \in T
    BY <1>1, <1>5
  <1> QED BY <1>2, <1>3, <1>6

\* What a prefix decodes to, the whole decodes to.
LEMMA DecodeStable ==
  ASSUME NEW body \in Bytes, NEW k \in 0 .. Len(body),
         decode_chunked_body(Prefix(body, k)).kind = "ok"
  PROVE  decode_chunked_body(body) = decode_chunked_body(Prefix(body, k))
  <1> DEFINE q == Prefix(body, k)
  <1>1. q \in Bytes /\ Len(q) = k /\ Len(body) \in Nat
    BY PrefixFacts, LengthIsNat
  <1>2. PICK part : Decoding(part, q) /\ decode_chunked_body(q) = part[0]
    <2> HIDE DEF q
    <2> QED BY <1>1, DecodeSteps
  <1>3. PICK decode : Decoding(decode, body) /\ decode_chunked_body(body) = decode[0]
    BY DecodeSteps
  <1> DEFINE T == {c \in Int : part[c].kind = "ok" => decode[c] = part[c]}
  <1>4. ASSUME NEW c \in 0 .. k, \A i \in c + 1 .. k : i \in T
        PROVE  c \in T
    <2> SUFFICES ASSUME part[c].kind = "ok" PROVE decode[c] = part[c]
      OBVIOUS
    <2>1. c \in Nat /\ c \in 0 .. Len(body)
      BY <1>1
    <2>2. /\ part[c] = IF WholeChunk(q, c) THEN Prepend(Payload(q, c), part[NextChunk(q, c)])
                       ELSE DecodeVerdict(q, c)
          /\ decode[c] = IF WholeChunk(body, c)
                         THEN Prepend(Payload(body, c), decode[NextChunk(body, c)])
                         ELSE DecodeVerdict(body, c)
      BY <1>1, <1>2, <1>3, <2>1 DEF Decoding
    <2>3. CASE WholeChunk(q, c)
      <3> DEFINE n == NextChunk(q, c)
                 at == SizeLine(q, c).at
                 size == SizeLine(q, c).size
      <3>1. WholeChunk(body, c) /\ SizeLine(body, c) = SizeLine(q, c)
        BY <2>1, <2>3, WholeChunkInPrefix
      <3>2. NextChunk(body, c) = n
        BY <2>3, <3>1 DEF NextChunk, ChunkEnd
      <3>3. n \in c + 1 .. k /\ at \in Nat /\ size \in Nat /\ n = at + size + 2
        <4> HIDE DEF q
        <4> QED BY <1>1, <2>1, <2>3, WholeChunkFacts
      <3>4. Payload(q, c) = Payload(body, c)
        <4>1. at + size <= k
          BY <1>1, <2>1, <3>3
        <4> HIDE DEF at, size
        <4>2. Slice(q, at, size) = Slice(body, at, size)
          BY <3>3, <4>1, SameSlice
        <4> QED BY <4>2, <3>1 DEF Payload, at, size
      <3>5. part[n].kind = "ok"
        <4>1. CASE part[n].kind = "err"
          BY <2>2, <2>3, <4>1 DEF Prepend
        <4>2. CASE part[n].kind # "err"
          <5>1. part[n] \in Decodings
            BY <1>1, <1>2, <2>1, <3>3 DEF Decoding
          <5> QED BY <5>1, <4>2 DEF Decodings, Errors
        <4> QED BY <4>1, <4>2
      <3>6. decode[n] = part[n]
        <4> HIDE DEF n
        <4> QED BY <3>3, <3>5, <1>4
      <3> QED BY <2>2, <2>3, <3>1, <3>2, <3>4, <3>6
    <2>4. CASE ~WholeChunk(q, c)
      <3>1. \A why : Err(why).kind # "ok"
        BY DEF Err
      <3>2. /\ SizeLine(q, c) # Nothing /\ SizeLine(q, c).size = 0
            /\ part[c] = Ok(<< >>)
        BY <2>2, <2>4, <3>1 DEF DecodeVerdict
      <3>3. SizeLine(body, c) = SizeLine(q, c)
        BY <2>1, <3>2, SizeLineInPrefix
      <3>4. ~WholeChunk(body, c) /\ 0 # Nothing
        BY <3>2, <3>3, NothingAssumption DEF WholeChunk
      <3>5. DecodeVerdict(body, c) = Ok(<< >>)
        BY <3>2, <3>3, <3>4 DEF DecodeVerdict
      <3> QED BY <2>2, <3>2, <3>4, <3>5
    <2> QED BY <2>3, <2>4
  <1>5. \A c \in 0 .. k : c \in T
    <2> HIDE DEF T
    <2>1. k \in Nat
      BY <1>1
    <2> QED BY <2>1, <1>4, DownwardInduction
  <1>6. 0 \in T
    BY <1>1, <1>5
  <1> QED BY <1>2, <1>3, <1>6

\* A decoded body is no longer than its encoding.
LEMMA DecodedLength ==
  ASSUME NEW body \in Bytes
  PROVE  /\ decode_chunked_body(body) \in Decodings
         /\ decode_chunked_body(body).kind = "ok" =>
              /\ decode_chunked_body(body).body \in Bytes
              /\ Len(decode_chunked_body(body).body) <= Len(body)
  <1>1. PICK decode : Decoding(decode, body) /\ decode_chunked_body(body) = decode[0]
    BY DecodeSteps
  <1>2. Len(body) \in Nat /\ 0 \in 0 .. Len(body)
    BY DEF Bytes
  <1>3. \A c \in 0 .. Len(body) : decode[c] \in Decodings
    BY <1>1 DEF Decoding
  <1>4. ASSUME NEW d \in Decodings, d.kind = "ok" PROVE d.body \in Bytes /\ Len(d.body) \in Nat
    <2>1. d \in [kind : {"ok"}, body : Bytes]
      BY <1>4 DEF Decodings, Errors
    <2> QED BY <2>1 DEF Bytes
  <1> DEFINE T == {c \in Int : decode[c].kind = "ok" => Len(decode[c].body) <= Len(body) - c}
  <1>5. ASSUME NEW c \in 0 .. Len(body), \A i \in c + 1 .. Len(body) : i \in T
        PROVE  c \in T
    <2> SUFFICES ASSUME decode[c].kind = "ok" PROVE Len(decode[c].body) <= Len(body) - c
      OBVIOUS
    <2>0. c \in Nat
      OBVIOUS
    <2>1. decode[c] = IF WholeChunk(body, c)
                      THEN Prepend(Payload(body, c), decode[NextChunk(body, c)])
                      ELSE DecodeVerdict(body, c)
      BY <1>1 DEF Decoding
    <2>2. CASE WholeChunk(body, c)
      <3> DEFINE rest == decode[NextChunk(body, c)]
                 size == SizeLine(body, c).size
                 at == SizeLine(body, c).at
      <3>1. /\ NextChunk(body, c) \in c + 1 .. Len(body)
            /\ NextChunk(body, c) = at + size + 2 /\ at \in Nat /\ at > c + 1 /\ size \in Nat
        BY <2>0, <2>2, WholeChunkFacts
      <3>2. NextChunk(body, c) \in 0 .. Len(body)
        BY <3>1, <2>0
      <3>3. rest \in Decodings
        BY <3>2, <1>3
      <3>4. decode[c] = Prepend(Payload(body, c), rest)
        BY <2>1, <2>2
      <3>5. Payload(body, c) \in Bytes /\ Len(Payload(body, c)) = size
        BY <2>0, <2>2, PayloadType
      <3> HIDE DEF size, at
      <3>6. rest.kind = "ok" => Len(rest.body) <= Len(body) - NextChunk(body, c)
        BY <3>1, <1>5
      <3> HIDE DEF rest
      <3>7. rest.kind = "ok" /\ Len(decode[c].body) = size + Len(rest.body)
        BY <3>3, <3>4, <3>5, PrependType
      <3>8. Len(rest.body) \in Nat
        BY <3>3, <3>7, <1>4
      <3> QED BY <3>1, <3>6, <3>7, <3>8, <1>2
    <2>3. CASE ~WholeChunk(body, c)
      <3>1. DecodeVerdict(body, c).kind = "ok"
        BY <2>1, <2>3
      <3>2. \A why : Err(why).kind # "ok"
        BY DEF Err
      <3>3. DecodeVerdict(body, c) = Ok(<< >>)
        BY <3>1, <3>2 DEF DecodeVerdict
      <3>4. Len(decode[c].body) = 0
        BY <2>1, <2>3, <3>3 DEF Ok
      <3> QED BY <3>4, <1>2
    <2> QED BY <2>2, <2>3
  <1>6. \A c \in 0 .. Len(body) : c \in T
    <2> HIDE DEF T
    <2> QED BY <1>2, <1>5, DownwardInduction
  <1>7. decode[0].kind = "ok" => Len(decode[0].body) <= Len(body) - 0
    BY <1>2, <1>6
  <1> QED BY <1>1, <1>2, <1>3, <1>4, <1>7
-----------------------------------------------------------------------------
(***************************************************************************)
(* What a server puts together in chunks, the reader takes apart.          *)
(***************************************************************************)
\* s is in bytes after the first `at'.
Has(bytes, at, s) ==
  /\ at + Len(s) <= Len(bytes)
  /\ \A i \in 1 .. Len(s) : bytes[at + i] = s[i]

LEMMA HasIsSlice ==
  ASSUME NEW bytes \in Bytes, NEW at \in Nat, NEW s \in Bytes
  PROVE  /\ Has(bytes, at, s) => Slice(bytes, at, Len(s)) = s
         /\ Slice(bytes, at, Len(s)) = s /\ Len(s) > 0 => Has(bytes, at, s)
  <1> DEFINE n == Len(s)
             t == Slice(bytes, at, n)
  <1>1. n \in Nat /\ Len(bytes) \in Nat
    BY LengthIsNat
  <1>2. /\ t \in Bytes
        /\ Len(t) = IF at + n <= Len(bytes) THEN n
                    ELSE IF at <= Len(bytes) THEN Len(bytes) - at ELSE 0
        /\ \A i \in 1 .. Len(t) : t[i] = bytes[at + i]
    <2> HIDE DEF n
    <2> QED BY <1>1, SliceFacts
  <1> HIDE DEF t
  <1>3. ASSUME Has(bytes, at, s) PROVE t = s
    <2>1. Len(t) = n
      BY <1>1, <1>2, <1>3 DEF Has
    <2>2. \A i \in 1 .. n : t[i] = s[i]
      BY <1>2, <1>3, <2>1 DEF Has
    <2> QED BY <1>2, <2>1, <2>2, SeqEqual DEF Bytes
  <1>4. ASSUME t = s, n > 0 PROVE Has(bytes, at, s)
    <2>1. at + n <= Len(bytes)
      BY <1>1, <1>2, <1>4
    <2> QED BY <1>2, <1>4, <2>1 DEF Has
  <1> QED BY <1>3, <1>4 DEF t

LEMMA AtIsHas ==
  ASSUME NEW bytes \in Bytes, NEW i \in Nat, NEW pattern \in Bytes, Len(pattern) > 0
  PROVE  At(bytes, pattern, i) <=> Has(bytes, i, pattern)
  <1>1. At(bytes, pattern, i) <=> Slice(bytes, i, Len(pattern)) = pattern
    BY DEF At
  <1> QED BY <1>1, HasIsSlice

LEMMA HasBoth ==
  ASSUME NEW bytes \in Bytes, NEW at \in Nat, NEW s \in Bytes, NEW t \in Bytes,
         Has(bytes, at, s \o t)
  PROVE  Has(bytes, at, s) /\ Has(bytes, at + Len(s), t)
  <1>1. Len(s) \in Nat /\ Len(t) \in Nat /\ Len(bytes) \in Nat
    BY LengthIsNat
  <1>2. /\ Len(s \o t) = Len(s) + Len(t)
        /\ \A i \in 1 .. Len(s) + Len(t) :
             (s \o t)[i] = IF i <= Len(s) THEN s[i] ELSE t[i - Len(s)]
    BY ConcatProperties DEF Bytes
  <1>3. /\ at + (Len(s) + Len(t)) <= Len(bytes)
        /\ \A i \in 1 .. Len(s) + Len(t) : bytes[at + i] = (s \o t)[i]
    BY <1>2 DEF Has
  <1>4. ASSUME NEW i \in 1 .. Len(s) PROVE bytes[at + i] = s[i]
    <2>1. i \in 1 .. Len(s) + Len(t)
      BY <1>1
    <2> QED BY <2>1, <1>2, <1>3
  <1>5. ASSUME NEW i \in 1 .. Len(t) PROVE bytes[at + Len(s) + i] = t[i]
    <2> DEFINE j == Len(s) + i
    <2>1. j \in 1 .. Len(s) + Len(t) /\ ~(j <= Len(s)) /\ j - Len(s) = i
          /\ at + j = at + Len(s) + i
      BY <1>1
    <2> HIDE DEF j
    <2> QED BY <2>1, <1>2, <1>3
  <1>6. at + Len(s) <= Len(bytes) /\ at + Len(s) + Len(t) <= Len(bytes)
    BY <1>1, <1>3
  <1> QED BY <1>4, <1>5, <1>6 DEF Has

LEMMA JoinedBytes ==
  ASSUME NEW s \in Bytes, NEW t \in Bytes
  PROVE  s \o t \in Bytes /\ Len(s \o t) = Len(s) + Len(t)
  BY ConcatProperties DEF Bytes

LEMMA JoiningAssociates ==
  ASSUME NEW s \in Bytes, NEW t \in Bytes, NEW u \in Bytes
  PROVE  (s \o t) \o u = s \o (t \o u)
  BY ConcatAssociative DEF Bytes

\* The parts of a chunk are bytes.
LEMMA ChunkTypes ==
  ASSUME NEW chunk, IsChunk(chunk)
  PROVE  /\ chunk.digits \in Bytes /\ Len(chunk.digits) > 0
         /\ \A i \in 1 .. Len(chunk.digits) : chunk.digits[i] \in DOMAIN Digits
         /\ chunk.extension \in Bytes
         /\ \A i \in 1 .. Len(chunk.extension) : chunk.extension[i] # "CR"
         /\ chunk.payload \in Bytes
         /\ chunk.digits \o chunk.extension \in Bytes
         /\ Line(chunk) \in Bytes
         /\ Line(chunk) = (chunk.digits \o chunk.extension) \o CRLF
         /\ Len(Line(chunk)) = Len(chunk.digits \o chunk.extension) + 2
         /\ Encoding(chunk) = Line(chunk) \o (chunk.payload \o CRLF)
         /\ chunk.payload \o CRLF \in Bytes
         /\ Encoding(chunk) \in Bytes
         /\ Len(Encoding(chunk)) = Len(Line(chunk)) + Len(chunk.payload) + 2
  <1> DEFINE d == chunk.digits
             x == chunk.extension
             p == chunk.payload
  <1>1. DOMAIN Digits \subseteq Byte \cup {"head"}
    BY DEF Digits, Byte
  <1>2. d \in Bytes /\ d \in Seq(DOMAIN Digits) /\ d # << >>
    <2>1. d \in Seq(DOMAIN Digits) /\ d # << >>
      BY DEF IsChunk
    <2> HIDE DEF d
    <2> QED BY <1>1, <2>1, SeqMonotonic DEF Bytes
  <1>3. x \in Bytes /\ x \in Seq(Byte \ {"CR"})
    <2>1. x \in Seq(Byte \ {"CR"})
      BY DEF IsChunk
    <2>2. Byte \ {"CR"} \subseteq Byte \cup {"head"}
      OBVIOUS
    <2> HIDE DEF x
    <2> QED BY <2>1, <2>2, SeqMonotonic DEF Bytes
  <1>4. p \in Bytes
    <2>1. p \in Seq(Byte)
      BY DEF IsChunk
    <2> HIDE DEF p
    <2> QED BY <2>1, SeqMonotonic DEF Bytes
  <1>5. CRLF \in Bytes /\ Len(CRLF) = 2
    BY Delimiters
  <1>6. Line(chunk) = d \o x \o CRLF /\ Encoding(chunk) = Line(chunk) \o p \o CRLF
    BY DEF Line, Encoding
  <1> DEFINE l == Line(chunk)
  <1> HIDE DEF d, x, p
  <1>7. Len(d) > 0
    BY <1>2, EmptySeq DEF Bytes
  <1>8. /\ \A i \in 1 .. Len(d) : d[i] \in DOMAIN Digits
        /\ \A i \in 1 .. Len(x) : x[i] # "CR"
    <2>1. \A i \in 1 .. Len(d) : d[i] \in DOMAIN Digits
      BY <1>2, ElementOfSeq
    <2>2. \A i \in 1 .. Len(x) : x[i] \in Byte \ {"CR"}
      BY <1>3, ElementOfSeq
    <2> QED BY <2>1, <2>2
  <1>9. d \o x \in Bytes
    BY <1>2, <1>3, JoinedBytes
  <1>10. l \in Bytes /\ Len(l) = Len(d \o x) + 2
    BY <1>5, <1>6, <1>9, JoinedBytes
  <1>11. p \o CRLF \in Bytes /\ Len(p \o CRLF) = Len(p) + 2
    BY <1>4, <1>5, JoinedBytes
  <1> HIDE DEF l
  <1>12. (l \o p) \o CRLF = l \o (p \o CRLF)
    BY <1>4, <1>5, <1>10, ConcatAssociative DEF Bytes
  <1>13. l \o (p \o CRLF) \in Bytes /\ Len(l \o (p \o CRLF)) = Len(l) + Len(p) + 2
    <2>1. l \o (p \o CRLF) \in Bytes /\ Len(l \o (p \o CRLF)) = Len(l) + Len(p \o CRLF)
      BY <1>10, <1>11, JoinedBytes
    <2>2. Len(l) \in Nat /\ Len(p) \in Nat
      BY <1>4, <1>10, LengthIsNat
    <2> QED BY <2>1, <2>2, <1>11
  <1> QED BY <1>2, <1>3, <1>4, <1>6, <1>7, <1>8, <1>9, <1>10, <1>11, <1>12, <1>13 DEF d, x, p, l

LEMMA SemicolonFacts ==
  /\ Semicolon \in Byte \cup {"head"}
  /\ \A b \in DOMAIN Digits : b # Semicolon
  <1>1. Semicolon \in Byte
    BY Zenon DEF Byte, Semicolon
  <1>2. DOMAIN Digits = {"0", "1", "2", "F"}
    BY DEF Digits
  <1>3. \A b \in {"0", "1", "2", "F"} : b # Semicolon
    BY Zenon DEF Semicolon
  <1>4. \A b \in DOMAIN Digits : b # Semicolon
    BY <1>2, <1>3, Zenon
  <1> QED BY <1>1, <1>4, Zenon

\* The size on the line of a chunk is read as what it is.
LEMMA SizeIsRead ==
  ASSUME NEW d \in Bytes, Len(d) > 0, \A i \in 1 .. Len(d) : d[i] \in DOMAIN Digits,
         NEW x \in Bytes, x # << >> => x[1] = Semicolon,
         HexValue(d) \in 0 .. UsizeMax
  PROVE  ChunkSize(d \o x) = HexValue(d)
  <1> DEFINE h == d \o x
             semicolon == <<Semicolon>>
             p == PositionOf(h, semicolon, 0)
  <1>1. h \in Bytes
    BY JoinedBytes
  <1>2. semicolon \in Bytes /\ Len(semicolon) = 1 /\ semicolon[1] = Semicolon /\ Len(semicolon) > 0
    <2>1. ASSUME NEW S, NEW b \in S PROVE <<b>> \in Seq(S) /\ Len(<<b>>) = 1 /\ <<b>>[1] = b
      OBVIOUS
    <2>2. Semicolon \in Byte \cup {"head"}
      BY SemicolonFacts
    <2>3. <<Semicolon>> \in Seq(Byte \cup {"head"}) /\ Len(<<Semicolon>>) = 1 /\ <<Semicolon>>[1] = Semicolon
      BY <2>1, <2>2
    <2> HIDE DEF semicolon
    <2>4. semicolon \in Bytes /\ Len(semicolon) = 1 /\ semicolon[1] = Semicolon
      BY <2>3 DEF semicolon, Bytes
    <2> QED BY <2>4
  <1>3. SizeOf(d) = HexValue(d)
    <2>1. d # << >>
      BY EmptySeq DEF Bytes
    <2>2. DOMAIN d = 1 .. Len(d)
      BY LenProperties DEF Bytes
    <2> QED BY <2>1, <2>2 DEF SizeOf
  <1>4. ChunkSize(h) = SizeOf(UpTo(h, p))
    BY DEF ChunkSize
  <1> HIDE DEF semicolon
  <1>5. /\ Len(h) = Len(d) + Len(x) /\ Len(d) \in Nat /\ Len(x) \in Nat
        /\ \A i \in 1 .. Len(d) + Len(x) : h[i] = IF i <= Len(d) THEN d[i] ELSE x[i - Len(d)]
    BY LengthIsNat, ConcatProperties DEF Bytes
  <1>6. \A b \in DOMAIN Digits : b # Semicolon
    BY SemicolonFacts
  <1>7. ASSUME NEW i \in Nat, At(h, semicolon, i) PROVE i >= Len(d) /\ i + 1 <= Len(h)
    <2> HIDE DEF h
    <2>1. Slice(h, i, Len(semicolon)) = semicolon
      BY <1>7 DEF At
    <2>2. Has(h, i, semicolon)
      BY <1>1, <1>2, <2>1, HasIsSlice
    <2>3. i + 1 <= Len(h) /\ h[i + 1] = Semicolon
      BY <1>2, <2>2 DEF Has
    <2>4. ASSUME i < Len(d) PROVE FALSE
      <3>1. i + 1 \in 1 .. Len(d) /\ i + 1 \in 1 .. Len(d) + Len(x) /\ i + 1 <= Len(d)
        BY <1>5, <2>4
      <3>2. h[i + 1] = d[i + 1]
        BY <3>1, <1>5
      <3> QED BY <3>1, <3>2, <2>3, <1>1, <1>6
    <2> QED BY <2>3, <2>4, <1>5
  <1>8. CASE x = << >>
    <2>1. h = d
      BY <1>1, <1>8, ConcatEmptySeq DEF Bytes
    <2>2. p = Nothing
      <3>1. \/ p = Nothing
            \/ p \in Nat /\ At(h, semicolon, p)
        BY <1>1, <1>2, PositionFacts
      <3> HIDE DEF p, h
      <3>2. p \in Nat /\ At(h, semicolon, p) => p >= Len(d) /\ p + 1 <= Len(h)
        BY <1>7
      <3> QED BY <3>1, <3>2, <2>1, <1>5
    <2> QED BY <1>3, <1>4, <2>1, <2>2 DEF UpTo
  <1>9. CASE x # << >>
    <2>1. Len(x) > 0 /\ x[1] = Semicolon
      BY <1>1, <1>9, EmptySeq DEF Bytes
    <2>2. Has(h, Len(d), semicolon)
      <3>1. Len(d) + 1 \in 1 .. Len(d) + Len(x) /\ ~(Len(d) + 1 <= Len(d))
            /\ (Len(d) + 1) - Len(d) = 1
        BY <1>5, <2>1
      <3>2. h[Len(d) + 1] = Semicolon
        BY <3>1, <1>5, <2>1
      <3>3. Len(d) + 1 <= Len(h)
        BY <3>1, <1>5
      <3> HIDE DEF h
      <3> QED BY <3>2, <3>3, <1>2 DEF Has
    <2>3. At(h, semicolon, Len(d))
      <3> HIDE DEF h
      <3> QED BY <2>2, <1>1, <1>2, <1>5, HasIsSlice DEF At
    <2>4. p = Len(d)
      <3>1. \A i \in 0 .. Len(d) - 1 : ~At(h, semicolon, i)
        <4> HIDE DEF h
        <4> QED BY <1>5, <1>7
      <3> DEFINE n == Len(d)
      <3>2. n \in Nat /\ n >= 0 /\ At(h, semicolon, n) /\ 0 \in Nat
        BY <1>5, <2>3
      <3> HIDE DEF h, n
      <3>3. PICK from \in Nat : from = 0
        BY <3>2
      <3>4. \A i \in from .. n - 1 : ~At(h, semicolon, i)
        BY <3>1, <3>3 DEF n
      <3>5. PositionOf(h, semicolon, from) = n
        BY <1>1, <1>2, <3>2, <3>3, <3>4, PositionIs
      <3> QED BY <3>3, <3>5 DEF n
    <2>5. Slice(h, 0, Len(d)) = d
      <3>1. \A i \in 1 .. Len(d) : h[i] = d[i] /\ h[0 + i] = h[i]
        BY <1>5
      <3>2. 0 + Len(d) <= Len(h)
        BY <1>5
      <3> HIDE DEF h
      <3>3. Has(h, 0, d) /\ 0 \in Nat
        BY <3>1, <3>2 DEF Has
      <3>4. PICK from \in Nat : from = 0
        OBVIOUS
      <3> QED BY <3>3, <3>4, <1>1, HasIsSlice
    <2>6. p # Nothing
      BY <2>4, <1>5, NothingAssumption
    <2>7. UpTo(h, p) = d
      BY <2>4, <2>5, <2>6 DEF UpTo
    <2> QED BY <1>3, <1>4, <2>7
  <1> QED BY <1>8, <1>9

\* The line of a chunk is read from beginning to end.
LEMMA LineIsRead ==
  ASSUME NEW body \in Bytes, NEW c \in Nat, NEW chunk, IsChunk(chunk),
         Has(body, c, Line(chunk)), HexValue(chunk.digits) \in 0 .. UsizeMax
  PROVE  SizeLine(body, c) = [size |-> HexValue(chunk.digits), at |-> c + Len(Line(chunk))]
  <1> DEFINE d == chunk.digits
             x == chunk.extension
             h == d \o x
             m == Len(h)
  <1>1. /\ d \in Bytes /\ Len(d) > 0 /\ x \in Bytes /\ h \in Bytes
        /\ \A i \in 1 .. Len(d) : d[i] \in DOMAIN Digits
        /\ \A i \in 1 .. Len(x) : x[i] # "CR"
        /\ Line(chunk) = h \o CRLF /\ Len(Line(chunk)) = m + 2
    BY ChunkTypes
  <1>2. x # << >> => x[1] = Semicolon
    BY DEF IsChunk
  <1>3. HexValue(d) \in 0 .. UsizeMax
    OBVIOUS
  <1>4. ChunkSize(h) = HexValue(d)
    <2> HIDE DEF d, x
    <2> QED BY <1>1, <1>2, <1>3, SizeIsRead
  <1> HIDE DEF d, x
  <1>5. /\ m = Len(d) + Len(x) /\ Len(d) \in Nat /\ Len(x) \in Nat /\ m \in Nat
        /\ \A i \in 1 .. Len(d) + Len(x) : h[i] = IF i <= Len(d) THEN d[i] ELSE x[i - Len(d)]
    BY <1>1, LengthIsNat, ConcatProperties DEF Bytes
  <1>6. \A i \in 1 .. m : h[i] # "CR"
    <2>1. \A b \in DOMAIN Digits : b # "CR"
      BY DEF Digits
    <2> TAKE i \in 1 .. m
    <2>2. i <= Len(d) => i \in 1 .. Len(d)
      BY <1>5
    <2>3. ~(i <= Len(d)) => i - Len(d) \in 1 .. Len(x)
      BY <1>5
    <2> QED BY <1>1, <1>5, <2>1, <2>2, <2>3
  <1> HIDE DEF h
  <1>7. Has(body, c, h) /\ Has(body, c + m, CRLF)
    BY <1>1, Delimiters, HasBoth
  <1>8. PositionOf(body, CRLF, c) = c + m
    <2> DEFINE e == c + m
    <2>1. e \in Nat /\ e >= c
      BY <1>5
    <2>2. Has(body, e, CRLF)
      BY <1>7
    <2>3. \A i \in c .. e - 1 : i \in Nat /\ i + 1 - c \in 1 .. m /\ c + (i + 1 - c) = i + 1
      BY <1>5
    <2> HIDE DEF e
    <2>4. At(body, CRLF, e)
      BY <2>1, <2>2, Delimiters, AtIsHas
    <2>5. ASSUME NEW i \in c .. e - 1, At(body, CRLF, i) PROVE FALSE
      <3>1. i \in Nat /\ i + 1 - c \in 1 .. m /\ c + (i + 1 - c) = i + 1
        BY <2>3
      <3>2. Has(body, i, CRLF)
        BY <2>5, <3>1, Delimiters, AtIsHas
      <3>3. body[i + 1] = CRLF[1] /\ CRLF[1] = "CR"
        <4>1. CRLF[1] = "CR"
          BY DEF CRLF
        <4> QED BY <3>2, <4>1, Delimiters DEF Has
      <3>4. body[i + 1] = h[i + 1 - c]
        BY <1>7, <3>1 DEF Has
      <3> QED BY <3>1, <3>3, <3>4, <1>6
    <2>6. PositionOf(body, CRLF, c) = e
      BY <2>1, <2>4, <2>5, Delimiters, PositionIs
    <2> QED BY <2>6 DEF e
  <1>9. Slice(body, c, (c + m) - c) = h
    <2>1. (c + m) - c = m
      BY <1>5
    <2>2. Slice(body, c, m) = h
      BY <1>1, <1>7, HasIsSlice
    <2> QED BY <2>1, <2>2
  <1>10. c + m # Nothing
    BY <1>5, NothingAssumption
  <1>11. (c + m) + 2 = c + Len(Line(chunk))
    BY <1>1, <1>5
  <1>12. SizeLine(body, c) = [size |-> HexValue(d), at |-> (c + m) + 2]
    BY <1>4, <1>8, <1>9, <1>10 DEF SizeLine
  <1> QED BY <1>11, <1>12 DEF d

\* A chunk with a payload is a whole chunk, and its payload is found.
LEMMA ChunkIsRead ==
  ASSUME NEW body \in Bytes, Len(body) <= UsizeMax, NEW c \in Nat,
         NEW chunk, IsChunk(chunk), chunk.payload # << >>, Has(body, c, Encoding(chunk))
  PROVE  /\ WholeChunk(body, c)
         /\ NextChunk(body, c) = c + Len(Encoding(chunk))
         /\ Payload(body, c) = chunk.payload
  <1> DEFINE p == chunk.payload
             l == Line(chunk)
             at == c + Len(l)
             size == Len(p)
             e == at + size
  <1>1. /\ p \in Bytes /\ l \in Bytes /\ p \o CRLF \in Bytes
        /\ Encoding(chunk) = l \o (p \o CRLF)
        /\ Len(Encoding(chunk)) = Len(l) + Len(p) + 2
    BY ChunkTypes
  <1>2. HexValue(chunk.digits) = size /\ p # << >>
    BY DEF IsChunk
  <1> HIDE DEF p, l
  <1>3. Len(p) \in Nat /\ Len(l) \in Nat /\ Len(body) \in Nat /\ Len(p) > 0
    BY <1>1, <1>2, LengthIsNat, EmptySeq DEF Bytes
  <1>4. Has(body, c, l) /\ Has(body, at, p \o CRLF)
    BY <1>1, HasBoth
  <1>5. Has(body, at, p) /\ Has(body, e, CRLF) /\ at \in Nat /\ e \in Nat
    <2>1. at \in Nat
      BY <1>3
    <2> HIDE DEF at
    <2> QED BY <2>1, <1>1, <1>3, <1>4, Delimiters, HasBoth
  <1>6. e + 2 <= Len(body)
    BY <1>5, Delimiters DEF Has
  <1>7. e <= UsizeMax /\ size \in 0 .. UsizeMax
    <2>1. e <= Len(body) /\ size <= Len(body)
      BY <1>3, <1>6
    <2> HIDE DEF e
    <2> QED BY <2>1, <1>3, <1>5, WidthAssumption
  <1>8. SizeLine(body, c) = [size |-> size, at |-> at]
    BY <1>2, <1>4, <1>7, LineIsRead DEF l
  <1>9. SizeLine(body, c) # Nothing /\ SizeLine(body, c).size = size /\ SizeLine(body, c).at = at
    <2>1. [size |-> size, at |-> at] \in [size : {Nothing} \cup Nat, at : Nat]
      BY <1>3, <1>5
    <2> HIDE DEF size, at
    <2> QED BY <1>8, <2>1, NothingAssumption
  <1>10. Slice(body, e, 2) = CRLF /\ Slice(body, at, size) = p
    BY <1>1, <1>5, Delimiters, HasIsSlice
  <1>11. size \notin {Nothing, 0}
    BY <1>3, NothingAssumption
  <1>12. ChunkEnd(body, c) = e
    BY <1>9 DEF ChunkEnd
  <1>13. WholeChunk(body, c)
    BY <1>7, <1>9, <1>10, <1>11, <1>12 DEF WholeChunk, HasDelimiter
  <1>14. NextChunk(body, c) = c + Len(Encoding(chunk))
    BY <1>1, <1>3, <1>12, <1>13 DEF NextChunk
  <1>15. Payload(body, c) = p
    BY <1>9, <1>10 DEF Payload
  <1> QED BY <1>13, <1>14, <1>15 DEF p

\* What the sequences of a list are in a row, the first so many and all.
LEMMA JoinedSteps ==
  ASSUME NEW n \in Nat, NEW list \in [1 .. n -> Bytes], Len(list) = n
  PROVE  /\ Joined(list) \in [0 .. n -> Bytes]
         /\ Joined(list)[0] = << >>
         /\ \A i \in 1 .. n : Joined(list)[i] = Joined(list)[i - 1] \o list[i]
  <1> DEFINE Is(upTo) ==
               upTo = [i \in 0 .. Len(list) |-> IF i = 0 THEN << >> ELSE upTo[i - 1] \o list[i]]
             step == [a \in (1 .. n) \X Bytes |-> a[2] \o list[a[1]]]
  <1>1. << >> \in Bytes
    BY EmptySeq DEF Bytes
  <1>2. step \in [(1 .. n) \X Bytes -> Bytes]
    <2>1. ASSUME NEW a \in (1 .. n) \X Bytes PROVE a[2] \o list[a[1]] \in Bytes
      <3>1. a[2] \in Bytes /\ list[a[1]] \in Bytes
        OBVIOUS
      <3> QED BY <3>1, JoinedBytes
    <2> QED BY <2>1
  <1>3. \E f : Recursive(f, n, Bytes, << >>, step)
    <2> HIDE DEF step
    <2> QED BY <1>1, <1>2, RecursionExists
  <1>4. PICK f : Recursive(f, n, Bytes, << >>, step)
    BY <1>3
  <1>5. /\ f \in [0 .. n -> Bytes] /\ f[0] = << >>
        /\ \A i \in 1 .. n : f[i] = step[<<i, f[i - 1]>>]
    <2> HIDE DEF step
    <2> QED BY <1>4 DEF Recursive
  <1>6. \A i \in 1 .. n : f[i] = f[i - 1] \o list[i]
    <2> TAKE i \in 1 .. n
    <2>1. i - 1 \in 0 .. n
      OBVIOUS
    <2>2. <<i, f[i - 1]>> \in (1 .. n) \X Bytes
      BY <2>1, <1>5
    <2>3. step[<<i, f[i - 1]>>] = f[i - 1] \o list[i]
      BY <2>2
    <2> QED BY <2>3, <1>5
  <1> HIDE DEF step
  <1>7. Is(f)
    <2>1. \A i \in 0 .. n : i # 0 => i \in 1 .. n
      OBVIOUS
    <2> QED BY <1>5, <1>6, <2>1
  <1>8. ASSUME NEW g, Is(g)
        PROVE  /\ g \in [0 .. n -> Bytes] /\ g[0] = << >>
               /\ \A i \in 1 .. n : g[i] = g[i - 1] \o list[i]
    <2>1. g = [i \in 0 .. n |-> IF i = 0 THEN << >> ELSE g[i - 1] \o list[i]]
      BY <1>8
    <2>2. g[0] = << >> /\ \A i \in 1 .. n : g[i] = g[i - 1] \o list[i]
      <3>1. 0 \in 0 .. n /\ \A i \in 1 .. n : i \in 0 .. n /\ i # 0
        OBVIOUS
      <3> HIDE DEF Is
      <3> QED BY <2>1, <3>1
    <2> DEFINE T == {i \in Nat : i <= n => g[i] \in Bytes}
    <2>3. 0 \in T
      BY <1>1, <2>2
    <2>4. ASSUME NEW i \in Nat, i \in T PROVE i + 1 \in T
      <3> SUFFICES ASSUME i + 1 <= n PROVE g[i + 1] \in Bytes
        OBVIOUS
      <3>1. i + 1 \in 1 .. n /\ (i + 1) - 1 = i /\ i <= n
        OBVIOUS
      <3>2. g[i] \in Bytes /\ list[i + 1] \in Bytes
        BY <2>4, <3>1
      <3>3. g[i + 1] = g[i] \o list[i + 1]
        BY <2>2, <3>1
      <3> QED BY <3>2, <3>3, JoinedBytes
    <2>5. \A i \in Nat : i \in T
      <3> HIDE DEF T
      <3> QED BY <2>3, <2>4, SetInduction
    <2>6. \A i \in 0 .. n : g[i] \in Bytes
      BY <2>5
    <2> QED BY <2>1, <2>2, <2>6
  <1>9. Joined(list) = CHOOSE g : Is(g)
    BY DEF Joined
  <1>10. Is(Joined(list))
    <2> HIDE DEF Is
    <2> QED BY <1>7, <1>9
  <1> HIDE DEF Is
  <1> QED BY <1>8, <1>10

\* A list over 1 .. n is a sequence of length n.
LEMMA ListLength ==
  ASSUME NEW n \in Nat, NEW S, NEW list \in [1 .. n -> S]
  PROVE  list \in Seq(S) /\ Len(list) = n
  OBVIOUS

\* The chunks of a message are where their encodings add up to.
LEMMA ChunksOnWire ==
  ASSUME NEW m, InChunks(m), NEW body \in Bytes, body = m.wire
  PROVE  LET n == Len(m.chunks)
             J == Joined(Encodings(m))
             P == Joined(Payloads(m))
         IN  /\ n \in Nat /\ Len(J[0]) = 0 /\ LastLineEnd(m) \in Nat
             /\ \A i \in 0 .. n : Len(J[i]) \in 0 .. Len(body)
             /\ \A i \in 1 .. n : /\ WholeChunk(body, Len(J[i - 1]))
                                  /\ NextChunk(body, Len(J[i - 1])) = Len(J[i])
                                  /\ Payload(body, Len(J[i - 1])) = m.chunks[i].payload
             /\ SizeLine(body, Len(J[n])) = [size |-> 0, at |-> LastLineEnd(m)]
             /\ P \in [0 .. n -> Bytes] /\ P[0] = << >> /\ m.means = P[n]
             /\ \A i \in 1 .. n : /\ m.chunks[i].payload \in Bytes
                                  /\ P[i] = P[i - 1] \o m.chunks[i].payload
  <1> DEFINE chunks == m.chunks
             last == m.last
             n == Len(chunks)
             E == Encodings(m)
             F == Payloads(m)
             J == Joined(E)
             P == Joined(F)
  <1>1. /\ n \in Nat /\ DOMAIN chunks = 1 .. n
        /\ \A i \in 1 .. n : IsChunk(chunks[i]) /\ chunks[i].payload # << >>
        /\ IsChunk(last) /\ last.payload = << >>
        /\ Len(body) <= UsizeMax /\ m.means = AllJoined(F)
        /\ BeginsWith(body, AllJoined(E) \o Line(last))
    <2>1. /\ chunks \in Seq([digits : Seq(Byte), extension : Seq(Byte), payload : Seq(Byte)])
          /\ \A i \in DOMAIN chunks : IsChunk(chunks[i]) /\ chunks[i].payload # << >>
      BY DEF InChunks
    <2>2. n \in Nat /\ DOMAIN chunks = 1 .. n
      <3> HIDE DEF chunks
      <3> QED BY <2>1, LenProperties
    <2>3. /\ IsChunk(last) /\ last.payload = << >>
          /\ Len(body) <= UsizeMax /\ m.means = AllJoined(F)
          /\ BeginsWith(body, AllJoined(E) \o Line(last))
      BY DEF InChunks
    <2> HIDE DEF chunks, last, E, F
    <2> QED BY <2>1, <2>2, <2>3
  <1>2. /\ E \in [1 .. n -> Bytes] /\ \A i \in 1 .. n : E[i] = Encoding(chunks[i])
        /\ F \in [1 .. n -> Bytes] /\ \A i \in 1 .. n : F[i] = chunks[i].payload
    <2>1. E = [i \in 1 .. n |-> Encoding(chunks[i])] /\ F = [i \in 1 .. n |-> chunks[i].payload]
      BY <1>1 DEF Encodings, Payloads
    <2>2. \A i \in 1 .. n : Encoding(chunks[i]) \in Bytes /\ chunks[i].payload \in Bytes
      BY <1>1, ChunkTypes
    <2> HIDE DEF chunks, E, F
    <2> QED BY <2>1, <2>2
  <1>3. last.payload = << >>
    BY <1>1
  <1>4. LastLineEnd(m) = Len(AllJoined(E) \o Line(last))
    BY DEF LastLineEnd
  <1> HIDE DEF chunks, last, E, F
  <1>5. Len(E) = n /\ Len(F) = n
    <2> HIDE DEF n
    <2> QED BY <1>1, <1>2, ListLength
  <1>6. /\ J \in [0 .. n -> Bytes] /\ J[0] = << >>
        /\ \A i \in 1 .. n : J[i] = J[i - 1] \o E[i]
        /\ P \in [0 .. n -> Bytes] /\ P[0] = << >>
        /\ \A i \in 1 .. n : P[i] = P[i - 1] \o F[i]
    <2> HIDE DEF n
    <2> QED BY <1>1, <1>2, <1>5, JoinedSteps
  <1>7. AllJoined(E) = J[n] /\ AllJoined(F) = P[n]
    BY <1>5 DEF AllJoined
  <1> HIDE DEF n, J, P
  <1>8. /\ \A i \in 0 .. n : J[i] \in Bytes /\ Len(J[i]) \in Nat
        /\ Line(last) \in Bytes /\ Len(Line(last)) \in Nat /\ Len(body) \in Nat
        /\ Len(Line(last)) > 0
    <2>1. Line(last) \in Bytes /\ Len(Line(last)) = Len(last.digits \o last.extension) + 2
          /\ last.digits \o last.extension \in Bytes
      BY <1>1, ChunkTypes
    <2>2. Len(last.digits \o last.extension) \in Nat
      BY <2>1, LengthIsNat
    <2>3. Len(Line(last)) \in Nat /\ Len(Line(last)) > 0
      <3>1. PICK k \in Nat : Len(Line(last)) = k + 2
        BY <2>1, <2>2
      <3> QED BY <3>1
    <2>4. \A i \in 0 .. n : J[i] \in Bytes /\ Len(J[i]) \in Nat
      BY <1>6, LengthIsNat
    <2> QED BY <2>1, <2>3, <2>4, LengthIsNat
  <1>9. Has(body, 0, J[n]) /\ Has(body, Len(J[n]), Line(last))
        /\ LastLineEnd(m) = Len(J[n]) + Len(Line(last))
    <2> DEFINE j == J[n]
               start == j \o Line(last)
    <2>1. j \in Bytes /\ Len(j) \in Nat
      BY <1>1, <1>8
    <2>2. start \in Bytes /\ Len(start) = Len(j) + Len(Line(last))
      BY <1>8, <2>1, JoinedBytes
    <2>3. PICK at \in Nat : at = 0
      OBVIOUS
    <2>4. Slice(body, at, Len(start)) = start
      BY <1>1, <1>7, <2>3 DEF BeginsWith
    <2>5. Has(body, at, start)
      <3> HIDE DEF start
      <3> QED BY <1>8, <2>1, <2>2, <2>4, HasIsSlice
    <2>6. Has(body, at, j) /\ Has(body, at + Len(j), Line(last))
      <3> HIDE DEF j
      <3> QED BY <1>8, <2>1, <2>5, HasBoth
    <2>7. at + Len(j) = Len(j)
      BY <2>1, <2>3
    <2> QED BY <1>4, <1>7, <2>2, <2>3, <2>6, <2>7
  <1> DEFINE T == {i \in Int : Has(body, 0, J[i])}
  <1>10. ASSUME NEW i \in 0 .. n, \A l \in i + 1 .. n : l \in T
         PROVE  i \in T
    <2>1. CASE i = n
      BY <1>9, <2>1
    <2>2. CASE i # n
      <3>1. i + 1 \in 1 .. n /\ i + 1 \in i + 1 .. n /\ (i + 1) - 1 = i
        BY <1>1, <2>2
      <3>2. J[i + 1] = J[i] \o E[i + 1] /\ E[i + 1] \in Bytes /\ J[i] \in Bytes
        BY <1>2, <1>6, <3>1
      <3>3. Has(body, 0, J[i + 1])
        BY <1>10, <3>1
      <3>4. PICK at \in Nat : at = 0
        OBVIOUS
      <3>5. Has(body, at, J[i])
        BY <3>2, <3>3, <3>4, HasBoth
      <3> QED BY <3>4, <3>5
    <2> QED BY <2>1, <2>2
  <1>11. \A i \in 0 .. n : Has(body, 0, J[i])
    <2>1. \A i \in 0 .. n : i \in T
      <3> HIDE DEF T
      <3> QED BY <1>1, <1>10, DownwardInduction
    <2> QED BY <2>1
  <1>12. \A i \in 0 .. n : Len(J[i]) \in 0 .. Len(body)
    BY <1>8, <1>11 DEF Has
  <1>13. ASSUME NEW i \in 1 .. n
         PROVE  /\ WholeChunk(body, Len(J[i - 1]))
                /\ NextChunk(body, Len(J[i - 1])) = Len(J[i])
                /\ Payload(body, Len(J[i - 1])) = chunks[i].payload
    <2> DEFINE c == Len(J[i - 1])
    <2>1. i - 1 \in 0 .. n /\ i \in 0 .. n
      BY <1>1
    <2>2. J[i] = J[i - 1] \o E[i] /\ J[i - 1] \in Bytes /\ c \in Nat
      BY <1>6, <1>8, <2>1
    <2>3. E[i] \in Bytes /\ E[i] = Encoding(chunks[i])
      BY <1>2
    <2>4. Len(J[i]) = c + Len(E[i])
      BY <2>2, <2>3, JoinedBytes
    <2>5. Has(body, c, E[i])
      <3>1. PICK at \in Nat : at = 0
        OBVIOUS
      <3>2. Has(body, at, J[i - 1] \o E[i])
        BY <1>11, <2>1, <2>2, <3>1
      <3>3. Has(body, at + c, E[i])
        BY <2>2, <2>3, <3>2, HasBoth
      <3>4. at + c = c
        BY <2>2, <3>1
      <3> QED BY <3>3, <3>4
    <2> HIDE DEF c
    <2>6. IsChunk(chunks[i]) /\ chunks[i].payload # << >>
      BY <1>1
    <2>7. /\ WholeChunk(body, c)
          /\ NextChunk(body, c) = c + Len(E[i])
          /\ Payload(body, c) = chunks[i].payload
      BY <1>1, <2>2, <2>3, <2>5, <2>6, ChunkIsRead
    <2> QED BY <2>4, <2>7 DEF c
  <1>14. SizeLine(body, Len(J[n])) = [size |-> 0, at |-> LastLineEnd(m)]
    <2>1. HexValue(last.digits) = 0
      <3>1. HexValue(last.digits) = Len(<< >>)
        BY <1>1 DEF IsChunk
      <3> QED BY <3>1
    <2>2. 0 \in 0 .. UsizeMax
      BY WidthAssumption
    <2>3. Len(J[n]) \in Nat
      BY <1>1, <1>8
    <2>4. SizeLine(body, Len(J[n])) =
            [size |-> HexValue(last.digits), at |-> Len(J[n]) + Len(Line(last))]
      BY <1>1, <1>9, <2>1, <2>2, <2>3, LineIsRead
    <2> QED BY <1>9, <2>1, <2>4
  <1>15. \A i \in 1 .. n : chunks[i].payload \in Bytes /\ P[i] = P[i - 1] \o chunks[i].payload
    BY <1>2, <1>6
  <1>16. m.means = P[n]
    BY <1>1, <1>7
  <1>17. Len(J[0]) = 0 /\ LastLineEnd(m) \in Nat
    <2>1. Len(J[n]) \in Nat /\ J[0] = << >>
      BY <1>1, <1>6, <1>8
    <2> QED BY <1>8, <1>9, <2>1
  <1> QED BY <1>17, <1>1, <1>6, <1>12, <1>13, <1>14, <1>15, <1>16 DEF n, J, P, E, F, chunks

\* The decoder gives the body that the chunks mean.
LEMMA ChunksAreDecoded ==
  ASSUME NEW m, InChunks(m), NEW body \in Bytes, body = m.wire
  PROVE  decode_chunked_body(body) = Ok(m.means)
  <1> DEFINE n == Len(m.chunks)
             J == Joined(Encodings(m))
             P == Joined(Payloads(m))
             means == m.means
             end == LastLineEnd(m)
  <1>1. /\ n \in Nat /\ Len(J[0]) = 0 /\ end \in Nat
        /\ \A i \in 0 .. n : Len(J[i]) \in 0 .. Len(body)
        /\ \A i \in 1 .. n : /\ WholeChunk(body, Len(J[i - 1]))
                             /\ NextChunk(body, Len(J[i - 1])) = Len(J[i])
                             /\ Payload(body, Len(J[i - 1])) = m.chunks[i].payload
        /\ SizeLine(body, Len(J[n])) = [size |-> 0, at |-> end]
        /\ P \in [0 .. n -> Bytes] /\ P[0] = << >> /\ means = P[n]
        /\ \A i \in 1 .. n : /\ m.chunks[i].payload \in Bytes
                             /\ P[i] = P[i - 1] \o m.chunks[i].payload
    BY ChunksOnWire
  <1> HIDE DEF n, J, P, means, end
  <1>2. PICK a \in [0 .. n -> Nat] : \A i \in 0 .. n : a[i] = Len(J[i])
    <2> DEFINE lengths == [i \in 0 .. n |-> Len(J[i])]
    <2>1. lengths \in [0 .. n -> Nat] /\ \A i \in 0 .. n : lengths[i] = Len(J[i])
      BY <1>1
    <2> QED BY <2>1
  <1>3. PICK p : \A i \in 1 .. n : p[i] = m.chunks[i].payload
    <2> DEFINE payloads == [i \in 1 .. n |-> m.chunks[i].payload]
    <2>1. \A i \in 1 .. n : payloads[i] = m.chunks[i].payload
      OBVIOUS
    <2> QED BY <2>1
  <1>4. n \in Nat /\ 0 \in 0 .. n /\ n \in 0 .. n /\ a[0] = 0 /\ end \in Nat
    BY <1>1, <1>2
  <1>5. \A i \in 0 .. n : a[i] \in 0 .. Len(body)
    BY <1>1, <1>2
  <1>6. ASSUME NEW i \in 1 .. n
        PROVE  /\ WholeChunk(body, a[i - 1])
               /\ NextChunk(body, a[i - 1]) = a[i]
               /\ Payload(body, a[i - 1]) = p[i]
               /\ p[i] \in Bytes /\ P[i] = P[i - 1] \o p[i]
    <2>1. i \in 0 .. n /\ i - 1 \in 0 .. n
      BY <1>4
    <2>2. a[i] = Len(J[i]) /\ a[i - 1] = Len(J[i - 1]) /\ p[i] = m.chunks[i].payload
      BY <1>2, <1>3, <2>1
    <2> QED BY <1>1, <2>2
  <1>7. SizeLine(body, a[n]) = [size |-> 0, at |-> end]
    BY <1>1, <1>2, <1>4
  <1>8. P \in [0 .. n -> Bytes] /\ P[0] = << >> /\ means = P[n]
    BY <1>1
  <1>9. PICK decode : Decoding(decode, body) /\ decode_chunked_body(body) = decode[0]
    BY DecodeSteps
  <1>10. \A c \in 0 .. Len(body) :
           /\ decode[c] \in Decodings
           /\ decode[c] = IF WholeChunk(body, c)
                          THEN Prepend(Payload(body, c), decode[NextChunk(body, c)])
                          ELSE DecodeVerdict(body, c)
    BY <1>9 DEF Decoding
  <1> DEFINE T == {i \in Int : /\ decode[a[i]].kind = "ok"
                               /\ P[i] \o decode[a[i]].body = means}
  <1>11. n \in T
    <2>1. /\ SizeLine(body, a[n]).size = 0
          /\ SizeLine(body, a[n]) # Nothing
      <3>1. [size |-> 0, at |-> end] \in [size : {Nothing} \cup Nat, at : Nat]
        BY <1>4
      <3> QED BY <1>7, <3>1, NothingAssumption
    <2>2. ~WholeChunk(body, a[n]) /\ 0 # Nothing
      BY <2>1, NothingAssumption DEF WholeChunk
    <2>3. decode[a[n]] = DecodeVerdict(body, a[n])
      BY <1>4, <1>5, <1>10, <2>2
    <2>4. decode[a[n]] = Ok(<< >>)
      BY <2>1, <2>2, <2>3 DEF DecodeVerdict
    <2>5. decode[a[n]].kind = "ok" /\ decode[a[n]].body = << >>
      BY <2>4 DEF Ok
    <2>6. P[n] \o << >> = P[n]
      BY <1>4, <1>8, ConcatEmptySeq DEF Bytes
    <2>7. P[n] \o decode[a[n]].body = means
      BY <1>8, <2>5, <2>6
    <2>8. n \in Int
      BY <1>4
    <2> QED BY <2>5, <2>7, <2>8
  <1>12. ASSUME NEW i \in 0 .. n, i # n, i + 1 \in T PROVE i \in T
    <2> DEFINE j == i + 1
               rest == decode[a[j]]
    <2>1. j \in 1 .. n /\ j - 1 = i /\ j \in 0 .. n /\ i \in Int
      BY <1>4, <1>12
    <2>2. rest.kind = "ok" /\ P[j] \o rest.body = means
      BY <1>12
    <2> HIDE DEF j
    <2>3. /\ WholeChunk(body, a[i]) /\ NextChunk(body, a[i]) = a[j]
          /\ Payload(body, a[i]) = p[j] /\ p[j] \in Bytes /\ P[j] = P[i] \o p[j]
      BY <1>6, <2>1
    <2>4. decode[a[i]] = Prepend(p[j], rest) /\ rest \in Decodings
      BY <1>5, <1>10, <2>1, <2>3
    <2> HIDE DEF rest
    <2>5. rest.body \in Bytes
      BY <2>2, <2>4 DEF Decodings, Errors
    <2>6. decode[a[i]].kind = "ok" /\ decode[a[i]].body = p[j] \o rest.body
      <3>1. Prepend(p[j], rest) = Ok(p[j] \o rest.body)
        BY <2>2 DEF Prepend
      <3>2. Ok(p[j] \o rest.body).kind = "ok" /\ Ok(p[j] \o rest.body).body = p[j] \o rest.body
        BY DEF Ok
      <3> QED BY <2>4, <3>1, <3>2
    <2>7. P[i] \in Bytes
      BY <1>8
    <2>8. (P[i] \o p[j]) \o rest.body = P[i] \o (p[j] \o rest.body)
      BY <2>3, <2>5, <2>7, JoiningAssociates
    <2>9. P[i] \o decode[a[i]].body = means
      BY <2>2, <2>3, <2>6, <2>8
    <2> QED BY <2>1, <2>6, <2>9
  <1>13. \A i \in 0 .. n : i \in T
    <2> HIDE DEF T
    <2>1. ASSUME NEW i \in 0 .. n, \A l \in i + 1 .. n : l \in T PROVE i \in T
      <3>1. i # n => i + 1 \in i + 1 .. n
        BY <1>4
      <3> QED BY <1>11, <1>12, <2>1, <3>1
    <2> QED BY <1>4, <2>1, DownwardInduction
  <1>14. decode[0].kind = "ok" /\ << >> \o decode[0].body = means
    BY <1>4, <1>8, <1>13
  <1>15. decode[0] \in Decodings /\ decode[0].body \in Bytes
    <2>1. 0 \in 0 .. Len(body)
      BY LengthIsNat
    <2> QED BY <1>10, <1>14, <2>1 DEF Decodings, Errors
  <1>16. << >> \o decode[0].body = decode[0].body
    BY <1>15, ConcatEmptySeq DEF Bytes
  <1>17. decode[0] = Ok(means)
    BY <1>14, <1>15, <1>16 DEF Decodings, Errors, Ok
  <1> QED BY <1>9, <1>17 DEF means

\* The length finds the end, where an empty line follows the last chunk.
LEMMA ChunksAreMeasured ==
  ASSUME NEW m, InChunks(m), NEW body \in Bytes, body = m.wire,
         Slice(body, LastLineEnd(m), 2) = CRLF
  PROVE  chunked_wire_len(body) = Some(LastLineEnd(m) + 2)
  <1> DEFINE n == Len(m.chunks)
             J == Joined(Encodings(m))
             end == LastLineEnd(m)
  <1>1. /\ n \in Nat /\ Len(J[0]) = 0 /\ end \in Nat
        /\ \A i \in 0 .. n : Len(J[i]) \in 0 .. Len(body)
        /\ \A i \in 1 .. n : /\ WholeChunk(body, Len(J[i - 1]))
                             /\ NextChunk(body, Len(J[i - 1])) = Len(J[i])
        /\ SizeLine(body, Len(J[n])) = [size |-> 0, at |-> end]
    BY ChunksOnWire
  <1>2. Slice(body, end, 2) = CRLF
    OBVIOUS
  <1> HIDE DEF n, J, end
  <1>3. PICK a \in [0 .. n -> Nat] : \A i \in 0 .. n : a[i] = Len(J[i])
    <2> DEFINE lengths == [i \in 0 .. n |-> Len(J[i])]
    <2>1. lengths \in [0 .. n -> Nat] /\ \A i \in 0 .. n : lengths[i] = Len(J[i])
      BY <1>1
    <2> QED BY <2>1
  <1>4. n \in Nat /\ 0 \in 0 .. n /\ n \in 0 .. n /\ a[0] = 0 /\ end \in Nat
    BY <1>1, <1>3
  <1>5. \A i \in 0 .. n : a[i] \in 0 .. Len(body)
    BY <1>1, <1>3
  <1>6. ASSUME NEW i \in 1 .. n
        PROVE  WholeChunk(body, a[i - 1]) /\ NextChunk(body, a[i - 1]) = a[i]
    <2>1. i \in 0 .. n /\ i - 1 \in 0 .. n
      BY <1>4
    <2>2. a[i] = Len(J[i]) /\ a[i - 1] = Len(J[i - 1])
      BY <1>3, <2>1
    <2> QED BY <1>1, <2>2
  <1>7. SizeLine(body, a[n]) = [size |-> 0, at |-> end]
    BY <1>1, <1>3, <1>4
  <1>8. PICK scan : Scanning(scan, body) /\ chunked_wire_len(body) = scan[0]
    BY WireSteps
  <1>9. \A c \in 0 .. Len(body) :
          scan[c] = IF WholeChunk(body, c) THEN scan[NextChunk(body, c)] ELSE WireVerdict(body, c)
    BY <1>8 DEF Scanning
  <1> DEFINE T == {i \in Int : scan[a[i]] = Some(end + 2)}
  <1>10. n \in T
    <2>1. /\ SizeLine(body, a[n]).size = 0 /\ SizeLine(body, a[n]).at = end
          /\ SizeLine(body, a[n]) # Nothing
      <3>1. [size |-> 0, at |-> end] \in [size : {Nothing} \cup Nat, at : Nat]
        BY <1>4
      <3> QED BY <1>7, <3>1, NothingAssumption
    <2>2. ~WholeChunk(body, a[n]) /\ 0 # Nothing
      BY <2>1, NothingAssumption DEF WholeChunk
    <2>3. scan[a[n]] = WireVerdict(body, a[n])
      BY <1>4, <1>5, <1>9, <2>2
    <2>4. WireVerdict(body, a[n]) = LastChunk(body, end)
      BY <2>1, <2>2 DEF WireVerdict
    <2>5. LastChunk(body, end) = Some(end + 2)
      BY <1>2 DEF LastChunk
    <2>6. n \in Int
      BY <1>4
    <2> QED BY <2>3, <2>4, <2>5, <2>6
  <1>11. ASSUME NEW i \in 0 .. n, i # n, i + 1 \in T PROVE i \in T
    <2> DEFINE j == i + 1
    <2>1. j \in 1 .. n /\ j - 1 = i /\ i \in Int
      BY <1>4, <1>11
    <2>2. scan[a[j]] = Some(end + 2)
      BY <1>11
    <2> HIDE DEF j
    <2>3. WholeChunk(body, a[i]) /\ NextChunk(body, a[i]) = a[j]
      BY <1>6, <2>1
    <2>4. scan[a[i]] = scan[a[j]]
      BY <1>5, <1>9, <2>3
    <2> QED BY <2>1, <2>2, <2>4
  <1>12. \A i \in 0 .. n : i \in T
    <2> HIDE DEF T
    <2>1. ASSUME NEW i \in 0 .. n, \A l \in i + 1 .. n : l \in T PROVE i \in T
      <3>1. i # n => i + 1 \in i + 1 .. n
        BY <1>4
      <3> QED BY <1>10, <1>11, <2>1, <3>1
    <2> QED BY <1>4, <2>1, DownwardInduction
  <1>13. scan[0] = Some(end + 2)
    BY <1>4, <1>12
  <1> QED BY <1>8, <1>13 DEF end

-----------------------------------------------------------------------------
(***************************************************************************)
(* The head, and the response as far as it has arrived.                    *)
(***************************************************************************)
\* The first k bytes of the stream, and what is made of its head.
Part(k) == Prefix(Stream, k)
Meta == HeadMetadata(message.head, 1)

LEMMA StreamFacts ==
  ASSUME message \in Messages
  PROVE  /\ Stream \in Bytes /\ Len(Stream) = 5 + Len(message.wire)
         /\ message.wire \in Bytes /\ Len(message.wire) \in Nat
         /\ Stream[1] = "head"
         /\ \A i \in 1 .. 4 : Stream[1 + i] = Terminator[i]
         /\ \A i \in 1 .. Len(message.wire) : Stream[5 + i] = message.wire[i]
  <1> DEFINE head == OpaqueHead \o Terminator
  <1>1. message.wire \in Bytes /\ Len(message.wire) \in Nat
    <2>1. message.wire \in Seq(Byte)
      BY MessageAssumption
    <2> QED BY <2>1, SeqMonotonic DEF Bytes
  <1>2. OpaqueHead \in Bytes /\ Len(OpaqueHead) = 1 /\ OpaqueHead[1] = "head"
    <2>1. ASSUME NEW S, NEW x \in S PROVE <<x>> \in Seq(S) /\ Len(<<x>>) = 1 /\ <<x>>[1] = x
      OBVIOUS
    <2>2. "head" \in Byte \cup {"head"}
      OBVIOUS
    <2> QED BY <2>1, <2>2 DEF OpaqueHead, Bytes
  <1>3. /\ head \in Bytes /\ Len(head) = Len(OpaqueHead) + Len(Terminator)
        /\ \A i \in 1 .. Len(OpaqueHead) + Len(Terminator) :
             head[i] = IF i <= Len(OpaqueHead) THEN OpaqueHead[i] ELSE Terminator[i - Len(OpaqueHead)]
    BY <1>2, Delimiters, ConcatProperties DEF Bytes
  <1>4. /\ Len(head) = 5 /\ head[1] = "head"
        /\ \A i \in 1 .. 4 : head[1 + i] = Terminator[i]
    BY <1>2, <1>3, Delimiters
  <1> HIDE DEF head
  <1>5. Stream = head \o message.wire
    BY DEF Stream, head
  <1>6. /\ Stream \in Bytes /\ Len(Stream) = Len(head) + Len(message.wire)
        /\ \A i \in 1 .. Len(head) + Len(message.wire) :
             Stream[i] = IF i <= Len(head) THEN head[i] ELSE message.wire[i - Len(head)]
    <2> DEFINE wire == message.wire
    <2>1. wire \in Bytes /\ head \in Bytes /\ Stream = head \o wire
      BY <1>1, <1>3, <1>5
    <2> HIDE DEF wire
    <2>2. /\ head \o wire \in Bytes /\ Len(head \o wire) = Len(head) + Len(wire)
          /\ \A i \in 1 .. Len(head) + Len(wire) :
               (head \o wire)[i] = IF i <= Len(head) THEN head[i] ELSE wire[i - Len(head)]
      BY <2>1, ConcatProperties DEF Bytes
    <2> QED BY <2>1, <2>2 DEF wire
  <1>7. /\ Stream[1] = "head"
        /\ \A i \in 1 .. 4 : Stream[1 + i] = Terminator[i]
    BY <1>1, <1>4, <1>6
  <1>8. \A i \in 1 .. Len(message.wire) : Stream[5 + i] = message.wire[i]
    <2> TAKE i \in 1 .. Len(message.wire)
    <2>1. 5 + i \in 1 .. Len(head) + Len(message.wire) /\ ~(5 + i <= Len(head))
          /\ (5 + i) - Len(head) = i
      BY <1>1, <1>4
    <2> QED BY <2>1, <1>6
  <1> QED BY <1>1, <1>4, <1>6, <1>7, <1>8

LEMMA PartFacts ==
  ASSUME message \in Messages, NEW k \in 0 .. Len(Stream)
  PROVE  /\ Part(k) \in Bytes /\ Len(Part(k)) = k /\ k \in Nat
         /\ \A i \in 1 .. k : Part(k)[i] = Stream[i]
  BY StreamFacts, PrefixFacts DEF Part

\* The head is found when it has arrived, and nowhere else.
LEMMA HeadFound ==
  ASSUME message \in Messages, NEW k \in 0 .. Len(Stream)
  PROVE  PositionOf(Part(k), Terminator, 0) = IF k < 5 THEN Nothing ELSE 1
  <1> DEFINE q == Part(k)
  <1>1. /\ q \in Bytes /\ Len(q) = k /\ k \in Nat
        /\ \A i \in 1 .. k : q[i] = Stream[i]
    BY PartFacts
  <1>2. Stream[1] = "head" /\ \A i \in 1 .. 4 : Stream[1 + i] = Terminator[i]
    BY StreamFacts
  <1> HIDE DEF q
  <1>3. ~At(q, Terminator, 0)
    <2> SUFFICES ASSUME At(q, Terminator, 0) PROVE FALSE
      OBVIOUS
    <2>1. 0 + 4 <= k
      BY <1>1, Delimiters, AtEnds
    <2>2. Slice(q, 0, 4) = Terminator /\ 0 \in Nat /\ 4 \in Nat
      BY Delimiters DEF At
    <2>3. PICK from \in Nat, n \in Nat : from = 0 /\ Slice(q, from, n) = Terminator
      BY <2>2
    <2>4. Terminator[1] = q[1]
      <3>1. \A i \in 1 .. Len(Slice(q, from, n)) : Slice(q, from, n)[i] = q[from + i]
        BY <1>1, SliceFacts
      <3>2. Terminator[1] = q[from + 1]
        BY <2>3, <3>1, Delimiters
      <3> QED BY <2>3, <3>2
    <2>5. q[1] = "head"
      BY <2>1, <1>1, <1>2
    <2> QED BY <2>4, <2>5, Delimiters
  <1>4. CASE k < 5
    <2> DEFINE p == PositionOf(q, Terminator, 0)
    <2>1. \/ p = Nothing
          \/ p \in Nat /\ At(q, Terminator, p) /\ p + Len(Terminator) <= Len(q)
      BY <1>1, Delimiters, PositionFacts
    <2> HIDE DEF p
    <2>2. p \in Nat /\ p + 4 <= k => p = 0
      BY <1>1, <1>4
    <2>3. p = Nothing
      BY <2>1, <2>2, <1>1, <1>3, Delimiters
    <2> QED BY <2>3, <1>4 DEF p, q
  <1>5. CASE k >= 5
    <2>1. At(q, Terminator, 1)
      <3> DEFINE t == Slice(q, 1, 4)
      <3>1. /\ t \in Bytes
            /\ Len(t) = IF 1 + 4 <= Len(q) THEN 4 ELSE IF 1 <= Len(q) THEN Len(q) - 1 ELSE 0
            /\ \A i \in 1 .. Len(t) : t[i] = q[1 + i]
        <4>1. 1 \in Nat /\ 4 \in Nat
          OBVIOUS
        <4> QED BY ONLY <4>1, <1>1, SliceFacts
      <3> HIDE DEF t
      <3>2. Len(t) = 4
        BY <3>1, <1>1, <1>5
      <3>3. \A i \in 1 .. 4 : t[i] = Terminator[i]
        <4> TAKE i \in 1 .. 4
        <4>1. 1 + i \in 1 .. k
          BY <1>1, <1>5
        <4> QED BY <4>1, <3>1, <3>2, <1>1, <1>2
      <3>4. t = Terminator
        BY <3>1, <3>2, <3>3, Delimiters, SeqEqual DEF Bytes
      <3> QED BY <3>4, Delimiters DEF At, t
    <2>2. \A i \in 0 .. 1 - 1 : ~At(q, Terminator, i)
      BY <1>3
    <2>3. ASSUME NEW from \in Nat, NEW e \in Nat, e >= from, At(q, Terminator, e),
                 \A i \in from .. e - 1 : ~At(q, Terminator, i)
          PROVE  PositionOf(q, Terminator, from) = e
      BY <2>3, <1>1, Delimiters, PositionIs
    <2>4. PositionOf(q, Terminator, 0) = 1
      BY <2>1, <2>2, <2>3
    <2>5. ~(k < 5)
      BY <1>1, <1>5
    <2> QED BY <2>4, <2>5 DEF q
  <1> QED BY <1>1, <1>4, <1>5

\* What the reader makes of a head: where the body begins and how it ends.
LEMMA MetaFacts ==
  /\ Meta.kind = "some" /\ Meta.body = 5 /\ Meta.chunked \in BOOLEAN
  /\ Meta.length \in {Nothing} \cup Nat
  /\ Meta.status = message.head.status
  /\ Meta.etag = LastField(message.head, "etag")
  /\ Meta.modified = LastField(message.head, "last-modified")
  /\ Meta.chunked = SaysChunked(message.head)
  /\ Meta.length = SaysLength(message.head)
  <1>1. \A value : Number(value) \in {Nothing} \cup Nat
    <2> TAKE value
    <2>1. \A d \in Decimals : Digits[d] \in Nat
      BY DEF Decimals, Digits
    <2> QED BY <2>1 DEF Number
  <1>2. 1 + Len(Terminator) = 5
    BY Delimiters
  <1>3. SaysChunked(message.head) \in BOOLEAN
    BY DEF SaysChunked
  <1>4. SaysLength(message.head) \in {Nothing} \cup Nat
    BY <1>1 DEF SaysLength
  <1> QED BY <1>2, <1>3, <1>4 DEF Meta, HeadMetadata, EtagField

LEMMA MetadataOfPart ==
  ASSUME message \in Messages, NEW k \in 0 .. Len(Stream)
  PROVE  Metadata(Part(k)) = IF k < 5 THEN None
                             ELSE IF ~message.head.valid THEN Err("head")
                             ELSE Meta
  <1>1. PositionOf(Part(k), Terminator, 0) = IF k < 5 THEN Nothing ELSE 1
    BY HeadFound
  <1>2. 1 # Nothing
    BY NothingAssumption
  <1> QED BY <1>1, <1>2 DEF Metadata, Meta

\* What comes after the head, as far as it has arrived.
LEMMA BodyOfPart ==
  ASSUME message \in Messages, NEW k \in 5 .. Len(Stream)
  PROVE  /\ k - 5 \in 0 .. Len(message.wire)
         /\ Slice(Part(k), 5, Len(Part(k))) = Prefix(message.wire, k - 5)
  <1> DEFINE q == Part(k)
             t == Slice(q, 5, Len(q))
             w == Prefix(message.wire, k - 5)
  <1>1. /\ Len(Stream) = 5 + Len(message.wire)
        /\ message.wire \in Bytes /\ Len(message.wire) \in Nat
        /\ \A i \in 1 .. Len(message.wire) : Stream[5 + i] = message.wire[i]
    BY StreamFacts
  <1>2. k - 5 \in 0 .. Len(message.wire) /\ k \in 0 .. Len(Stream) /\ k \in Nat
    BY <1>1
  <1>3. q \in Bytes /\ Len(q) = k /\ \A i \in 1 .. k : q[i] = Stream[i]
    BY <1>2, PartFacts
  <1>4. w \in Bytes /\ Len(w) = k - 5 /\ \A i \in 1 .. k - 5 : w[i] = message.wire[i]
    BY <1>1, <1>2, PrefixFacts
  <1> HIDE DEF q, w
  <1>5. /\ t \in Bytes
        /\ Len(t) = IF 5 + Len(q) <= Len(q) THEN Len(q)
                    ELSE IF 5 <= Len(q) THEN Len(q) - 5 ELSE 0
        /\ \A i \in 1 .. Len(t) : t[i] = q[5 + i]
    <2>1. 5 \in Nat /\ Len(q) \in Nat
      BY <1>2, <1>3
    <2> QED BY ONLY <2>1, <1>3, SliceFacts
  <1> HIDE DEF t
  <1>6. Len(t) = k - 5
    BY <1>2, <1>3, <1>5
  <1>7. \A i \in 1 .. k - 5 : t[i] = w[i]
    <2> TAKE i \in 1 .. k - 5
    <2>1. 5 + i \in 1 .. k /\ i \in 1 .. Len(message.wire)
      BY <1>1, <1>2
    <2> QED BY <2>1, <1>1, <1>3, <1>4, <1>5, <1>6
  <1>8. t = w
    BY <1>4, <1>5, <1>6, <1>7, SeqEqual DEF Bytes
  <1> QED BY <1>2, <1>8 DEF t, w, q
-----------------------------------------------------------------------------
(***************************************************************************)
(* When the response is complete, and what is made of it.                  *)
(***************************************************************************)
\* A prefix of a prefix is a prefix.
LEMMA PrefixOfPrefix ==
  ASSUME NEW bytes \in Bytes, NEW k \in 0 .. Len(bytes), NEW n \in 0 .. k
  PROVE  /\ n \in 0 .. Len(bytes)
         /\ Prefix(Prefix(bytes, k), n) = Prefix(bytes, n)
         /\ Slice(Prefix(bytes, k), 0, n) = Prefix(bytes, n)
  <1> DEFINE q == Prefix(bytes, k)
             s == Prefix(q, n)
             t == Prefix(bytes, n)
  <1>1. Len(bytes) \in Nat /\ n \in 0 .. Len(bytes) /\ n \in Nat /\ n <= k
    BY DEF Bytes
  <1>2. q \in Bytes /\ Len(q) = k /\ \A i \in 1 .. k : q[i] = bytes[i]
    BY PrefixFacts
  <1>3. t \in Bytes /\ Len(t) = n /\ \A i \in 1 .. n : t[i] = bytes[i]
    BY <1>1, PrefixFacts
  <1>4. Slice(q, 0, n) = s
    <2>1. 0 + n <= Len(q) /\ 0 + n = n /\ 0 + 1 = 1
      BY <1>1, <1>2
    <2> HIDE DEF q
    <2> QED BY <2>1 DEF Slice, Prefix
  <1> HIDE DEF q, t
  <1>5. s \in Bytes /\ Len(s) = n /\ \A i \in 1 .. n : s[i] = q[i]
    BY <1>1, <1>2, PrefixFacts
  <1> HIDE DEF s
  <1>6. \A i \in 1 .. n : s[i] = t[i]
    BY <1>1, <1>2, <1>3, <1>5
  <1>7. s = t
    BY <1>3, <1>5, <1>6, SeqEqual DEF Bytes
  <1> QED BY <1>1, <1>4, <1>7 DEF q, s, t

\* What has arrived of what follows the head.
Rest(k) == Prefix(message.wire, k - 5)

\* The parser and the length judge the head alike, and then the rest.
LEMMA PartJudged ==
  ASSUME message \in Messages, NEW k \in 0 .. Len(Stream)
  PROVE  /\ CompleteLen(Part(k)) = IF k < 5 THEN None
                                   ELSE IF ~message.head.valid THEN Err("head")
                                   ELSE CompleteAt(Meta, Rest(k))
         /\ Parse(Part(k)) = IF k < 5 \/ ~message.head.valid THEN Err("head")
                             ELSE Result(Meta, BodyOf(Meta, Rest(k)))
  <1>1. Metadata(Part(k)) = IF k < 5 THEN None
                            ELSE IF ~message.head.valid THEN Err("head")
                            ELSE Meta
    BY MetadataOfPart
  <1>2. /\ None.kind = "none" /\ Err("head").kind = "err"
        /\ Meta.kind = "some" /\ Meta.body = 5
    BY MetaFacts DEF None, Err
  <1>3. ~(k < 5) => Slice(Part(k), Meta.body, Len(Part(k))) = Rest(k)
    <2> SUFFICES ASSUME ~(k < 5) PROVE Slice(Part(k), 5, Len(Part(k))) = Rest(k)
      BY <1>2
    <2>1. k \in 5 .. Len(Stream)
      BY StreamFacts
    <2> QED BY <2>1, BodyOfPart DEF Rest
  <1> HIDE DEF Meta
  <1>4. CompleteLen(Part(k)) = IF k < 5 THEN None
                               ELSE IF ~message.head.valid THEN Err("head")
                               ELSE CompleteAt(Meta, Rest(k))
    BY <1>1, <1>2, <1>3 DEF CompleteLen
  <1>5. Parse(Part(k)) = IF k < 5 \/ ~message.head.valid THEN Err("head")
                         ELSE Result(Meta, BodyOf(Meta, Rest(k)))
    BY <1>1, <1>2, <1>3 DEF Parse
  <1> QED BY <1>4, <1>5

LEMMA WireOutcomeType ==
  ASSUME NEW body \in Bytes
  PROVE  chunked_wire_len(body) \in WireOutcomes
  <1>1. PICK scan : Scanning(scan, body) /\ chunked_wire_len(body) = scan[0]
    BY WireSteps
  <1>2. 0 \in 0 .. Len(body)
    BY DEF Bytes
  <1> QED BY <1>1, <1>2 DEF Scanning

\* The outcome for a body: not complete, wrong, or complete within what there
\* is, and then what is complete is a body in full.
LEMMA CompleteOutcome ==
  ASSUME NEW body \in Bytes
  PROVE  LET complete == CompleteAt(Meta, body)
         IN  \/ complete = None
             \/ complete \in Errors
             \/ /\ complete.kind = "some"
                /\ complete.len \in 5 .. 5 + Len(body)
                /\ BodyOf(Meta, Prefix(body, complete.len - 5)).kind = "ok"
  <1> DEFINE complete == CompleteAt(Meta, body)
             wire == chunked_wire_len(body)
  <1>1. Meta.body = 5 /\ Meta.length \in {Nothing} \cup Nat
    BY MetaFacts
  <1>2. Len(body) \in Nat
    BY DEF Bytes
  <1>3. CASE Meta.chunked
    <2>1. complete = Shifted(wire, 5)
      BY <1>1, <1>3 DEF CompleteAt
    <2>2. wire \in WireOutcomes
      BY WireOutcomeType
    <2>3. CASE wire.kind = "some"
      <3>1. wire = Some(wire.len) /\ wire.len \in Nat
        BY <2>2, <2>3 DEF WireOutcomes, None, Errors, Some
      <3>2. /\ wire.len \in 0 .. Len(body)
            /\ decode_chunked_body(Prefix(body, wire.len)).kind = "ok"
        BY <3>1, WireEndDecodes
      <3>3. complete = Some(5 + wire.len)
        BY <2>1, <2>3 DEF Shifted
      <3>4. complete.kind = "some" /\ complete.len = 5 + wire.len
        BY <3>3 DEF Some
      <3> HIDE DEF complete, wire
      <3>5. complete.len - 5 = wire.len /\ complete.len \in 5 .. 5 + Len(body)
        BY <3>1, <3>2, <3>4, <1>2
      <3>6. BodyOf(Meta, Prefix(body, complete.len - 5)).kind = "ok"
        BY <3>2, <3>5, <1>3 DEF BodyOf
      <3> QED BY <3>4, <3>5, <3>6 DEF complete
    <2>4. CASE wire.kind # "some"
      <3>1. complete = wire
        BY <2>1, <2>4 DEF Shifted
      <3> QED BY <3>1, <2>2, <2>4 DEF WireOutcomes
    <2> QED BY <2>3, <2>4
  <1>4. CASE ~Meta.chunked
    <2>1. CASE Meta.length # Nothing /\ BodyArrived(body, Meta.length)
      <3> DEFINE n == Meta.length
                 whole == Prefix(body, n)
      <3>1. n \in Nat /\ n <= Len(body) /\ n \in 0 .. Len(body)
        BY <2>1, <1>1, <1>2 DEF BodyArrived
      <3>2. complete = Some(5 + n)
        BY <2>1, <1>1, <1>4 DEF CompleteAt
      <3>3. complete.kind = "some" /\ complete.len = 5 + n
        BY <3>2 DEF Some
      <3> HIDE DEF complete
      <3>4. complete.len - 5 = n /\ complete.len \in 5 .. 5 + Len(body)
        <4> HIDE DEF n
        <4> QED BY <3>1, <3>3, <1>2
      <3>5. Len(whole) = n
        BY <3>1, PrefixFacts
      <3>6. ~(Len(whole) < n) /\ n # Nothing
        <4>1. n # Nothing
          BY <2>1
        <4> HIDE DEF n, whole
        <4> QED BY <4>1, <3>1, <3>5
      <3>7. BodyOf(Meta, whole) = Ok(Slice(whole, 0, Meta.length))
        BY <3>6, <1>4 DEF BodyOf
      <3>8. BodyOf(Meta, whole).kind = "ok"
        BY <3>7 DEF Ok
      <3> QED BY <3>3, <3>4, <3>8 DEF complete
    <2>2. CASE ~(Meta.length # Nothing /\ BodyArrived(body, Meta.length))
      BY <2>2, <1>4 DEF CompleteAt
    <2> QED BY <2>1, <2>2
  <1> QED BY <1>3, <1>4

\* What is decided for a prefix is decided for the whole.
LEMMA CompleteStable ==
  ASSUME NEW body \in Bytes, NEW k \in 0 .. Len(body),
         CompleteAt(Meta, Prefix(body, k)) # None
  PROVE  CompleteAt(Meta, body) = CompleteAt(Meta, Prefix(body, k))
  <1> DEFINE q == Prefix(body, k)
  <1>1. q \in Bytes /\ Len(q) = k /\ k \in Nat /\ Len(body) \in Nat /\ k <= Len(body)
    BY PrefixFacts, LengthIsNat
  <1>2. Meta.length \in {Nothing} \cup Nat
    BY MetaFacts
  <1>3. CASE Meta.chunked
    <2>1. None.kind # "some"
      BY DEF None
    <2>2. chunked_wire_len(q) # None
      BY <1>3, <2>1 DEF CompleteAt, Shifted
    <2>3. chunked_wire_len(body) = chunked_wire_len(q)
      BY <2>2, WireStable
    <2> QED BY <2>3, <1>3 DEF CompleteAt
  <1>4. CASE ~Meta.chunked
    <2>1. Meta.length # Nothing /\ BodyArrived(q, Meta.length)
      BY <1>4 DEF CompleteAt
    <2>2. BodyArrived(body, Meta.length)
      <3> HIDE DEF q
      <3> QED BY <2>1, <1>1, <1>2 DEF BodyArrived
    <2> QED BY <2>1, <2>2, <1>4 DEF CompleteAt
  <1> QED BY <1>3, <1>4

\* The last field of a name is one of that name.
LEMMA LastFieldType ==
  ASSUME message \in Messages, NEW name
  PROVE  LastField(message.head, name) \in FieldValues(name)
  <1> DEFINE fields == message.head.fields
             at == {i \in DOMAIN fields : fields[i].name = name}
  <1>1. DOMAIN fields = 1 .. Len(fields) /\ Len(fields) \in Nat
    <2>1. fields \in Seq([name : Headers, value : STRING])
      BY MessageAssumption
    <2> HIDE DEF fields
    <2> QED BY <2>1
  <1>2. CASE at = {}
    BY <1>2 DEF LastField, FieldValues
  <1>3. CASE at # {}
    <2>1. LastField(message.head, name) = fields[Max(at)].value
      BY <1>3 DEF LastField
    <2>2. Max(at) \in at
      <3> DEFINE n == Len(fields)
                 T == {j \in 0 .. n : n - j \in at}
      <3>1. at \subseteq 1 .. n
        BY <1>1
      <3> HIDE DEF at
      <3>2. T \subseteq Nat /\ T # {}
        <4>1. PICK i \in at : TRUE
          BY <1>3
        <4>2. i \in 1 .. n /\ n - i \in 0 .. n /\ n - (n - i) = i
          BY <4>1, <3>1, <1>1
        <4>3. n - i \in T
          BY <4>1, <4>2
        <4> QED BY <4>3, <1>1
      <3>3. PICK j \in T : \A m \in T : j <= m
        <4> HIDE DEF T
        <4> QED BY <3>2, LeastElement
      <3>4. \A i \in at : n - j >= i
        <4> TAKE i \in at
        <4>1. i \in 1 .. n /\ n - i \in 0 .. n /\ n - (n - i) = i
          BY <3>1, <1>1
        <4>2. n - i \in T
          BY <4>1
        <4>3. j <= n - i
          BY <3>3, <4>2
        <4> HIDE DEF n, T
        <4> QED BY <3>2, <3>3, <4>1, <4>3, <1>1 DEF n
      <3>5. n - j \in at
        BY <3>3
      <3> HIDE DEF n
      <3> QED BY <3>4, <3>5 DEF Max
    <2>3. fields[Max(at)].value \in FieldValues(name)
      BY <2>2 DEF FieldValues
    <2> QED BY <2>1, <2>3
  <1> QED BY <1>2, <1>3

\* What a caller may be given: TypeOK's cases for a result.
IsAnError(r) == r.kind = "err" /\ r.why \in ErrorCauses

IsAResponse(r) ==
  /\ r.kind = "ok"
  /\ Len(r.body) <= Len(message.wire)
  /\ r.status = message.head.status
  /\ r.etag \in FieldValues("etag")
  /\ r.modified \in FieldValues("last-modified")

LEMMA BodyType ==
  ASSUME NEW body \in Bytes
  PROVE  \/ BodyOf(Meta, body) \in Errors
         \/ BodyOf(Meta, body).kind = "ok" /\ Len(BodyOf(Meta, body).body) <= Len(body)
  <1>1. Meta.length \in {Nothing} \cup Nat /\ Len(body) \in Nat
    BY MetaFacts DEF Bytes
  <1>2. CASE Meta.chunked
    <2> DEFINE decoded == decode_chunked_body(body)
    <2>1. BodyOf(Meta, body) = decoded
      BY <1>2 DEF BodyOf
    <2>2. decoded \in Decodings
          /\ (decoded.kind = "ok" => Len(decoded.body) <= Len(body))
      BY DecodedLength
    <2> HIDE DEF decoded
    <2> QED BY <2>1, <2>2 DEF Decodings
  <1>3. CASE ~Meta.chunked /\ Meta.length = Nothing
    BY <1>1, <1>3 DEF BodyOf, Ok
  <1>4. CASE ~Meta.chunked /\ Meta.length # Nothing
    <2> DEFINE n == Meta.length
    <2>1. n \in Nat
      BY <1>1, <1>4
    <2>2. CASE Len(body) < n
      <3>1. BodyOf(Meta, body) = Err("short")
        BY <1>4, <2>2 DEF BodyOf
      <3> QED BY <3>1 DEF Err, Errors, ErrorCauses
    <2>3. CASE ~(Len(body) < n)
      <3>1. BodyOf(Meta, body) = Ok(Slice(body, 0, n))
        BY <1>4, <2>3 DEF BodyOf
      <3>2. Len(Slice(body, 0, n)) = n
        <4> HIDE DEF n
        <4>1. PICK from \in Nat : from = 0
          OBVIOUS
        <4>2. from + n <= Len(body)
          BY <4>1, <2>1, <2>3, <1>1
        <4>3. Len(Slice(body, from, n)) = n
          BY <4>2, <2>1, SliceFacts
        <4> QED BY <4>1, <4>3
      <3>3. n <= Len(body)
        <4> HIDE DEF n
        <4> QED BY <2>1, <2>3, <1>1
      <3> QED BY <3>1, <3>2, <3>3 DEF Ok
    <2> QED BY <2>2, <2>3
  <1> QED BY <1>2, <1>3, <1>4

LEMMA ParseType ==
  ASSUME message \in Messages, NEW k \in 0 .. Len(Stream)
  PROVE  IsAnError(Parse(Part(k))) \/ IsAResponse(Parse(Part(k)))
  <1>1. IsAnError(Err("head"))
    BY DEF IsAnError, Err, ErrorCauses
  <1>2. CASE k < 5 \/ ~message.head.valid
    BY <1>1, <1>2, PartJudged
  <1>3. CASE ~(k < 5 \/ ~message.head.valid)
    <2> DEFINE body == BodyOf(Meta, Rest(k))
    <2>1. Parse(Part(k)) = Result(Meta, body)
      BY <1>3, PartJudged
    <2>2. message.wire \in Bytes /\ Len(message.wire) \in Nat /\ Len(Stream) = 5 + Len(message.wire)
      BY StreamFacts
    <2>3. k - 5 \in 0 .. Len(message.wire)
      BY <1>3, <2>2
    <2>4. Rest(k) \in Bytes /\ Len(Rest(k)) = k - 5
      BY <2>2, <2>3, PrefixFacts DEF Rest
    <2>5. body \in Errors \/ (body.kind = "ok" /\ Len(body.body) <= k - 5)
      BY <2>4, BodyType
    <2>6. CASE body \in Errors
      <3>1. body.kind = "err" /\ body.why \in ErrorCauses
        BY <2>6 DEF Errors
      <3>2. Parse(Part(k)) = body
        BY <2>1, <3>1 DEF Result
      <3> QED BY <3>1, <3>2 DEF IsAnError
    <2>7. CASE body.kind = "ok" /\ Len(body.body) <= k - 5
      <3> DEFINE r == Parse(Part(k))
      <3>1. r = [kind |-> "ok", body |-> body.body, status |-> Meta.status,
                 etag |-> Meta.etag, modified |-> Meta.modified]
        BY <2>1, <2>7 DEF Result
      <3>2. /\ r.kind = "ok" /\ r.body = body.body /\ r.status = Meta.status
            /\ r.etag = Meta.etag /\ r.modified = Meta.modified
        BY <3>1
      <3> DEFINE b == body.body
      <3>3. Len(b) <= k - 5 /\ r.body = b
        BY <2>7, <3>2
      <3>4. Len(b) <= Len(message.wire)
        BY <3>3, <2>2, <2>3
      <3>5. r.status = message.head.status
            /\ r.etag \in FieldValues("etag") /\ r.modified \in FieldValues("last-modified")
        BY <3>2, MetaFacts, LastFieldType
      <3> QED BY <3>2, <3>4, <3>5 DEF IsAResponse
    <2> QED BY <2>5, <2>6, <2>7
  <1> QED BY <1>2, <1>3
-----------------------------------------------------------------------------
(***************************************************************************)
(* The answer for the bytes read so far.                                   *)
(***************************************************************************)
LEMMA AnswerOfPart ==
  ASSUME message \in Messages, NEW k \in 0 .. Len(Stream)
  PROVE  LET complete == CompleteLen(Part(k))
         IN  /\ complete = None => Answer(Part(k)) = None
             /\ complete # None => Answer(Part(k)) # None
             /\ complete \in Errors => Answer(Part(k)) = complete
             /\ complete.kind = "some" =>
                  /\ complete.len \in 5 .. k
                  /\ Answer(Part(k)) = Parse(Part(complete.len))
                  /\ Answer(Part(k)).kind = "ok"
             /\ \/ complete = None
                \/ complete \in Errors
                \/ complete.kind = "some"
  <1> DEFINE complete == CompleteLen(Part(k))
             at == CompleteAt(Meta, Rest(k))
  <1>1. /\ complete = IF k < 5 THEN None
                      ELSE IF ~message.head.valid THEN Err("head") ELSE at
    BY PartJudged
  <1>2. message.wire \in Bytes /\ Len(message.wire) \in Nat /\ Len(Stream) = 5 + Len(message.wire)
    BY StreamFacts
  <1>3. None.kind = "none" /\ Err("head") \in Errors /\ \A e \in Errors : e.kind = "err"
    BY DEF None, Err, Errors, ErrorCauses
  <1>4. ASSUME complete.kind # "some"
        PROVE  Answer(Part(k)) = complete
    BY <1>4 DEF Answer
  <1>5. CASE complete.kind = "some"
    <2>1. ~(k < 5) /\ message.head.valid /\ complete = at
      BY <1>1, <1>3, <1>5
    <2>2. k - 5 \in 0 .. Len(message.wire) /\ k \in Nat
      BY <2>1, <1>2
    <2>3. Rest(k) \in Bytes /\ Len(Rest(k)) = k - 5
      BY <1>2, <2>2, PrefixFacts DEF Rest
    <2> DEFINE n == complete.len
    <2>4. n \in 5 .. 5 + Len(Rest(k)) /\ BodyOf(Meta, Prefix(Rest(k), n - 5)).kind = "ok"
      BY <2>1, <2>3, <1>3, <1>5, CompleteOutcome
    <2> HIDE DEF n
    <2>5. n \in 5 .. k /\ n \in 0 .. k /\ n - 5 \in 0 .. k - 5
      BY <2>2, <2>3, <2>4
    <2>6. Prefix(Rest(k), n - 5) = Rest(n)
      BY <1>2, <2>2, <2>5, PrefixOfPrefix DEF Rest
    <2>7. Slice(Part(k), 0, n) = Part(n) /\ n \in 0 .. Len(Stream)
      BY <2>5, StreamFacts, PrefixOfPrefix DEF Part
    <2>8. Answer(Part(k)) = Parse(Part(n))
      BY <2>7, <1>5 DEF Answer, n
    <2>9. Parse(Part(n)) = Result(Meta, BodyOf(Meta, Rest(n)))
      <3>1. ~(n < 5 \/ ~message.head.valid)
        BY <2>1, <2>5
      <3> QED BY <3>1, <2>7, PartJudged
    <2>10. Parse(Part(n)).kind = "ok"
      BY <2>4, <2>6, <2>9 DEF Result
    <2>11. complete # None /\ complete \notin Errors /\ Answer(Part(k)) # None
      BY <1>3, <1>5, <2>8, <2>10
    <2> HIDE DEF complete
    <2> QED BY <1>5, <2>5, <2>8, <2>10, <2>11 DEF n, complete
  <1>6. CASE complete.kind # "some"
    <2>1. complete = None \/ complete \in Errors
      <3>1. CASE k < 5 \/ ~message.head.valid
        BY <1>1, <1>3, <3>1
      <3>2. CASE ~(k < 5 \/ ~message.head.valid)
        <4>1. complete = at /\ k - 5 \in 0 .. Len(message.wire)
          BY <1>1, <1>2, <3>2
        <4>2. Rest(k) \in Bytes
          BY <1>2, <4>1, PrefixFacts DEF Rest
        <4> QED BY <4>1, <4>2, <1>6, CompleteOutcome
      <3> QED BY <3>1, <3>2
    <2>2. Answer(Part(k)) = complete
      BY <1>4, <1>6
    <2> HIDE DEF complete
    <2> QED BY <2>1, <2>2, <1>6 DEF complete
  <1> QED BY <1>5, <1>6

LEMMA WholeStream ==
  ASSUME message \in Messages
  PROVE  Part(Len(Stream)) = Stream
  <1> DEFINE all == Len(Stream)
  <1>1. Stream \in Bytes /\ all \in 0 .. all
    BY StreamFacts
  <1>2. /\ Part(all) \in Bytes /\ Len(Part(all)) = all
        /\ \A i \in 1 .. all : Part(all)[i] = Stream[i]
    BY <1>1, PartFacts
  <1> QED BY <1>1, <1>2, SeqEqual DEF Bytes

\* An answer, once there is one, is the answer for the whole stream.
LEMMA AnswerStable ==
  ASSUME message \in Messages, NEW k \in 0 .. Len(Stream), Answer(Part(k)) # None
  PROVE  Answer(Stream) = Answer(Part(k))
  <1> DEFINE all == Len(Stream)
             here == CompleteLen(Part(k))
             there == CompleteLen(Part(all))
  <1>1. message.wire \in Bytes /\ Len(message.wire) \in Nat /\ all = 5 + Len(message.wire)
        /\ Stream \in Bytes
    BY StreamFacts
  <1>2. all \in 0 .. Len(Stream) /\ k \in Nat
    BY <1>1
  <1>3. Part(all) = Stream
    BY WholeStream
  <1>4. here # None
    BY AnswerOfPart
  <1>5. here = IF k < 5 THEN None
               ELSE IF ~message.head.valid THEN Err("head") ELSE CompleteAt(Meta, Rest(k))
    BY PartJudged
  <1>6. there = IF all < 5 THEN None
                ELSE IF ~message.head.valid THEN Err("head") ELSE CompleteAt(Meta, Rest(all))
    BY <1>2, PartJudged
  <1>7. ~(k < 5) /\ ~(all < 5) /\ k - 5 \in 0 .. Len(message.wire)
    BY <1>1, <1>2, <1>4, <1>5
  <1>8. there = here
    <2>1. CASE ~message.head.valid
      BY <2>1, <1>5, <1>6, <1>7
    <2>2. CASE message.head.valid
      <3> DEFINE w == message.wire
      <3>1. CompleteAt(Meta, Prefix(w, k - 5)) # None
        BY <2>2, <1>4, <1>5, <1>7 DEF Rest
      <3>2. w \in Bytes /\ k - 5 \in 0 .. Len(w)
        BY <1>1, <1>7
      <3>3. CompleteAt(Meta, w) = CompleteAt(Meta, Prefix(w, k - 5))
        <4> HIDE DEF w
        <4> QED BY <3>1, <3>2, CompleteStable
      <3>4. Rest(all) = w
        <4>1. all - 5 = Len(w) /\ Len(w) \in 0 .. Len(w)
          BY <1>1
        <4>2. Rest(all) = Prefix(w, Len(w))
          BY <4>1 DEF Rest
        <4> HIDE DEF w
        <4>3. /\ Prefix(w, Len(w)) \in Bytes /\ Len(Prefix(w, Len(w))) = Len(w)
              /\ \A i \in 1 .. Len(w) : Prefix(w, Len(w))[i] = w[i]
          BY <3>2, <4>1, PrefixFacts
        <4>4. Prefix(w, Len(w)) = w
          BY <3>2, <4>3, SeqEqual DEF Bytes
        <4> QED BY <4>2, <4>4
      <3> QED BY <2>2, <3>3, <3>4, <1>5, <1>6, <1>7 DEF Rest
    <2> QED BY <2>1, <2>2
  <1>9. CASE here \in Errors
    BY <1>2, <1>3, <1>8, <1>9, AnswerOfPart
  <1>10. CASE here.kind = "some"
    BY <1>2, <1>3, <1>8, <1>10, AnswerOfPart
  <1> QED BY <1>4, <1>9, <1>10, AnswerOfPart
-----------------------------------------------------------------------------
(***************************************************************************)
(* The read loop.  The inductive invariant says what the answer was while  *)
(* the loop went on, and where its result comes from once it has ended.    *)
(***************************************************************************)
LoopInv ==
  /\ message \in Messages
  /\ pc \in {"reading", "done"}
  /\ got \in 0 .. Len(Stream)
  /\ ending \in {Nothing} \cup Endings
  /\ pc = "reading" => ending = Nothing /\ result = Nothing
  /\ pc = "reading" \/ ending # Nothing => Answer(Part(got)) = None
  /\ pc = "done" /\ ending = Nothing => result = Answer(Part(got)) /\ result # None
  /\ ending = "closed" => result = Parse(Part(got))
  /\ ending = "eof" => result = Err("eof")
  /\ ending = "error" => result = Err("io")

LEMMA EndingsDiffer ==
  /\ Nothing \notin Endings
  /\ Endings = {"closed", "eof", "error"}
  BY NothingAssumption DEF Endings

\* What is said about a prefix depends on the message, which no step changes.
LEMMA SameMessage ==
  ASSUME message' = message
  PROVE  /\ Stream' = Stream
         /\ Answer(Part(got))' = Answer(Part(got'))
         /\ Parse(Part(got))' = Parse(Part(got'))
  <1>1. Stream' = Stream
    BY DEF Stream
  <1>2. Part(got)' = Part(got')
    BY <1>1 DEF Part, Prefix
  <1>3. ASSUME NEW bytes PROVE Metadata(bytes)' = Metadata(bytes)
    BY DEF Metadata
  <1>4. ASSUME NEW bytes PROVE CompleteLen(bytes)' = CompleteLen(bytes) /\ Parse(bytes)' = Parse(bytes)
    BY <1>3 DEF CompleteLen, Parse
  <1>5. ASSUME NEW bytes PROVE Answer(bytes)' = Answer(bytes)
    BY <1>4 DEF Answer
  <1>6. /\ Answer(Part(got))' = Answer(Part(got'))
        /\ Parse(Part(got))' = Parse(Part(got'))
    BY <1>2, <1>4, <1>5
  <1> QED BY <1>1, <1>6

LEMMA StartOfLoop ==
  ASSUME Init PROVE LoopInv
  <1>1. message \in Messages /\ got = 0 /\ 0 \in 0 .. Len(Stream)
    BY StreamFacts DEF Init
  <1>2. CompleteLen(Part(0)) = None
    BY <1>1, PartJudged
  <1>3. Answer(Part(0)) = None
    BY <1>1, <1>2, AnswerOfPart
  <1> QED BY <1>1, <1>3, EndingsDiffer DEF Init, LoopInv

LEMMA StepOfLoop ==
  ASSUME LoopInv, [Next]_vars PROVE LoopInv'
  <1>1. CASE UNCHANGED vars
    <2>1. message' = message /\ UNCHANGED <<pc, got, ending, result>>
      BY <1>1 DEF vars
    <2> QED BY <2>1, SameMessage DEF LoopInv
  <1>2. CASE ReadBytes
    <2>1. PICK n \in 1 .. BufLen :
            /\ got + n <= Len(Stream) /\ got' = got + n
            /\ \/ Answer(SubSeq(Stream, 1, got + n)) = None /\ UNCHANGED <<pc, result>>
               \/ /\ Answer(SubSeq(Stream, 1, got + n)) # None
                  /\ Return(Answer(SubSeq(Stream, 1, got + n)))
      BY <1>2 DEF ReadBytes
    <2>2. pc = "reading" /\ UNCHANGED <<message, ending>>
      BY <1>2 DEF ReadBytes
    <2>3. got' \in 0 .. Len(Stream)
      <3>1. Len(Stream) \in Nat /\ got \in Nat
        BY StreamFacts DEF LoopInv
      <3> QED BY <2>1, <3>1, BufAssumption
    <2>4. SubSeq(Stream, 1, got + n) = Part(got')
      BY <2>1 DEF Part, Prefix
    <2>5. \/ Answer(Part(got')) = None /\ UNCHANGED <<pc, result>>
          \/ Answer(Part(got')) # None /\ pc' = "done" /\ result' = Answer(Part(got'))
      BY <2>1, <2>4 DEF Return
    <2> QED BY <2>2, <2>3, <2>5, SameMessage, EndingsDiffer DEF LoopInv
  <1>3. CASE ReadEnd
    <2>1. /\ pc = "reading" /\ pc' = "done" /\ ending' = "closed"
          /\ result' = Parse(Part(got)) /\ UNCHANGED <<message, got>>
      BY <1>3 DEF ReadEnd, Return, response, Part, Prefix
    <2> QED BY <2>1, SameMessage, EndingsDiffer DEF LoopInv
  <1>4. CASE ReadUnexpectedEof
    <2>1. Answer(Part(got)) = None
      BY <1>4 DEF LoopInv, ReadUnexpectedEof
    <2>2. AfterEof = Err("eof")
      BY <2>1 DEF AfterEof, OrElse, response, Part, Prefix
    <2>3. /\ pc = "reading" /\ pc' = "done" /\ ending' = "eof"
          /\ result' = Err("eof") /\ UNCHANGED <<message, got>>
      BY <1>4, <2>2 DEF ReadUnexpectedEof, Return
    <2> QED BY <2>1, <2>3, SameMessage, EndingsDiffer DEF LoopInv
  <1>5. CASE ReadFails
    <2>1. /\ pc = "reading" /\ pc' = "done" /\ ending' = "error"
          /\ result' = Err("io") /\ UNCHANGED <<message, got>>
      BY <1>5 DEF ReadFails, Return
    <2> QED BY <2>1, SameMessage, EndingsDiffer DEF LoopInv
  <1> QED BY <1>1, <1>2, <1>3, <1>4, <1>5 DEF Next

THEOREM Inductive == Spec => []LoopInv
  BY StartOfLoop, StepOfLoop, PTL DEF Spec

(***************************************************************************)
(* Every result is an error of a known cause, or a response whose body is  *)
(* no longer than what was sent and whose status and validators are the    *)
(* message's own (TypeOK; https_get_via_ip, src/http.rs:20-95).            *)
(***************************************************************************)
THEOREM TypeCorrect == Spec => []TypeOK
  <1>1. ASSUME LoopInv PROVE TypeOK
    <2>1. message \in Messages /\ got \in 0 .. Len(Stream)
      BY <1>1 DEF LoopInv
    <2>2. \A why \in ErrorCauses : IsAnError(Err(why))
      BY DEF IsAnError, Err
    <2>3. result = Nothing \/ IsAnError(result) \/ IsAResponse(result)
      <3>1. CASE pc = "reading"
        BY <1>1, <3>1 DEF LoopInv
      <3>2. CASE pc = "done" /\ ending = Nothing
        <4> DEFINE complete == CompleteLen(Part(got))
        <4>1. result = Answer(Part(got)) /\ result # None
          BY <1>1, <3>2 DEF LoopInv
        <4>2. CASE complete.kind = "some"
          <5>1. complete.len \in 5 .. got /\ result = Parse(Part(complete.len))
            BY <2>1, <4>1, <4>2, AnswerOfPart
          <5>2. complete.len \in 0 .. Len(Stream)
            <6> HIDE DEF complete
            <6> QED BY <2>1, <5>1, StreamFacts
          <5> HIDE DEF complete
          <5> QED BY <2>1, <5>1, <5>2, ParseType
        <4>3. CASE complete \in Errors
          <5>1. result \in Errors
            BY <2>1, <4>1, <4>3, AnswerOfPart
          <5> QED BY <5>1 DEF IsAnError, Errors
        <4> QED BY <2>1, <4>1, <4>2, <4>3, AnswerOfPart
      <3>3. CASE pc = "done" /\ ending = "closed"
        <4>1. result = Parse(Part(got))
          BY <1>1, <3>3, EndingsDiffer DEF LoopInv
        <4> QED BY <2>1, <4>1, ParseType
      <3>4. CASE pc = "done" /\ ending \in {"eof", "error"}
        <4>1. result \in {Err("eof"), Err("io")}
          BY <1>1, <3>4, EndingsDiffer DEF LoopInv
        <4> QED BY <2>2, <4>1 DEF ErrorCauses
      <3> QED BY <1>1, <3>1, <3>2, <3>3, <3>4, EndingsDiffer DEF LoopInv
    <2> QED BY <1>1, <2>3 DEF LoopInv, TypeOK, IsAnError, IsAResponse
  <1> QED BY <1>1, Inductive, PTL

(***************************************************************************)
(* However a message is cut into reads, and whether or not it is well      *)
(* formed, the result is that of reading it all at once: no answer given   *)
(* for a prefix is revised by the bytes that come after it                 *)
(* (FragmentationIndependent; src/http.rs:67-76, :202-244).                *)
(***************************************************************************)
THEOREM FragmentationDoesNotMatter == Spec => []FragmentationIndependent
  <1>1. ASSUME LoopInv PROVE FragmentationIndependent
    <2>1. message \in Messages /\ got \in 0 .. Len(Stream)
      BY <1>1 DEF LoopInv
    <2>2. CASE pc = "done" /\ ending = Nothing
      <3>1. result = Answer(Part(got)) /\ result # None
        BY <1>1, <2>2 DEF LoopInv
      <3>2. Answer(Stream) = result
        BY <2>1, <3>1, AnswerStable
      <3> QED BY <3>1, <3>2 DEF FragmentationIndependent, InOneRead, OrElse
    <2>3. CASE pc = "done" /\ ending \in {"closed", "eof"} /\ got = Len(Stream)
      <3>1. Part(got) = Stream
        BY <2>1, <2>3, WholeStream
      <3>2. Answer(Stream) = None
        BY <1>1, <2>3, <3>1, EndingsDiffer DEF LoopInv
      <3>3. result = IF ending = "closed" THEN Parse(Stream) ELSE Err("eof")
        BY <1>1, <2>3, <3>1, EndingsDiffer DEF LoopInv
      <3> QED BY <3>2, <3>3 DEF FragmentationIndependent, InOneRead, OrElse
    <2> QED BY <1>1, <2>2, <2>3, EndingsDiffer DEF LoopInv, FragmentationIndependent
  <1> QED BY <1>1, Inductive, PTL

(***************************************************************************)
(* What the length calls complete the parser accepts: the scanner that     *)
(* looks for the end of the chunks and the decoder that puts them together *)
(* never disagree (LengthAgreesWithParse; src/http.rs:104-130, :183-285).  *)
(***************************************************************************)
THEOREM LengthAgrees == Spec => []LengthAgreesWithParse
  <1>1. ASSUME LoopInv PROVE LengthAgreesWithParse
    <2> SUFFICES ASSUME pc = "done", ending = Nothing, CompleteLen(response).kind = "some"
                 PROVE  result.kind = "ok"
      BY DEF LengthAgreesWithParse
    <2>1. message \in Messages /\ got \in 0 .. Len(Stream) /\ result = Answer(Part(got))
      BY <1>1 DEF LoopInv
    <2>2. response = Part(got)
      BY DEF response, Part, Prefix
    <2> QED BY <2>1, <2>2, AnswerOfPart
  <1> QED BY <1>1, Inductive, PTL

(***************************************************************************)
(* A connection that ends without a TLS close never yields a response: one *)
(* that was complete has been returned before, so the parse after an       *)
(* UnexpectedEof finds nothing left to accept (src/http.rs:78-86).         *)
(***************************************************************************)
THEOREM NothingAfterUnexpectedEof == Spec => [](ending = "eof" => result = Err("eof"))
  <1>1. ASSUME LoopInv PROVE ending = "eof" => result = Err("eof")
    BY <1>1, EndingsDiffer DEF LoopInv
  <1> QED BY <1>1, Inductive, PTL
-----------------------------------------------------------------------------
(***************************************************************************)
(* Messages with a meaning.                                                *)
(***************************************************************************)
\* What is parsed of a message is the body it stands for.
LEMMA ParsedBody ==
  ASSUME message \in Messages, NEW k \in 0 .. Len(Stream), Parse(Part(k)).kind = "ok"
  PROVE  /\ message.kind \in {"framed", "trailed"} => Parse(Part(k)).body = message.means
         /\ message.kind = "untilClose" => k >= 5 /\ Parse(Part(k)).body = Rest(k)
  <1> DEFINE wire == message.wire
             read == BodyOf(Meta, Rest(k))
  <1>1. wire \in Bytes /\ Len(wire) \in Nat /\ Len(Stream) = 5 + Len(wire)
    BY StreamFacts
  <1>2. k >= 5 /\ Parse(Part(k)) = Result(Meta, read)
    <2>1. Err("head").kind = "err"
      BY DEF Err
    <2>2. ~(k < 5 \/ ~message.head.valid)
      BY <2>1, PartJudged
    <2>3. Parse(Part(k)) = Result(Meta, read)
      BY <2>2, PartJudged
    <2>4. k \in Int
      OBVIOUS
    <2> QED BY <2>2, <2>3, <2>4
  <1>3. read.kind # "err" /\ Parse(Part(k)).body = read.body
    <2> HIDE DEF read
    <2>1. read.kind # "err"
      BY <1>2 DEF Result
    <2> QED BY <1>2, <2>1 DEF Result
  <1>4. k - 5 \in 0 .. Len(wire) /\ Rest(k) = Prefix(wire, k - 5)
    <2>1. k - 5 \in 0 .. Len(wire)
      BY <1>1, <1>2
    <2> QED BY <2>1 DEF Rest
  <1>5. Rest(k) \in Bytes /\ Len(Rest(k)) = k - 5
    BY <1>1, <1>4, PrefixFacts
  <1>6. Meta.chunked = SaysChunked(message.head) /\ Meta.length = SaysLength(message.head)
    BY MetaFacts
  <1>7. CASE message.kind \in {"framed", "trailed"} /\ SaysChunked(message.head)
    <2>1. InChunks(message)
      BY <1>7, FramingAssumption
    <2>2. decode_chunked_body(wire) = Ok(message.means)
      BY <1>1, <2>1, ChunksAreDecoded
    <2>3. read = decode_chunked_body(Rest(k))
      BY <1>6, <1>7 DEF BodyOf
    <2>4. read.kind = "ok"
      <3>1. decode_chunked_body(Rest(k)) \in Decodings
        BY <1>5, DecodedLength
      <3> HIDE DEF read
      <3> QED BY <1>3, <2>3, <3>1 DEF Decodings, Errors
    <2>5. decode_chunked_body(wire) = read
      <3> HIDE DEF read, wire
      <3> QED BY <1>1, <1>4, <2>3, <2>4, DecodeStable
    <2>6. read.body = message.means
      BY <2>2, <2>5 DEF Ok
    <2> QED BY <1>3, <1>7, <2>6
  <1>8. CASE message.kind = "framed" /\ ~SaysChunked(message.head)
    <2> DEFINE n == message.extent
    <2>1. SaysLength(message.head) = n /\ message.means = Slice(wire, 0, n)
      BY <1>8, FramingAssumption
    <2>2. n \in Nat
      BY <1>1, <1>8, MessageAssumption
    <2>3. Meta.length = n /\ n # Nothing
      BY <1>6, <2>1, <2>2, NothingAssumption
    <2>4. read = IF Len(Rest(k)) < n THEN Err("short") ELSE Ok(Slice(Rest(k), 0, n))
      BY <1>6, <1>8, <2>3 DEF BodyOf
    <2>5. ~(Len(Rest(k)) < n) /\ read.body = Slice(Rest(k), 0, n)
      <3> HIDE DEF read
      <3>1. Err("short").kind = "err"
        BY DEF Err
      <3>2. ~(Len(Rest(k)) < n)
        BY <1>3, <2>4, <3>1
      <3> QED BY <2>4, <3>2 DEF Ok
    <2> HIDE DEF n
    <2>6. PICK from \in Nat : from = 0
      OBVIOUS
    <2>7. from + n <= k - 5
      BY <1>4, <1>5, <2>2, <2>5, <2>6
    <2>8. Slice(Rest(k), from, n) = Slice(wire, from, n)
      <3> HIDE DEF wire
      <3> QED BY <1>1, <1>4, <2>2, <2>7, SameSlice
    <2>9. read.body = message.means
      BY <2>1, <2>5, <2>6, <2>8
    <2> QED BY <1>3, <1>8, <2>9
  <1>9. CASE message.kind = "untilClose"
    <2>1. ~SaysChunked(message.head) /\ SaysLength(message.head) = Nothing
      BY <1>9, FramingAssumption
    <2>2. read = Ok(Rest(k))
      BY <1>6, <2>1 DEF BodyOf
    <2> QED BY <1>2, <1>3, <1>9, <2>2 DEF Ok
  <1>10. message.kind = "trailed" => SaysChunked(message.head)
    BY FramingAssumption
  <1>11. \/ message.kind \in {"framed", "trailed"} /\ SaysChunked(message.head)
         \/ message.kind = "framed" /\ ~SaysChunked(message.head)
         \/ message.kind = "untilClose"
         \/ message.kind \notin {"framed", "trailed", "untilClose"}
    BY <1>10
  <1> QED BY <1>7, <1>8, <1>9, <1>11

\* A body without a length is never complete before the end of stream.
LEMMA NeverComplete ==
  ASSUME message \in Messages, message.kind = "untilClose", NEW k \in 0 .. Len(Stream)
  PROVE  CompleteLen(Part(k)).kind # "some"
  <1>1. ~Meta.chunked /\ Meta.length = Nothing
    BY MetaFacts, FramingAssumption
  <1>2. CompleteAt(Meta, Rest(k)) = None
    BY <1>1 DEF CompleteAt
  <1>3. None.kind # "some" /\ Err("head").kind # "some"
    BY DEF None, Err
  <1> QED BY <1>2, <1>3, PartJudged

\* A framed response is complete when its last byte has arrived.
LEMMA CompleteInTime ==
  ASSUME message \in Messages, message.kind = "framed",
         NEW k \in 0 .. Len(Stream), k >= 5 + message.extent
  PROVE  CompleteLen(Part(k)) # None
  <1> DEFINE wire == message.wire
             n == message.extent
  <1>1. wire \in Bytes /\ Len(wire) \in Nat /\ Len(Stream) = 5 + Len(wire)
    BY StreamFacts
  <1>2. n \in 0 .. Len(wire)
    BY MessageAssumption
  <1>3. k - 5 \in 0 .. Len(wire) /\ n <= k - 5 /\ ~(k < 5)
    BY <1>1, <1>2
  <1>4. Rest(k) = Prefix(wire, k - 5)
    BY DEF Rest
  <1>5. Rest(k) \in Bytes /\ Len(Rest(k)) = k - 5
    BY <1>1, <1>3, <1>4, PrefixFacts
  <1>6. Meta.chunked = SaysChunked(message.head) /\ Meta.length = SaysLength(message.head)
    BY MetaFacts
  <1>7. \A l : Some(l) # None /\ Some(l).kind = "some"
    BY DEF Some, None
  <1>8. CompleteAt(Meta, Rest(k)) # None
    <2>1. CASE SaysChunked(message.head)
      <3>1. /\ InChunks(message) /\ n = LastLineEnd(message) + 2
            /\ Slice(wire, LastLineEnd(message), 2) = CRLF
        BY <2>1, FramingAssumption
      <3>2. chunked_wire_len(wire) = Some(n)
        BY <1>1, <3>1, ChunksAreMeasured
      <3>3. chunked_wire_len(Rest(k)) = Some(n)
        <4> HIDE DEF wire, n
        <4> QED BY <1>1, <1>3, <1>4, <3>2, WireEndInPrefix
      <3>4. CompleteAt(Meta, Rest(k)) = Shifted(Some(n), Meta.body)
        BY <1>6, <2>1, <3>3 DEF CompleteAt
      <3> QED BY <1>7, <3>4 DEF Shifted
    <2>2. CASE ~SaysChunked(message.head)
      <3>1. Meta.length = n /\ n # Nothing
        <4>1. SaysLength(message.head) = n
          BY <2>2, FramingAssumption
        <4> HIDE DEF n
        <4> QED BY <1>2, <1>6, <4>1, NothingAssumption
      <3>2. BodyArrived(Rest(k), n)
        BY <1>3, <1>5 DEF BodyArrived
      <3>3. CompleteAt(Meta, Rest(k)) = Some(Meta.body + n)
        BY <1>6, <2>2, <3>1, <3>2 DEF CompleteAt
      <3> QED BY <1>7, <3>3
    <2> QED BY <2>1, <2>2
  <1>9. Err("head") # None
    BY DEF Err, None
  <1> QED BY <1>3, <1>8, <1>9, PartJudged

LEMMA HeadIsFive == HeadLen = 5
  <1>1. OpaqueHead \in Bytes /\ Len(OpaqueHead) = 1
    <2>1. ASSUME NEW S, NEW x \in S PROVE <<x>> \in Seq(S) /\ Len(<<x>>) = 1
      OBVIOUS
    <2> QED BY <2>1 DEF OpaqueHead, Bytes
  <1>2. Len(OpaqueHead \o Terminator) = 1 + 4
    <2>1. Len(OpaqueHead \o Terminator) = Len(OpaqueHead) + Len(Terminator)
      BY <1>1, Delimiters, JoinedBytes
    <2> QED BY <1>1, <2>1, Delimiters
  <1> QED BY <1>2 DEF HeadLen

(***************************************************************************)
(* A message that says where its body ends yields that body, all of it and *)
(* nothing more, or an error, for every such message, every way of cutting *)
(* it into reads and every place where the connection breaks; one that     *)
(* only the end of stream ends yields a body only after a TLS close        *)
(* (CompleteOrError; src/http.rs:65-88, :104-130).                         *)
(***************************************************************************)
THEOREM WholeBodyOrError == Spec => []CompleteOrError
  <1>1. ASSUME LoopInv PROVE CompleteOrError
    <2> SUFFICES ASSUME pc = "done", result.kind = "ok"
                 PROVE  /\ message.kind \in {"framed", "trailed"} => result.body = message.means
                        /\ message.kind = "untilClose" =>
                             ending = "closed" /\ result.body = Slice(response, HeadLen, got)
      BY DEF CompleteOrError
    <2>1. message \in Messages /\ got \in 0 .. Len(Stream)
      BY <1>1 DEF LoopInv
    <2>2. \A why : Err(why).kind # "ok"
      BY DEF Err
    <2>3. CASE ending = Nothing
      <3> DEFINE complete == CompleteLen(Part(got))
      <3>1. result = Answer(Part(got)) /\ result # None
        BY <1>1, <2>3 DEF LoopInv
      <3>2. complete \notin Errors
        <4>1. \A e \in Errors : e.kind # "ok"
          BY DEF Errors
        <4> QED BY <2>1, <3>1, <4>1, AnswerOfPart
      <3>3. complete.kind = "some"
        BY <2>1, <3>1, <3>2, AnswerOfPart
      <3>4. complete.len \in 5 .. got /\ result = Parse(Part(complete.len))
        BY <2>1, <3>1, <3>3, AnswerOfPart
      <3>5. message.kind # "untilClose"
        BY <2>1, <3>3, NeverComplete
      <3>6. complete.len \in 0 .. Len(Stream)
        <4> HIDE DEF complete
        <4> QED BY <2>1, <3>4, StreamFacts
      <3> HIDE DEF complete
      <3> QED BY <2>1, <3>4, <3>5, <3>6, ParsedBody
    <2>4. CASE ending = "closed"
      <3>1. result = Parse(Part(got))
        BY <1>1, <2>4 DEF LoopInv
      <3>2. ASSUME message.kind = "untilClose"
            PROVE  result.body = Slice(response, HeadLen, got)
        <4>1. got >= 5 /\ result.body = Rest(got)
          BY <2>1, <3>1, <3>2, ParsedBody
        <4>2. got \in 5 .. Len(Stream) /\ Len(Part(got)) = got
          BY <2>1, <4>1, StreamFacts, PartFacts
        <4>3. Slice(Part(got), 5, got) = Rest(got)
          BY <2>1, <4>2, BodyOfPart DEF Rest
        <4>4. response = Part(got)
          BY DEF response, Part, Prefix
        <4> QED BY <4>1, <4>3, <4>4, HeadIsFive
      <3> QED BY <2>1, <2>4, <3>1, <3>2, ParsedBody
    <2>5. ending \in {Nothing, "closed"}
      BY <1>1, <2>2, EndingsDiffer DEF LoopInv
    <2> QED BY <2>3, <2>4, <2>5
  <1> QED BY <1>1, Inductive, PTL

(***************************************************************************)
(* Once the last byte of a framed response has arrived the loop has an     *)
(* answer and reads no more, whatever its content and however it was cut   *)
(* into reads (StopsAtEnd; src/http.rs:72).                                *)
(***************************************************************************)
THEOREM ReadsNoFurther == Spec => []StopsAtEnd
  <1>1. ASSUME LoopInv PROVE StopsAtEnd
    <2> SUFFICES ASSUME pc = "reading", message.kind = "framed" PROVE got < 5 + message.extent
      BY HeadIsFive DEF StopsAtEnd
    <2>1. message \in Messages /\ got \in 0 .. Len(Stream) /\ Answer(Part(got)) = None
      BY <1>1 DEF LoopInv
    <2>2. message.extent \in Nat
      <3>1. message.extent \in 0 .. Len(message.wire) /\ Len(message.wire) \in Nat
        BY <2>1, MessageAssumption, StreamFacts
      <3> QED BY <3>1
    <2>3. CompleteLen(Part(got)) = None
      BY <2>1, AnswerOfPart
    <2>4. ~(got >= 5 + message.extent)
      BY <2>1, <2>3, CompleteInTime
    <2> QED BY <2>1, <2>2, <2>4
  <1> QED BY <1>1, Inductive, PTL
=============================================================================
