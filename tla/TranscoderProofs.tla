-------------------------- MODULE TranscoderProofs --------------------------
(***************************************************************************)
(* Proofs about Transcoder: what one end writes the other end reads, for   *)
(* every 32-bit number, every block and every set of pieces.               *)
(***************************************************************************)
EXTENDS Transcoder, TLAPS

\* What writeAsBE32 writes, readAsBE32 reads: no shift or conversion loses a bit.
LEMMA ReadWriteBE32 ==
  ASSUME NEW v \in Word32
  PROVE  readAsBE32(writeAsBE32(v), 0) = v
BY DEF readAsBE32, readAsBE16, writeAsBE32, Word32

\* writeAsBE32 writes four bytes.
LEMMA WriteBE32Type ==
  ASSUME NEW v \in Word32
  PROVE  /\ writeAsBE32(v) \in Seq(Byte)
         /\ Len(writeAsBE32(v)) = 4
BY DEF writeAsBE32, Word32, Byte

\* readAsBE32 at an offset depends on the four bytes there and on nothing else.
LEMMA ReadAt ==
  ASSUME NEW v \in Word32, NEW buf, NEW at \in Nat,
         \A k \in 1 .. 4 : buf[at + k] = writeAsBE32(v)[k]
  PROVE  readAsBE32(buf, at) = v
<1>1. readAsBE32(buf, at) = readAsBE32(writeAsBE32(v), 0)
  <2>1. at + 2 + 2 = at + 4 /\ at + 2 + 1 = at + 3
    OBVIOUS
  <2>2. /\ buf[at + 1] = writeAsBE32(v)[1]
        /\ buf[at + 2] = writeAsBE32(v)[2]
        /\ buf[at + 3] = writeAsBE32(v)[3]
        /\ buf[at + 4] = writeAsBE32(v)[4]
    OBVIOUS
  <2> QED  BY <2>1, <2>2 DEF readAsBE32, readAsBE16
<1> QED  BY <1>1, ReadWriteBE32

\* Where the elements of two byte sequences are when one is written behind the other.
LEMMA ConcatAt ==
  ASSUME NEW s \in Seq(Byte), NEW t \in Seq(Byte)
  PROVE  /\ s \o t \in Seq(Byte)
         /\ Len(s \o t) = Len(s) + Len(t)
         /\ \A k \in 1 .. Len(s) : (s \o t)[k] = s[k]
         /\ \A k \in 1 .. Len(t) : (s \o t)[Len(s) + k] = t[k]
OBVIOUS

\* ReadAt at the front of a buffer.
LEMMA ReadFront ==
  ASSUME NEW v \in Word32, NEW buf,
         \A k \in 1 .. 4 : buf[k] = writeAsBE32(v)[k]
  PROVE  readAsBE32(buf, 0) = v
<1>1. \A k \in 1 .. 4 : buf[0 + k] = writeAsBE32(v)[k]
  OBVIOUS
<1> QED  BY <1>1, ReadAt

\* addU8 of OutgoingMessage: a byte behind what the buffer held.
LEMMA AppendByte ==
  ASSUME NEW s \in Seq(Byte), NEW x \in Byte
  PROVE  /\ s \o <<x>> \in Seq(Byte)
         /\ Len(s \o <<x>>) = Len(s) + 1
         /\ \A k \in 1 .. Len(s) : (s \o <<x>>)[k] = s[k]
         /\ (s \o <<x>>)[Len(s) + 1] = x
OBVIOUS

\* addU32 of OutgoingMessage: a number's four bytes behind what the buffer held.
LEMMA AppendWord ==
  ASSUME NEW s \in Seq(Byte), NEW v \in Word32
  PROVE  LET t == s \o writeAsBE32(v)
         IN  /\ t \in Seq(Byte)
             /\ Len(t) = Len(s) + 4
             /\ \A k \in 1 .. Len(s) : t[k] = s[k]
             /\ \A k \in 1 .. 4 : t[Len(s) + k] = writeAsBE32(v)[k]
<1> DEFINE w == writeAsBE32(v)
<1>1. w \in Seq(Byte) /\ Len(w) = 4
  BY WriteBE32Type
<1> HIDE DEF w
<1>2. /\ s \o w \in Seq(Byte)
      /\ Len(s \o w) = Len(s) + 4
      /\ \A k \in 1 .. Len(s) : (s \o w)[k] = s[k]
      /\ \A k \in 1 .. 4 : (s \o w)[Len(s) + k] = w[k]
  <2>1. /\ s \o w \in Seq(Byte)
        /\ Len(s \o w) = Len(s) + Len(w)
        /\ \A k \in 1 .. Len(s) : (s \o w)[k] = s[k]
        /\ \A k \in 1 .. Len(w) : (s \o w)[Len(s) + k] = w[k]
    BY <1>1, ConcatAt, Zenon
  <2> QED  BY <1>1, <2>1
<1> QED  BY <1>2 DEF w

\* The bytes of a REQUEST or CANCEL, position by position.
LEMMA RangeFrameBytes ==
  ASSUME NEW id \in Byte, NEW index \in Word32, NEW begin \in Word32, NEW length \in Word32,
         NEW f, f = RangeFrame(id, index, begin, length)
  PROVE  /\ f \in Seq(Byte)
         /\ Len(f) = 17
         /\ f[5] = id
         /\ \A k \in 1 .. 4 : f[k] = writeAsBE32(13)[k]
         /\ \A k \in 1 .. 4 : f[5 + k] = writeAsBE32(index)[k]
         /\ \A k \in 1 .. 4 : f[9 + k] = writeAsBE32(begin)[k]
         /\ \A k \in 1 .. 4 : f[13 + k] = writeAsBE32(length)[k]
<1> DEFINE a == writeAsBE32(13)
           b == a \o <<id>>
           c == b \o writeAsBE32(index)
           d == c \o writeAsBE32(begin)
           e == d \o writeAsBE32(length)
<1>0. 13 \in Word32
  BY DEF Word32
<1>a. a \in Seq(Byte) /\ Len(a) = 4
  BY <1>0, WriteBE32Type
<1>b. /\ b \in Seq(Byte) /\ Len(b) = 5
      /\ \A k \in 1 .. 4 : b[k] = a[k]
      /\ b[5] = id
  <2>1. /\ b \in Seq(Byte)
        /\ Len(b) = Len(a) + 1
        /\ \A k \in 1 .. Len(a) : b[k] = a[k]
        /\ b[Len(a) + 1] = id
    BY <1>a, AppendByte, Zenon
  <2> HIDE DEF a, b
  <2> QED  BY <1>a, <2>1
<1> HIDE DEF b
<1>c. /\ c \in Seq(Byte) /\ Len(c) = 9
      /\ \A k \in 1 .. 5 : c[k] = b[k]
      /\ \A k \in 1 .. 4 : c[5 + k] = writeAsBE32(index)[k]
  <2>1. /\ c \in Seq(Byte)
        /\ Len(c) = Len(b) + 4
        /\ \A k \in 1 .. Len(b) : c[k] = b[k]
        /\ \A k \in 1 .. 4 : c[Len(b) + k] = writeAsBE32(index)[k]
    BY <1>b, AppendWord, Zenon
  <2> HIDE DEF c
  <2> QED  BY <1>b, <2>1
<1> HIDE DEF c
<1>d. /\ d \in Seq(Byte) /\ Len(d) = 13
      /\ \A k \in 1 .. 9 : d[k] = c[k]
      /\ \A k \in 1 .. 4 : d[9 + k] = writeAsBE32(begin)[k]
  <2>1. /\ d \in Seq(Byte)
        /\ Len(d) = Len(c) + 4
        /\ \A k \in 1 .. Len(c) : d[k] = c[k]
        /\ \A k \in 1 .. 4 : d[Len(c) + k] = writeAsBE32(begin)[k]
    BY <1>c, AppendWord, Zenon
  <2> HIDE DEF d
  <2> QED  BY <1>c, <2>1
<1> HIDE DEF d
<1>e. /\ e \in Seq(Byte) /\ Len(e) = 17
      /\ \A k \in 1 .. 13 : e[k] = d[k]
      /\ \A k \in 1 .. 4 : e[13 + k] = writeAsBE32(length)[k]
  <2>1. /\ e \in Seq(Byte)
        /\ Len(e) = Len(d) + 4
        /\ \A k \in 1 .. Len(d) : e[k] = d[k]
        /\ \A k \in 1 .. 4 : e[Len(d) + k] = writeAsBE32(length)[k]
    BY <1>d, AppendWord, Zenon
  <2> HIDE DEF e
  <2> QED  BY <1>d, <2>1
<1>f. f = e
  BY DEF RangeFrame, a, b, c, d
<1> HIDE DEF a, e
<1>g. e[5] = id
  BY <1>b, <1>c, <1>d, <1>e
<1>h. \A k \in 1 .. 4 : e[k] = a[k]
  BY <1>b, <1>c, <1>d, <1>e
<1>i. \A k \in 1 .. 4 : e[5 + k] = c[5 + k]
  BY <1>c, <1>d, <1>e
<1>j. \A k \in 1 .. 4 : e[9 + k] = d[9 + k]
  BY <1>d, <1>e
<1> QED  BY <1>c, <1>d, <1>e, <1>f, <1>g, <1>h, <1>i, <1>j DEF a

\* The REQUEST and CANCEL handlers read back exactly the three numbers that
\* sendRequest and sendCancelRequest wrote, for all 32-bit values, and the length
\* prefix counts the bytes that follow it.
THEOREM DecodedAsEncoded ==
  ASSUME NEW id \in Byte, NEW index \in Word32, NEW begin \in Word32, NEW length \in Word32,
         NEW f, f = RangeFrame(id, index, begin, length)
  PROVE  /\ f \in Seq(Byte)
         /\ Len(f) = 4 + FrameLength(f)
         /\ MessageId(f) = id
         /\ MsgSize(f) = 12
         /\ Field(f, 0) = index /\ Field(f, 1) = begin /\ Field(f, 2) = length
<1>0. 13 \in Word32
  BY DEF Word32
<1>5. /\ f \in Seq(Byte)
      /\ Len(f) = 17
      /\ f[5] = id
      /\ \A k \in 1 .. 4 : f[k] = writeAsBE32(13)[k]
      /\ \A k \in 1 .. 4 : f[5 + k] = writeAsBE32(index)[k]
      /\ \A k \in 1 .. 4 : f[9 + k] = writeAsBE32(begin)[k]
      /\ \A k \in 1 .. 4 : f[13 + k] = writeAsBE32(length)[k]
  BY RangeFrameBytes
<1>1. readAsBE32(f, 0) = 13
  BY <1>0, <1>5, ReadFront
<1>2. readAsBE32(f, 5) = index
  BY <1>5, ReadAt
<1>3. readAsBE32(f, 9) = begin
  BY <1>5, ReadAt
<1>4. readAsBE32(f, 13) = length
  BY <1>5, ReadAt
<1>7. Field(f, 0) = index /\ Field(f, 1) = begin /\ Field(f, 2) = length
  BY <1>2, <1>3, <1>4 DEF Field
<1> QED  BY <1>1, <1>5, <1>7 DEF FrameLength, MsgSize, MessageId

\* The bytes behind a header are what was written behind it.
LEMMA TailOfConcat ==
  ASSUME NEW s \in Seq(Byte), NEW t \in Seq(Byte)
  PROVE  SubSeq(s \o t, Len(s) + 1, Len(s) + Len(t)) = t
<1> DEFINE u == s \o t
           r == SubSeq(u, Len(s) + 1, Len(s) + Len(t))
<1>1. /\ u \in Seq(Byte)
      /\ Len(u) = Len(s) + Len(t)
      /\ \A k \in 1 .. Len(t) : u[Len(s) + k] = t[k]
  BY ConcatAt, Zenon
<1> HIDE DEF u
<1>2. /\ r \in Seq(Byte)
      /\ Len(r) = Len(t)
      /\ \A k \in 1 .. Len(t) : r[k] = u[Len(s) + k]
  BY <1>1
<1> HIDE DEF r
<1>3. \A k \in 1 .. Len(t) : r[k] = t[k]
  BY <1>1, <1>2
<1> QED  BY <1>2, <1>3 DEF u, r

\* The PIECE_BLOCK handler reads back exactly the piece, the offset and the bytes
\* sendPieceBlock wrote, as long as 9 + the block's size fits the 32-bit length.
THEOREM BlockDecodedAsEncoded ==
  ASSUME NEW index \in Word32, NEW begin \in Word32,
         NEW block \in Seq(Byte), 9 + Len(block) \in Word32
  PROVE  LET f == PieceFrame(index, begin, block)
         IN  /\ f \in Seq(Byte)
             /\ Len(f) = 4 + FrameLength(f)
             /\ MessageId(f) = PIECE_BLOCK_ID
             /\ MsgSize(f) = 8 + Len(block)
             /\ Field(f, 0) = index /\ Field(f, 1) = begin
             /\ Rest(f, 8) = block
<1> DEFINE f == PieceFrame(index, begin, block)
<1> DEFINE n == 9 + Len(block)
           a == writeAsBE32(n)
           b == a \o <<PIECE_BLOCK_ID>>
           c == b \o writeAsBE32(index)
           d == c \o writeAsBE32(begin)
           e == d \o block
<1> HIDE DEF n
<1>a. a \in Seq(Byte) /\ Len(a) = 4
  BY WriteBE32Type DEF n
<1>b. /\ b \in Seq(Byte) /\ Len(b) = 5
      /\ \A k \in 1 .. 4 : b[k] = a[k]
      /\ b[5] = PIECE_BLOCK_ID
  <2>1. PIECE_BLOCK_ID \in Byte
    BY DEF PIECE_BLOCK_ID, Byte
  <2>2. /\ b \in Seq(Byte)
        /\ Len(b) = Len(a) + 1
        /\ \A k \in 1 .. Len(a) : b[k] = a[k]
        /\ b[Len(a) + 1] = PIECE_BLOCK_ID
    BY <1>a, <2>1, AppendByte, Zenon
  <2> HIDE DEF a, b
  <2> QED  BY <1>a, <2>2
<1> HIDE DEF b
<1>c. /\ c \in Seq(Byte) /\ Len(c) = 9
      /\ \A k \in 1 .. 5 : c[k] = b[k]
      /\ \A k \in 1 .. 4 : c[5 + k] = writeAsBE32(index)[k]
  <2>1. /\ c \in Seq(Byte)
        /\ Len(c) = Len(b) + 4
        /\ \A k \in 1 .. Len(b) : c[k] = b[k]
        /\ \A k \in 1 .. 4 : c[Len(b) + k] = writeAsBE32(index)[k]
    BY <1>b, AppendWord, Zenon
  <2> HIDE DEF c
  <2> QED  BY <1>b, <2>1
<1> HIDE DEF c
<1>d. /\ d \in Seq(Byte) /\ Len(d) = 13
      /\ \A k \in 1 .. 9 : d[k] = c[k]
      /\ \A k \in 1 .. 4 : d[9 + k] = writeAsBE32(begin)[k]
  <2>1. /\ d \in Seq(Byte)
        /\ Len(d) = Len(c) + 4
        /\ \A k \in 1 .. Len(c) : d[k] = c[k]
        /\ \A k \in 1 .. 4 : d[Len(c) + k] = writeAsBE32(begin)[k]
    BY <1>c, AppendWord, Zenon
  <2> HIDE DEF d
  <2> QED  BY <1>c, <2>1
<1> HIDE DEF d
<1>e. /\ e \in Seq(Byte) /\ Len(e) = 13 + Len(block)
      /\ \A k \in 1 .. 13 : e[k] = d[k]
      /\ SubSeq(e, 14, 13 + Len(block)) = block
  <2>1. /\ e \in Seq(Byte)
        /\ Len(e) = Len(d) + Len(block)
        /\ \A k \in 1 .. Len(d) : e[k] = d[k]
    BY <1>d, ConcatAt, Zenon
  <2>2. SubSeq(e, Len(d) + 1, Len(d) + Len(block)) = block
    BY <1>d, TailOfConcat, Zenon
  <2> HIDE DEF e
  <2> QED  BY <1>d, <2>1, <2>2
<1>f. f = e
  BY DEF PieceFrame, a, b, c, d, n
<1> HIDE DEF a, e, f
<1>1. \A k \in 1 .. 4 : f[k] = a[k]
  BY <1>b, <1>c, <1>d, <1>e, <1>f
<1>2. \A k \in 1 .. 4 : f[5 + k] = writeAsBE32(index)[k]
  BY <1>c, <1>d, <1>e, <1>f
<1>3. \A k \in 1 .. 4 : f[9 + k] = writeAsBE32(begin)[k]
  BY <1>d, <1>e, <1>f
<1>4. f[5] = PIECE_BLOCK_ID
  BY <1>b, <1>c, <1>d, <1>e, <1>f
<1>5. readAsBE32(f, 0) = n
  <2>1. n \in Word32
    BY DEF n
  <2> QED  BY <1>1, <2>1, ReadFront DEF a
<1>6. readAsBE32(f, 5) = index
  BY <1>2, ReadAt
<1>7. readAsBE32(f, 9) = begin
  BY <1>3, ReadAt
<1>8. Field(f, 0) = index /\ Field(f, 1) = begin
  BY <1>6, <1>7 DEF Field
<1>9. FrameLength(f) = 9 + Len(block)
  BY <1>5 DEF FrameLength, n
<1>10. Rest(f, 8) = block
  <2>1. 4 + FrameLength(f) = 13 + Len(block)
    BY <1>9
  <2> QED  BY <1>e, <1>f, <2>1 DEF Rest
<1>11. MsgSize(f) = 8 + Len(block)
  BY <1>9 DEF MsgSize
<1> QED  BY <1>4, <1>8, <1>9, <1>10, <1>11, <1>e, <1>f DEF MessageId, f

\* The frames with one field and with none: HAVE and BITFIELD.
LEMMA HaveDecodedAsEncoded ==
  ASSUME NEW index \in Word32, NEW f, f = HaveFrame(index)
  PROVE  /\ f \in Seq(Byte)
         /\ MessageId(f) = HAVE_ID
         /\ MsgSize(f) = 4
         /\ Field(f, 0) = index
<1> DEFINE a == writeAsBE32(5)
           b == a \o <<HAVE_ID>>
           c == b \o writeAsBE32(index)
<1>0. 5 \in Word32 /\ HAVE_ID \in Byte
  BY DEF Word32, Byte, HAVE_ID
<1>1. a \in Seq(Byte) /\ Len(a) = 4
  BY <1>0, WriteBE32Type
<1>2. /\ b \in Seq(Byte) /\ Len(b) = 5
      /\ \A k \in 1 .. 4 : b[k] = a[k]
      /\ b[5] = HAVE_ID
  <2>1. /\ b \in Seq(Byte)
        /\ Len(b) = Len(a) + 1
        /\ \A k \in 1 .. Len(a) : b[k] = a[k]
        /\ b[Len(a) + 1] = HAVE_ID
    BY <1>0, <1>1, AppendByte, Zenon
  <2> HIDE DEF a, b
  <2> QED  BY <1>1, <2>1
<1> HIDE DEF b
<1>3. /\ c \in Seq(Byte) /\ Len(c) = 9
      /\ \A k \in 1 .. 5 : c[k] = b[k]
      /\ \A k \in 1 .. 4 : c[5 + k] = writeAsBE32(index)[k]
  <2>1. /\ c \in Seq(Byte)
        /\ Len(c) = Len(b) + 4
        /\ \A k \in 1 .. Len(b) : c[k] = b[k]
        /\ \A k \in 1 .. 4 : c[Len(b) + k] = writeAsBE32(index)[k]
    BY <1>2, AppendWord, Zenon
  <2> HIDE DEF c
  <2> QED  BY <1>2, <2>1
<1>4. f = c
  BY DEF HaveFrame, a, b, c
<1> HIDE DEF a, c
<1>5. /\ f[5] = HAVE_ID
      /\ \A k \in 1 .. 4 : f[k] = a[k]
      /\ \A k \in 1 .. 4 : f[5 + k] = writeAsBE32(index)[k]
  BY <1>2, <1>3, <1>4
<1>6. readAsBE32(f, 0) = 5
  BY <1>0, <1>5, ReadFront DEF a
<1>7. readAsBE32(f, 5) = index
  BY <1>5, ReadAt
<1> QED  BY <1>3, <1>4, <1>5, <1>6, <1>7 DEF MessageId, MsgSize, FrameLength, Field

\* What sendBitfield writes is read back whole.
LEMMA BitfieldDecodedAsEncoded ==
  ASSUME NEW raw \in Seq(Byte), 1 + Len(raw) \in Word32, NEW f, f = BitfieldFrame(raw)
  PROVE  /\ f \in Seq(Byte)
         /\ MessageId(f) = BITFIELD_ID
         /\ Rest(f, 0) = raw
<1> DEFINE n == 1 + Len(raw)
           a == writeAsBE32(n)
           b == a \o <<BITFIELD_ID>>
           c == b \o raw
<1> HIDE DEF n
<1>1. a \in Seq(Byte) /\ Len(a) = 4
  BY WriteBE32Type DEF n
<1>2. /\ b \in Seq(Byte) /\ Len(b) = 5
      /\ \A k \in 1 .. 4 : b[k] = a[k]
      /\ b[5] = BITFIELD_ID
  <2>1. BITFIELD_ID \in Byte
    BY DEF BITFIELD_ID, Byte
  <2>2. /\ b \in Seq(Byte)
        /\ Len(b) = Len(a) + 1
        /\ \A k \in 1 .. Len(a) : b[k] = a[k]
        /\ b[Len(a) + 1] = BITFIELD_ID
    BY <1>1, <2>1, AppendByte, Zenon
  <2> HIDE DEF a, b
  <2> QED  BY <1>1, <2>2
<1> HIDE DEF b
<1>3. /\ c \in Seq(Byte)
      /\ \A k \in 1 .. 5 : c[k] = b[k]
      /\ SubSeq(c, 6, 5 + Len(raw)) = raw
  <2>1. /\ c \in Seq(Byte)
        /\ \A k \in 1 .. Len(b) : c[k] = b[k]
    BY <1>2, ConcatAt, Zenon
  <2>2. SubSeq(c, Len(b) + 1, Len(b) + Len(raw)) = raw
    BY <1>2, TailOfConcat, Zenon
  <2> HIDE DEF c
  <2> QED  BY <1>2, <2>1, <2>2
<1>4. f = c
  BY DEF BitfieldFrame, a, b, c, n
<1> HIDE DEF a, c
<1>5. /\ f[5] = BITFIELD_ID
      /\ \A k \in 1 .. 4 : f[k] = a[k]
  BY <1>2, <1>3, <1>4
<1>6. readAsBE32(f, 0) = n
  <2>1. n \in Word32
    BY DEF n
  <2> QED  BY <1>5, <2>1, ReadFront DEF a
<1>7. FrameLength(f) = 1 + Len(raw)
  BY <1>6 DEF FrameLength, n
<1>8. Rest(f, 0) = raw
  <2>1. 4 + FrameLength(f) = 5 + Len(raw)
    BY <1>7
  <2> QED  BY <1>3, <1>4, <2>1 DEF Rest
<1> QED  BY <1>3, <1>4, <1>5, <1>8 DEF MessageId

\* The three swaps of getRawBitfield reverse the bits of a block.
LEMMA Reversed ==
  ASSUME NEW b, NEW k \in Bit
  PROVE  SwapBits(SwapPairs(SwapNibbles(b)))[k] = b[7 - k]
BY DEF SwapBits, SwapPairs, SwapNibbles, Bit

\* Bit k of the byte made of a block is the block's bit k.
LEMMA BitsOfByte ==
  ASSUME NEW b, \A k \in Bit : b[k] \in BOOLEAN
  PROVE  /\ ByteOf(b) \in Byte
         /\ \A k \in Bit : HasBit(ByteOf(b), k) <=> b[k]
<1> DEFINE v(k) == IF b[k] THEN Weight(k) ELSE 0
<1>1. /\ v(0) \in {0, 1} /\ v(1) \in {0, 2} /\ v(2) \in {0, 4} /\ v(3) \in {0, 8}
      /\ v(4) \in {0, 16} /\ v(5) \in {0, 32} /\ v(6) \in {0, 64} /\ v(7) \in {0, 128}
  BY DEF Weight
<1>2. \A k \in Bit : v(k) = Weight(k) <=> b[k]
  BY DEF Weight, Bit
<1>3. ByteOf(b) = v(0) + v(1) + v(2) + v(3) + v(4) + v(5) + v(6) + v(7)
  BY DEF ByteOf
<1> HIDE DEF v
<1>4. ByteOf(b) \in Byte
  BY <1>1, <1>3 DEF Byte
<1>5. \A k \in Bit : HasBit(ByteOf(b), k) <=> v(k) = Weight(k)
  <2>1. HasBit(ByteOf(b), 0) <=> v(0) = 1
    BY <1>1, <1>3 DEF HasBit, Weight
  <2>2. HasBit(ByteOf(b), 1) <=> v(1) = 2
    BY <1>1, <1>3 DEF HasBit, Weight
  <2>3. HasBit(ByteOf(b), 2) <=> v(2) = 4
    BY <1>1, <1>3 DEF HasBit, Weight
  <2>4. HasBit(ByteOf(b), 3) <=> v(3) = 8
    BY <1>1, <1>3 DEF HasBit, Weight
  <2>5. HasBit(ByteOf(b), 4) <=> v(4) = 16
    BY <1>1, <1>3 DEF HasBit, Weight
  <2>6. HasBit(ByteOf(b), 5) <=> v(5) = 32
    BY <1>1, <1>3 DEF HasBit, Weight
  <2>7. HasBit(ByteOf(b), 6) <=> v(6) = 64
    BY <1>1, <1>3 DEF HasBit, Weight
  <2>8. HasBit(ByteOf(b), 7) <=> v(7) = 128
    BY <1>1, <1>3 DEF HasBit, Weight
  <2> SUFFICES ASSUME NEW k \in Bit
               PROVE  HasBit(ByteOf(b), k) <=> v(k) = Weight(k)
    OBVIOUS
  <2>1a. CASE k = 0
    BY <2>1a, <2>1 DEF Weight
  <2>2a. CASE k = 1
    BY <2>2a, <2>2 DEF Weight
  <2>3a. CASE k = 2
    BY <2>3a, <2>3 DEF Weight
  <2>4a. CASE k = 3
    BY <2>4a, <2>4 DEF Weight
  <2>5a. CASE k = 4
    BY <2>5a, <2>5 DEF Weight
  <2>6a. CASE k = 5
    BY <2>6a, <2>6 DEF Weight
  <2>7a. CASE k = 6
    BY <2>7a, <2>7 DEF Weight
  <2>8a. CASE k = 7
    BY <2>8a, <2>8 DEF Weight
  <2> QED  BY <2>1a, <2>2a, <2>3a, <2>4a, <2>5a, <2>6a, <2>7a, <2>8a DEF Bit
<1> QED  BY <1>2, <1>4, <1>5, Zenon

\* The BITFIELD handler finds in what getRawBitfield returns exactly the pieces of the
\* bitset, for any number of pieces, padding bits and the last byte included.
THEOREM BitfieldRoundTrip ==
  ASSUME NEW n \in Nat, NEW have \in SUBSET (0 .. n - 1)
  PROVE  /\ PiecesOfBitfield(getRawBitfield(have, n), n) = have
         /\ getRawBitfield(have, n) \in Seq(Byte)
<1> DEFINE raw == getRawBitfield(have, n)
           size == BitfieldSize(n)
           block(i) == BitsetBlock(have, n, i - 1)
           turned(i) == SwapBits(SwapPairs(SwapNibbles(block(i))))
<1>0. raw = [i \in 1 .. size |-> ByteOf(turned(i))] /\ size \in Nat
  BY DEF getRawBitfield, BitfieldSize
<1>1. ASSUME NEW i \in 1 .. size, NEW k \in Bit
      PROVE  /\ turned(i)[k] \in BOOLEAN
             /\ turned(i)[k] <=> (8 * (i - 1) + (7 - k) < n /\ 8 * (i - 1) + (7 - k) \in have)
  <2>1. 7 - k \in Bit
    BY DEF Bit
  <2>2. block(i)[7 - k] = (8 * (i - 1) + (7 - k) < n /\ 8 * (i - 1) + (7 - k) \in have)
    BY <2>1 DEF BitsetBlock
  <2>3. turned(i)[k] = block(i)[7 - k]
    BY Reversed
  <2> HIDE DEF turned, block
  <2> QED  BY <2>2, <2>3, Zenon
<1> HIDE DEF raw, size, turned
<1>2. ASSUME NEW i \in 1 .. size
      PROVE  /\ raw[i] \in Byte
             /\ \A k \in Bit : HasBit(raw[i], k) <=> turned(i)[k]
  <2>1. raw[i] = ByteOf(turned(i))
    BY <1>0
  <2>2. \A k \in Bit : turned(i)[k] \in BOOLEAN
    BY <1>1
  <2> QED  BY <2>1, <2>2, BitsOfByte, Zenon
<1>3. ASSUME NEW i \in 1 .. size, NEW j \in Bit
      PROVE  HasBit(raw[i], 7 - j) <=> 8 * (i - 1) + j < n /\ 8 * (i - 1) + j \in have
  <2>1. 7 - j \in Bit /\ 7 - (7 - j) = j
    BY DEF Bit
  <2>2. HasBit(raw[i], 7 - j) <=> turned(i)[7 - j]
    BY <1>2, <2>1, Zenon
  <2>3. turned(i)[7 - j] <=> 8 * (i - 1) + (7 - (7 - j)) < n /\ 8 * (i - 1) + (7 - (7 - j)) \in have
    BY <1>1, <2>1, Zenon
  <2>4. 8 * (i - 1) + (7 - (7 - j)) = 8 * (i - 1) + j
    BY <2>1
  <2> QED  BY <2>2, <2>3, <2>4, Zenon
<1>4. DOMAIN raw = 1 .. size /\ raw \in Seq(Byte)
  <2>1. raw \in [1 .. size -> Byte]
    BY <1>0, <1>2
  <2> QED  BY <1>0, <2>1
<1>5. ASSUME NEW p \in have
      PROVE  \E i \in DOMAIN raw, j \in Bit : p = 8 * (i - 1) + j /\ HasBit(raw[i], 7 - j)
  <2> DEFINE i == (p \div 8) + 1
             j == p % 8
  <2>1. /\ i \in 1 .. size /\ j \in Bit
        /\ p = 8 * (i - 1) + j
        /\ p < n
    BY DEF size, BitfieldSize, Bit
  <2> HIDE DEF i, j
  <2>2. HasBit(raw[i], 7 - j)
    BY <1>3, <2>1, Zenon
  <2> QED  BY <1>4, <2>1, <2>2, Zenon
<1>6. ASSUME NEW p \in 0 .. n - 1,
             \E i \in DOMAIN raw, j \in Bit : p = 8 * (i - 1) + j /\ HasBit(raw[i], 7 - j)
      PROVE  p \in have
  <2>1. PICK i \in DOMAIN raw, j \in Bit : p = 8 * (i - 1) + j /\ HasBit(raw[i], 7 - j)
    BY <1>6
  <2> QED  BY <1>3, <1>4, <2>1, Zenon
<1>7. PiecesOfBitfield(raw, n) = have
  <2>1. \A p : p \in PiecesOfBitfield(raw, n) <=>
          p \in 0 .. n - 1 /\ \E i \in DOMAIN raw, j \in Bit :
                                p = 8 * (i - 1) + j /\ HasBit(raw[i], 7 - j)
    BY DEF PiecesOfBitfield, Zenon
  <2>2. \A p \in have : p \in 0 .. n - 1
    OBVIOUS
  <2>3. \A p : p \in PiecesOfBitfield(raw, n) <=> p \in have
    BY <1>5, <1>6, <2>1, <2>2, Zenon
  <2> QED  BY <2>3
<1> QED  BY <1>4, <1>7 DEF raw

\* The four bytes of a number, from the lowest up.
LEMMA Digits ==
  ASSUME NEW a \in Byte, NEW b \in Byte, NEW c \in Byte, NEW d \in Byte,
         NEW v, v = (d * 256 + c) * 65536 + (b * 256 + a)
  PROVE  /\ v % 256 = a
         /\ (v \div 256) % 256 = b
         /\ (v \div 65536) % 256 = c
         /\ (v \div (256 * 65536)) % 256 = d
<1>1. /\ a \in Nat /\ b \in Nat /\ c \in Nat /\ d \in Nat
      /\ a < 256 /\ b < 256 /\ c < 256 /\ d < 256
  BY DEF Byte
<1>2. v % 256 = a /\ v \div 256 = d * 65536 + c * 256 + b
  BY <1>1
<1>3. (v \div 256) % 256 = b
  BY <1>1, <1>2
<1>4. v \div 65536 = d * 256 + c
  BY <1>1
<1>5. (v \div 65536) % 256 = c
  BY <1>1, <1>4
<1>6. v \div (256 * 65536) = d
  BY <1>1
<1>7. d % 256 = d
  BY <1>1
<1> QED  BY <1>2, <1>3, <1>5, <1>6, <1>7

\* The two ways the program obtains an address give the same number: connectToPeers
\* reads it from the tracker's bytes, Connection::getIP from the socket; parseIp
\* prints it in the usual order, and the port is read in network order.
THEOREM AddressesAgree ==
  ASSUME NEW a \in Byte, NEW b \in Byte, NEW c \in Byte, NEW d \in Byte,
         NEW e \in Byte, NEW f \in Byte,
         NEW entry, entry = <<a, b, c, d, e, f>>
  PROVE  /\ CompactAddress(entry) = getIP(<<a, b, c, d>>)
         /\ parseIp(CompactAddress(entry)) = <<a, b, c, d>>
         /\ CompactPort(entry) = 256 * e + f
<1> DEFINE v == (a * 256 + b) * 65536 + (c * 256 + d)
           w == (d * 256 + c) * 65536 + (b * 256 + a)
<1>1. HostOrder(<<a, b, c, d>>) = v
  BY DEF HostOrder, readAsBE32, readAsBE16, Byte
<1>2. /\ v % 256 = d
      /\ (v \div 256) % 256 = c
      /\ (v \div 65536) % 256 = b
      /\ (v \div (256 * 65536)) % 256 = a
  BY Digits
<1>3. writeAsBE32(v) = <<a, b, c, d>>
  <2> HIDE DEF v
  <2> QED  BY <1>2 DEF writeAsBE32
<1>4. getIP(<<a, b, c, d>>) = w
  <2>1. readAsLE32(<<a, b, c, d>>, 0) = w
    BY DEF readAsLE32, readAsLE16, Byte
  <2> QED  BY <1>1, <1>3, <2>1 DEF getIP, host_to_network_long
<1>5. CompactAddress(entry) = w
  BY DEF CompactAddress, readAsLE32, readAsLE16, Byte
<1>6. /\ w % 256 = a
      /\ (w \div 256) % 256 = b
      /\ (w \div 65536) % 256 = c
      /\ (w \div (256 * 65536)) % 256 = d
  BY Digits
<1>7. parseIp(w) = <<a, b, c, d>>
  <2> HIDE DEF w
  <2> QED  BY <1>6 DEF parseIp
<1>8. CompactPort(entry) = 256 * e + f
  BY DEF CompactPort, readAsBE16, Byte
<1> QED  BY <1>4, <1>5, <1>7, <1>8
=============================================================================
