--------------------------- MODULE TransferProofs ---------------------------
(***************************************************************************)
(* Proofs about Transfer for every torrent file, every content and every   *)
(* block size.                                                             *)
(*                                                                         *)
(* The properties are not inductive: that the blocks make the piece        *)
(* depends on which block each frame on the wires carries.  IInv says it:  *)
(* at any time the blocks 0 .. haveBlocks - 1 are in their slots, the next *)
(* ones are on the wire to D, the next ones asked for on the wire to U, and *)
(* the loop of requestPiece is at the one after those.                     *)
(***************************************************************************)
EXTENDS Transfer, TranscoderProofs, FiniteSetTheorems

\* Multiplication by a positive number and the order of the integers.
LEMMA TimesLess ==
  ASSUME NEW a \in Int, NEW b \in Int, NEW l \in Nat \ {0}
  PROVE  /\ a < b => a * l + l <= b * l
         /\ a * l < b * l => a < b
         /\ a <= b => a * l <= b * l
<1>1. ASSUME a < b PROVE a * l + l <= b * l
  <2>1. b - a - 1 \in Nat
    BY <1>1
  <2>2. (b - a - 1) * l >= 0
    BY <2>1
  <2>3. (b - a - 1) * l = b * l - a * l - l
    OBVIOUS
  <2> QED  BY <2>2, <2>3
<1>2. ASSUME b <= a PROVE b * l <= a * l
  <2>1. a - b \in Nat
    BY <1>2
  <2>2. (a - b) * l >= 0
    BY <2>1
  <2>3. (a - b) * l = a * l - b * l
    OBVIOUS
  <2> QED  BY <2>2, <2>3
<1>3. a * l \in Int /\ b * l \in Int
  OBVIOUS
<1>4. ASSUME a <= b PROVE a * l <= b * l
  <2>1. CASE a = b
    BY <2>1, <1>3
  <2>2. CASE a < b
    BY <2>2, <1>1, <1>3
  <2> QED  BY <1>4, <2>1, <2>2
<1>5. ASSUME a * l < b * l PROVE a < b
  BY <1>2, <1>3, <1>5
<1> QED  BY <1>1, <1>4, <1>5

\* Quotient and remainder.
LEMMA DivMod ==
  ASSUME NEW t \in Nat, NEW l \in Nat \ {0}
  PROVE  /\ t \div l \in Nat /\ t % l \in 0 .. l - 1
         /\ t = (t \div l) * l + (t % l)
OBVIOUS

\* Quotient and remainder are the only ones.
LEMMA DivUnique ==
  ASSUME NEW t \in Nat, NEW l \in Nat \ {0}, NEW q \in Nat, NEW r \in 0 .. l - 1, t = q * l + r
  PROVE  t \div l = q /\ t % l = r
<1> DEFINE p == t \div l
           s == t % l
<1>1. /\ p \in Nat /\ s \in 0 .. l - 1
      /\ t = p * l + s
  BY DivMod
<1> HIDE DEF p, s
<1>2. p * l \in Nat /\ q * l \in Nat
  BY <1>1
<1>3. ~(p < q)
  BY <1>1, <1>2, TimesLess
<1>4. ~(q < p)
  BY <1>1, <1>2, TimesLess
<1>5. p = q
  BY <1>1, <1>3, <1>4
<1> QED  BY <1>1, <1>2, <1>5 DEF p, s

\* What sendPieceRequest's ceil computes: the least number of blocks that suffices.
LEMMA CeilDiv ==
  ASSUME NEW s \in Nat \ {0}, NEW m \in Nat \ {0}, NEW n, n = (s + m - 1) \div m
  PROVE  /\ n \in Nat \ {0}
         /\ (n - 1) * m < s
         /\ s <= n * m
<1> DEFINE r == (s + m - 1) % m
<1>1. /\ n \in Nat /\ r \in 0 .. m - 1
      /\ s + m - 1 = n * m + r
  <2>1. \A u \in Nat : /\ u \div m \in Nat /\ u % m \in 0 .. m - 1
                        /\ u = (u \div m) * m + (u % m)
    BY DivMod
  <2>2. s + m - 1 \in Nat
    OBVIOUS
  <2> HIDE DEF r
  <2> QED  BY <2>1, <2>2 DEF r
<1> HIDE DEF r
<1>2. n * m \in Nat /\ (n - 1) * m = n * m - m
  BY <1>1
<1>3. n # 0
  <2>1. SUFFICES ASSUME n = 0 PROVE FALSE
    OBVIOUS
  <2>2. n * m = 0
    BY <2>1
  <2> QED  BY <1>1, <2>2
<1> QED  BY <1>1, <1>2, <1>3

\* What pieceSize computes for the last piece: the rest of the file behind the others.
LEMMA LastPiece ==
  ASSUME NEW t \in Nat, NEW l \in Nat \ {0}, NEW n \in Nat,
         (n - 1) * l < t, t <= n * l
  PROVE  (IF t % l # 0 THEN t % l ELSE l) = t - (n - 1) * l
<1> DEFINE q == t \div l
           r == t % l
<1>1. /\ q \in Nat /\ r \in 0 .. l - 1
      /\ t = q * l + r
  BY DivMod
<1> HIDE DEF q, r
<1>2. /\ q * l \in Nat /\ n * l \in Nat /\ (n - 1) * l \in Int
      /\ (n - 1) * l = n * l - l
      /\ (q + 1) * l = q * l + l
  BY <1>1
<1>3. CASE r = 0
  <2>1. n - 1 < q /\ ~(n < q)
    BY <1>1, <1>2, <1>3, TimesLess
  <2>2. q = n
    BY <1>1, <2>1
  <2> QED  BY <1>1, <1>2, <1>3, <2>2 DEF r
<1>4. CASE r # 0
  <2>1. ~(q < n - 1)
    BY <1>1, <1>2, TimesLess
  <2>2. q < n
    BY <1>1, <1>2, <1>4, TimesLess
  <2>3. q = n - 1
    BY <1>1, <2>1, <2>2
  <2> QED  BY <1>1, <1>2, <1>4, <2>3 DEF r
<1> QED  BY <1>3, <1>4

-----------------------------------------------------------------------------
M == MAX_BLOCK_REQUEST_SIZE

\* The k-th block of piece i: its length, its bytes, the frames about it.
BlockLength(i, k) == IF k = numBlocks(i) - 1 THEN pieceSize(i) - (k * M) ELSE M
BlockBytes(i, k) == FileBytes(blockBegin(i, k * M), BlockLength(i, k))
Request(i, k) == RequestFrame(i, k * M, BlockLength(i, k))
Answer(i, k) == PieceFrame(i, k * M, BlockBytes(i, k))

\* 1 while the INTERESTED that precedes the requests of a piece is on its way.
Lead == IF toU # <<>> /\ toU[1] = InterestedFrame THEN 1 ELSE 0
\* The number of blocks asked for so far.
Asked == haveBlocks + Len(toD) + Len(toU) - Lead

Greeting ==
  /\ toU = <<>> /\ toD = <<BitfieldFrame(getRawBitfield(Pieces, meta.pieces))>>
  /\ amChoking = TRUE /\ peerInterested = FALSE /\ peerChoking = TRUE
  /\ remoteHas = {} /\ queued = None /\ pc = "idle" /\ finished = {}

Choked ==
  /\ peerChoking = TRUE /\ remoteHas = Pieces /\ finished = {}
  /\ queued \in Pieces /\ haveBlocks = 0 /\ pc = "idle"
  /\ \/ /\ toU = <<InterestedFrame>> /\ toD = <<>>
        /\ amChoking = TRUE /\ peerInterested = FALSE
     \/ /\ toU = <<>> /\ toD = <<UnchokeFrame>>
        /\ amChoking = FALSE /\ peerInterested = TRUE

Serving ==
  /\ peerChoking = FALSE /\ amChoking = FALSE /\ peerInterested = TRUE /\ remoteHas = Pieces

\* Blocks are asked for, answered and stored in the order of their slots.
InOrder ==
  /\ \A j \in 1 .. Len(toD) : toD[j] = Answer(queued, haveBlocks + j - 1)
  /\ \A j \in 1 .. Len(toU) - Lead :
       toU[Lead + j] = Request(queued, haveBlocks + Len(toD) + j - 1)
  /\ \A k \in 0 .. haveBlocks - 1 : blocks[k] = BlockBytes(queued, k)
  /\ Asked <= numBlocks(queued)
  /\ Lead = 1 => haveBlocks = 0 /\ toD = <<>>

\* Where the two loops of D are.
Loops ==
  CASE pc = "request"  -> /\ Asked < numBlocks(queued)
                          /\ begin = Asked * M
                          /\ length = pieceSize(queued) - Asked * M
    [] pc = "idle"     -> Asked = numBlocks(queued) /\ haveBlocks < numBlocks(queued)
    [] pc = "assemble" -> /\ haveBlocks = numBlocks(queued)
                          /\ next <= numBlocks(queued)
                          /\ pieceData = FileBytes(blockBegin(queued, 0),
                               IF next = numBlocks(queued) THEN pieceSize(queued) ELSE next * M)

Working == Serving /\ queued \in Pieces \ finished /\ InOrder /\ Loops

Over ==
  /\ Serving /\ queued = None /\ pc = "idle" /\ finished = Pieces
  /\ toU = <<>> /\ toD = <<>>

\* The file holds the finished pieces and nothing else.
FileInv ==
  /\ completedPieces = Cardinality(finished)
  /\ disk \in [FilePositions -> Byte \cup {Hole}]
  /\ \A i \in finished : \A k \in 1 .. pieceSize(i) :
       disk[i * meta.pieceLength + k - 1] = Content(i * meta.pieceLength + k - 1)

IInv == TypeOK /\ up /\ FileInv /\ (Greeting \/ Choked \/ Working \/ Over)

-----------------------------------------------------------------------------
\* A number below one that fits 32 bits fits 32 bits.
LEMMA WordDown ==
  ASSUME NEW v \in Word32, NEW u \in Nat, u <= v
  PROVE  u \in Word32
BY DEF Word32

\* A conversion to uint32_t keeps what fits.
LEMMA WordSame ==
  ASSUME NEW v \in Word32
  PROVE  ToWord32(v) = v
BY DEF Word32, ToWord32

\* The sizes of a piece: it lies in the file, and its blocks just cover it.
LEMMA Geometry ==
  ASSUME meta \in Metainfo, NEW i \in Pieces
  PROVE  /\ meta.pieceLength \in Nat \ {0}
         /\ meta.totalSize \in Nat \ {0}
         /\ M \in Nat \ {0}
         /\ i \in Word32
         /\ pieceSize(i) \in Word32 \ {0}
         /\ pieceSize(i) \in Nat \ {0}
         /\ pieceSize(i) <= meta.pieceLength
         /\ i * meta.pieceLength \in Nat
         /\ (i * meta.pieceLength) + pieceSize(i) <= meta.totalSize
         /\ numBlocks(i) \in Nat \ {0}
         /\ (numBlocks(i) - 1) * M < pieceSize(i)
         /\ pieceSize(i) <= numBlocks(i) * M
<1> DEFINE t == meta.totalSize
           l == meta.pieceLength
           n == meta.pieces
<1>1. /\ t \in Nat \ {0} /\ l \in Word32 \ {0} /\ n \in Word32
      /\ (n - 1) * l < t /\ t <= n * l
      /\ M \in Nat \ {0}
  BY TransferAssumption DEF WellFormed, M
<1>2. l \in Nat \ {0} /\ n \in Nat
  BY <1>1 DEF Word32
<1>3. i \in Nat /\ i <= n - 1
  BY <1>2 DEF Pieces
<1> HIDE DEF t, l, n
<1>4. i \in Word32
  BY <1>1, <1>2, <1>3, WordDown
<1>5. i * l \in Nat /\ (n - 1) * l \in Int
  BY <1>2, <1>3
<1>6. /\ pieceSize(i) \in Nat \ {0}
      /\ pieceSize(i) <= l
      /\ (i * l) + pieceSize(i) <= t
  <2>1. CASE i = n - 1
    <3>1. (IF t % l # 0 THEN t % l ELSE l) = t - (n - 1) * l
      BY <1>1, <1>2, LastPiece
    <3>2. pieceSize(i) = t - (n - 1) * l
      BY <2>1, <3>1 DEF pieceSize, t, l, n
    <3>3. t % l \in 0 .. l - 1
      BY <1>1, <1>2
    <3>4. pieceSize(i) <= l
      BY <1>2, <3>1, <3>2, <3>3
    <3> QED  BY <1>1, <1>2, <1>5, <2>1, <3>2, <3>4
  <2>2. CASE i < n - 1
    <3>1. pieceSize(i) = l
      BY <2>2, <1>2, <1>3 DEF pieceSize, l, n
    <3>2. (i * l) + l <= (n - 1) * l
      BY <2>2, <1>2, <1>3, TimesLess
    <3> QED  BY <1>1, <1>2, <1>5, <3>1, <3>2
  <2> QED  BY <1>2, <1>3, <2>1, <2>2
<1>7. pieceSize(i) \in Word32
  BY <1>1, <1>6, WordDown
<1>8. numBlocks(i) = (pieceSize(i) + M - 1) \div M
  BY <1>7, WordSame DEF numBlocks, M
<1>9. /\ numBlocks(i) \in Nat \ {0}
      /\ (numBlocks(i) - 1) * M < pieceSize(i)
      /\ pieceSize(i) <= numBlocks(i) * M
  BY <1>1, <1>6, <1>8, CeilDiv
<1> QED  BY <1>1, <1>2, <1>4, <1>5, <1>6, <1>7, <1>9 DEF t, l

\* The sizes of a block: it lies in its piece, only the last is short, its offset
\* names its slot, and all of them fit the 32-bit fields.
LEMMA BlockGeometry ==
  ASSUME meta \in Metainfo, NEW i \in Pieces, NEW k \in 0 .. numBlocks(i) - 1
  PROVE  /\ k * M \in Nat
         /\ k * M < pieceSize(i)
         /\ (k + 1) * M = (k * M) + M
         /\ BlockLength(i, k) \in 1 .. M
         /\ (k * M) + BlockLength(i, k) <= pieceSize(i)
         /\ k = numBlocks(i) - 1 <=> pieceSize(i) - (k * M) <= M
         /\ k = numBlocks(i) - 1 => (k * M) + BlockLength(i, k) = pieceSize(i)
         /\ k # numBlocks(i) - 1 => BlockLength(i, k) = M /\ (k + 1) * M < pieceSize(i)
         /\ (k * M) \div M = k
         /\ k * M \in Word32 /\ BlockLength(i, k) \in Word32
         /\ 9 + BlockLength(i, k) \in Word32
         /\ (k * M) + BlockLength(i, k) \in Word32
<1> DEFINE n == numBlocks(i)
           s == pieceSize(i)
<1>1. /\ M \in Nat \ {0} /\ s \in Word32 /\ s \in Nat \ {0} /\ n \in Nat \ {0}
      /\ (n - 1) * M < s /\ s <= n * M
  BY Geometry
<1> HIDE DEF n, s
<1>2. k \in Nat /\ k <= n - 1
  BY <1>1 DEF n
<1>3. /\ k * M \in Nat /\ (n - 1) * M \in Nat /\ (k + 1) * M = (k * M) + M
      /\ n * M = ((n - 1) * M) + M
  BY <1>1, <1>2
<1>4. k * M <= (n - 1) * M
  BY <1>1, <1>2, TimesLess
<1>5. k # n - 1 => (k * M) + M <= (n - 1) * M
  BY <1>1, <1>2, TimesLess
<1>6. k = n - 1 <=> s - (k * M) <= M
  BY <1>1, <1>2, <1>3, <1>5
<1>7. BlockLength(i, k) = IF k = n - 1 THEN s - (k * M) ELSE M
  BY DEF BlockLength, n, s
<1>8. BlockLength(i, k) \in 1 .. M /\ (k * M) + BlockLength(i, k) <= s
  BY <1>1, <1>3, <1>4, <1>5, <1>6, <1>7
<1>9. (k * M) \div M = k
  <2>1. 0 \in 0 .. M - 1 /\ k * M = k * M + 0
    BY <1>1, <1>3
  <2> QED  BY <1>1, <1>2, <1>3, <2>1, DivUnique
<1>10. /\ k * M \in Word32 /\ BlockLength(i, k) \in Word32
       /\ (k * M) + BlockLength(i, k) \in Word32
  BY <1>1, <1>3, <1>8, WordDown
<1>11. 9 + BlockLength(i, k) \in Word32
  <2>1. M + 9 \in Word32
    BY TransferAssumption DEF M
  <2> QED  BY <1>1, <1>8, <2>1, WordDown
<1>12. k * M < s
  BY <1>1, <1>3, <1>4
<1>13. k = n - 1 => (k * M) + BlockLength(i, k) = s
  BY <1>1, <1>3, <1>7
<1>14. k # n - 1 => BlockLength(i, k) = M /\ (k + 1) * M < s
  BY <1>1, <1>3, <1>5, <1>7
<1> QED  BY <1>3, <1>6, <1>8, <1>9, <1>10, <1>11, <1>12, <1>13, <1>14 DEF n, s

\* A function on 1 .. size is a sequence of that length.
LEMMA BytesAsSequence ==
  ASSUME NEW size \in Nat, NEW f \in [1 .. size -> Byte]
  PROVE  f \in Seq(Byte) /\ Len(f) = size
OBVIOUS

\* The bytes of a block are in the file.
LEMMA BlockBytesFacts ==
  ASSUME meta \in Metainfo, NEW i \in Pieces, NEW k \in 0 .. numBlocks(i) - 1
  PROVE  /\ BlockBytes(i, k) \in Seq(Byte)
         /\ Len(BlockBytes(i, k)) = BlockLength(i, k)
         /\ blockBegin(i, k * M) \in Nat
         /\ blockBegin(i, k * M) < meta.totalSize
<1> DEFINE from == blockBegin(i, k * M)
           b == BlockLength(i, k)
<1>1. /\ k * M \in Nat /\ b \in Nat \ {0} /\ (k * M) + b <= pieceSize(i)
      /\ i * meta.pieceLength \in Nat /\ pieceSize(i) \in Nat /\ meta.totalSize \in Nat
      /\ (i * meta.pieceLength) + pieceSize(i) <= meta.totalSize
  <2>1. b \in 1 .. M /\ M \in Nat
    BY BlockGeometry, Geometry
  <2> HIDE DEF b
  <2> QED  BY <2>1, BlockGeometry, Geometry DEF b
<1>2. from = (k * M) + (i * meta.pieceLength)
  BY DEF blockBegin
<1> HIDE DEF b, from
<1>3. from \in Nat /\ from + b <= meta.totalSize
  BY <1>1, <1>2
<1>4. \A j \in 1 .. b : Content(from + j - 1) \in Byte
  <2>1. \A p \in 0 .. meta.totalSize - 1 : Content(p) \in Byte
    BY ContentAssumption
  <2>2. \A j \in 1 .. b : from + j - 1 \in 0 .. meta.totalSize - 1
    BY <1>1, <1>3
  <2> QED  BY <2>1, <2>2
<1>5. BlockBytes(i, k) = [j \in 1 .. b |-> Content(from + j - 1)]
  BY DEF BlockBytes, FileBytes, b, from
<1>6. BlockBytes(i, k) \in [1 .. b -> Byte]
  BY <1>4, <1>5
<1>7. BlockBytes(i, k) \in Seq(Byte) /\ Len(BlockBytes(i, k)) = b
  BY <1>1, <1>6, BytesAsSequence
<1>8. from < meta.totalSize
  BY <1>1, <1>3
<1> QED  BY <1>3, <1>7, <1>8 DEF b, from

\* What U reads in a request of D.
LEMMA RequestFacts ==
  ASSUME meta \in Metainfo, NEW i \in Pieces, NEW k \in 0 .. numBlocks(i) - 1,
         NEW f, f = Request(i, k)
  PROVE  /\ f \in Seq(Byte)
         /\ MessageId(f) = REQUEST_ID
         /\ MsgSize(f) = 12
         /\ Field(f, 0) = i /\ Field(f, 1) = k * M /\ Field(f, 2) = BlockLength(i, k)
         /\ f # InterestedFrame
<1>1. REQUEST_ID \in Byte
  BY DEF REQUEST_ID, Byte
<1>2. i \in Word32 /\ k * M \in Word32 /\ BlockLength(i, k) \in Word32
  BY Geometry, BlockGeometry
<1> DEFINE b == k * M
           l == BlockLength(i, k)
<1>3. f = RangeFrame(REQUEST_ID, i, b, l)
  BY DEF Request, RequestFrame
<1> HIDE DEF b, l
<1>0. b \in Word32 /\ l \in Word32
  BY <1>2 DEF b, l
<1>4. /\ f \in Seq(Byte)
      /\ MessageId(f) = REQUEST_ID
      /\ MsgSize(f) = 12
      /\ Field(f, 0) = i /\ Field(f, 1) = b /\ Field(f, 2) = l
  BY <1>0, <1>1, <1>2, <1>3, DecodedAsEncoded
<1>5. MessageId(InterestedFrame) = INTERESTED_ID
  BY DEF MessageId, InterestedFrame
<1>6. f # InterestedFrame
  BY <1>4, <1>5 DEF REQUEST_ID, INTERESTED_ID
<1> QED  BY <1>4, <1>6 DEF b, l

\* What D reads in a block of U.
LEMMA AnswerFacts ==
  ASSUME meta \in Metainfo, NEW i \in Pieces, NEW k \in 0 .. numBlocks(i) - 1,
         NEW f, f = Answer(i, k)
  PROVE  /\ f \in Seq(Byte)
         /\ MessageId(f) = PIECE_BLOCK_ID
         /\ MsgSize(f) - 8 = BlockLength(i, k)
         /\ Field(f, 0) = i /\ Field(f, 1) = k * M
         /\ Rest(f, 8) = BlockBytes(i, k)
<1> DEFINE b == BlockBytes(i, k)
           o == k * M
<1>1. i \in Word32 /\ k * M \in Word32 /\ 9 + BlockLength(i, k) \in Word32
  BY Geometry, BlockGeometry
<1>2. b \in Seq(Byte) /\ Len(b) = BlockLength(i, k)
  BY BlockBytesFacts
<1>3. f = PieceFrame(i, o, b)
  BY DEF Answer
<1>0. o \in Word32
  BY <1>1
<1> HIDE DEF b, o
<1>4. 9 + Len(b) \in Word32
  BY <1>1, <1>2
<1>5. /\ f \in Seq(Byte)
      /\ MessageId(f) = PIECE_BLOCK_ID
      /\ MsgSize(f) = 8 + Len(b)
      /\ Field(f, 0) = i /\ Field(f, 1) = o
      /\ Rest(f, 8) = b
  <2>1. i \in Word32 /\ b \in Seq(Byte)
    BY <1>1, <1>2
  <2>2. LET g == PieceFrame(i, o, b)
        IN  /\ g \in Seq(Byte)
            /\ Len(g) = 4 + FrameLength(g)
            /\ MessageId(g) = PIECE_BLOCK_ID
            /\ MsgSize(g) = 8 + Len(b)
            /\ Field(g, 0) = i /\ Field(g, 1) = o
            /\ Rest(g, 8) = b
    BY <1>0, <1>4, <2>1, BlockDecodedAsEncoded, Zenon
  <2> QED  BY <1>3, <2>2, Zenon
<1>6. MsgSize(f) - 8 = BlockLength(i, k)
  <2>1. Len(b) \in Nat
    BY <1>2
  <2> QED  BY <1>2, <1>5, <2>1
<1> QED  BY <1>5, <1>6 DEF b, o

\* While the torrent file stays the same, so do sizes, blocks and messages.
LEMMA MetaSame ==
  ASSUME meta' = meta
  PROVE  /\ Pieces' = Pieces /\ FilePositions' = FilePositions
         /\ \A i : pieceSize(i)' = pieceSize(i)
         /\ \A i : numBlocks(i)' = numBlocks(i)
         /\ \A i, b : blockBegin(i, b)' = blockBegin(i, b)
         /\ \A i, k : BlockLength(i, k)' = BlockLength(i, k)
         /\ \A i, k : BlockBytes(i, k)' = BlockBytes(i, k)
         /\ \A i, k : Request(i, k)' = Request(i, k)
         /\ \A i, k : Answer(i, k)' = Answer(i, k)
<1>1. /\ Pieces' = Pieces /\ FilePositions' = FilePositions
      /\ \A i : pieceSize(i)' = pieceSize(i)
      /\ \A i, b : blockBegin(i, b)' = blockBegin(i, b)
  BY DEF Pieces, FilePositions, pieceSize, blockBegin
<1>2. \A i : numBlocks(i)' = numBlocks(i)
  BY <1>1 DEF numBlocks
<1>3. \A i, k : BlockLength(i, k)' = BlockLength(i, k)
  BY <1>1, <1>2 DEF BlockLength
<1>4. \A i, k : BlockBytes(i, k)' = BlockBytes(i, k)
  BY <1>1, <1>3 DEF BlockBytes
<1>5. \A i, k : Request(i, k)' = Request(i, k)
  BY <1>3 DEF Request
<1>6. \A i, k : Answer(i, k)' = Answer(i, k)
  BY <1>4 DEF Answer
<1> QED  BY <1>1, <1>2, <1>3, <1>4, <1>5, <1>6, Zenon

-----------------------------------------------------------------------------
Wire == Seq(Seq(Byte))

\* A frame taken from a wire.
LEMMA TailFacts ==
  ASSUME NEW s \in Wire, s # <<>>
  PROVE  /\ Tail(s) \in Wire
         /\ Len(s) \in Nat \ {0}
         /\ Len(Tail(s)) = Len(s) - 1
         /\ \A j \in 1 .. Len(s) - 1 : Tail(s)[j] = s[j + 1]
         /\ Head(s) = s[1]
         /\ Head(s) \in Seq(Byte)
BY DEF Wire

\* A frame put on a wire.
LEMMA AppendFacts ==
  ASSUME NEW s \in Wire, NEW f \in Seq(Byte)
  PROVE  /\ Append(s, f) \in Wire
         /\ Len(s) \in Nat
         /\ Len(Append(s, f)) = Len(s) + 1
         /\ \A j \in 1 .. Len(s) : Append(s, f)[j] = s[j]
         /\ Append(s, f)[Len(s) + 1] = f
         /\ Append(s, f) # <<>>
<1>1. /\ Append(s, f) \in Wire
      /\ Len(s) \in Nat
      /\ Len(Append(s, f)) = Len(s) + 1
      /\ \A j \in 1 .. Len(s) : Append(s, f)[j] = s[j]
      /\ Append(s, f)[Len(s) + 1] = f
  BY DEF Wire
<1>2. Append(s, f) # <<>>
  <2> DEFINE t == Append(s, f)
  <2>1. Len(t) \in Nat \ {0}
    BY <1>1
  <2> HIDE DEF t
  <2>2. t # <<>>
    BY <2>1
  <2> QED  BY <2>2 DEF t
<1> QED  BY <1>1, <1>2

\* The two frames without a field.
LEMMA FixedFrames ==
  /\ InterestedFrame \in Seq(Byte) /\ MessageId(InterestedFrame) = INTERESTED_ID
  /\ UnchokeFrame \in Seq(Byte) /\ MessageId(UnchokeFrame) = UNCHOKE_ID
BY DEF InterestedFrame, UnchokeFrame, MessageId, INTERESTED_ID, UNCHOKE_ID, Byte

\* What D learns from the bitfield of U, which has every piece.
LEMMA SeedBitfield ==
  ASSUME meta \in Metainfo, NEW raw, raw = getRawBitfield(Pieces, meta.pieces)
  PROVE  /\ raw \in Seq(Byte)
         /\ BitfieldFrame(raw) \in Seq(Byte)
         /\ MessageId(BitfieldFrame(raw)) = BITFIELD_ID
         /\ PiecesOfBitfield(Rest(BitfieldFrame(raw), 0), meta.pieces) = Pieces
         /\ Pieces # {}
<1> DEFINE n == meta.pieces
           l == meta.pieceLength
<1>1. /\ n \in Word32 /\ l \in Word32 /\ meta.totalSize <= n * l /\ meta.totalSize \in Nat \ {0}
  BY TransferAssumption DEF WellFormed
<1> HIDE DEF n, l
<1>2. n \in Nat /\ l \in Nat /\ n # 0
  <2>1. n \in Nat /\ l \in Nat
    BY <1>1 DEF Word32
  <2>2. n = 0 => n * l = 0
    BY <2>1
  <2> QED  BY <1>1, <2>1, <2>2
<1>3. Pieces = 0 .. n - 1 /\ Pieces # {}
  <2>1. Pieces = 0 .. n - 1
    BY DEF Pieces, n
  <2>2. 0 \in 0 .. n - 1
    BY <1>2
  <2> QED  BY <2>1, <2>2
<1>4. PiecesOfBitfield(raw, n) = Pieces /\ raw \in Seq(Byte)
  BY <1>2, <1>3, BitfieldRoundTrip DEF n
<1>5. Len(raw) = (n + 7) \div 8
  <2>1. (n + 7) \div 8 \in Nat
    BY <1>2
  <2>2. DOMAIN raw = 1 .. (n + 7) \div 8
    BY DEF getRawBitfield, BitfieldSize, n
  <2> QED  BY <1>4, <2>1, <2>2
<1>6. 1 + Len(raw) \in Word32
  <2>1. 1 + ((n + 7) \div 8) \in Nat /\ 1 + ((n + 7) \div 8) <= n + 1
    BY <1>2
  <2>2. n >= 2 => 1 + ((n + 7) \div 8) <= n
    BY <1>2
  <2>3. 2 \in Word32
    BY DEF Word32
  <2>4. CASE n >= 2
    BY <1>1, <1>5, <2>1, <2>2, <2>4, WordDown
  <2>5. CASE n = 1
    BY <1>5, <2>3, <2>5
  <2> QED  BY <1>2, <2>4, <2>5
<1>7. /\ BitfieldFrame(raw) \in Seq(Byte)
      /\ MessageId(BitfieldFrame(raw)) = BITFIELD_ID
      /\ Rest(BitfieldFrame(raw), 0) = raw
  BY <1>4, <1>6, BitfieldDecodedAsEncoded
<1> QED  BY <1>3, <1>4, <1>7 DEF n

\* The invariant holds at the start.
LEMMA InitIInv == Init => IInv
<1> SUFFICES ASSUME Init PROVE IInv
  OBVIOUS
<1> USE DEF Init
<1> DEFINE raw == getRawBitfield(Pieces, meta.pieces)
<1>1. BitfieldFrame(raw) \in Seq(Byte)
  BY SeedBitfield
<1>2. toD \in Seq(Seq(Byte)) /\ toU \in Seq(Seq(Byte))
  <2> HIDE DEF raw
  <2>1. toD = <<BitfieldFrame(raw)>> /\ toU = <<>>
    BY DEF raw
  <2> QED  BY <1>1, <2>1
<1>3. TypeOK
  <2>1. DOMAIN blocks = IF queued = None THEN {} ELSE 0 .. numBlocks(queued) - 1
    BY SMT
  <2>2. pieceData \in Seq(Byte)
    OBVIOUS
  <2> QED  BY <1>2, <2>1, <2>2 DEF TypeOK
<1>4. FileInv
  <2>1. completedPieces = Cardinality(finished)
    BY FS_EmptySet
  <2>2. disk \in [FilePositions -> Byte \cup {Hole}]
    BY DEF Hole
  <2> QED  BY <2>1, <2>2 DEF FileInv
<1>5. Greeting
  BY DEF Greeting
<1> QED  BY <1>3, <1>4, <1>5 DEF IInv

\* The message numbers differ.
LEMMA Numbers ==
  /\ UNCHOKE_ID # BITFIELD_ID /\ PIECE_BLOCK_ID # BITFIELD_ID /\ UNCHOKE_ID # PIECE_BLOCK_ID
  /\ INTERESTED_ID # REQUEST_ID
BY DEF UNCHOKE_ID, BITFIELD_ID, PIECE_BLOCK_ID, INTERESTED_ID, REQUEST_ID

\* The type invariant after a step, in terms of the same torrent file.
LEMMA MetaType ==
  ASSUME TypeOK, meta' = meta
  PROVE  TypeOK' <=> /\ up' \in BOOLEAN
                     /\ toU' \in Wire /\ toD' \in Wire
                     /\ amChoking' \in BOOLEAN /\ peerInterested' \in BOOLEAN /\ peerChoking' \in BOOLEAN
                     /\ remoteHas' \subseteq Pieces
                     /\ queued' \in Pieces \cup {None}
                     /\ haveBlocks' \in Nat
                     /\ DOMAIN blocks' = IF queued' = None THEN {} ELSE 0 .. numBlocks(queued') - 1
                     /\ pc' \in {"idle", "request", "assemble"}
                     /\ begin' \in Nat /\ length' \in Nat /\ next' \in Nat
                     /\ pieceData' \in Seq(Byte)
                     /\ finished' \subseteq Pieces
                     /\ completedPieces' \in Nat
<1>1. Pieces' = Pieces /\ \A i : numBlocks(i)' = numBlocks(i)
  BY MetaSame
<1>2. numBlocks(queued)' = numBlocks(queued')
  BY <1>1
<1>3. meta' \in Metainfo
  BY DEF TypeOK
<1>4. TypeOK' <=> /\ meta' \in Metainfo
                  /\ up' \in BOOLEAN
                  /\ toU' \in Seq(Seq(Byte)) /\ toD' \in Seq(Seq(Byte))
                  /\ amChoking' \in BOOLEAN /\ peerInterested' \in BOOLEAN /\ peerChoking' \in BOOLEAN
                  /\ remoteHas' \subseteq Pieces'
                  /\ queued' \in Pieces' \cup {None}
                  /\ haveBlocks' \in Nat
                  /\ DOMAIN blocks' = IF queued' = None THEN {} ELSE 0 .. numBlocks(queued)' - 1
                  /\ pc' \in {"idle", "request", "assemble"}
                  /\ begin' \in Nat /\ length' \in Nat /\ next' \in Nat
                  /\ pieceData' \in Seq(Byte)
                  /\ finished' \subseteq Pieces'
                  /\ completedPieces' \in Nat
  BY Zenon DEF TypeOK, None
<1> QED  BY <1>1, <1>2, <1>3, <1>4, Zenon DEF Wire

\* A step that leaves the file alone.
LEMMA FileSame ==
  ASSUME FileInv, meta' = meta, UNCHANGED fileVars
  PROVE  FileInv'
<1>1. /\ disk' = disk /\ finished' = finished /\ completedPieces' = completedPieces
      /\ FilePositions' = FilePositions /\ \A i : pieceSize(i)' = pieceSize(i)
  BY MetaSame DEF fileVars
<1> QED  BY <1>1 DEF FileInv, Hole

\* From the bitfield on its way only its handler can step, and D asks for a piece.
LEMMA GreetingStep ==
  ASSUME IInv, Greeting, Next
  PROVE  IInv'
<1> DEFINE raw == getRawBitfield(Pieces, meta.pieces)
           f == BitfieldFrame(raw)
<1> HIDE DEF raw
<1>1. /\ TypeOK /\ up /\ FileInv /\ meta \in Metainfo
      /\ toU = <<>> /\ toD = <<f>> /\ pc = "idle" /\ finished = {} /\ remoteHas = {}
      /\ amChoking = TRUE /\ peerInterested = FALSE /\ peerChoking = TRUE
  BY DEF IInv, TypeOK, Greeting, raw
<1>2. /\ f \in Seq(Byte) /\ MessageId(f) = BITFIELD_ID
      /\ PiecesOfBitfield(Rest(f, 0), meta.pieces) = Pieces
      /\ Pieces # {}
  BY <1>1, SeedBitfield DEF raw
<1> HIDE DEF f
<1>3. Head(toD) = f /\ Tail(toD) = <<>> /\ MessageId(Head(toD)) = BITFIELD_ID
  BY <1>1, <1>2
<1>4. HandleBitfield
  <2>1. ~ HandleInterested /\ ~ HandleRequest
    BY <1>1 DEF HandleInterested, HandleRequest, Takes
  <2>2. ~ HandleUnchoke /\ ~ HandlePieceBlock
    BY <1>3, Numbers DEF HandleUnchoke, HandlePieceBlock, Takes
  <2>3. ~ RequestBlock /\ ~ AppendBlock /\ ~ PieceCompleted
    BY <1>1 DEF RequestBlock, AppendBlock, PieceCompleted
  <2> QED  BY <2>1, <2>2, <2>3, Zenon DEF Next, U, D
<1>5. /\ toD' = Tail(toD) /\ remoteHas' = remoteHas \cup PiecesOfBitfield(Rest(Head(toD), 0), meta.pieces)
      /\ SelectPieceAndRequest(remoteHas', finished)
      /\ UNCHANGED <<meta, up, seedVars, peerChoking, next, pieceData, fileVars>>
  BY <1>4, Zenon DEF HandleBitfield
<1>6. toD' = <<>> /\ remoteHas' = Pieces
  BY <1>1, <1>2, <1>3, <1>5
<1>7. PICK i \in Pieces : SendPieceRequest(i)
  BY <1>1, <1>2, <1>5, <1>6 DEF SelectPieceAndRequest, Wanted
<1>8. /\ toU' = Append(toU, InterestedFrame) /\ queued' = i /\ haveBlocks' = 0
      /\ blocks' = [k \in 0 .. numBlocks(i) - 1 |-> <<>>]
      /\ pc' = "idle" /\ UNCHANGED <<begin, length>>
  BY <1>1, <1>7 DEF SendPieceRequest
<1>9. toU' = <<InterestedFrame>>
  BY <1>1, <1>8
<1>10. TypeOK'
  <2>1. toU' \in Wire /\ toD' \in Wire
    <3>1. toU' \in Seq(Seq(Byte)) /\ toD' \in Seq(Seq(Byte))
      BY <1>6, <1>9, FixedFrames
    <3> QED  BY <3>1 DEF Wire
  <2>2. i # None
    BY SMT DEF Pieces, None
  <2>3. DOMAIN blocks' = IF queued' = None THEN {} ELSE 0 .. numBlocks(queued') - 1
    BY <1>8, <2>2
  <2>4. /\ up' \in BOOLEAN /\ amChoking' \in BOOLEAN /\ peerInterested' \in BOOLEAN
        /\ peerChoking' \in BOOLEAN
        /\ begin' \in Nat /\ length' \in Nat /\ next' \in Nat /\ pieceData' \in Seq(Byte)
        /\ finished' \subseteq Pieces /\ completedPieces' \in Nat
    BY <1>1, <1>5, <1>8 DEF TypeOK, seedVars, fileVars
  <2>5. haveBlocks' \in Nat /\ meta' = meta /\ pc' \in {"idle", "request", "assemble"}
        /\ remoteHas' \subseteq Pieces /\ queued' \in Pieces \cup {None}
    BY <1>5, <1>6, <1>8
  <2> QED  BY <1>1, <2>1, <2>3, <2>4, <2>5, MetaType
<1>11. Choked'
  <2>1. Pieces' = Pieces
    BY <1>5, MetaSame
  <2> QED  BY <1>1, <1>5, <1>6, <1>8, <1>9, <2>1 DEF Choked, seedVars, fileVars
<1>12. FileInv' /\ up'
  BY <1>1, <1>5, FileSame
<1> QED  BY <1>10, <1>11, <1>12 DEF IInv

\* The invariant after a step, in terms of the same torrent file.
LEMMA MetaWorking ==
  ASSUME meta' = meta,
         peerChoking' = FALSE, amChoking' = FALSE, peerInterested' = TRUE, remoteHas' = Pieces,
         queued' \in Pieces \ finished',
         \A j \in 1 .. Len(toD') : toD'[j] = Answer(queued', haveBlocks' + j - 1),
         \A j \in 1 .. Len(toU') - Lead' :
            toU'[Lead' + j] = Request(queued', haveBlocks' + Len(toD') + j - 1),
         \A k \in 0 .. haveBlocks' - 1 : blocks'[k] = BlockBytes(queued', k),
         Asked' <= numBlocks(queued'),
         Lead' = 1 => haveBlocks' = 0 /\ toD' = <<>>,
         pc' \in {"request", "idle", "assemble"},
         pc' = "request" => /\ Asked' < numBlocks(queued')
                            /\ begin' = Asked' * M
                            /\ length' = pieceSize(queued') - Asked' * M,
         pc' = "idle" => Asked' = numBlocks(queued') /\ haveBlocks' < numBlocks(queued'),
         pc' = "assemble" => /\ haveBlocks' = numBlocks(queued')
                             /\ next' <= numBlocks(queued')
                             /\ pieceData' = FileBytes(blockBegin(queued', 0),
                                  IF next' = numBlocks(queued') THEN pieceSize(queued') ELSE next' * M)
  PROVE  Working'
<1>1. /\ Pieces' = Pieces
      /\ \A i : numBlocks(i)' = numBlocks(i)
      /\ \A i : pieceSize(i)' = pieceSize(i)
      /\ \A i, b : blockBegin(i, b)' = blockBegin(i, b)
      /\ \A i, k : BlockBytes(i, k)' = BlockBytes(i, k)
      /\ \A i, k : Request(i, k)' = Request(i, k)
      /\ \A i, k : Answer(i, k)' = Answer(i, k)
  BY MetaSame
<1>2. Serving'
  BY <1>1 DEF Serving
<1>3. queued' \in Pieces' \ finished'
  BY <1>1
<1>4. InOrder'
  <2>1. \A j \in 1 .. Len(toD') : toD'[j] = Answer(queued, haveBlocks + j - 1)'
    BY <1>1
  <2>2. \A j \in 1 .. Len(toU') - Lead' :
          toU'[Lead' + j] = Request(queued, haveBlocks + Len(toD) + j - 1)'
    BY <1>1
  <2>3. \A k \in 0 .. haveBlocks' - 1 : blocks'[k] = BlockBytes(queued, k)'
    BY <1>1
  <2>4. Asked' <= numBlocks(queued)'
    BY <1>1
  <2> QED  BY <2>1, <2>2, <2>3, <2>4 DEF InOrder
<1>5. Loops'
  BY <1>1 DEF Loops, M
<1> QED  BY <1>2, <1>3, <1>4, <1>5 DEF Working

\* From there the INTERESTED and then the UNCHOKE are handled, and the loop starts.
LEMMA ChokedStep ==
  ASSUME IInv, Choked, Next
  PROVE  IInv'
<1>1. /\ TypeOK /\ up /\ FileInv /\ meta \in Metainfo
      /\ peerChoking = TRUE /\ remoteHas = Pieces /\ finished = {}
      /\ queued \in Pieces /\ haveBlocks = 0 /\ pc = "idle"
  BY DEF IInv, TypeOK, Choked
<1>2. /\ queued # None
      /\ numBlocks(queued) \in Nat \ {0} /\ M \in Nat \ {0} /\ pieceSize(queued) \in Nat
      /\ DOMAIN blocks = 0 .. numBlocks(queued) - 1
  <2>1. numBlocks(queued) \in Nat \ {0} /\ M \in Nat \ {0} /\ pieceSize(queued) \in Nat /\ queued \in Word32
    BY <1>1, Geometry
  <2>2. queued # None
    BY <2>1 DEF None, Word32
  <2> QED  BY <1>1, <2>1, <2>2 DEF TypeOK
<1>3. ~ RequestBlock /\ ~ AppendBlock /\ ~ PieceCompleted
  BY <1>1 DEF RequestBlock, AppendBlock, PieceCompleted
<1>4. CASE toU = <<InterestedFrame>> /\ toD = <<>> /\ amChoking = TRUE /\ peerInterested = FALSE
  <2>1. Head(toU) = InterestedFrame /\ Tail(toU) = <<>>
    BY <1>4
  <2>2. HandleInterested
    <3>1. ~ HandleRequest
      BY <2>1, FixedFrames, Numbers DEF HandleRequest, Takes
    <3>2. ~ HandleBitfield /\ ~ HandleUnchoke /\ ~ HandlePieceBlock
      BY <1>4 DEF HandleBitfield, HandleUnchoke, HandlePieceBlock, Takes
    <3> QED  BY <1>3, <3>1, <3>2, Zenon DEF Next, U, D
  <2>3. /\ toU' = Tail(toU) /\ peerInterested' = TRUE /\ amChoking' = FALSE
        /\ toD' = IF amChoking THEN Append(toD, UnchokeFrame) ELSE toD
        /\ UNCHANGED <<meta, up, peerChoking, remoteHas, pieceVars, loopVars, fileVars>>
    BY <2>2, Zenon DEF HandleInterested
  <2>4. toU' = <<>> /\ toD' = <<UnchokeFrame>>
    BY <1>4, <2>1, <2>3
  <2>5. TypeOK'
    <3>1. toU' \in Wire /\ toD' \in Wire
      BY <2>4, FixedFrames DEF Wire
    <3> QED  BY <1>1, <2>3, <3>1, MetaType, Zenon DEF TypeOK, pieceVars, loopVars, fileVars
  <2>6. Choked'
    <3>1. Pieces' = Pieces
      BY <2>3, MetaSame
    <3> QED  BY <1>1, <2>3, <2>4, <3>1 DEF Choked, pieceVars, loopVars, fileVars
  <2> QED  BY <1>1, <2>3, <2>5, <2>6, FileSame DEF IInv
<1>5. CASE toU = <<>> /\ toD = <<UnchokeFrame>> /\ amChoking = FALSE /\ peerInterested = TRUE
  <2>1. Head(toD) = UnchokeFrame /\ Tail(toD) = <<>>
    BY <1>5
  <2>2. HandleUnchoke
    <3>1. ~ HandleBitfield /\ ~ HandlePieceBlock
      BY <2>1, FixedFrames, Numbers DEF HandleBitfield, HandlePieceBlock, Takes
    <3>2. ~ HandleInterested /\ ~ HandleRequest
      BY <1>5 DEF HandleInterested, HandleRequest, Takes
    <3> QED  BY <1>3, <3>1, <3>2, Zenon DEF Next, U, D
  <2>3. /\ toD' = Tail(toD) /\ peerChoking' = FALSE
        /\ pc' = "request" /\ begin' = 0 /\ length' = pieceSize(queued)
        /\ UNCHANGED <<meta, up, toU, seedVars, remoteHas, pieceVars, next, pieceData, fileVars>>
    BY <1>2, <2>2, Zenon DEF HandleUnchoke, StartRequests
  <2>4. toU' = <<>> /\ toD' = <<>>
    BY <1>5, <2>1, <2>3
  <2>5. TypeOK'
    <3>1. toU' \in Wire /\ toD' \in Wire
      BY <2>4 DEF Wire
    <3>2. begin' \in Nat /\ length' \in Nat /\ pc' \in {"idle", "request", "assemble"} /\ peerChoking' \in BOOLEAN
      BY <1>2, <2>3
    <3> QED  BY <1>1, <2>3, <3>1, <3>2, MetaType, Zenon DEF TypeOK, seedVars, pieceVars, fileVars
  <2>6. Lead' = 0
    BY <2>4 DEF Lead
  <2>7. Asked' = 0
    <3>1. haveBlocks' = 0
      BY <1>1, <2>3 DEF pieceVars
    <3>2. Len(toD') = 0 /\ Len(toU') = 0
      BY <2>4
    <3> QED  BY <2>6, <3>1, <3>2 DEF Asked
  <2>8. Working'
    <3>1. /\ queued' = queued /\ haveBlocks' = haveBlocks /\ finished' = finished
          /\ amChoking' = amChoking /\ peerInterested' = peerInterested
      BY <2>3 DEF pieceVars, fileVars, seedVars
    <3>2. \A j \in 1 .. Len(toD') : toD'[j] = Answer(queued', haveBlocks' + j - 1)
      BY <2>4
    <3>3. \A j \in 1 .. Len(toU') - Lead' :
            toU'[Lead' + j] = Request(queued', haveBlocks' + Len(toD') + j - 1)
      BY <2>4, <2>6
    <3>4. \A k \in 0 .. haveBlocks' - 1 : blocks'[k] = BlockBytes(queued', k)
      BY <1>1, <3>1
    <3>5. /\ Asked' < numBlocks(queued') /\ begin' = Asked' * M
          /\ length' = pieceSize(queued') - Asked' * M
      BY <1>2, <2>3, <2>7, <3>1
    <3>6. Asked' <= numBlocks(queued')
      BY <1>2, <2>7, <3>1
    <3>7. pc' \in {"request", "idle", "assemble"} /\ pc' # "idle" /\ pc' # "assemble"
      BY <2>3
    <3>8. /\ meta' = meta /\ peerChoking' = FALSE /\ amChoking' = FALSE /\ peerInterested' = TRUE
          /\ remoteHas' = Pieces /\ queued' \in Pieces \ finished'
      BY <1>1, <1>5, <2>3, <3>1
    <3>9. Lead' # 1
      BY <2>6
    <3> QED  BY <3>2, <3>3, <3>4, <3>5, <3>6, <3>7, <3>8, <3>9, MetaWorking, Zenon
  <2> QED  BY <1>1, <2>3, <2>5, <2>8, FileSame DEF IInv
<1> QED  BY <1>4, <1>5 DEF Choked

\* When all is done there is nothing left to do.
LEMMA OverStep ==
  ASSUME IInv, Over, Next
  PROVE  FALSE
BY Zenon DEF Over, Next, U, D, HandleInterested, HandleRequest, HandleBitfield, HandleUnchoke,
             RequestBlock, HandlePieceBlock, AppendBlock, PieceCompleted, Takes

-----------------------------------------------------------------------------
\* What the invariant says of the state while a piece is transferred.
LEMMA WorkingFacts ==
  ASSUME IInv, Working
  PROVE  /\ TypeOK /\ up /\ FileInv /\ meta \in Metainfo /\ Serving
         /\ queued \in Pieces \ finished /\ queued # None
         /\ numBlocks(queued) \in Nat \ {0} /\ pieceSize(queued) \in Nat \ {0} /\ M \in Nat \ {0}
         /\ toU \in Wire /\ toD \in Wire /\ Len(toU) \in Nat /\ Len(toD) \in Nat
         /\ haveBlocks \in Nat /\ DOMAIN blocks = 0 .. numBlocks(queued) - 1
         /\ Lead \in {0, 1} /\ Lead <= Len(toU)
         /\ Asked = haveBlocks + Len(toD) + Len(toU) - Lead /\ Asked <= numBlocks(queued)
         /\ Lead = 1 => toU # <<>> /\ Head(toU) = InterestedFrame /\ toD = <<>> /\ haveBlocks = 0
         /\ toD # <<>> => /\ Lead = 0 /\ haveBlocks < numBlocks(queued)
                          /\ Head(toD) = Answer(queued, haveBlocks)
         /\ toU # <<>> /\ Lead = 0 => /\ haveBlocks + Len(toD) < numBlocks(queued)
                                      /\ Head(toU) = Request(queued, haveBlocks + Len(toD))
<1>1. /\ TypeOK /\ up /\ FileInv /\ meta \in Metainfo /\ Serving
      /\ queued \in Pieces \ finished /\ InOrder
  BY DEF IInv, TypeOK, Working
<1>2. /\ numBlocks(queued) \in Nat \ {0} /\ pieceSize(queued) \in Nat \ {0} /\ M \in Nat \ {0}
      /\ queued \in Word32
  BY <1>1, Geometry
<1>3. queued # None
  BY <1>2 DEF None, Word32
<1>4. /\ toU \in Wire /\ toD \in Wire /\ haveBlocks \in Nat
      /\ DOMAIN blocks = 0 .. numBlocks(queued) - 1
  BY <1>1, <1>3 DEF TypeOK, Wire
<1>5. Len(toU) \in Nat /\ Len(toD) \in Nat
  BY <1>4 DEF Wire
<1>6. /\ toD # <<>> => Len(toD) \in Nat \ {0} /\ Head(toD) = toD[1]
      /\ toU # <<>> => Len(toU) \in Nat \ {0} /\ Head(toU) = toU[1]
  BY <1>4, TailFacts
<1>7. /\ Lead \in {0, 1} /\ Lead <= Len(toU)
      /\ Lead = 1 => toU # <<>> /\ Head(toU) = InterestedFrame
  BY <1>5, <1>6 DEF Lead
<1>8. /\ \A j \in 1 .. Len(toD) : toD[j] = Answer(queued, haveBlocks + j - 1)
      /\ \A j \in 1 .. Len(toU) - Lead :
           toU[Lead + j] = Request(queued, haveBlocks + Len(toD) + j - 1)
      /\ Asked <= numBlocks(queued)
      /\ Lead = 1 => haveBlocks = 0 /\ toD = <<>>
  BY <1>1, Zenon DEF InOrder
<1>9. Asked = haveBlocks + Len(toD) + Len(toU) - Lead
  BY DEF Asked
<1>10. ASSUME toD # <<>>
       PROVE  Lead = 0 /\ haveBlocks < numBlocks(queued) /\ Head(toD) = Answer(queued, haveBlocks)
  <2>1. Lead = 0 /\ Len(toD) \in Nat \ {0} /\ Head(toD) = toD[1]
    BY <1>6, <1>7, <1>8, <1>10
  <2>2. toD[1] = Answer(queued, haveBlocks + 1 - 1)
    BY <1>8, <2>1
  <2>3. haveBlocks + 1 - 1 = haveBlocks /\ haveBlocks < numBlocks(queued)
    BY <1>2, <1>4, <1>5, <1>8, <1>9, <2>1
  <2> QED  BY <2>1, <2>2, <2>3
<1>11. ASSUME toU # <<>>, Lead = 0
       PROVE  /\ haveBlocks + Len(toD) < numBlocks(queued)
              /\ Head(toU) = Request(queued, haveBlocks + Len(toD))
  <2>1. Len(toU) \in Nat \ {0} /\ Head(toU) = toU[1]
    BY <1>6, <1>11
  <2>2. toU[0 + 1] = Request(queued, haveBlocks + Len(toD) + 1 - 1)
    BY <1>8, <1>11, <2>1
  <2>3. /\ haveBlocks + Len(toD) + 1 - 1 = haveBlocks + Len(toD)
        /\ haveBlocks + Len(toD) < numBlocks(queued)
    BY <1>2, <1>4, <1>5, <1>8, <1>9, <1>11, <2>1
  <2> QED  BY <2>1, <2>2, <2>3
<1> QED  BY <1>1, <1>2, <1>3, <1>4, <1>5, <1>7, <1>8, <1>9, <1>10, <1>11, Zenon

\* What a Request in front of toU or an Answer in front of toD says of the message.
LEMMA WorkingHeads ==
  ASSUME IInv, Working
  PROVE  /\ toD # <<>> => MessageId(Head(toD)) = PIECE_BLOCK_ID
         /\ toU # <<>> /\ Lead = 0 => /\ MessageId(Head(toU)) = REQUEST_ID
                                      /\ Head(toU) # InterestedFrame
         /\ toU # <<>> /\ Lead = 1 => MessageId(Head(toU)) = INTERESTED_ID
<1>1. ASSUME toD # <<>> PROVE MessageId(Head(toD)) = PIECE_BLOCK_ID
  <2>1. /\ Head(toD) = Answer(queued, haveBlocks) /\ haveBlocks \in 0 .. numBlocks(queued) - 1
        /\ queued \in Pieces /\ meta \in Metainfo
    BY <1>1, WorkingFacts
  <2> QED  BY <2>1, AnswerFacts
<1>2. ASSUME toU # <<>>, Lead = 0
      PROVE  MessageId(Head(toU)) = REQUEST_ID /\ Head(toU) # InterestedFrame
  <2>1. /\ Head(toU) = Request(queued, haveBlocks + Len(toD))
        /\ haveBlocks + Len(toD) \in 0 .. numBlocks(queued) - 1
        /\ queued \in Pieces /\ meta \in Metainfo
    BY <1>2, WorkingFacts
  <2> QED  BY <2>1, RequestFacts
<1>3. ASSUME toU # <<>>, Lead = 1 PROVE MessageId(Head(toU)) = INTERESTED_ID
  BY <1>3, WorkingFacts, FixedFrames
<1> QED  BY <1>1, <1>2, <1>3, Zenon

\* What is left on the wire to U when its first frame is taken.
LEMMA RestOfRequests ==
  ASSUME IInv, Working, toU # <<>>
  PROVE  /\ Tail(toU) \in Wire /\ Len(Tail(toU)) = Len(toU) - 1
         /\ \A j \in 1 .. Len(Tail(toU)) :
              Tail(toU)[j] = Request(queued, haveBlocks + Len(toD) + (1 - Lead) + j - 1)
         /\ Tail(toU) # <<>> => Tail(toU)[1] # InterestedFrame
<1> DEFINE r == Tail(toU)
           base == haveBlocks + Len(toD) + (1 - Lead)
<1>1. /\ Lead \in {0, 1} /\ haveBlocks \in Nat /\ Len(toD) \in Nat /\ Len(toU) \in Nat
      /\ haveBlocks + Len(toD) + Len(toU) - Lead <= numBlocks(queued)
      /\ numBlocks(queued) \in Nat /\ queued \in Pieces /\ meta \in Metainfo /\ toU \in Wire
  BY WorkingFacts
<1>2. /\ r \in Wire /\ Len(r) = Len(toU) - 1 /\ Len(toU) \in Nat \ {0}
      /\ \A j \in 1 .. Len(toU) - 1 : r[j] = toU[j + 1]
  BY <1>1, TailFacts
<1> HIDE DEF r
<1>3. ASSUME NEW j \in 1 .. Len(r)
      PROVE  r[j] = Request(queued, base + j - 1)
  <2>1. r[j] = toU[j + 1] /\ j + 1 - Lead \in 1 .. Len(toU) - Lead /\ j \in Nat
    BY <1>1, <1>2
  <2>2. \A k \in 1 .. Len(toU) - Lead :
          toU[Lead + k] = Request(queued, haveBlocks + Len(toD) + k - 1)
    BY Zenon DEF Working, InOrder
  <2>3. toU[Lead + (j + 1 - Lead)] = Request(queued, haveBlocks + Len(toD) + (j + 1 - Lead) - 1)
    BY <2>1, <2>2, Zenon
  <2>4. /\ Lead + (j + 1 - Lead) = j + 1
        /\ haveBlocks + Len(toD) + (j + 1 - Lead) - 1 = base + j - 1
    BY <1>1, <2>1
  <2> QED  BY <2>1, <2>3, <2>4
<1>4. ASSUME r # <<>> PROVE r[1] # InterestedFrame
  <2>1. Len(r) \in Nat \ {0}
    BY <1>2, <1>4, TailFacts
  <2>2. r[1] = Request(queued, base + 1 - 1)
    BY <1>3, <2>1
  <2>3. base + 1 - 1 \in 0 .. numBlocks(queued) - 1
    BY <1>1, <1>2, <2>1
  <2> QED  BY <1>1, <2>2, <2>3, RequestFacts
<1> QED  BY <1>2, <1>3, <1>4 DEF r

\* A second INTERESTED changes nothing.
LEMMA WorkInterested ==
  ASSUME IInv, Working, HandleInterested
  PROVE  IInv'
<1>1. /\ toU # <<>> /\ up /\ MessageId(Head(toU)) = INTERESTED_ID
      /\ toU' = Tail(toU) /\ peerInterested' = TRUE /\ amChoking' = FALSE
      /\ toD' = IF amChoking THEN Append(toD, UnchokeFrame) ELSE toD
      /\ UNCHANGED <<meta, up, peerChoking, remoteHas, pieceVars, loopVars, fileVars>>
  BY Zenon DEF HandleInterested, Takes
<1>2. /\ TypeOK /\ FileInv /\ meta \in Metainfo /\ Serving
      /\ queued \in Pieces \ finished
      /\ toU \in Wire /\ toD \in Wire /\ Len(toU) \in Nat /\ Len(toD) \in Nat
      /\ haveBlocks \in Nat /\ numBlocks(queued) \in Nat
      /\ Lead \in {0, 1}
      /\ Asked = haveBlocks + Len(toD) + Len(toU) - Lead /\ Asked <= numBlocks(queued)
  BY WorkingFacts
<1>3. Lead = 1 /\ haveBlocks = 0 /\ toD = <<>>
  BY <1>1, <1>2, WorkingFacts, WorkingHeads, Numbers
<1>4. /\ peerChoking' = FALSE /\ amChoking' = FALSE /\ peerInterested' = TRUE
      /\ remoteHas' = Pieces /\ toD' = toD
  BY <1>1, <1>2 DEF Serving
<1>5. /\ queued' = queued /\ haveBlocks' = haveBlocks /\ blocks' = blocks
      /\ pc' = pc /\ begin' = begin /\ length' = length /\ next' = next /\ pieceData' = pieceData
      /\ finished' = finished /\ meta' = meta /\ up' = up
  BY <1>1 DEF pieceVars, loopVars, fileVars
<1>6. /\ toU' \in Wire /\ Len(toU') = Len(toU) - 1
      /\ \A j \in 1 .. Len(toU') :
           toU'[j] = Request(queued, haveBlocks + Len(toD) + (1 - Lead) + j - 1)
      /\ toU' # <<>> => toU'[1] # InterestedFrame
  BY <1>1, RestOfRequests
<1>7. Lead' = 0
  BY <1>6 DEF Lead
<1>8. Asked' = Asked
  BY <1>2, <1>3, <1>4, <1>5, <1>6, <1>7 DEF Asked
<1>9. TypeOK'
  BY <1>1, <1>2, <1>4, <1>5, <1>6, MetaType, Zenon DEF TypeOK, fileVars, Wire
<1>10. Working'
  <2>1. \A j \in 1 .. Len(toD') : toD'[j] = Answer(queued', haveBlocks' + j - 1)
    BY <1>3, <1>4
  <2>2. \A j \in 1 .. Len(toU') - Lead' :
          toU'[Lead' + j] = Request(queued', haveBlocks' + Len(toD') + j - 1)
    <3>1. ASSUME NEW j \in 1 .. Len(toU') - Lead'
          PROVE  toU'[Lead' + j] = Request(queued', haveBlocks' + Len(toD') + j - 1)
      <4>1. j \in 1 .. Len(toU') /\ Lead' + j = j
        BY <1>2, <1>6, <1>7
      <4>2. haveBlocks + Len(toD) + (1 - Lead) + j - 1 = haveBlocks' + Len(toD') + j - 1
        BY <1>2, <1>3, <1>4, <1>5, <4>1
      <4>3. toU'[j] = Request(queued, haveBlocks + Len(toD) + (1 - Lead) + j - 1)
        BY <1>6, <4>1, Zenon
      <4> QED  BY <1>5, <4>1, <4>2, <4>3, Zenon
    <3> QED  BY <3>1, Zenon
  <2>3. \A k \in 0 .. haveBlocks' - 1 : blocks'[k] = BlockBytes(queued', k)
    BY <1>3, <1>5
  <2>4. Lead' # 1 /\ Asked' <= numBlocks(queued')
    BY <1>2, <1>5, <1>7, <1>8
  <2>5. /\ pc' \in {"request", "idle", "assemble"}
        /\ pc' = "request" => /\ Asked' < numBlocks(queued')
                              /\ begin' = Asked' * M
                              /\ length' = pieceSize(queued') - Asked' * M
        /\ pc' = "idle" => Asked' = numBlocks(queued') /\ haveBlocks' < numBlocks(queued')
        /\ pc' = "assemble" => /\ haveBlocks' = numBlocks(queued')
                               /\ next' <= numBlocks(queued')
                               /\ pieceData' = FileBytes(blockBegin(queued', 0),
                                    IF next' = numBlocks(queued') THEN pieceSize(queued') ELSE next' * M)
    BY <1>2, <1>5, <1>8 DEF Working, Loops, TypeOK
  <2>6. queued' \in Pieces \ finished'
    BY <1>2, <1>5
  <2> QED  BY <1>4, <1>5, <2>1, <2>2, <2>3, <2>4, <2>5, <2>6, MetaWorking, Zenon
<1> QED  BY <1>1, <1>2, <1>9, <1>10, FileSame DEF IInv

\* U takes the request for an error in no case, and answers with the block.
LEMMA RequestAnswered ==
  ASSUME IInv, Working, HandleRequest
  PROVE  /\ toU # <<>> /\ Lead = 0
         /\ up' = up
         /\ toD' = Append(toD, Answer(queued, haveBlocks + Len(toD)))
<1> DEFINE k == haveBlocks + Len(toD)
           f == Head(toU)
           o == k * M
           n == BlockLength(queued, k)
<1>1. up /\ toU # <<>> /\ MessageId(f) = REQUEST_ID
  BY Zenon DEF HandleRequest, Takes
<1>2. Lead = 0
  BY <1>1, WorkingHeads, WorkingFacts, Numbers
<1>3. /\ meta \in Metainfo /\ queued \in Pieces /\ k \in 0 .. numBlocks(queued) - 1
      /\ f = Request(queued, k) /\ Serving
  BY <1>1, <1>2, WorkingFacts
<1> HIDE DEF k
<1>4. /\ MsgSize(f) = 12
      /\ Field(f, 0) = queued /\ Field(f, 1) = o /\ Field(f, 2) = n
  BY <1>3, RequestFacts
<1>5. /\ o \in Nat /\ n \in 1 .. M /\ o + n <= pieceSize(queued) /\ o + n \in Word32
      /\ M \in Nat
  BY <1>3, BlockGeometry, Geometry
<1>6. blockBegin(queued, o) < meta.totalSize
  BY <1>3, BlockBytesFacts
<1>7. meta.pieces \in Nat /\ queued < meta.pieces
  <2>1. meta.pieces \in Word32
    BY <1>3, TransferAssumption DEF WellFormed
  <2> QED  BY <1>3, <2>1 DEF Pieces, Word32
<1>8. Answer(queued, k) = PieceFrame(queued, o, FileBytes(blockBegin(queued, o), n))
  BY DEF Answer, BlockBytes
<1> HIDE DEF o, n
<1>9. InPiece(queued, o, n)
  BY <1>5, <1>7, WordSame DEF InPiece, BlockEnd
<1>10. n <= MAX_BLOCK_REQUEST_SIZE /\ n > 0
  BY <1>5 DEF M
<1>11. LET i == Field(f, 0)  b == Field(f, 1)  l == Field(f, 2)
           from == blockBegin(i, b)
           refused == \/ MsgSize(f) # 12
                      \/ ~peerInterested \/ amChoking
                      \/ l > MAX_BLOCK_REQUEST_SIZE
                      \/ ~InPiece(i, b, l)
           answered == ~refused /\ l > 0 /\ from < meta.totalSize
       IN  /\ IF refused THEN Drop ELSE UNCHANGED up
           /\ toD' = IF answered THEN Append(toD, PieceFrame(i, b, FileBytes(from, l))) ELSE toD
  BY Zenon DEF HandleRequest
<1>12. LET refused == \/ FALSE
                      \/ ~peerInterested \/ amChoking
                      \/ n > MAX_BLOCK_REQUEST_SIZE
                      \/ ~InPiece(queued, o, n)
           answered == ~refused /\ n > 0 /\ blockBegin(queued, o) < meta.totalSize
       IN  /\ IF refused THEN Drop ELSE UNCHANGED up
           /\ toD' = IF answered THEN Append(toD, PieceFrame(queued, o, FileBytes(blockBegin(queued, o), n))) ELSE toD
  <2> HIDE DEF f
  <2> QED  BY <1>4, <1>11
<1>13. up' = up /\ toD' = Append(toD, PieceFrame(queued, o, FileBytes(blockBegin(queued, o), n)))
  <2>1. ~ (n > MAX_BLOCK_REQUEST_SIZE) /\ peerInterested = TRUE /\ amChoking = FALSE
    BY <1>3, <1>5, <1>10 DEF Serving, M
  <2> QED  BY <1>6, <1>9, <1>10, <1>12, <2>1, Zenon
<1> QED  BY <1>1, <1>2, <1>8, <1>13 DEF k

\* U's answer to a request keeps the invariant.
LEMMA WorkRequest ==
  ASSUME IInv, Working, HandleRequest
  PROVE  IInv'
<1> DEFINE a == Answer(queued, haveBlocks + Len(toD))
<1>1. /\ toU # <<>> /\ Lead = 0 /\ up' = up /\ toD' = Append(toD, a)
  BY RequestAnswered
<1>2. /\ TypeOK /\ up /\ FileInv /\ meta \in Metainfo /\ Serving
      /\ queued \in Pieces \ finished
      /\ toU \in Wire /\ toD \in Wire /\ Len(toU) \in Nat \ {0} /\ Len(toD) \in Nat
      /\ haveBlocks \in Nat /\ numBlocks(queued) \in Nat
      /\ Asked = haveBlocks + Len(toD) + Len(toU) - Lead /\ Asked <= numBlocks(queued)
      /\ haveBlocks + Len(toD) < numBlocks(queued)
  BY <1>1, WorkingFacts, TailFacts
<1>3. a \in Seq(Byte)
  <2>1. haveBlocks + Len(toD) \in 0 .. numBlocks(queued) - 1
    BY <1>2
  <2> QED  BY <1>2, <2>1, AnswerFacts
<1>4. /\ toD' \in Wire /\ Len(toD') = Len(toD) + 1
      /\ \A j \in 1 .. Len(toD) : toD'[j] = toD[j]
      /\ toD'[Len(toD) + 1] = a
  BY <1>1, <1>2, <1>3, AppendFacts
<1> HIDE DEF a
<1>5. /\ toU' = Tail(toU)
      /\ UNCHANGED <<meta, seedVars, peerChoking, remoteHas, pieceVars, loopVars, fileVars>>
  BY Zenon DEF HandleRequest
<1>6. /\ queued' = queued /\ haveBlocks' = haveBlocks /\ blocks' = blocks
      /\ pc' = pc /\ begin' = begin /\ length' = length /\ next' = next /\ pieceData' = pieceData
      /\ finished' = finished /\ meta' = meta /\ remoteHas' = remoteHas /\ peerChoking' = peerChoking
      /\ amChoking' = amChoking /\ peerInterested' = peerInterested
  BY <1>5 DEF pieceVars, loopVars, fileVars, seedVars
<1>7. /\ toU' \in Wire /\ Len(toU') = Len(toU) - 1
      /\ \A j \in 1 .. Len(toU') :
           toU'[j] = Request(queued, haveBlocks + Len(toD) + (1 - Lead) + j - 1)
      /\ toU' # <<>> => toU'[1] # InterestedFrame
  BY <1>1, <1>5, RestOfRequests
<1>8. Lead' = 0
  BY <1>7 DEF Lead
<1>9. Asked' = Asked
  BY <1>1, <1>2, <1>4, <1>6, <1>7, <1>8 DEF Asked
<1>10. TypeOK'
  BY <1>1, <1>2, <1>4, <1>5, <1>6, <1>7, MetaType, Zenon DEF TypeOK, fileVars, Wire
<1>11. Working'
  <2>1. \A j \in 1 .. Len(toD') : toD'[j] = Answer(queued', haveBlocks' + j - 1)
    <3>1. ASSUME NEW j \in 1 .. Len(toD') PROVE toD'[j] = Answer(queued', haveBlocks' + j - 1)
      <4>1. CASE j = Len(toD) + 1
        <5>1. haveBlocks' + j - 1 = haveBlocks + Len(toD)
          BY <1>2, <1>6, <4>1
        <5> QED  BY <1>4, <1>6, <4>1, <5>1 DEF a
      <4>2. CASE j # Len(toD) + 1
        <5>1. j \in 1 .. Len(toD)
          BY <1>2, <1>4, <4>2
        <5>2. toD[j] = Answer(queued, haveBlocks + j - 1)
          BY <5>1, Zenon DEF Working, InOrder
        <5> QED  BY <1>4, <1>6, <5>1, <5>2
      <4> QED  BY <4>1, <4>2
    <3> QED  BY <3>1, Zenon
  <2>2. \A j \in 1 .. Len(toU') - Lead' :
          toU'[Lead' + j] = Request(queued', haveBlocks' + Len(toD') + j - 1)
    <3>1. ASSUME NEW j \in 1 .. Len(toU') - Lead'
          PROVE  toU'[Lead' + j] = Request(queued', haveBlocks' + Len(toD') + j - 1)
      <4>1. j \in 1 .. Len(toU') /\ Lead' + j = j
        BY <1>2, <1>7, <1>8
      <4>2. haveBlocks + Len(toD) + (1 - Lead) + j - 1 = haveBlocks' + Len(toD') + j - 1
        BY <1>1, <1>2, <1>4, <1>6, <4>1
      <4>3. toU'[j] = Request(queued, haveBlocks + Len(toD) + (1 - Lead) + j - 1)
        BY <1>7, <4>1, Zenon
      <4> QED  BY <1>6, <4>1, <4>2, <4>3, Zenon
    <3> QED  BY <3>1, Zenon
  <2>3. \A k \in 0 .. haveBlocks' - 1 : blocks'[k] = BlockBytes(queued', k)
    BY <1>6, Zenon DEF Working, InOrder
  <2>4. Lead' # 1 /\ Asked' <= numBlocks(queued')
    BY <1>2, <1>6, <1>8, <1>9
  <2>5. /\ pc' \in {"request", "idle", "assemble"}
        /\ pc' = "request" => /\ Asked' < numBlocks(queued')
                              /\ begin' = Asked' * M
                              /\ length' = pieceSize(queued') - Asked' * M
        /\ pc' = "idle" => Asked' = numBlocks(queued') /\ haveBlocks' < numBlocks(queued')
        /\ pc' = "assemble" => /\ haveBlocks' = numBlocks(queued')
                               /\ next' <= numBlocks(queued')
                               /\ pieceData' = FileBytes(blockBegin(queued', 0),
                                    IF next' = numBlocks(queued') THEN pieceSize(queued') ELSE next' * M)
    BY <1>2, <1>6, <1>9 DEF Working, Loops, TypeOK
  <2>6. /\ queued' \in Pieces \ finished' /\ peerChoking' = FALSE /\ amChoking' = FALSE
        /\ peerInterested' = TRUE /\ remoteHas' = Pieces
    BY <1>2, <1>6 DEF Serving
  <2> QED  BY <1>6, <2>1, <2>2, <2>3, <2>4, <2>5, <2>6, MetaWorking, Zenon
<1> QED  BY <1>1, <1>2, <1>5, <1>10, <1>11, FileSame DEF IInv

\* Each round asks for the next block of the piece, whatever is left of it.
LEMMA BlockRequested ==
  ASSUME IInv, Working, RequestBlock
  PROVE  /\ pc = "request" /\ Asked \in 0 .. numBlocks(queued) - 1
         /\ toU' = Append(toU, Request(queued, Asked))
         /\ begin' \in Nat /\ length' \in Nat
         /\ pc' = "request" => /\ Asked + 1 < numBlocks(queued)
                               /\ begin' = (Asked + 1) * M
                               /\ length' = pieceSize(queued) - (Asked + 1) * M
         /\ pc' # "request" => pc' = "idle" /\ Asked + 1 = numBlocks(queued)
<1> DEFINE k == Asked
           n == numBlocks(queued)
           s == pieceSize(queued)
           o == k * M
           l == BlockLength(queued, k)
<1>1. /\ pc = "request" /\ k < n /\ begin = o /\ length = s - o
  BY Zenon DEF RequestBlock, Working, Loops, M
<1>2. /\ meta \in Metainfo /\ queued \in Pieces /\ n \in Nat \ {0} /\ s \in Nat /\ M \in Nat \ {0}
      /\ haveBlocks \in Nat /\ Len(toU) \in Nat /\ Len(toD) \in Nat /\ Lead <= Len(toU) /\ Lead \in {0, 1}
      /\ k = haveBlocks + Len(toD) + Len(toU) - Lead
      /\ begin \in Nat /\ length \in Nat
  BY WorkingFacts DEF TypeOK
<1>3. k \in 0 .. n - 1
  <2> HIDE DEF k, n
  <2> QED  BY <1>1, <1>2
<1> HIDE DEF k, n, s
<1>4. /\ o \in Nat /\ o < s
      /\ (k + 1) * M = o + M
      /\ l \in 1 .. M /\ o + l <= s
      /\ k = n - 1 <=> s - o <= M
      /\ k = n - 1 => o + l = s
      /\ k # n - 1 => l = M /\ (k + 1) * M < s
      /\ o \in Word32 /\ l \in Word32
  BY <1>2, <1>3, BlockGeometry DEF n, s
<1>5. Request(queued, k) = RequestFrame(queued, o, l)
  BY DEF Request
<1> HIDE DEF o, l
<1>6. CASE length > MAX_BLOCK_REQUEST_SIZE
  <2>1. /\ toU' = Append(toU, RequestFrame(queued, ToWord32(begin), MAX_BLOCK_REQUEST_SIZE))
        /\ length' = length - MAX_BLOCK_REQUEST_SIZE
        /\ begin' = begin + MAX_BLOCK_REQUEST_SIZE
        /\ pc' = pc
    BY <1>6, Zenon DEF RequestBlock
  <2>2. k # n - 1 /\ l = M /\ (k + 1) * M < s
    BY <1>1, <1>2, <1>4, <1>6 DEF M
  <2>3. ToWord32(begin) = o
    BY <1>1, <1>4, WordSame
  <2>4. toU' = Append(toU, Request(queued, k))
    BY <1>5, <2>1, <2>2, <2>3 DEF M
  <2>5. /\ k + 1 < n /\ begin' = (k + 1) * M /\ length' = s - (k + 1) * M
        /\ begin' \in Nat /\ length' \in Nat
    <3> DEFINE o2 == (k + 1) * M
    <3>1. o2 = o + M /\ o2 < s /\ o \in Nat /\ s \in Nat /\ M \in Nat /\ begin = o /\ length = s - o
      BY <1>1, <1>2, <1>4, <2>2
    <3> HIDE DEF o2
    <3>2. begin' = o + M /\ length' = s - o - M
      BY <2>1, <3>1 DEF M
    <3>3. begin' = o2 /\ length' = s - o2 /\ begin' \in Nat /\ length' \in Nat
      BY <3>1, <3>2
    <3>4. k + 1 < n
      BY <1>2, <1>3, <2>2
    <3> QED  BY <3>3, <3>4 DEF o2
  <2> QED  BY <1>1, <1>3, <2>1, <2>4, <2>5 DEF k, n, s
<1>7. CASE ~ (length > MAX_BLOCK_REQUEST_SIZE)
  <2>1. /\ toU' = Append(toU, RequestFrame(queued, ToWord32(begin), ToWord32(length)))
        /\ pc' = "idle"
        /\ begin' = begin /\ length' = length
    BY <1>7, Zenon DEF RequestBlock
  <2>2. k = n - 1 /\ l = length
    BY <1>1, <1>2, <1>4, <1>7 DEF M
  <2>3. ToWord32(begin) = o /\ ToWord32(length) = l
    BY <1>1, <1>4, <2>2, WordSame
  <2>4. toU' = Append(toU, Request(queued, k))
    BY <1>5, <2>1, <2>3
  <2>5. k + 1 = n
    BY <1>2, <1>3, <2>2
  <2> QED  BY <1>1, <1>2, <1>3, <2>1, <2>4, <2>5 DEF k, n, s
<1> QED  BY <1>6, <1>7

\* A round of requestPiece keeps the invariant.
LEMMA WorkRequestBlock ==
  ASSUME IInv, Working, RequestBlock
  PROVE  IInv'
<1> DEFINE f == Request(queued, Asked)
<1>1. /\ pc = "request" /\ Asked \in 0 .. numBlocks(queued) - 1
      /\ toU' = Append(toU, f)
      /\ begin' \in Nat /\ length' \in Nat
      /\ pc' = "request" => /\ Asked + 1 < numBlocks(queued)
                            /\ begin' = (Asked + 1) * M
                            /\ length' = pieceSize(queued) - (Asked + 1) * M
      /\ pc' # "request" => pc' = "idle" /\ Asked + 1 = numBlocks(queued)
  BY BlockRequested
<1>2. /\ TypeOK /\ up /\ FileInv /\ meta \in Metainfo /\ Serving
      /\ queued \in Pieces \ finished
      /\ toU \in Wire /\ toD \in Wire /\ Len(toU) \in Nat /\ Len(toD) \in Nat
      /\ haveBlocks \in Nat /\ numBlocks(queued) \in Nat
      /\ Lead \in {0, 1} /\ Lead <= Len(toU)
      /\ Asked = haveBlocks + Len(toD) + Len(toU) - Lead /\ Asked <= numBlocks(queued)
      /\ Lead = 1 => toU # <<>> /\ Head(toU) = InterestedFrame /\ toD = <<>> /\ haveBlocks = 0
      /\ toD # <<>> => haveBlocks < numBlocks(queued)
  BY WorkingFacts
<1>3. f \in Seq(Byte) /\ f # InterestedFrame
  BY <1>1, <1>2, RequestFacts
<1>4. /\ toU' \in Wire /\ Len(toU') = Len(toU) + 1
      /\ \A j \in 1 .. Len(toU) : toU'[j] = toU[j]
      /\ toU'[Len(toU) + 1] = f
      /\ toU' # <<>>
  BY <1>1, <1>2, <1>3, AppendFacts
<1> HIDE DEF f
<1>5. UNCHANGED <<meta, up, toD, seedVars, peerChoking, remoteHas, pieceVars, next, pieceData, fileVars>>
  BY Zenon DEF RequestBlock
<1>6. /\ queued' = queued /\ haveBlocks' = haveBlocks /\ blocks' = blocks
      /\ finished' = finished /\ meta' = meta /\ remoteHas' = remoteHas /\ peerChoking' = peerChoking
      /\ amChoking' = amChoking /\ peerInterested' = peerInterested /\ toD' = toD /\ up' = up
  BY <1>5 DEF pieceVars, fileVars, seedVars
<1>7. Lead' = Lead
  <2>1. CASE toU = <<>>
    <3>1. Len(toU) = 0
      BY <2>1
    <3>2. toU'[1] = f /\ Lead = 0
      BY <1>4, <2>1, <3>1 DEF Lead
    <3> QED  BY <1>3, <3>2 DEF Lead
  <2>2. CASE toU # <<>>
    <3>1. 1 \in 1 .. Len(toU)
      BY <1>2, <2>2, TailFacts
    <3>2. toU'[1] = toU[1]
      BY <1>4, <3>1
    <3> QED  BY <1>4, <2>2, <3>2 DEF Lead
  <2> QED  BY <2>1, <2>2
<1>8. Asked' = Asked + 1
  BY <1>2, <1>4, <1>6, <1>7 DEF Asked
<1>9. pc' \in {"request", "idle", "assemble"}
  BY <1>1
<1>10. TypeOK'
  BY <1>1, <1>2, <1>4, <1>5, <1>6, <1>9, MetaType, Zenon DEF TypeOK, fileVars, Wire
<1>11. Working'
  <2>1. \A j \in 1 .. Len(toD') : toD'[j] = Answer(queued', haveBlocks' + j - 1)
    BY <1>6, Zenon DEF Working, InOrder
  <2>2. \A j \in 1 .. Len(toU') - Lead' :
          toU'[Lead' + j] = Request(queued', haveBlocks' + Len(toD') + j - 1)
    <3>1. ASSUME NEW j \in 1 .. Len(toU') - Lead'
          PROVE  toU'[Lead' + j] = Request(queued', haveBlocks' + Len(toD') + j - 1)
      <4>1. CASE Lead + j = Len(toU) + 1
        <5>1. haveBlocks' + Len(toD') + j - 1 = Asked
          BY <1>2, <1>6, <4>1
        <5> QED  BY <1>4, <1>6, <1>7, <4>1, <5>1 DEF f
      <4>2. CASE Lead + j # Len(toU) + 1
        <5>1. j \in 1 .. Len(toU) - Lead /\ Lead + j \in 1 .. Len(toU)
          BY <1>2, <1>4, <1>7, <4>2
        <5>2. toU[Lead + j] = Request(queued, haveBlocks + Len(toD) + j - 1)
          BY <5>1, Zenon DEF Working, InOrder
        <5>3. toU'[Lead + j] = toU[Lead + j]
          BY <1>4, <5>1, Zenon
        <5> QED  BY <1>6, <1>7, <5>2, <5>3, Zenon
      <4> QED  BY <4>1, <4>2
    <3> QED  BY <3>1, Zenon
  <2>3. \A k \in 0 .. haveBlocks' - 1 : blocks'[k] = BlockBytes(queued', k)
    BY <1>6, Zenon DEF Working, InOrder
  <2>4. (Lead' = 1 => haveBlocks' = 0 /\ toD' = <<>>) /\ Asked' <= numBlocks(queued')
    BY <1>1, <1>2, <1>6, <1>7, <1>8
  <2>5. pc' = "request" => /\ Asked' < numBlocks(queued')
                           /\ begin' = Asked' * M
                           /\ length' = pieceSize(queued') - Asked' * M
    BY <1>1, <1>6, <1>8
  <2>6. pc' = "idle" => Asked' = numBlocks(queued') /\ haveBlocks' < numBlocks(queued')
    <3>1. Asked' = Asked + 1 /\ Len(toU') = Len(toU) + 1
      BY <1>4, <1>8
    <3>2. ASSUME pc' = "idle" PROVE Asked' = numBlocks(queued')
      BY <1>1, <1>6, <1>8, <3>2
    <3>3. haveBlocks' < numBlocks(queued')
      BY <1>1, <1>2, <1>6
    <3> QED  BY <3>2, <3>3
  <2>7. pc' # "assemble"
    BY <1>1
  <2>8. /\ queued' \in Pieces \ finished' /\ peerChoking' = FALSE /\ amChoking' = FALSE
        /\ peerInterested' = TRUE /\ remoteHas' = Pieces
    BY <1>2, <1>6 DEF Serving
  <2> QED  BY <1>6, <1>9, <2>1, <2>2, <2>3, <2>4, <2>5, <2>6, <2>7, <2>8, MetaWorking, Zenon
<1> QED  BY <1>2, <1>5, <1>6, <1>10, <1>11, FileSame DEF IInv

\* D takes the block for an error in no case, and puts it in its slot.
LEMMA BlockStored ==
  ASSUME IInv, Working, HandlePieceBlock
  PROVE  /\ pc = "idle" /\ toD # <<>> /\ Lead = 0 /\ haveBlocks \in 0 .. numBlocks(queued) - 1
         /\ blocks' = [blocks EXCEPT ![haveBlocks] = BlockBytes(queued, haveBlocks)]
         /\ haveBlocks' = haveBlocks + 1
         /\ pc' = IF haveBlocks' = numBlocks(queued) THEN "assemble" ELSE "idle"
         /\ next' = 0 /\ pieceData' = <<>>
         /\ up' = up /\ queued' = queued
<1> DEFINE f == Head(toD)
           k == Field(f, 1) \div MAX_BLOCK_REQUEST_SIZE
           refused == \/ MsgSize(f) - 8 <= 0 \/ MsgSize(f) - 8 > MAX_BLOCK_REQUEST_SIZE
                      \/ queued = None \/ Field(f, 0) # queued
                      \/ k >= numBlocks(queued)
<1>1. /\ pc = "idle" /\ toD # <<>>
      /\ IF refused
         THEN Drop /\ UNCHANGED <<pieceVars, pc, next, pieceData>>
         ELSE /\ blocks' = [blocks EXCEPT ![k] = Rest(f, 8)]
              /\ haveBlocks' = haveBlocks + 1
              /\ pc' = IF haveBlocks' = numBlocks(queued) THEN "assemble" ELSE "idle"
              /\ next' = 0 /\ pieceData' = <<>>
              /\ UNCHANGED <<up, queued>>
  BY Zenon DEF HandlePieceBlock, Takes
<1>2. /\ meta \in Metainfo /\ queued \in Pieces /\ queued # None
      /\ Lead = 0 /\ haveBlocks \in 0 .. numBlocks(queued) - 1
      /\ f = Answer(queued, haveBlocks) /\ numBlocks(queued) \in Nat
  BY <1>1, WorkingFacts
<1>3. /\ MsgSize(f) - 8 = BlockLength(queued, haveBlocks)
      /\ Field(f, 0) = queued /\ Field(f, 1) = haveBlocks * M
      /\ Rest(f, 8) = BlockBytes(queued, haveBlocks)
  BY <1>2, AnswerFacts
<1>4. BlockLength(queued, haveBlocks) \in 1 .. M /\ (haveBlocks * M) \div M = haveBlocks /\ M \in Nat
  BY <1>2, BlockGeometry, Geometry
<1>5. k = haveBlocks
  BY <1>3, <1>4 DEF M
<1> HIDE DEF k, f
<1>6. ~ refused
  <2>1. ~ (MsgSize(f) - 8 <= 0) /\ ~ (MsgSize(f) - 8 > MAX_BLOCK_REQUEST_SIZE)
    BY <1>3, <1>4 DEF M
  <2>2. ~ (k >= numBlocks(queued))
    BY <1>2, <1>5
  <2> QED  BY <1>2, <1>3, <2>1, <2>2
<1> HIDE DEF refused
<1> QED  BY <1>1, <1>2, <1>3, <1>5, <1>6

\* A block stored keeps the invariant.
LEMMA WorkPieceBlock ==
  ASSUME IInv, Working, HandlePieceBlock
  PROVE  IInv'
<1>1. /\ pc = "idle" /\ toD # <<>> /\ Lead = 0 /\ haveBlocks \in 0 .. numBlocks(queued) - 1
      /\ blocks' = [blocks EXCEPT ![haveBlocks] = BlockBytes(queued, haveBlocks)]
      /\ haveBlocks' = haveBlocks + 1
      /\ pc' = IF haveBlocks' = numBlocks(queued) THEN "assemble" ELSE "idle"
      /\ next' = 0 /\ pieceData' = <<>>
      /\ up' = up /\ queued' = queued
  BY BlockStored
<1>2. /\ TypeOK /\ up /\ FileInv /\ meta \in Metainfo /\ Serving
      /\ queued \in Pieces \ finished /\ queued # None
      /\ toU \in Wire /\ toD \in Wire /\ Len(toU) \in Nat /\ Len(toD) \in Nat \ {0}
      /\ haveBlocks \in Nat /\ numBlocks(queued) \in Nat \ {0}
      /\ DOMAIN blocks = 0 .. numBlocks(queued) - 1
      /\ Asked = haveBlocks + Len(toD) + Len(toU) - Lead /\ Asked <= numBlocks(queued)
  BY <1>1, WorkingFacts, TailFacts
<1>3. /\ toD' = Tail(toD)
      /\ UNCHANGED <<meta, toU, seedVars, peerChoking, remoteHas, begin, length, fileVars>>
  BY Zenon DEF HandlePieceBlock
<1>4. /\ toD' \in Wire /\ Len(toD') = Len(toD) - 1
      /\ \A j \in 1 .. Len(toD) - 1 : toD'[j] = toD[j + 1]
  BY <1>1, <1>2, <1>3, TailFacts
<1>5. /\ finished' = finished /\ meta' = meta /\ remoteHas' = remoteHas /\ peerChoking' = peerChoking
      /\ amChoking' = amChoking /\ peerInterested' = peerInterested /\ toU' = toU
      /\ begin' = begin /\ length' = length
  BY <1>3 DEF fileVars, seedVars
<1>6. Lead' = 0
  BY <1>1, <1>5 DEF Lead
<1>7. Asked' = Asked
  BY <1>1, <1>2, <1>4, <1>5, <1>6 DEF Asked
<1>8. Asked = numBlocks(queued)
  BY <1>1 DEF Working, Loops
<1>9. pc' \in {"request", "idle", "assemble"}
  BY <1>1
<1>10. TypeOK'
  <2>1. haveBlocks' \in Nat /\ next' \in Nat /\ pieceData' \in Seq(Byte)
    BY <1>1, <1>2
  <2>2. DOMAIN blocks' = IF queued' = None THEN {} ELSE 0 .. numBlocks(queued') - 1
    BY <1>1, <1>2
  <2> QED  BY <1>1, <1>2, <1>4, <1>5, <1>9, <1>3, <2>1, <2>2, MetaType, Zenon DEF TypeOK, fileVars, Wire
<1>11. Working'
  <2>1. \A j \in 1 .. Len(toD') : toD'[j] = Answer(queued', haveBlocks' + j - 1)
    <3>1. ASSUME NEW j \in 1 .. Len(toD') PROVE toD'[j] = Answer(queued', haveBlocks' + j - 1)
      <4>1. j + 1 \in 1 .. Len(toD) /\ j \in 1 .. Len(toD) - 1
        BY <1>2, <1>4
      <4>2. toD[j + 1] = Answer(queued, haveBlocks + (j + 1) - 1)
        BY <4>1, Zenon DEF Working, InOrder
      <4>3. haveBlocks + (j + 1) - 1 = haveBlocks' + j - 1
        BY <1>1, <1>2, <4>1
      <4>4. toD'[j] = toD[j + 1]
        BY <1>4, <4>1, Zenon
      <4> QED  BY <1>1, <4>2, <4>3, <4>4
    <3> QED  BY <3>1, Zenon
  <2>2. \A j \in 1 .. Len(toU') - Lead' :
          toU'[Lead' + j] = Request(queued', haveBlocks' + Len(toD') + j - 1)
    <3>1. \A j \in 1 .. Len(toU) - Lead : toU[Lead + j] = Request(queued, haveBlocks + Len(toD) + j - 1)
      BY Zenon DEF Working, InOrder
    <3>2. haveBlocks' + Len(toD') = haveBlocks + Len(toD) /\ Lead' = Lead
      BY <1>1, <1>2, <1>4, <1>6
    <3> QED  BY <1>1, <1>5, <3>1, <3>2, Zenon
  <2>3. \A k \in 0 .. haveBlocks' - 1 : blocks'[k] = BlockBytes(queued', k)
    <3>1. ASSUME NEW k \in 0 .. haveBlocks' - 1 PROVE blocks'[k] = BlockBytes(queued', k)
      <4>1. CASE k = haveBlocks
        BY <1>1, <1>2, <4>1
      <4>2. CASE k # haveBlocks
        <5>1. k \in 0 .. haveBlocks - 1 /\ k \in 0 .. numBlocks(queued) - 1
          BY <1>1, <1>2, <4>2
        <5>2. blocks[k] = BlockBytes(queued, k)
          BY <5>1, Zenon DEF Working, InOrder
        <5> QED  BY <1>1, <1>2, <4>2, <5>1, <5>2
      <4> QED  BY <4>1, <4>2
    <3> QED  BY <3>1, Zenon
  <2>4. Lead' # 1 /\ Asked' <= numBlocks(queued')
    BY <1>1, <1>2, <1>6, <1>7
  <2>5. pc' # "request"
    BY <1>1
  <2>6. pc' = "idle" => Asked' = numBlocks(queued') /\ haveBlocks' < numBlocks(queued')
    BY <1>1, <1>2, <1>7, <1>8
  <2>7. pc' = "assemble" =>
          /\ haveBlocks' = numBlocks(queued')
          /\ next' <= numBlocks(queued')
          /\ pieceData' = FileBytes(blockBegin(queued', 0),
               IF next' = numBlocks(queued') THEN pieceSize(queued') ELSE next' * M)
    <3>1. ASSUME pc' = "assemble" PROVE haveBlocks' = numBlocks(queued') /\ next' <= numBlocks(queued')
      BY <1>1, <1>2, <3>1
    <3>2. (IF next' = numBlocks(queued') THEN pieceSize(queued') ELSE next' * M) = 0
      <4>1. M \in Nat /\ 0 * M = 0
        BY WorkingFacts
      <4> QED  BY <1>1, <1>2, <4>1
    <3>3. FileBytes(blockBegin(queued', 0), 0) = <<>>
      BY DEF FileBytes
    <3> QED  BY <1>1, <3>1, <3>2, <3>3
  <2>8. /\ queued' \in Pieces \ finished' /\ peerChoking' = FALSE /\ amChoking' = FALSE
        /\ peerInterested' = TRUE /\ remoteHas' = Pieces
    BY <1>1, <1>2, <1>5 DEF Serving
  <2> QED  BY <1>5, <1>9, <2>1, <2>2, <2>3, <2>4, <2>5, <2>6, <2>7, <2>8, MetaWorking, Zenon
<1> QED  BY <1>1, <1>2, <1>3, <1>10, <1>11, FileSame DEF IInv

\* A range of the file is a sequence of bytes.
LEMMA FileBytesType ==
  ASSUME meta \in Metainfo, NEW p \in Nat, NEW size \in Nat, p + size <= meta.totalSize
  PROVE  FileBytes(p, size) \in Seq(Byte) /\ Len(FileBytes(p, size)) = size
<1>1. \A q \in 0 .. meta.totalSize - 1 : Content(q) \in Byte
  BY ContentAssumption
<1>2. meta.totalSize \in Nat
  BY TransferAssumption DEF WellFormed
<1>3. \A j \in 1 .. size : p + j - 1 \in 0 .. meta.totalSize - 1
  BY <1>2
<1>4. FileBytes(p, size) \in [1 .. size -> Byte]
  BY <1>1, <1>3 DEF FileBytes
<1> QED  BY <1>4, BytesAsSequence

\* Two adjacent ranges of the file make one.
LEMMA FileBytesConcat ==
  ASSUME meta \in Metainfo, NEW p \in Nat, NEW a \in Nat, NEW b \in Nat,
         p + a + b <= meta.totalSize
  PROVE  FileBytes(p, a) \o FileBytes(p + a, b) = FileBytes(p, a + b)
<1> DEFINE s == FileBytes(p, a)
           t == FileBytes(p + a, b)
           u == FileBytes(p, a + b)
<1>1. meta.totalSize \in Nat
  BY TransferAssumption DEF WellFormed
<1>2. /\ s \in Seq(Byte) /\ Len(s) = a /\ t \in Seq(Byte) /\ Len(t) = b
      /\ u \in Seq(Byte) /\ Len(u) = a + b
  <2>1. p + a \in Nat /\ a + b \in Nat /\ p + a <= meta.totalSize
        /\ p + (a + b) <= meta.totalSize /\ (p + a) + b <= meta.totalSize
    BY <1>1
  <2>2. s \in Seq(Byte) /\ Len(s) = a
    BY <2>1, FileBytesType
  <2>3. t \in Seq(Byte) /\ Len(t) = b
    BY <2>1, FileBytesType
  <2>4. u \in Seq(Byte) /\ Len(u) = a + b
    BY <2>1, FileBytesType
  <2> QED  BY <2>2, <2>3, <2>4
<1>3. /\ \A j \in 1 .. a : s[j] = Content(p + j - 1)
      /\ \A j \in 1 .. b : t[j] = Content((p + a) + j - 1)
      /\ \A j \in 1 .. a + b : u[j] = Content(p + j - 1)
  BY DEF FileBytes
<1> HIDE DEF s, t, u
<1>4. /\ s \o t \in Seq(Byte)
      /\ Len(s \o t) = a + b
      /\ \A k \in 1 .. a : (s \o t)[k] = s[k]
      /\ \A k \in 1 .. b : (s \o t)[a + k] = t[k]
  BY <1>2, ConcatAt
<1> DEFINE v == s \o t
<1>5. /\ v \in Seq(Byte) /\ Len(v) = a + b
      /\ \A k \in 1 .. a : v[k] = s[k]
      /\ \A k \in 1 .. b : v[a + k] = t[k]
  BY <1>4
<1> HIDE DEF v
<1>6. ASSUME NEW j \in 1 .. a + b PROVE v[j] = u[j]
  <2>1. CASE j <= a
    <3>1. j \in 1 .. a
      BY <2>1
    <3> QED  BY <1>3, <1>5, <3>1
  <2>2. CASE a < j
    <3>1. j - a \in 1 .. b /\ a + (j - a) = j /\ (p + a) + (j - a) - 1 = p + j - 1
      BY <2>2
    <3>2. v[a + (j - a)] = t[j - a] /\ t[j - a] = Content((p + a) + (j - a) - 1)
      BY <1>3, <1>5, <3>1, Zenon
    <3> QED  BY <1>3, <3>1, <3>2
  <2> QED  BY <2>1, <2>2
<1>7. v = u
  BY <1>2, <1>5, <1>6
<1> QED  BY <1>7 DEF v, s, t, u

\* Each round of the loop has put together one block more of the piece.
LEMMA BlockAppended ==
  ASSUME IInv, Working, AppendBlock
  PROVE  /\ next' = next + 1 /\ next' \in 1 .. numBlocks(queued)
         /\ pieceData' = FileBytes(blockBegin(queued, 0),
              IF next' = numBlocks(queued) THEN pieceSize(queued) ELSE next' * M)
         /\ pieceData' \in Seq(Byte)
<1> DEFINE n == numBlocks(queued)
           k == next
           o == k * M
           l == BlockLength(queued, k)
           base == queued * meta.pieceLength
           s == pieceSize(queued)
<1>1. /\ pc = "assemble" /\ k < n /\ next' = k + 1 /\ pieceData' = pieceData \o blocks[k]
      /\ haveBlocks = n
      /\ pieceData = FileBytes(blockBegin(queued, 0), IF k = n THEN s ELSE o)
  BY Zenon DEF AppendBlock, Working, Loops
<1>2. /\ meta \in Metainfo /\ queued \in Pieces /\ n \in Nat /\ k \in Nat /\ M \in Nat
  BY WorkingFacts DEF TypeOK
<1>3. k \in 0 .. n - 1 /\ k # n
  <2> HIDE DEF k, n
  <2> QED  BY <1>1, <1>2
<1>4. blocks[k] = BlockBytes(queued, k)
  <2>1. \A j \in 0 .. haveBlocks - 1 : blocks[j] = BlockBytes(queued, j)
    BY Zenon DEF Working, InOrder
  <2> HIDE DEF k, n
  <2> QED  BY <1>1, <1>3, <2>1
<1>5. /\ base \in Nat /\ s \in Nat /\ meta.totalSize \in Nat /\ base + s <= meta.totalSize
  BY <1>2, Geometry
<1> HIDE DEF k, n
<1>6. /\ o \in Nat /\ l \in 1 .. M /\ o + l <= s
      /\ (k + 1) * M = o + M
      /\ k = n - 1 => o + l = s
      /\ k # n - 1 => l = M
  BY <1>2, <1>3, BlockGeometry DEF n
<1>7. /\ blockBegin(queued, 0) = base
      /\ blockBegin(queued, o) = base + o
  BY <1>5, <1>6 DEF blockBegin
<1>8. BlockBytes(queued, k) = FileBytes(base + o, l)
  BY <1>7 DEF BlockBytes
<1> DEFINE o2 == (k + 1) * M
<1> HIDE DEF base, s, l, o, o2
<1>9. pieceData' = FileBytes(base, o + l)
  <2>1. l \in Nat /\ base + o + l <= meta.totalSize
    BY <1>2, <1>5, <1>6
  <2>2. FileBytes(base, o) \o FileBytes(base + o, l) = FileBytes(base, o + l)
    BY <1>2, <1>5, <1>6, <2>1, FileBytesConcat
  <2> QED  BY <1>1, <1>3, <1>4, <1>7, <1>8, <2>2
<1>10. o + l = IF k + 1 = n THEN s ELSE o2
  BY <1>2, <1>3, <1>6 DEF o2
<1>11. pieceData' \in Seq(Byte)
  <2>1. o + l \in Nat /\ base + (o + l) <= meta.totalSize
    BY <1>2, <1>5, <1>6
  <2> QED  BY <1>2, <1>5, <1>9, <2>1, FileBytesType
<1>12. next' \in 1 .. n
  BY <1>1, <1>2, <1>3
<1> QED  BY <1>1, <1>7, <1>9, <1>10, <1>11, <1>12 DEF n, k, s, o2

\* A block appended keeps the invariant.
LEMMA WorkAppend ==
  ASSUME IInv, Working, AppendBlock
  PROVE  IInv'
<1>1. /\ next' = next + 1 /\ next' \in 1 .. numBlocks(queued)
      /\ pieceData' = FileBytes(blockBegin(queued, 0),
           IF next' = numBlocks(queued) THEN pieceSize(queued) ELSE next' * M)
      /\ pieceData' \in Seq(Byte)
  BY BlockAppended
<1>2. /\ TypeOK /\ up /\ FileInv /\ meta \in Metainfo /\ Serving
      /\ queued \in Pieces \ finished /\ numBlocks(queued) \in Nat
  BY WorkingFacts
<1>3. UNCHANGED <<meta, wires, seedVars, peerChoking, remoteHas, pieceVars, pc, begin, length, fileVars>>
  BY Zenon DEF AppendBlock
<1>4. /\ queued' = queued /\ haveBlocks' = haveBlocks /\ blocks' = blocks
      /\ finished' = finished /\ meta' = meta /\ remoteHas' = remoteHas /\ peerChoking' = peerChoking
      /\ amChoking' = amChoking /\ peerInterested' = peerInterested
      /\ toU' = toU /\ toD' = toD /\ up' = up /\ pc' = pc /\ begin' = begin /\ length' = length
  BY <1>3 DEF wires, pieceVars, fileVars, seedVars
<1>5. Lead' = Lead
  BY <1>4 DEF Lead
<1>6. Asked' = Asked
  BY <1>4, <1>5 DEF Asked
<1>7. pc = "assemble"
  BY Zenon DEF AppendBlock
<1>8. TypeOK'
  <2>1. next' \in Nat
    BY <1>1, <1>2
  <2> QED  BY <1>1, <1>2, <1>3, <1>4, <2>1, MetaType, Zenon DEF TypeOK, fileVars, Wire
<1>9. Working'
  <2>1. /\ \A j \in 1 .. Len(toD') : toD'[j] = Answer(queued', haveBlocks' + j - 1)
        /\ \A j \in 1 .. Len(toU') - Lead' :
             toU'[Lead' + j] = Request(queued', haveBlocks' + Len(toD') + j - 1)
        /\ \A k \in 0 .. haveBlocks' - 1 : blocks'[k] = BlockBytes(queued', k)
        /\ Lead' = 1 => haveBlocks' = 0 /\ toD' = <<>>
        /\ Asked' <= numBlocks(queued')
    BY <1>4, <1>5, <1>6, Zenon DEF Working, InOrder
  <2>2. pc' \in {"request", "idle", "assemble"} /\ pc' # "request" /\ pc' # "idle"
    BY <1>4, <1>7
  <2>3. haveBlocks' = numBlocks(queued')
    BY <1>4, <1>7 DEF Working, Loops
  <2>4. next' <= numBlocks(queued')
    BY <1>1, <1>2, <1>4
  <2>5. pieceData' = FileBytes(blockBegin(queued', 0),
             IF next' = numBlocks(queued') THEN pieceSize(queued') ELSE next' * M)
    BY <1>1, <1>4, Zenon
  <2>6. /\ queued' \in Pieces \ finished' /\ peerChoking' = FALSE /\ amChoking' = FALSE
        /\ peerInterested' = TRUE /\ remoteHas' = Pieces
    BY <1>2, <1>4 DEF Serving
  <2> QED  BY <1>4, <2>1, <2>2, <2>3, <2>4, <2>5, <2>6, MetaWorking, Zenon
<1> QED  BY <1>2, <1>3, <1>4, <1>8, <1>9, FileSame DEF IInv

\* The ranges of two pieces have no position in common, and lie in the file.
LEMMA PiecesApart ==
  ASSUME meta \in Metainfo, NEW i \in Pieces, NEW j \in Pieces, NEW k \in 1 .. pieceSize(i)
  PROVE  /\ i * meta.pieceLength + k - 1 \in FilePositions
         /\ (i * meta.pieceLength + k - 1) - i * meta.pieceLength + 1 = k
         /\ i # j => (i * meta.pieceLength + k - 1) - j * meta.pieceLength + 1 \notin 1 .. pieceSize(j)
<1> DEFINE l == meta.pieceLength
           p == i * l
           q == j * l
           s == pieceSize(i)
           t == pieceSize(j)
<1>1. /\ l \in Nat \ {0} /\ meta.totalSize \in Nat
      /\ p \in Nat /\ q \in Nat /\ s \in Nat /\ t \in Nat
      /\ s <= l /\ t <= l /\ p + s <= meta.totalSize
      /\ i \in Word32 /\ j \in Word32
  BY Geometry
<1>2. i \in Int /\ j \in Int /\ k \in Nat /\ k >= 1 /\ k <= s
  BY <1>1 DEF Word32
<1>3. (i < j => p + l <= q) /\ (j < i => q + l <= p)
  <2> HIDE DEF l
  <2> QED  BY <1>1, <1>2, TimesLess
<1> HIDE DEF l, p, q, s, t
<1>4. p + k - 1 \in FilePositions
  BY <1>1, <1>2 DEF FilePositions
<1>5. (p + k - 1) - p + 1 = k
  BY <1>1, <1>2
<1>6. i # j => (p + k - 1) - q + 1 \notin 1 .. t
  BY <1>1, <1>2, <1>3
<1> QED  BY <1>4, <1>5, <1>6 DEF p, q, t, l

\* The hash never misses, and the piece goes to its place and to no other.
LEMMA PieceWritten ==
  ASSUME IInv, Working, PieceCompleted
  PROVE  /\ pieceData = PieceBytes(queued)
         /\ haveBlocks = numBlocks(queued) /\ toU = <<>> /\ toD = <<>>
         /\ finished' = finished \cup {queued}
         /\ completedPieces' = completedPieces + 1
         /\ disk' \in [FilePositions -> Byte \cup {Hole}]
         /\ \A k \in 1 .. pieceSize(queued) :
              disk'[queued * meta.pieceLength + k - 1] = Content(queued * meta.pieceLength + k - 1)
         /\ \A j \in Pieces \ {queued} : \A k \in 1 .. pieceSize(j) :
              disk'[j * meta.pieceLength + k - 1] = disk[j * meta.pieceLength + k - 1]
<1> DEFINE l == meta.pieceLength
           base == queued * l
           s == pieceSize(queued)
<1>1. /\ meta \in Metainfo /\ queued \in Pieces /\ numBlocks(queued) \in Nat \ {0}
      /\ Len(toU) \in Nat /\ Len(toD) \in Nat /\ Lead \in {0, 1} /\ haveBlocks \in Nat
      /\ Asked = haveBlocks + Len(toD) + Len(toU) - Lead /\ Asked <= numBlocks(queued)
      /\ Lead = 1 => haveBlocks = 0
      /\ toU \in Wire /\ toD \in Wire
      /\ disk \in [FilePositions -> Byte \cup {Hole}]
  BY WorkingFacts DEF FileInv
<1>2. /\ pc = "assemble" /\ next = numBlocks(queued)
      /\ IF pieceData = PieceBytes(queued)
         THEN /\ Write(pieceData, queued)
              /\ finished' = finished \cup {queued}
              /\ completedPieces' = completedPieces + 1
         ELSE UNCHANGED fileVars
  BY Zenon DEF PieceCompleted
<1>3. haveBlocks = numBlocks(queued) /\ pieceData = FileBytes(blockBegin(queued, 0), s)
  BY <1>2 DEF Working, Loops
<1>4. toU = <<>> /\ toD = <<>>
  <2>1. Len(toU) = 0 /\ Len(toD) = 0
    BY <1>1, <1>3
  <2> QED  BY <1>1, <2>1, TailFacts
<1>5. base \in Nat /\ s \in Nat /\ base + s <= meta.totalSize
  BY <1>1, Geometry
<1>6. blockBegin(queued, 0) = base
  BY <1>5 DEF blockBegin
<1>7. pieceData = PieceBytes(queued) /\ pieceData = FileBytes(base, s)
  BY <1>3, <1>6 DEF PieceBytes
<1>8. pieceData \in Seq(Byte) /\ Len(pieceData) = s
  <2> HIDE DEF base, s
  <2> QED  BY <1>1, <1>5, <1>7, FileBytesType
<1>9. \A k \in 1 .. s : pieceData[k] = Content(base + k - 1)
  BY <1>7 DEF FileBytes
<1>10. disk' = [p \in FilePositions |->
                  IF p - base + 1 \in 1 .. s THEN pieceData[p - base + 1] ELSE disk[p]]
  BY <1>2, <1>7, <1>8 DEF Write
<1>11. disk' \in [FilePositions -> Byte \cup {Hole}]
  <2>1. \A k \in 1 .. s : pieceData[k] \in Byte
    BY <1>8
  <2>2. \A p \in FilePositions : disk[p] \in Byte \cup {Hole}
    BY <1>1
  <2> HIDE DEF base, s
  <2> QED  BY <1>10, <2>1, <2>2
<1>12. ASSUME NEW k \in 1 .. s
       PROVE  disk'[base + k - 1] = Content(base + k - 1)
  <2>1. base + k - 1 \in FilePositions /\ (base + k - 1) - base + 1 = k
    BY <1>1, PiecesApart
  <2> HIDE DEF base, s
  <2> QED  BY <1>9, <1>10, <2>1
<1>13. ASSUME NEW j \in Pieces \ {queued}, NEW k \in 1 .. pieceSize(j)
       PROVE  disk'[j * l + k - 1] = disk[j * l + k - 1]
  <2>1. j * l + k - 1 \in FilePositions /\ (j * l + k - 1) - base + 1 \notin 1 .. s
    BY <1>1, PiecesApart
  <2> HIDE DEF base, s
  <2> QED  BY <1>10, <2>1
<1> QED  BY <1>2, <1>3, <1>4, <1>7, <1>11, <1>12, <1>13, Zenon

\* The pieces can be counted.
LEMMA PiecesFinite ==
  ASSUME TypeOK
  PROVE  /\ meta.pieces \in Nat /\ IsFiniteSet(Pieces) /\ Cardinality(Pieces) = meta.pieces
         /\ IsFiniteSet(finished)
<1>1. meta.pieces \in Nat
  <2>1. meta.pieces \in Word32
    BY TransferAssumption DEF TypeOK, WellFormed
  <2> QED  BY <2>1 DEF Word32
<1>2. IsFiniteSet(Pieces) /\ Cardinality(Pieces) = meta.pieces
  <2>1. 0 \in Int /\ meta.pieces - 1 \in Int
    BY <1>1
  <2>2. /\ IsFiniteSet(0 .. meta.pieces - 1)
        /\ Cardinality(0 .. meta.pieces - 1) =
             IF 0 > meta.pieces - 1 THEN 0 ELSE (meta.pieces - 1) - 0 + 1
    BY <2>1, FS_Interval
  <2> QED  BY <1>1, <2>2 DEF Pieces
<1>3. IsFiniteSet(finished)
  BY <1>2, FS_Subset DEF TypeOK
<1> QED  BY <1>1, <1>2, <1>3

\* A piece completed keeps the invariant, whether another one is wanted or not.
LEMMA WorkCompleted ==
  ASSUME IInv, Working, PieceCompleted
  PROVE  IInv'
<1>1. /\ haveBlocks = numBlocks(queued) /\ toU = <<>> /\ toD = <<>>
      /\ finished' = finished \cup {queued}
      /\ completedPieces' = completedPieces + 1
      /\ disk' \in [FilePositions -> Byte \cup {Hole}]
      /\ \A k \in 1 .. pieceSize(queued) :
           disk'[queued * meta.pieceLength + k - 1] = Content(queued * meta.pieceLength + k - 1)
      /\ \A j \in Pieces \ {queued} : \A k \in 1 .. pieceSize(j) :
           disk'[j * meta.pieceLength + k - 1] = disk[j * meta.pieceLength + k - 1]
  BY PieceWritten, Zenon
<1>2. /\ TypeOK /\ up /\ FileInv /\ meta \in Metainfo /\ Serving
      /\ queued \in Pieces \ finished /\ finished \subseteq Pieces
      /\ completedPieces \in Nat /\ begin \in Nat /\ length \in Nat
  BY WorkingFacts DEF TypeOK
<1>3. /\ SelectPieceAndRequest(remoteHas, finished')
      /\ UNCHANGED <<meta, up, toD, seedVars, peerChoking, remoteHas, next, pieceData>>
  BY Zenon DEF PieceCompleted
<1>4. /\ meta' = meta /\ remoteHas' = remoteHas /\ peerChoking' = peerChoking
      /\ amChoking' = amChoking /\ peerInterested' = peerInterested /\ toD' = <<>> /\ up' = up
      /\ next' = next /\ pieceData' = pieceData
  BY <1>1, <1>3 DEF seedVars
<1>5. FileInv'
  <2>1. completedPieces' = Cardinality(finished')
    BY <1>1, <1>2, PiecesFinite, FS_AddElement DEF FileInv
  <2>2. /\ Pieces' = Pieces /\ FilePositions' = FilePositions /\ \A i : pieceSize(i)' = pieceSize(i)
    BY <1>4, MetaSame
  <2>3. ASSUME NEW i \in finished', NEW k \in 1 .. pieceSize(i)
        PROVE  disk'[i * meta.pieceLength + k - 1] = Content(i * meta.pieceLength + k - 1)
    <3>1. CASE i = queued
      BY <1>1, <2>3, <3>1
    <3>2. CASE i # queued
      <4>1. i \in finished /\ i \in Pieces \ {queued}
        BY <1>1, <1>2, <2>3, <3>2
      <4>2. disk'[i * meta.pieceLength + k - 1] = disk[i * meta.pieceLength + k - 1]
        BY <1>1, <2>3, <4>1, Zenon
      <4>3. disk[i * meta.pieceLength + k - 1] = Content(i * meta.pieceLength + k - 1)
        BY <1>2, <2>3, <4>1, Zenon DEF FileInv
      <4> QED  BY <4>2, <4>3
    <3> QED  BY <3>1, <3>2
  <2>4. \A i \in finished' : \A k \in 1 .. pieceSize(i)' :
          disk'[i * meta'.pieceLength + k - 1] = Content(i * meta'.pieceLength + k - 1)
    BY <1>4, <2>2, <2>3
  <2>5. disk' \in [FilePositions' -> Byte \cup {Hole}]
    BY <1>1, <2>2
  <2> QED  BY <2>1, <2>4, <2>5 DEF FileInv, Hole
<1>6. finished' \subseteq Pieces /\ completedPieces' \in Nat
  BY <1>1, <1>2
<1>7. TypeOK /\ next' \in Nat /\ pieceData' \in Seq(Byte) /\ up' \in BOOLEAN /\ amChoking' \in BOOLEAN
      /\ peerInterested' \in BOOLEAN /\ peerChoking' \in BOOLEAN /\ remoteHas' \subseteq Pieces
  BY <1>2, <1>4 DEF TypeOK
<1>8. peerChoking' = FALSE /\ amChoking' = FALSE /\ peerInterested' = TRUE /\ remoteHas' = Pieces
      /\ remoteHas = Pieces /\ peerChoking = FALSE
  BY <1>2, <1>4 DEF Serving
<1>9. CASE Wanted(remoteHas, finished') = {}
  <2>1. queued' = None /\ blocks' = <<>> /\ pc' = "idle" /\ UNCHANGED <<toU, haveBlocks, begin, length>>
    BY <1>3, <1>9, Zenon DEF SelectPieceAndRequest
  <2>2. finished' = Pieces
    BY <1>6, <1>8, <1>9 DEF Wanted
  <2>3. TypeOK'
    <3>1. DOMAIN blocks' = {}
      BY <2>1
    <3>2. toU' \in Wire /\ toD' \in Wire
      BY <1>1, <1>4, <2>1 DEF Wire
    <3>3. haveBlocks' \in Nat /\ begin' \in Nat /\ length' \in Nat
      BY <1>2, <2>1 DEF TypeOK
    <3>4. pc' \in {"idle", "request", "assemble"} /\ queued' \in Pieces \cup {None}
      BY <2>1
    <3> QED  BY <1>4, <1>6, <1>7, <2>1, <3>1, <3>2, <3>3, <3>4, MetaType, Zenon
  <2>4. Over'
    <3>1. Pieces' = Pieces
      BY <1>4, MetaSame
    <3>2. Serving'
      BY <1>8, <3>1 DEF Serving
    <3> QED  BY <1>1, <1>4, <2>1, <2>2, <3>1, <3>2 DEF Over, None
  <2> QED  BY <1>2, <1>4, <1>5, <2>3, <2>4 DEF IInv
<1>10. CASE Wanted(remoteHas, finished') # {}
  <2>1. PICK i \in Wanted(remoteHas, finished') : SendPieceRequest(i)
    BY <1>3, <1>10, Zenon DEF SelectPieceAndRequest
  <2>2. i \in Pieces /\ i \notin finished'
    BY <1>8, <2>1 DEF Wanted
  <2>3. /\ toU' = <<InterestedFrame>>
        /\ queued' = i /\ haveBlocks' = 0
        /\ blocks' = [k \in 0 .. numBlocks(i) - 1 |-> <<>>]
        /\ pc' = "request" /\ begin' = 0 /\ length' = pieceSize(i)
    BY <1>1, <1>8, <2>1 DEF SendPieceRequest, StartRequests
  <2>4. numBlocks(i) \in Nat \ {0} /\ pieceSize(i) \in Nat /\ M \in Nat /\ i # None
    <3>1. numBlocks(i) \in Nat \ {0} /\ pieceSize(i) \in Nat /\ M \in Nat /\ i \in Word32
      BY <1>2, <2>2, Geometry
    <3> QED  BY <3>1 DEF None, Word32
  <2>5. TypeOK'
    <3>1. DOMAIN blocks' = IF queued' = None THEN {} ELSE 0 .. numBlocks(queued') - 1
      BY <2>3, <2>4
    <3>2. toU' \in Wire /\ toD' \in Wire
      BY <1>4, <2>3, FixedFrames DEF Wire
    <3>3. haveBlocks' \in Nat /\ begin' \in Nat /\ length' \in Nat
      BY <2>3, <2>4
    <3>4. pc' \in {"idle", "request", "assemble"} /\ queued' \in Pieces \cup {None}
      BY <2>2, <2>3
    <3> QED  BY <1>4, <1>6, <1>7, <3>1, <3>2, <3>3, <3>4, MetaType, Zenon
  <2>6. Lead' = 1 /\ Len(toU') = 1 /\ Len(toD') = 0
    BY <1>4, <2>3 DEF Lead
  <2>7. Asked' = 0
    BY <2>3, <2>6 DEF Asked
  <2>8. Working'
    <3>1. \A j \in 1 .. Len(toD') : toD'[j] = Answer(queued', haveBlocks' + j - 1)
      BY <2>6
    <3>2. \A j \in 1 .. Len(toU') - Lead' :
            toU'[Lead' + j] = Request(queued', haveBlocks' + Len(toD') + j - 1)
      BY <2>6
    <3>3. \A k \in 0 .. haveBlocks' - 1 : blocks'[k] = BlockBytes(queued', k)
      BY <2>3
    <3>4. /\ Asked' < numBlocks(queued') /\ begin' = Asked' * M
          /\ length' = pieceSize(queued') - Asked' * M /\ Asked' <= numBlocks(queued')
      BY <2>3, <2>4, <2>7
    <3>5. pc' \in {"request", "idle", "assemble"} /\ pc' # "idle" /\ pc' # "assemble"
      BY <2>3
    <3>6. queued' \in Pieces \ finished' /\ haveBlocks' = 0 /\ toD' = <<>>
      BY <1>4, <2>2, <2>3
    <3> QED  BY <1>4, <1>8, <3>1, <3>2, <3>3, <3>4, <3>5, <3>6, MetaWorking, Zenon
  <2> QED  BY <1>2, <1>4, <1>5, <2>5, <2>8 DEF IInv
<1> QED  BY <1>9, <1>10

-----------------------------------------------------------------------------
\* Every step keeps the invariant.
LEMMA StepIInv ==
  ASSUME IInv, [Next]_vars
  PROVE  IInv'
<1>1. CASE Greeting /\ Next
  BY <1>1, GreetingStep
<1>2. CASE Choked /\ Next
  BY <1>2, ChokedStep
<1>3. CASE Over /\ Next
  BY <1>3, OverStep
<1>4. CASE Working /\ Next
  <2>1. CASE HandleInterested
    BY <1>4, <2>1, WorkInterested
  <2>2. CASE HandleRequest
    BY <1>4, <2>2, WorkRequest
  <2>3. CASE RequestBlock
    BY <1>4, <2>3, WorkRequestBlock
  <2>4. CASE HandlePieceBlock
    BY <1>4, <2>4, WorkPieceBlock
  <2>5. CASE AppendBlock
    BY <1>4, <2>5, WorkAppend
  <2>6. CASE PieceCompleted
    BY <1>4, <2>6, WorkCompleted
  <2>7. CASE HandleBitfield \/ HandleUnchoke
    <3>1. toD # <<>> /\ MessageId(Head(toD)) \in {BITFIELD_ID, UNCHOKE_ID}
      BY <2>7 DEF HandleBitfield, HandleUnchoke, Takes
    <3> QED  BY <1>4, <3>1, WorkingHeads, Numbers
  <2> QED  BY <1>4, <2>1, <2>2, <2>3, <2>4, <2>5, <2>6, <2>7, Zenon DEF Next, U, D
<1>5. CASE UNCHANGED vars
  <2>1. /\ UNCHANGED <<meta, up, toU, toD, amChoking, peerInterested, peerChoking, remoteHas>>
        /\ UNCHANGED <<queued, haveBlocks, blocks, pc, begin, length, next, pieceData>>
        /\ UNCHANGED <<disk, finished, completedPieces>>
    BY <1>5 DEF vars, wires, seedVars, loopVars, pieceVars, fileVars
  <2>2. Lead' = Lead
    BY <2>1 DEF Lead
  <2>3. Asked' = Asked
    BY <2>1, <2>2 DEF Asked
  <2>4. /\ Pieces' = Pieces
        /\ \A i : numBlocks(i)' = numBlocks(i)
        /\ \A i : pieceSize(i)' = pieceSize(i)
        /\ \A i, b : blockBegin(i, b)' = blockBegin(i, b)
        /\ \A i, k : BlockBytes(i, k)' = BlockBytes(i, k)
        /\ \A i, k : Request(i, k)' = Request(i, k)
        /\ \A i, k : Answer(i, k)' = Answer(i, k)
    BY <2>1, MetaSame
  <2>5. TypeOK'
    BY <2>1, MetaType, Zenon DEF IInv, TypeOK, Wire
  <2>6. FileInv'
    BY <2>1, FileSame DEF IInv, fileVars
  <2>7. CASE Greeting
    BY <2>1, <2>4, <2>5, <2>6, <2>7, Zenon DEF IInv, Greeting, None
  <2>8. CASE Choked
    BY <2>1, <2>4, <2>5, <2>6, <2>8, Zenon DEF IInv, Choked
  <2>9. CASE Over
    BY <2>1, <2>4, <2>5, <2>6, <2>9, Zenon DEF IInv, Over, Serving, None
  <2>10. CASE Working
    <3>1. InOrder' /\ Serving'
      BY <2>1, <2>2, <2>3, <2>4, <2>10, Zenon DEF Working, InOrder, Serving
    <3>2. Loops'
      BY <2>1, <2>3, <2>4, <2>10 DEF Working, Loops, M
    <3>3. queued' \in Pieces' \ finished'
      BY <2>1, <2>4, <2>10 DEF Working
    <3> QED  BY <2>1, <2>5, <2>6, <3>1, <3>2, <3>3 DEF IInv, Working
  <2> QED  BY <2>7, <2>8, <2>9, <2>10 DEF IInv
<1> QED  BY <1>1, <1>2, <1>3, <1>4, <1>5 DEF IInv

\* The invariant: blocks are asked for, answered and stored in the order of their
\* slots, and what the loops of requestPiece and of the PIECE_BLOCK handler hold at
\* every round is determined by the number of blocks so far.
THEOREM Invariance == Spec => []IInv
<1>1. Init => IInv
  BY InitIInv
<1>2. IInv /\ [Next]_vars => IInv'
  BY StepIInv
<1> QED  BY <1>1, <1>2, PTL DEF Spec

\* Types: above all, everything on the wires is bytes.
THEOREM TypeCorrect == Spec => []TypeOK
<1>1. IInv => TypeOK
  BY DEF IInv
<1> QED  BY <1>1, Invariance, PTL

\* Neither end drops the other: no request fails handleBlockRequest's checks and no
\* block fails those of the PIECE_BLOCK handler, whatever the sizes in the torrent file.
THEOREM NothingDropped == Spec => []NeverDropped
<1>1. IInv => NeverDropped
  BY DEF IInv, NeverDropped
<1> QED  BY <1>1, Invariance, PTL

\* The hash over the blocks put together never misses: sizes and offsets of
\* requestPiece, handleBlockRequest and the slots agree for every piece.
THEOREM PieceFromBlocks == Spec => []BlocksMakeThePiece
<1>1. IInv => BlocksMakeThePiece
  <2> SUFFICES ASSUME IInv, pc = "assemble", next = numBlocks(queued)
               PROVE  pieceData = PieceBytes(queued)
    BY DEF BlocksMakeThePiece
  <2>1. Working
    BY DEF IInv, Greeting, Choked, Over
  <2>2. pieceData = FileBytes(blockBegin(queued, 0), pieceSize(queued))
    BY <2>1 DEF Working, Loops
  <2>3. blockBegin(queued, 0) = queued * meta.pieceLength
    <3>1. queued * meta.pieceLength \in Nat
      BY <2>1, WorkingFacts, Geometry
    <3> QED  BY <3>1 DEF blockBegin
  <2> QED  BY <2>2, <2>3 DEF PieceBytes
<1> QED  BY <1>1, Invariance, PTL

\* Every position of the file is in a piece.
LEMMA PiecesCover ==
  ASSUME meta \in Metainfo, NEW p \in FilePositions
  PROVE  \E i \in Pieces : \E k \in 1 .. pieceSize(i) : p = i * meta.pieceLength + k - 1
<1> DEFINE t == meta.totalSize
           l == meta.pieceLength
           n == meta.pieces
           i == p \div l
           r == p % l
<1>1. /\ t \in Nat \ {0} /\ l \in Nat \ {0} /\ n \in Nat
      /\ (n - 1) * l < t /\ t <= n * l
  <2>1. /\ t \in Nat \ {0} /\ l \in Word32 \ {0} /\ n \in Word32
        /\ (n - 1) * l < t /\ t <= n * l
    BY TransferAssumption DEF WellFormed
  <2> QED  BY <2>1 DEF Word32
<1>2. p \in Nat /\ p < t
  BY <1>1 DEF FilePositions
<1>3. i \in Nat /\ r \in 0 .. l - 1 /\ p = i * l + r
  <2> HIDE DEF l
  <2> QED  BY <1>1, <1>2, DivMod
<1> HIDE DEF i, r, l, n, t
<1>4. i * l \in Nat /\ n * l \in Nat
  BY <1>1, <1>3
<1>5. i < n
  BY <1>1, <1>2, <1>3, <1>4, TimesLess
<1>6. i \in Pieces
  BY <1>1, <1>3, <1>5 DEF Pieces, n
<1>7. r < pieceSize(i)
  <2>1. CASE i = n - 1
    <3>1. (IF t % l # 0 THEN t % l ELSE l) = t - (n - 1) * l
      BY <1>1, LastPiece
    <3>2. pieceSize(i) = t - i * l
      BY <2>1, <3>1 DEF pieceSize, t, l, n
    <3> QED  BY <1>1, <1>2, <1>3, <1>4, <3>2
  <2>2. CASE i # n - 1
    <3>1. pieceSize(i) = l
      BY <2>2 DEF pieceSize, l, n
    <3> QED  BY <1>1, <1>3, <3>1
  <2> QED  BY <2>1, <2>2
<1>8. r + 1 \in 1 .. pieceSize(i) /\ p = i * l + (r + 1) - 1
  <2>1. pieceSize(i) \in Nat
    BY <1>6, Geometry
  <2> QED  BY <1>1, <1>3, <1>4, <1>7, <2>1
<1> QED  BY <1>6, <1>8 DEF l

\* When all pieces are finished the file is the seed's, byte for byte, and the counter
\* of completed pieces is right.
THEOREM FileComplete == Spec => []WholeFile
<1>1. IInv => WholeFile
  <2> SUFFICES ASSUME IInv, finished = Pieces
               PROVE  /\ disk = [p \in FilePositions |-> Content(p)]
                      /\ completedPieces = meta.pieces
    BY DEF WholeFile
  <2>1. TypeOK /\ FileInv /\ meta \in Metainfo
    BY DEF IInv, TypeOK
  <2>2. completedPieces = meta.pieces
    BY <2>1, PiecesFinite DEF FileInv
  <2>3. ASSUME NEW p \in FilePositions PROVE disk[p] = Content(p)
    <3>1. PICK i \in Pieces : \E k \in 1 .. pieceSize(i) : p = i * meta.pieceLength + k - 1
      BY <2>1, PiecesCover
    <3>2. PICK k \in 1 .. pieceSize(i) : p = i * meta.pieceLength + k - 1
      BY <3>1
    <3> QED  BY <2>1, <3>2 DEF FileInv
  <2>4. disk \in [FilePositions -> Byte \cup {Hole}]
    BY <2>1 DEF FileInv
  <2> QED  BY <2>2, <2>3, <2>4
<1> QED  BY <1>1, Invariance, PTL

-----------------------------------------------------------------------------
\* The place of a piece's byte in the file, and the bytes its hash was made of.
LEMMA StoredMeans ==
  ASSUME NEW i \in Pieces
  PROVE  i \in Stored <=> \A k \in 1 .. pieceSize(i) :
                            disk[i * meta.pieceLength + k - 1] = Content(i * meta.pieceLength + k - 1)
<1>1. \A k \in 1 .. pieceSize(i) : PieceBytes(i)[k] = Content(i * meta.pieceLength + k - 1)
  BY DEF PieceBytes, FileBytes
<1> QED  BY <1>1 DEF Stored

\* No piece is in the file at the start.
LEMMA NothingStored == Init => Stored = {}
<1> SUFFICES ASSUME Init, NEW i \in Stored PROVE FALSE
  OBVIOUS
<1>1. i \in Pieces /\ meta \in Metainfo
  BY DEF Stored, Init
<1>2. pieceSize(i) \in Nat \ {0}
  BY <1>1, Geometry
<1>3. 1 \in 1 .. pieceSize(i)
  BY <1>2
<1> DEFINE p == i * meta.pieceLength + 1 - 1
<1>4. p \in FilePositions /\ disk[p] = Content(p)
  BY <1>1, <1>3, PiecesApart, StoredMeans
<1> HIDE DEF p
<1>5. Content(p) \in Byte
  BY <1>1, <1>4, ContentAssumption DEF FilePositions
<1>6. disk[p] = Hole
  BY <1>4 DEF Init
<1> QED  BY <1>4, <1>5, <1>6 DEF Hole, Byte

\* What leaves the file alone stores nothing.
LEMMA StoredSame ==
  ASSUME meta' = meta, disk' = disk
  PROVE  Stored' = Stored
<1>1. /\ Pieces' = Pieces /\ \A i : pieceSize(i)' = pieceSize(i)
  BY MetaSame
<1>2. \A i : PieceBytes(i)' = PieceBytes(i)
  BY <1>1 DEF PieceBytes
<1> QED  BY <1>1, <1>2 DEF Stored

\* A completed piece is stored, and no other piece's bytes change.
LEMMA PieceStored ==
  ASSUME IInv, Working, PieceCompleted
  PROVE  Stored' = Stored \cup {queued}
<1>1. meta' = meta /\ queued \in Pieces
  BY WorkingFacts DEF PieceCompleted
<1>2. /\ \A k \in 1 .. pieceSize(queued) :
           disk'[queued * meta.pieceLength + k - 1] = Content(queued * meta.pieceLength + k - 1)
      /\ \A j \in Pieces \ {queued} : \A k \in 1 .. pieceSize(j) :
           disk'[j * meta.pieceLength + k - 1] = disk[j * meta.pieceLength + k - 1]
  BY PieceWritten, Zenon
<1>3. /\ Pieces' = Pieces /\ \A i : pieceSize(i)' = pieceSize(i)
  BY <1>1, MetaSame
<1>4. \A i : PieceBytes(i)' = PieceBytes(i)
  BY <1>1, <1>3 DEF PieceBytes
<1>5. Stored' = {i \in Pieces : \A k \in 1 .. pieceSize(i) :
                   disk'[i * meta.pieceLength + k - 1] = PieceBytes(i)[k]}
  BY <1>1, <1>3, <1>4 DEF Stored
<1>6. \A k \in 1 .. pieceSize(queued) : PieceBytes(queued)[k] = Content(queued * meta.pieceLength + k - 1)
  BY DEF PieceBytes, FileBytes
<1>7. queued \in Stored'
  BY <1>1, <1>2, <1>5, <1>6
<1>8. ASSUME NEW j \in Pieces \ {queued}
      PROVE  j \in Stored' <=> j \in Stored
  BY <1>2, <1>5, <1>8 DEF Stored
<1>9. Stored \subseteq Pieces /\ Stored' \subseteq Pieces
  BY <1>5 DEF Stored
<1> QED  BY <1>7, <1>8, <1>9, Zenon

\* The transfer keeps the promise of Download.tla with real bytes: a piece that
\* handlePieceCompleted counts is in its place, and no later write touches it.
THEOREM TransferImplementsDownload == Spec => TransferIsDownload
<1> USE DEF Promise!vars
<1>1. Init => Promise!Init
  BY NothingStored DEF Init, Promise!Init
<1>2. IInv /\ [Next]_vars => [Promise!Next]_(Promise!vars)
  <2> SUFFICES ASSUME IInv, [Next]_vars
               PROVE  [Promise!Next]_(Promise!vars)
    OBVIOUS
  <2>1. CASE UNCHANGED fileVars /\ meta' = meta
    <3>1. disk' = disk /\ finished' = finished /\ completedPieces' = completedPieces
      BY <2>1 DEF fileVars
    <3> QED  BY <2>1, <3>1, StoredSame
  <2>2. CASE PieceCompleted
    <3>1. Working
      <4>1. pc = "assemble"
        BY <2>2, Zenon DEF PieceCompleted
      <4> QED  BY <4>1 DEF IInv, Greeting, Choked, Over
    <3>2. /\ finished' = finished \cup {queued} /\ completedPieces' = completedPieces + 1
          /\ Stored' = Stored \cup {queued}
      BY <2>2, <3>1, PieceWritten, PieceStored
    <3>3. queued \in Pieces \ finished /\ meta \in Metainfo
      BY <3>1, WorkingFacts
    <3>4. queued \in UNION {0 .. m.pieces - 1 : m \in Metainfo}
      BY <3>3 DEF Pieces
    <3>5. Promise!Obtain(queued)
      BY <3>2, <3>3 DEF Promise!Obtain
    <3> QED  BY <3>4, <3>5 DEF Promise!Next
  <2>3. (UNCHANGED fileVars /\ meta' = meta) \/ PieceCompleted
    BY Zenon DEF Next, U, D, HandleInterested, HandleRequest, HandleBitfield, HandleUnchoke,
                 RequestBlock, HandlePieceBlock, AppendBlock, vars
  <2> QED  BY <2>1, <2>2, <2>3
<1> QED  BY <1>1, <1>2, Invariance, PTL DEF Spec, TransferIsDownload, Promise!Spec

-----------------------------------------------------------------------------
(***************************************************************************)
(* The range check of a REQUEST, for every request.                        *)
(***************************************************************************)
\* The two words of 16 bits the conversion of Transfer works with.
HighWord(v) == v \div 65536
LowWord(v) == v % 65536

\* A number is the sum of its words.
LEMMA TwoWords ==
  ASSUME NEW v \in Nat
  PROVE  /\ HighWord(v) \in Nat /\ LowWord(v) \in Nat /\ LowWord(v) < 65536
         /\ v = HighWord(v) * 65536 + LowWord(v)
<1>1. v \div 65536 \in Nat
  BY SMT
<1>2. v % 65536 \in Nat /\ v % 65536 < 65536
  BY SMT
<1>3. v = (v \div 65536) * 65536 + (v % 65536)
  BY SMT
<1>4. HighWord(v) = v \div 65536 /\ LowWord(v) = v % 65536
  BY DEF HighWord, LowWord
<1> QED  BY <1>1, <1>2, <1>3, <1>4, SMT

\* Word32 holds the numbers below 2^32.
LEMMA WordIsBelow ==
  ASSUME NEW v \in Nat
  PROVE  v \in Word32 <=> v < 65536 * 65536
<1>1. v \in Word32 <=> HighWord(v) < 65536
  BY SMT DEF Word32, HighWord
<1>2. ASSUME HighWord(v) < 65536 PROVE v < 65536 * 65536
  BY <1>2, TwoWords, SMT
<1>3. ASSUME HighWord(v) >= 65536 PROVE v >= 65536 * 65536
  BY <1>3, TwoWords, SMT
<1>4. HighWord(v) < 65536 \/ HighWord(v) >= 65536
  BY TwoWords, SMT
<1>5. v >= 65536 * 65536 => ~(v < 65536 * 65536)
  BY SMT
<1> QED  BY <1>1, <1>2, <1>3, <1>4, <1>5, SMT

\* A sum of two words that does not fit loses 2^32 in the conversion.
LEMMA WordWraps ==
  ASSUME NEW b \in Word32, NEW l \in Word32, NEW v, v = b + l, v \notin Word32
  PROVE  ToWord32(v) = v - 65536 * 65536 /\ v >= 65536 * 65536
<1>1. b \in Nat /\ l \in Nat /\ v \in Nat
  BY SMT DEF Word32
<1>2. b < 65536 * 65536 /\ l < 65536 * 65536 /\ ~(v < 65536 * 65536)
  BY <1>1, WordIsBelow, SMT
<1>3. v >= 65536 * 65536
  BY <1>1, <1>2, SMT
<1> DEFINE q == HighWord(v)
           r == LowWord(v)
<1>4. ToWord32(v) = (q % 65536) * 65536 + r
  BY SMT DEF ToWord32, HighWord, LowWord
<1>5. q \in Nat /\ r \in Nat /\ r < 65536 /\ v = q * 65536 + r
  BY <1>1, TwoWords, SMT
<1> HIDE DEF q, r
<1>6. q < 131072
  BY <1>1, <1>2, <1>5, SMT
<1>7. q >= 65536
  BY <1>1, <1>3, <1>5, SMT
<1>8. q % 65536 = q - 65536
  BY <1>5, <1>6, <1>7, SMT
<1>9. (q - 65536) * 65536 + r = v - 65536 * 65536
  BY <1>1, <1>5, SMT
<1> QED  BY <1>3, <1>4, <1>8, <1>9, SMT

\* handleBlockRequest takes the end of a block for a number of 32 bits: its check
\* passes the requests that lie in the piece and those whose end wraps to a place
\* inside it, and these begin at least 2^32 - MAX_BLOCK_REQUEST_SIZE bytes beyond
\* the piece's beginning.  This is what "legal", "wrapped" and FarReach stand for in
\* Exchange.
THEOREM RangeCheckPasses ==
  ASSUME meta \in Metainfo, NEW i \in Pieces, NEW b \in Word32,
         NEW l \in 0 .. MAX_BLOCK_REQUEST_SIZE
  PROVE  /\ InPiece(i, b, l) <=>
              \/ b + l <= pieceSize(i)
              \/ /\ b + l \notin Word32
                 /\ b + l - 65536 * 65536 <= pieceSize(i)
         /\ b + l \notin Word32 => b >= 65536 * 65536 - MAX_BLOCK_REQUEST_SIZE
<1>1. i < meta.pieces /\ pieceSize(i) \in Word32
  <2>1. meta.pieces \in Nat
    BY TransferAssumption, SMT DEF WellFormed, Word32
  <2>2. i < meta.pieces
    BY <2>1, SMT DEF Pieces
  <2> QED  BY <2>2, Geometry
<1>2. l \in Word32 /\ b + l \in Nat
  <2>1. /\ MAX_BLOCK_REQUEST_SIZE \in Nat /\ MAX_BLOCK_REQUEST_SIZE + 9 \in Nat
        /\ MAX_BLOCK_REQUEST_SIZE + 9 < 65536 * 65536
    BY TransferAssumption, WordIsBelow, SMT
  <2>2. l \in Nat /\ l < 65536 * 65536
    BY <2>1, SMT
  <2>3. b \in Nat
    BY SMT DEF Word32
  <2> QED  BY <2>2, <2>3, WordIsBelow, SMT
<1>3. CASE b + l \in Word32
  BY <1>1, <1>3, WordSame DEF InPiece, BlockEnd
<1>4. CASE b + l \notin Word32
  <2>1. ToWord32(b + l) = b + l - 65536 * 65536 /\ b + l >= 65536 * 65536
    BY <1>2, <1>4, WordWraps
  <2>2. pieceSize(i) \in Nat /\ pieceSize(i) < 65536 * 65536
    BY <1>1, WordIsBelow, SMT DEF Word32
  <2>3. b \in Nat /\ l \in Nat /\ l <= MAX_BLOCK_REQUEST_SIZE /\ MAX_BLOCK_REQUEST_SIZE \in Nat
    BY <1>2, TransferAssumption, SMT DEF Word32
  <2>4. ~(b + l <= pieceSize(i))
    BY <2>1, <2>2, <2>3, SMT
  <2>5. b >= 65536 * 65536 - MAX_BLOCK_REQUEST_SIZE
    BY <2>1, <2>3, SMT
  <2>6. InPiece(i, b, l) <=> b + l - 65536 * 65536 <= pieceSize(i)
    BY <1>1, <2>1 DEF InPiece, BlockEnd
  <2> QED  BY <1>4, <2>4, <2>5, <2>6
<1> QED  BY <1>3, <1>4
=============================================================================
