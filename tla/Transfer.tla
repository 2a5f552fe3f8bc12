------------------------------ MODULE Transfer ------------------------------
(***************************************************************************)
(* One file from one seed to one leecher, byte for byte.  Both ends run    *)
(* this program: D opened the session (Peer::connect), U accepted it       *)
(* (Peer::authenticate) and has the whole file.  What Exchange.tla leaves  *)
(* out is the subject here: the sizes of pieces and blocks, the offsets in *)
(* the piece and in the file, and the frames that carry them.              *)
(*                                                                         *)
(* D and U are two processes that handle one frame at a time.  The loops   *)
(* of D that other steps can run between - one REQUEST written per round,  *)
(* one block appended per round - take one step per round, and D handles   *)
(* no frame until they are over.  Which of the wanted pieces D selects is  *)
(* left open: the choice is the subject of Exchange.tla.                   *)
(***************************************************************************)
EXTENDS Transcoder, FiniteSets

CONSTANTS
  MAX_BLOCK_REQUEST_SIZE,  \* 16384
  Metainfo,                \* the torrent files considered
  Content(_)               \* the bytes of the file by position; beyond its end,
                           \* what an uninitialised buffer held

\* Torrent files whose number of hashes fits the length, as parseFile expects, and
\* whose piece length fits the 32-bit fields of the messages.
WellFormed(m) ==
  /\ m.totalSize \in Nat \ {0}
  /\ m.pieceLength \in Word32 \ {0}
  /\ m.pieces \in Word32
  /\ (m.pieces - 1) * m.pieceLength < m.totalSize
  /\ m.totalSize <= m.pieces * m.pieceLength

ASSUME TransferAssumption ==
  /\ MAX_BLOCK_REQUEST_SIZE \in Nat \ {0}
  /\ MAX_BLOCK_REQUEST_SIZE + 9 \in Word32
  /\ \A m \in Metainfo : WellFormed(m)

\* Of every file the first bytes: the rest is the parameter's affair.
ASSUME ContentAssumption ==
  \A m \in Metainfo : \A p \in 0 .. m.totalSize - 1 : Content(p) \in Byte

VARIABLES
  meta,            \* Torrent: totalSize, pieceLength, pieces.size(); never changes
  up,              \* neither end has dropped the session
  toU, toD,        \* frames written and not yet handled
  amChoking, peerInterested,  \* U: two flags of Peer::state
  peerChoking,     \* D: another one
  remoteHas,       \* D: Peer::hasPieceIndexes
  queued,          \* D: the index of the entry of pieceQueue, or None
  haveBlocks,      \* D: its haveBlocks
  blocks,          \* D: the data of its blocks
  pc,              \* D: "idle", "request" or "assemble"
  begin, length,   \* D: the variables of requestPiece
  next, pieceData, \* D: those of the PIECE_BLOCK handler's loop over the blocks
  disk,            \* D: the bytes of the file, Hole where nothing was written
  finished, completedPieces   \* D: as in Torrent

wires == <<up, toU, toD>>
seedVars == <<amChoking, peerInterested>>
loopVars == <<pc, begin, length, next, pieceData>>
pieceVars == <<queued, haveBlocks, blocks>>
fileVars == <<disk, finished, completedPieces>>
vars == <<meta, wires, seedVars, peerChoking, remoteHas, pieceVars, loopVars, fileVars>>

None == -1
Hole == -1
Pieces == 0 .. meta.pieces - 1
FilePositions == 0 .. meta.totalSize - 1

-----------------------------------------------------------------------------
(***************************************************************************)
(* Geometry.                                                               *)
(***************************************************************************)
\* Torrent::pieceSize: the last piece may be shorter.
pieceSize(i) ==
  LET r == meta.totalSize % meta.pieceLength
  IN  IF i = meta.pieces - 1 /\ r # 0 THEN r ELSE meta.pieceLength

\* sendPieceRequest: ceil(double(pieceLength) / MAX_BLOCK_REQUEST_SIZE).
numBlocks(i) ==
  (ToWord32(pieceSize(i)) + MAX_BLOCK_REQUEST_SIZE - 1) \div MAX_BLOCK_REQUEST_SIZE

\* What fread delivers from a position of U's file.
FileBytes(from, size) == [k \in 1 .. size |-> Content(from + k - 1)]

\* Mutant: the place of the piece in the file is forgotten.
blockBeginInPiece(i, b) == b

\* handleBlockRequest: where in the file a block begins.
blockBegin(i, b) == b + (i * meta.pieceLength)

\* The bytes the hash of piece i was made of.
PieceBytes(i) == FileBytes(i * meta.pieceLength, pieceSize(i))

-----------------------------------------------------------------------------
\* The handshakes are done and U has sent its bitfield.
Init ==
  /\ meta \in Metainfo
  /\ up = TRUE
  /\ toU = <<>>
  /\ toD = <<BitfieldFrame(getRawBitfield(Pieces, meta.pieces))>>
  /\ amChoking = TRUE /\ peerInterested = FALSE
  /\ peerChoking = TRUE
  /\ remoteHas = {}
  /\ queued = None /\ haveBlocks = 0 /\ blocks = <<>>
  /\ pc = "idle" /\ begin = 0 /\ length = 0 /\ next = 0 /\ pieceData = <<>>
  /\ disk = [p \in FilePositions |-> Hole]
  /\ finished = {} /\ completedPieces = 0

Drop == up' = FALSE   \* Peer::disconnect at either end

(***************************************************************************)
(* U.                                                                      *)
(***************************************************************************)
Takes(wire, id) == up /\ wire # <<>> /\ MessageId(Head(wire)) = id

HandleInterested ==
  /\ Takes(toU, INTERESTED_ID)
  /\ toU' = Tail(toU)
  /\ peerInterested' = TRUE
  /\ amChoking' = FALSE
  /\ toD' = IF amChoking THEN Append(toD, UnchokeFrame) ELSE toD
  /\ UNCHANGED <<meta, up, peerChoking, remoteHas, pieceVars, loopVars, fileVars>>

\* handleBlockRequest: the range of the request against the piece, in 32 bits.
BlockEnd(b, l) == ToWord32(b + l)
InsidePiece(i, b, l) == i < meta.pieces /\ BlockEnd(b, l) < pieceSize(i)   \* mutant
InPiece(i, b, l) == i < meta.pieces /\ BlockEnd(b, l) <= pieceSize(i)

\* The REQUEST handler with handleBlockRequest.  A length of 0 or a position behind
\* the end of the file reads nothing, and nothing is answered.
HandleRequest ==
  /\ Takes(toU, REQUEST_ID)
  /\ toU' = Tail(toU)
  /\ LET f == Head(toU)
         i == Field(f, 0)  b == Field(f, 1)  l == Field(f, 2)
         from == blockBegin(i, b)
         refused == \/ MsgSize(f) # 12
                    \/ ~peerInterested \/ amChoking
                    \/ l > MAX_BLOCK_REQUEST_SIZE
                    \/ ~InPiece(i, b, l)
         answered == ~refused /\ l > 0 /\ from < meta.totalSize
     IN  /\ IF refused THEN Drop ELSE UNCHANGED up
         /\ toD' = IF answered THEN Append(toD, PieceFrame(i, b, FileBytes(from, l))) ELSE toD
  /\ UNCHANGED <<meta, seedVars, peerChoking, remoteHas, pieceVars, loopVars, fileVars>>

-----------------------------------------------------------------------------
(***************************************************************************)
(* D.                                                                      *)
(***************************************************************************)
\* requestPiece up to its loop.
StartRequests(i) ==
  /\ pc' = "request"
  /\ begin' = 0
  /\ length' = pieceSize(i)

\* sendPieceRequest: INTERESTED, a new entry, and its requests unless choked.
SendPieceRequest(i) ==
  /\ toU' = Append(toU, InterestedFrame)
  /\ queued' = i
  /\ haveBlocks' = 0
  /\ blocks' = [k \in 0 .. numBlocks(i) - 1 |-> <<>>]
  /\ IF peerChoking THEN pc' = "idle" /\ UNCHANGED <<begin, length>> ELSE StartRequests(i)

\* Mutant: a finished piece is selected again.
WantedAgain(has, done) == has

\* selectPieceAndRequest considers what D lacks and the other side has.
Wanted(has, done) == has \ done

SelectPieceAndRequest(has, done) ==
  IF Wanted(has, done) # {}
  THEN \E i \in Wanted(has, done) : SendPieceRequest(i)
  ELSE /\ queued' = None /\ blocks' = <<>> /\ pc' = "idle"
       /\ UNCHANGED <<toU, haveBlocks, begin, length>>

HandleBitfield ==
  /\ pc = "idle"
  /\ Takes(toD, BITFIELD_ID)
  /\ toD' = Tail(toD)
  /\ LET has == remoteHas \cup PiecesOfBitfield(Rest(Head(toD), 0), meta.pieces)
     IN  remoteHas' = has /\ SelectPieceAndRequest(has, finished)
  /\ UNCHANGED <<meta, up, seedVars, peerChoking, next, pieceData, fileVars>>

HandleUnchoke ==
  /\ pc = "idle"
  /\ Takes(toD, UNCHOKE_ID)
  /\ toD' = Tail(toD)
  /\ peerChoking' = FALSE
  /\ IF queued # None THEN StartRequests(queued) ELSE UNCHANGED <<pc, begin, length>>
  /\ UNCHANGED <<meta, up, toU, seedVars, remoteHas, pieceVars, next, pieceData, fileVars>>

\* Mutant: the loop goes on while anything is left and writes full blocks only.
RequestBlockFull ==
  /\ pc = "request"
  /\ toU' = Append(toU, RequestFrame(queued, ToWord32(begin), MAX_BLOCK_REQUEST_SIZE))
  /\ length' = length - MAX_BLOCK_REQUEST_SIZE
  /\ begin' = begin + MAX_BLOCK_REQUEST_SIZE
  /\ pc' = IF length > 0 THEN "request" ELSE "idle"
  /\ UNCHANGED <<meta, up, toD, seedVars, peerChoking, remoteHas, pieceVars, next, pieceData, fileVars>>

\* One round of requestPiece: sendRequest of a full block, or of what is left.
RequestBlock ==
  /\ pc = "request"
  /\ IF length > MAX_BLOCK_REQUEST_SIZE
     THEN /\ toU' = Append(toU, RequestFrame(queued, ToWord32(begin), MAX_BLOCK_REQUEST_SIZE))
          /\ length' = length - MAX_BLOCK_REQUEST_SIZE
          /\ begin' = begin + MAX_BLOCK_REQUEST_SIZE
          /\ pc' = pc
     ELSE /\ toU' = Append(toU, RequestFrame(queued, ToWord32(begin), ToWord32(length)))
          /\ pc' = "idle"
          /\ UNCHANGED <<begin, length>>
  /\ UNCHANGED <<meta, up, toD, seedVars, peerChoking, remoteHas, pieceVars, next, pieceData, fileVars>>

\* The block of a PIECE_BLOCK goes to the slot its offset names; the last one
\* starts the loop that puts the blocks together.
HandlePieceBlock ==
  /\ pc = "idle"
  /\ Takes(toD, PIECE_BLOCK_ID)
  /\ toD' = Tail(toD)
  /\ LET f == Head(toD)
         size == MsgSize(f) - 8
         k == Field(f, 1) \div MAX_BLOCK_REQUEST_SIZE   \* blockIndex
         refused == \/ size <= 0 \/ size > MAX_BLOCK_REQUEST_SIZE
                    \/ queued = None \/ Field(f, 0) # queued
                    \/ k >= numBlocks(queued)
     IN  IF refused
         THEN Drop /\ UNCHANGED <<pieceVars, pc, next, pieceData>>
         ELSE /\ blocks' = [blocks EXCEPT ![k] = Rest(f, 8)]
              /\ haveBlocks' = haveBlocks + 1
              /\ pc' = IF haveBlocks' = numBlocks(queued) THEN "assemble" ELSE "idle"
              /\ next' = 0 /\ pieceData' = <<>>
              /\ UNCHANGED <<up, queued>>
  /\ UNCHANGED <<meta, toU, seedVars, peerChoking, remoteHas, begin, length, fileVars>>

\* One round of the loop that appends the blocks in the order of their slots.
AppendBlock ==
  /\ pc = "assemble"
  /\ next < numBlocks(queued)
  /\ pieceData' = pieceData \o blocks[next]
  /\ next' = next + 1
  /\ UNCHANGED <<meta, wires, seedVars, peerChoking, remoteHas, pieceVars,
                 pc, begin, length, fileVars>>

\* Mutant: the place in the file is counted in pieces of this piece's size.
WriteBySize(data, i) ==
  disk' = [p \in FilePositions |->
             LET k == p - i * Len(data) + 1
             IN  IF k \in 1 .. Len(data) THEN data[k] ELSE disk[p]]

\* fseek and fwrite of handlePieceCompleted.
Write(data, i) ==
  disk' = [p \in FilePositions |->
             LET k == p - i * meta.pieceLength + 1
             IN  IF k \in 1 .. Len(data) THEN data[k] ELSE disk[p]]

\* The rest of the PIECE_BLOCK handler: handlePieceCompleted, whose HAVE goes to
\* nobody because D chokes U, the entry is erased and the next piece selected.
PieceCompleted ==
  /\ pc = "assemble"
  /\ next = numBlocks(queued)
  /\ IF pieceData = PieceBytes(queued)
     THEN /\ Write(pieceData, queued)
          /\ finished' = finished \cup {queued}
          /\ completedPieces' = completedPieces + 1
     ELSE UNCHANGED fileVars
  /\ SelectPieceAndRequest(remoteHas, finished')
  /\ UNCHANGED <<meta, up, toD, seedVars, peerChoking, remoteHas, next, pieceData>>

-----------------------------------------------------------------------------
U == HandleInterested \/ HandleRequest

D == \/ HandleBitfield \/ HandleUnchoke \/ RequestBlock
     \/ HandlePieceBlock \/ AppendBlock \/ PieceCompleted

Next == U \/ D

\* Each end has its io thread.
Spec == Init /\ [][Next]_vars /\ WF_vars(U) /\ WF_vars(D)

-----------------------------------------------------------------------------
(***************************************************************************)
(* Properties.                                                             *)
(***************************************************************************)
\* The variables hold values of their types; frames are bytes.
TypeOK ==
  /\ meta \in Metainfo
  /\ up \in BOOLEAN
  /\ toU \in Seq(Seq(Byte)) /\ toD \in Seq(Seq(Byte))
  /\ amChoking \in BOOLEAN /\ peerInterested \in BOOLEAN /\ peerChoking \in BOOLEAN
  /\ remoteHas \subseteq Pieces
  /\ queued \in Pieces \cup {None}
  /\ haveBlocks \in Nat
  /\ DOMAIN blocks = IF queued = None THEN {} ELSE 0 .. numBlocks(queued) - 1
  /\ pc \in {"idle", "request", "assemble"}
  /\ begin \in Nat /\ length \in Nat /\ next \in Nat
  /\ pieceData \in Seq(Byte)
  /\ finished \subseteq Pieces
  /\ completedPieces \in Nat

\* Neither end ever takes the other's message for an error: every request is within
\* its piece and within the size limit, every block is asked for and has a slot.
NeverDropped == up

\* The sizes and offsets of requests, answers and slots agree: the blocks put
\* together are the bytes of the piece, and no hash ever misses.
BlocksMakeThePiece ==
  pc = "assemble" /\ next = numBlocks(queued) => pieceData = PieceBytes(queued)

\* The pieces make the file: when all are finished every byte is in its place, the
\* last, shorter piece included, and nothing was counted twice.
WholeFile ==
  finished = Pieces => /\ disk = [p \in FilePositions |-> Content(p)]
                       /\ completedPieces = meta.pieces

\* The transfer comes to an end.
Completes == <>(finished = Pieces)

\* Byte for byte, a piece is obtained with its bytes in the file and stays there.
Stored == {i \in Pieces : \A k \in 1 .. pieceSize(i) :
             disk[i * meta.pieceLength + k - 1] = PieceBytes(i)[k]}
Promise == INSTANCE Download WITH
             Piece <- UNION {0 .. m.pieces - 1 : m \in Metainfo},
             obtained <- finished, count <- completedPieces, stored <- Stored, served <- {}
TransferIsDownload == Promise!Spec

=============================================================================
