----------------------------- MODULE Transcoder -----------------------------
(***************************************************************************)
(* Numbers and messages as bytes: utils/transcoder.hpp, the buffers of     *)
(* net/outgoingmessage.hpp and net/incomingmessage.hpp, the frames peer.cpp*)
(* builds and takes apart, the bit order of the bitfield, and the two byte *)
(* orders an address has in the program.                                   *)
(*                                                                         *)
(* A buffer is a sequence of bytes and `at' an offset that counts from 0,  *)
(* as in the code.  v >> 8k is v \div 256^k, a conversion to uint8_t is    *)
(* % 256, and the or of two numbers without a common bit is their sum.     *)
(***************************************************************************)
EXTENDS Integers, Sequences

Byte == {b \in Nat : b < 256}
Word16 == {v \in Nat : v < 65536}
\* 2^32 is beyond TLC's integers, hence the division.
Word32 == {v \in Nat : v \div 65536 < 65536}

\* A conversion to uint32_t.
ToWord32(v) == ((v \div 65536) % 65536) * 65536 + (v % 65536)

-----------------------------------------------------------------------------
(***************************************************************************)
(* transcoder.hpp                                                          *)
(***************************************************************************)
readAsLE16(buf, at) == buf[at + 2] * 256 + buf[at + 1]
readAsLE32(buf, at) == readAsLE16(buf, at + 2) * 65536 + readAsLE16(buf, at)

readAsBE16(buf, at) == buf[at + 2] + buf[at + 1] * 256
readAsBE32(buf, at) == readAsBE16(buf, at + 2) + readAsBE16(buf, at) * 65536

\* (uint8_t)value >> 8: the conversion comes first, and nothing is left to shift.
writeAsBE16(v) == <<(v % 256) \div 256, v % 256>>
writeAsBE32(v) ==
  << (v \div (256 * 65536)) % 256, (v \div 65536) % 256, (v \div 256) % 256, v % 256 >>

-----------------------------------------------------------------------------
(***************************************************************************)
(* The frames: a 4-byte length, the message's number and its fields.       *)
(***************************************************************************)
UNCHOKE_ID == 1
INTERESTED_ID == 2
HAVE_ID == 4
BITFIELD_ID == 5
REQUEST_ID == 6
PIECE_BLOCK_ID == 7
CANCEL_ID == 8

UnchokeFrame == <<0, 0, 0, 1, UNCHOKE_ID>>
InterestedFrame == <<0, 0, 0, 1, INTERESTED_ID>>
HaveFrame(index) == writeAsBE32(5) \o <<HAVE_ID>> \o writeAsBE32(index)
BitfieldFrame(raw) == writeAsBE32(1 + Len(raw)) \o <<BITFIELD_ID>> \o raw
RangeFrame(id, index, begin, length) ==
  writeAsBE32(13) \o <<id>> \o writeAsBE32(index) \o writeAsBE32(begin) \o writeAsBE32(length)
RequestFrame(index, begin, length) == RangeFrame(REQUEST_ID, index, begin, length)
CancelFrame(index, begin, length) == RangeFrame(CANCEL_ID, index, begin, length)
PieceFrame(index, begin, block) ==
  writeAsBE32(9 + Len(block)) \o <<PIECE_BLOCK_ID>>
    \o writeAsBE32(index) \o writeAsBE32(begin) \o block

(***************************************************************************)
(* What the other end reads: the length, and in the bytes that follow the  *)
(* message's number, then up to three 32-bit fields, or a rest.            *)
(***************************************************************************)
FrameLength(frame) == readAsBE32(frame, 0)
MessageId(frame) == frame[5]
MsgSize(frame) == FrameLength(frame) - 1
Field(frame, n) == readAsBE32(frame, 5 + 4 * n)          \* n from 0
Rest(frame, skip) == SubSeq(frame, 6 + skip, 4 + FrameLength(frame))

-----------------------------------------------------------------------------
(***************************************************************************)
(* The bitfield.  A block of the dynamic_bitset is a function from the     *)
(* bits 0 .. 7, 0 the least significant, and on the wire one byte.         *)
(***************************************************************************)
Bit == 0 .. 7
Weight(k) == <<1, 2, 4, 8, 16, 32, 64, 128>>[k + 1]      \* 1 << k
ByteOf(b) ==
  LET v(k) == IF b[k] THEN Weight(k) ELSE 0
  IN  v(0) + v(1) + v(2) + v(3) + v(4) + v(5) + v(6) + v(7)
HasBit(byte, k) == (byte \div Weight(k)) % 2 = 1         \* byte & (1 << k)

SwapNibbles(b) == [k \in Bit |-> b[IF k < 4 THEN k + 4 ELSE k - 4]]
SwapPairs(b) == [k \in Bit |-> b[IF k % 4 < 2 THEN k + 2 ELSE k - 2]]
SwapBits(b) == [k \in Bit |-> b[IF k % 2 < 1 THEN k + 1 ELSE k - 1]]

\* The number of blocks of a bitset for n pieces.
BitfieldSize(n) == (n + 7) \div 8

\* Block i of to_block_range: piece 8 * i + k is bit k, and the padding is 0.
BitsetBlock(have, n, i) == [k \in Bit |-> 8 * i + k < n /\ 8 * i + k \in have]

\* Mutant: the bits stay in the order of the bitset.
getBitfieldBlocks(have, n) ==
  [i \in 1 .. BitfieldSize(n) |-> ByteOf(BitsetBlock(have, n, i - 1))]

\* Torrent::getRawBitfield: the blocks with their bits reversed by three swaps.
getRawBitfield(have, n) ==
  [i \in 1 .. BitfieldSize(n) |->
     ByteOf(SwapBits(SwapPairs(SwapNibbles(BitsetBlock(have, n, i - 1)))))]

\* The BITFIELD handler: bit 7 - j of byte i is piece 8 * i + j, if there is one.
PiecesOfBitfield(raw, n) ==
  {p \in 0 .. n - 1 :
     \E i \in DOMAIN raw, j \in Bit : p = 8 * (i - 1) + j /\ HasBit(raw[i], 7 - j)}

-----------------------------------------------------------------------------
(***************************************************************************)
(* Addresses.                                                              *)
(***************************************************************************)
\* connectToPeers: the four bytes of a compact peer entry, in network order.
CompactAddress(entry) == readAsLE32(entry, 0)
CompactPort(entry) == readAsBE16(entry, 4)

\* parseIp: the bytes of the address from the lowest up, a.b.c.d.
parseIp(ip) == <<ip % 256, (ip \div 256) % 256, (ip \div 65536) % 256, (ip \div (256 * 65536)) % 256>>

\* Connection::getIP: to_ulong is the address in host order, a first, and
\* host_to_network_long reverses its bytes on a little-endian host.
HostOrder(quad) == readAsBE32(quad, 0)
host_to_network_long(v) == readAsLE32(writeAsBE32(v), 0)
getIP(quad) == host_to_network_long(HostOrder(quad))

=============================================================================
