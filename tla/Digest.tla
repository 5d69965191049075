------------------------------- MODULE Digest -------------------------------
(***************************************************************************)
(* How messages are cut into blocks: by magma_cmac of magma.c and MD5 of   *)
(* md5.c from the pieces they are given one after another, by hash_X of    *)
(* stribog.c from a message of any number of bits, its last block first.   *)
(* A byte of the message is its place there, and what is added to it has a *)
(* negative number; the blocks are kept in the order the compression sees  *)
(* them.                                                                   *)
(***************************************************************************)
EXTENDS Integers, Sequences

CONSTANTS
  CmacPieces, Md5Pieces,   \* the lengths of the pieces, in bytes
  MaxCmac, MaxMd5,         \* bounds: bytes of a message
  StribogBits              \* the lengths of the messages of hash_X, in bits

ASSUME DigestAssumption ==
  /\ CmacPieces \subseteq Nat /\ Md5Pieces \subseteq Nat
  /\ StribogBits \subseteq Nat

VARIABLES
  digest,     \* "cmac", "md5" or "stribog"
  given,      \* the bytes given so far; of hash_X the bits
  len,        \* ctx->len, the low bits of ctx->length, or len of hash_X
  buffer,     \* last_block, or the buffer
  blocks,     \* history: the blocks that were compressed
  closed      \* the digest is final

digestVars == <<digest, given, len, buffer, blocks, closed>>

Closing == -1                        \* the byte 80
K1 == -2                             \* the keys of magma_cmac_fini
K2 == -3
LengthField == -4                    \* the length of MD5
Marked(byte, bit) == byte + 1000 * bit

Zeros(n) == [i \in 1..n |-> 0]
Piece(from, n) == [i \in 1..n |-> from + i]

(* memcpy into a buffer. *)
Placed(b, offset, bytes) ==
  SubSeq(b, 1, offset) \o bytes \o SubSeq(b, offset + Len(bytes) + 1, Len(b))

(* The first n whole blocks of some bytes. *)
Whole(bytes, n, size) ==
  [j \in 1..n |-> SubSeq(bytes, (j - 1) * size + 1, j * size)]

DigestInit ==
  /\ \/ /\ digest = "cmac" /\ buffer = Zeros(8) /\ given = 0
     \/ /\ digest = "md5" /\ buffer = Zeros(64) /\ given = 0
     \/ /\ digest = "stribog" /\ buffer = Zeros(64) /\ given \in StribogBits
  /\ len = given /\ blocks = <<>> /\ closed = FALSE

-----------------------------------------------------------------------------
(* last_block = 0 *)
SlipEmptied(b) == b
Emptied(b) == Zeros(Len(b))

(* magma_cmac_update: an open block is filled first.  The last block is    *)
(* kept back, whole or not; it is compressed when more bytes come.         *)
CmacUpdate(n) ==
  LET open == len % 8 # 0
      slen == IF ~open THEN 0 ELSE IF 8 - len > n THEN n ELSE 8 - len
      filled == Placed(buffer, len % 8, Piece(given, slen))
      rest == Piece(given + slen, n - slen)
      whole == (Len(rest) - 1) \div 8
      tail == SubSeq(rest, 8 * whole + 1, Len(rest))
  IN  /\ digest = "cmac" /\ ~closed /\ given + n <= MaxCmac
      /\ given' = given + n
      /\ IF rest = <<>>
         THEN /\ buffer' = filled /\ len' = len + slen
              /\ UNCHANGED blocks
         ELSE /\ buffer' = Placed(IF len + slen = 8 THEN Emptied(filled) ELSE filled,
                                0, tail)
              /\ len' = Len(tail)
              /\ blocks' = blocks \o (IF len + slen = 8 THEN <<filled>> ELSE <<>>)
                                  \o Whole(rest, whole, 8)
      /\ UNCHANGED <<digest, closed>>

(* magma_cmac_fini: a short block is closed by 80 and takes the second     *)
(* key.  An empty message passes for a whole block, and is not asked for.  *)
CmacFini ==
  /\ digest = "cmac" /\ ~closed /\ given > 0
  /\ blocks' = Append(blocks,
       IF len % 8 = 0 THEN Append(buffer, K1)
       ELSE Append(Placed(buffer, len % 8, <<Closing>>), K2))
  /\ closed' = TRUE
  /\ UNCHANGED <<digest, given, len, buffer>>

(* md5_updt: the buffer is filled and compressed over and over. *)
Md5Update(n) ==
  LET offset == len % 64
      all == SubSeq(buffer, 1, offset) \o Piece(given, n)
      whole == Len(all) \div 64
      tail == SubSeq(all, 64 * whole + 1, Len(all))
  IN  /\ digest = "md5" /\ ~closed /\ given + n <= MaxMd5
      /\ given' = given + n /\ len' = len + n
      /\ blocks' = blocks \o Whole(all, whole, 64)
      /\ buffer' = Placed(IF whole = 0 THEN buffer
                         ELSE SubSeq(all, 64 * whole - 63, 64 * whole), 0, tail)
      /\ UNCHANGED <<digest, closed>>

(* md5_fini: 80, zeros up to the length, in a block of its own if the 80   *)
(* leaves no room for it.                                                  *)
Md5Fini ==
  LET offset == len % 64
      closing == Placed(buffer, offset, <<Closing>>)
      spills == offset >= 56
      fill == Placed(closing, offset + 1, Zeros(IF spills THEN 63 - offset ELSE 55 - offset))
      final == IF spills THEN Placed(fill, 0, Zeros(56)) ELSE fill
  IN  /\ digest = "md5" /\ ~closed
      /\ blocks' = blocks \o (IF spills THEN <<fill>> ELSE <<>>)
                     \o <<SubSeq(final, 1, 56) \o <<LengthField, 8 * len>>>>
      /\ closed' = TRUE
      /\ UNCHANGED <<digest, given, len, buffer>>

-----------------------------------------------------------------------------
(* hash_X: the message is a number with its lowest byte last.  If its bits *)
(* do not fill the first byte, that byte is one more than len / 8.         *)
Full == IF len % 8 = 0 THEN 1 ELSE 0

(* Stage 2: 512 bits off the end. *)
StribogBlock ==
  /\ digest = "stribog" /\ len >= 512
  /\ blocks' = Append(blocks, Piece((len \div 8) - 63 - Full, 64))
  /\ len' = len - 512
  /\ UNCHANGED <<digest, given, buffer, closed>>

(* Stage 3: the rest, and a bit above it. *)
StribogRest ==
  LET rest == Piece(0, (len \div 8) + 1 - Full)
      m == Placed(Zeros(64), 63 - (len \div 8) + Full, rest)
      mark == 64 - (len \div 8)
  IN  /\ digest = "stribog" /\ len < 512 /\ ~closed
      /\ blocks' = Append(blocks, [m EXCEPT ![mark] = Marked(@, 2^(len % 8))])
      /\ closed' = TRUE
      /\ UNCHANGED <<digest, given, len, buffer>>

DigestNext ==
  \/ \E n \in CmacPieces : CmacUpdate(n)
  \/ CmacFini
  \/ \E n \in Md5Pieces : Md5Update(n)
  \/ Md5Fini
  \/ StribogBlock
  \/ StribogRest

DigestSpec == DigestInit /\ [][DigestNext]_digestVars

-----------------------------------------------------------------------------
Cut(bytes, size) ==
  [j \in 1..(Len(bytes) + size - 1) \div size |->
    SubSeq(bytes, (j - 1) * size + 1,
           IF j * size > Len(bytes) THEN Len(bytes) ELSE j * size)]

Padded(bytes, size, room) ==
  LET open == (Len(bytes) + 1 + room) % size
  IN  bytes \o <<Closing>> \o Zeros(IF open = 0 THEN 0 ELSE size - open)

CmacBlocks ==
  LET whole == Cut(Piece(0, given), 8)
      padded == Cut(Padded(Piece(0, given), 8, 0), 8)
  IN  IF given % 8 = 0
      THEN [whole EXCEPT ![Len(whole)] = Append(@, K1)]
      ELSE [padded EXCEPT ![Len(padded)] = Append(@, K2)]
Md5Blocks ==
  LET cut == Cut(Padded(Piece(0, given), 64, 8), 64)
  IN  [cut EXCEPT ![Len(cut)] = @ \o <<LengthField, 8 * given>>]
StribogBlocks ==
  LET bytes == (given + 7) \div 8
      byte(i) == IF bytes > i THEN bytes - i ELSE 0
      final == given \div 512
      mark == (given \div 8) % 64
  IN  [b \in 1..final + 1 |-> [i \in 1..64 |->
        Marked(byte(64 * b - i),
               IF b = final + 1 /\ 64 - i = mark THEN 2^(given % 8) ELSE 0)]]

(* Whatever pieces a message comes in, and wherever its last bit falls in  *)
(* a byte and its last byte in a block, what is compressed is the padded   *)
(* message cut into blocks: no byte is lost, seen twice or left behind by  *)
(* an earlier block in the padding.                                        *)
DigestOfWhole ==
  closed => blocks = CASE digest = "cmac" -> CmacBlocks
                       [] digest = "md5" -> Md5Blocks
                       [] digest = "stribog" -> StribogBlocks
=============================================================================
