-------------------------------- MODULE Crc ---------------------------------
(***************************************************************************)
(* The checksums of crc16.c, fed by the same bytes: the two of 16 bits by  *)
(* a multiplication instead of a table, the first of them also by a byte   *)
(* and by two bytes at once, the others by a table for four bits as        *)
(* crc_gen_inv_table makes it.  A register is the sequence of its bits,    *)
(* the lowest first.                                                       *)
(***************************************************************************)
EXTENDS Integers, Sequences
LOCAL INSTANCE SequencesExt

CONSTANTS
  CrcMessages,    \* the messages, sequences of bytes
  AdlerStart      \* the sums ADLER32_update starts from

VARIABLES
  message,    \* the message
  fed,        \* its bytes that the checksums have seen
  crc16,      \* CRC16_update
  at8,        \* CRC16_update_8, of which the caller keeps 16 bits
  at16,       \* CRC16_update_16, of an even number of bytes
  crc16b,     \* CRC16B_update
  crc32b,     \* CRC32B_update, from the inverted 0 of CRC32_init
  crc32c,     \* CRC32C_update
  modbus,     \* modbus_crc16_update
  adler       \* ADLER32_update: where it started, s1 and s2

crcVars ==
  <<message, fed, crc16, at8, at16, crc16b, crc32b, crc32c, modbus, adler>>

Bits(n, width) == [i \in 1..width |-> (n \div 2^(i - 1)) % 2]
Bits32(high, low) == Bits(low, 16) \o Bits(high, 16)
Bare(width) == [i \in 1..width |-> 0]
Ones(width) == [i \in 1..width |-> 1]
Plus(x, y) == [i \in DOMAIN x |-> (x[i] + y[i]) % 2]
SumOf(xs) == FoldLeft(Plus, Head(xs), Tail(xs))
Left(x, n) == SubSeq(Bare(n) \o x, 1, Len(x))
Right(x, n) == SubSeq(x, n + 1, Len(x)) \o Bare(n)
Wide(x, width) == x \o Bare(width - Len(x))
Nibble(x, low) == SubSeq(x, low + 1, low + 4)

(* The bits of the polynomial are too far apart for the product of CRC16   *)
(* and of CRC16B with four bits to carry.                                  *)
Times(poly, q) == Bits(poly * (q[1] + 2 * q[2] + 4 * q[3] + 8 * q[4]), 16)

CRC16_update(crc, val) ==
  LET step(c, q) == Plus(Left(c, 4), Times(\h1021, Plus(Nibble(c, 12), q)))
  IN  step(step(crc, Nibble(val, 4)), Nibble(val, 0))

CRC16B_update(crc, val) ==
  LET step(c, q) == Plus(Right(c, 4), Times(\h1081, Plus(Nibble(c, 0), q)))
  IN  step(step(crc, Nibble(val, 0)), Nibble(val, 4))

(* x<<16 ^ x<<12 ^ x<<5 ^ x *)
Spread(x) == SumOf(<<Left(x, 16), Left(x, 12), Left(x, 5), x>>)

CRC16_update_8(crc, val) ==
  LET c == Plus(crc, Left(Wide(val, 32), 8))
      x == Right(c, 8)
  IN  Plus(Spread(Plus(x, Right(x, 4))), Left(c, 8))

SlipUpdate16(crc, byte1, byte2) ==
  LET x == Plus(crc, Wide(byte2 \o byte1, 32))
  IN  Plus(Spread(SumOf(<<x, Right(x, 4), Right(x, 8), Right(x, 12)>>)), Left(x, 16))
CRC16_update_16(crc, byte1, byte2) ==
  LET x == Plus(crc, Wide(byte2 \o byte1, 32))
  IN  Plus(Spread(SumOf(<<x, Right(x, 4), Right(x, 8), Right(x, 11), Right(x, 12)>>)),
           Left(x, 16))

(* What the caller keeps of the 32 bits. *)
Kept(x) == Wide(SubSeq(x, 1, 16), 32)

(* The table: the polynomial and its quotients by x for the bits from the  *)
(* highest down, the other entries their sums.                             *)
Halved(p, poly) == IF p[1] = 1 THEN Plus(Right(p, 1), poly) ELSE Right(p, 1)
Lookup4(poly, q) ==
  LET p2 == Halved(poly, poly)
      p3 == Halved(p2, poly)
      p4 == Halved(p3, poly)
      times(p, bit) == IF bit = 1 THEN p ELSE Bare(Len(poly))
  IN  SumOf(<<times(poly, q[4]), times(p2, q[3]), times(p3, q[2]), times(p4, q[1])>>)

(* CRC32B_update, CRC32C_update and modbus_crc16_update *)
TableUpdate(poly, crc, val) ==
  LET step(c, q) == Plus(Right(c, 4), Lookup4(poly, Plus(Nibble(c, 0), q)))
  IN  step(step(crc, Nibble(val, 0)), Nibble(val, 4))

POLY32B == Bits32(\hEDB8, \h8320)
POLY32C == Bits32(\h82F6, \h3B78)
MODBUS_POLY == Bits(\hA001, 16)

ADLER32_update(sums, val) ==
  LET poly == 65521
      less(s) == IF s >= poly THEN s - poly ELSE s
      s1 == less(sums[1] + val)
  IN  <<s1, less(sums[2] + s1)>>

-----------------------------------------------------------------------------
CrcInit ==
  /\ message \in CrcMessages /\ fed = 0
  /\ crc16 = Ones(16) /\ crc16b = Ones(16) /\ modbus = Ones(16)
  /\ at8 = Wide(Ones(16), 32) /\ at16 = Wide(Ones(16), 32)
  /\ crc32b = Ones(32) /\ crc32c = Ones(32)
  /\ \E sums \in AdlerStart : adler = [start |-> sums, now |-> sums]

Feed ==
  LET val == Bits(message[fed + 1], 8) IN
  /\ fed < Len(message)
  /\ fed' = fed + 1
  /\ crc16' = CRC16_update(crc16, val)
  /\ crc16b' = CRC16B_update(crc16b, val)
  /\ at8' = Kept(CRC16_update_8(at8, val))
  /\ at16' = IF fed % 2 = 1
             THEN Kept(CRC16_update_16(at16, Bits(message[fed], 8), val)) ELSE at16
  /\ crc32b' = TableUpdate(POLY32B, crc32b, val)
  /\ crc32c' = TableUpdate(POLY32C, crc32c, val)
  /\ modbus' = TableUpdate(MODBUS_POLY, modbus, val)
  /\ adler' = [adler EXCEPT !.now = ADLER32_update(@, message[fed + 1])]
  /\ UNCHANGED message

-----------------------------------------------------------------------------
Seen == SubSeq(message, 1, fed)
LowFirst == FlattenSeq([i \in 1..fed |-> Bits(message[i], 8)])
HighFirst == FlattenSeq([i \in 1..fed |-> Reverse(Bits(message[i], 8))])

(* The division of the message by the polynomial, one bit after another. *)
Remainder(poly, bits) ==
  LET step(c, bit) ==
        IF c[1] # bit THEN Plus(Right(c, 1), poly) ELSE Right(c, 1)
  IN  FoldLeft(step, Ones(Len(poly)), bits)

(* Every checksum, however many bits it takes at once and whether it looks *)
(* its multiples up or multiplies, is the remainder of the message by the  *)
(* polynomial its comment names; for "123456789" it is the check value     *)
(* given there.                                                            *)
CrcAgrees ==
  LET ccitt == Reverse(Remainder(Bits(\h8408, 16), HighFirst))
      inverted(x) == Plus(x, Ones(Len(x)))
      total == FoldLeft(LAMBDA s, b: <<s[1] + b, s[2] + s[1] + b>>, adler.start, Seen)
  IN  /\ crc16 = ccitt /\ at8 = Wide(ccitt, 32)
      /\ fed % 2 = 0 => at16 = Wide(ccitt, 32)
      /\ crc16b = Remainder(Bits(\h8408, 16), LowFirst)
      /\ crc32b = Remainder(POLY32B, LowFirst)
      /\ crc32c = Remainder(POLY32C, LowFirst)
      /\ modbus = Remainder(MODBUS_POLY, LowFirst)
      /\ adler.now = <<total[1] % 65521, total[2] % 65521>>
      /\ Seen = [i \in 1..9 |-> 48 + i] =>
           /\ crc16 = Bits(\h29B1, 16)
           /\ inverted(crc16b) = Bits(\h906E, 16)
           /\ inverted(crc32b) = Bits32(\hCBF4, \h3926)
           /\ inverted(crc32c) = Bits32(\hE306, \h9283)
           /\ modbus = Bits(\h4B37, 16)
=============================================================================
