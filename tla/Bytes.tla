------------------------------- MODULE Bytes --------------------------------
(***************************************************************************)
(* Bytes, nibbles and words.  A word is the sequence of its bytes (in      *)
(* magma.c of its nibbles), the least significant first.                   *)
(***************************************************************************)
LOCAL INSTANCE Integers
LOCAL INSTANCE Sequences

Byte == 0..255

Bit(n, i) == (n \div 2^i) % 2

(* The exclusive or of two nibbles, and of two bytes by their nibbles. *)
NibbleXor ==
  [a \in 0..15 |-> [b \in 0..15 |->
    LET bit(i) == IF Bit(a, i) = Bit(b, i) THEN 0 ELSE 2^i
    IN  bit(0) + bit(1) + bit(2) + bit(3)]]
ByteXor ==
  [a \in Byte |-> [b \in Byte |->
    16 * NibbleXor[a \div 16][b \div 16] + NibbleXor[a % 16][b % 16]]]

(* A sequence given by its function, with its elements worked out at once. *)
Vector(f) == SubSeq(f, 1, Len(f))

Xor(x, y) == Vector([i \in DOMAIN x |-> ByteXor[x[i]][y[i]]])

XorAll(bytes) ==
  LET sum[i \in 0..Len(bytes)] ==
        IF i = 0 THEN 0 ELSE ByteXor[sum[i - 1]][bytes[i]]
  IN  sum[Len(bytes)]

(* rotr(x, 8 * n) *)
RotR(x, n) == Vector([i \in DOMAIN x |-> x[((i - 1 + n) % Len(x)) + 1]])

(* A polynomial over GF(2) times x modulo poly, whose bit 8 the byte drops,*)
(* and gf2p8_mul.                                                          *)
Twice(p, poly) == IF p < 128 THEN 2 * p ELSE ByteXor[2 * p - 256][poly % 256]
gf2p8_mul(p, q, poly) ==
  LET shifted[i \in 0..7] == IF i = 0 THEN p ELSE Twice(shifted[i - 1], poly)
      sum[i \in 0..8] ==
        IF i = 0 THEN 0
        ELSE IF Bit(q, i - 1) = 0 THEN sum[i - 1]
        ELSE ByteXor[sum[i - 1]][shifted[i - 1]]
  IN  sum[8]
=============================================================================
