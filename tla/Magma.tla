------------------------------- MODULE Magma --------------------------------
(***************************************************************************)
(* The block cipher of magma.c.  A word of 32 bits is its eight nibbles,   *)
(* a block two words, the low one first.                                   *)
(***************************************************************************)
EXTENDS Cipher

CONSTANTS MagmaKeys, MagmaBlocks    \* the keys, of eight words, and the blocks

Word32 == [1..8 -> 0..15]

ASSUME MagmaAssumption ==
  MagmaKeys \subseteq [1..8 -> Word32] /\ MagmaBlocks \subseteq [1..2 -> Word32]

sbox == <<
  <<12, 4, 6, 2, 10, 5, 11, 9, 14, 8, 13, 7, 0, 3, 15, 1>>,
  <<6, 8, 2, 3, 9, 10, 5, 12, 1, 14, 4, 7, 11, 13, 0, 15>>,
  <<11, 3, 5, 8, 2, 15, 10, 13, 14, 1, 7, 4, 12, 9, 6, 0>>,
  <<12, 8, 2, 1, 13, 4, 15, 6, 7, 0, 10, 5, 3, 14, 9, 11>>,
  <<7, 15, 5, 10, 8, 1, 6, 13, 0, 9, 3, 14, 11, 4, 2, 12>>,
  <<5, 13, 15, 6, 9, 2, 12, 10, 11, 7, 8, 1, 4, 3, 14, 0>>,
  <<8, 14, 2, 5, 6, 9, 1, 12, 15, 4, 11, 0, 13, 10, 3, 7>>,
  <<1, 7, 14, 13, 0, 5, 8, 3, 4, 15, 10, 6, 9, 12, 11, 2>> >>

t(a) == Vector([i \in 1..8 |-> sbox[i][a[i] + 1]])

(* k + a modulo 2^32 *)
Add32(k, a) ==
  LET sum[i \in 1..8] == k[i] + a[i] + (IF i = 1 THEN 0 ELSE sum[i - 1] \div 16)
  IN  Vector([i \in 1..8 |-> sum[i] % 16])

(* ROL(x, 11): two nibbles and three bits *)
ROL11(x) ==
  LET y == RotR(x, 6)
      z == RotR(y, 7)
  IN  Vector([i \in 1..8 |-> ((8 * y[i]) % 16) + (z[i] \div 2)])

g(k, a) == ROL11(t(Add32(k, a)))

(* Which word of the key a round takes: three times from the last to the   *)
(* first, then from the first to the last.                                 *)
KeyOf(r) == keys[IF r < 24 THEN 8 - (r % 8) ELSE r - 23]

MagmaInit ==
  /\ cipher = "magma" /\ phase = "encrypt" /\ round = 0
  /\ plain \in MagmaBlocks /\ state = plain
  /\ keys \in MagmaKeys

(* A turn of a loop of magma_encrypt, two rounds; at the end the halves    *)
(* change places.                                                          *)
MagmaEncrypt ==
  LET n2 == Xor(state[2], g(KeyOf(round), state[1]))
      n1 == Xor(state[1], g(KeyOf(round + 1), n2))
  IN  /\ cipher = "magma" /\ phase = "encrypt"
      /\ round' = round + 2
      /\ IF round = 30
         THEN state' = <<n2, n1>> /\ phase' = "decrypt"
         ELSE state' = <<n1, n2>> /\ UNCHANGED phase
      /\ UNCHANGED <<cipher, plain, keys>>

(* A turn of the loop of magma_decrypt, which is given the keys of the     *)
(* rounds one after another.                                               *)
MagmaDecrypt ==
  LET a1 == Xor(state[2], g(KeyOf(round - 1), state[1]))
      a0 == Xor(state[1], g(KeyOf(round - 2), a1))
  IN  /\ cipher = "magma" /\ phase = "decrypt"
      /\ round' = round - 2
      /\ IF round = 2
         THEN state' = <<a1, a0>> /\ phase' = "done"
         ELSE state' = <<a0, a1>> /\ UNCHANGED phase
      /\ UNCHANGED <<cipher, plain, keys>>

MagmaNext == MagmaEncrypt \/ MagmaDecrypt

MagmaSpec == MagmaInit /\ [][MagmaNext]_cipherVars
=============================================================================
