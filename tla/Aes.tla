-------------------------------- MODULE Aes ---------------------------------
(***************************************************************************)
(* AES-128 of aes.c.  The state is four columns, words of four bytes; the  *)
(* tables of the S-box are given by the generator kept beside them, and    *)
(* the words of four bytes multiplied at once byte by byte.                *)
(***************************************************************************)
EXTENDS Cipher

CONSTANTS AesKeys, AesBlocks     \* the keys and the blocks that are tried

Column == [1..4 -> Byte]
Columns == [1..4 -> Column]

ASSUME AesAssumption == AesKeys \subseteq Columns /\ AesBlocks \subseteq Columns

ROTL8(x, n) == ((x * 2^n) % 256) + (x \div 2^(8 - n))

(* The affine transformation AF and its inverse BF. *)
AF(q) == XorAll(<<q, ROTL8(q, 1), ROTL8(q, 2), ROTL8(q, 3), ROTL8(q, 4), \h63>>)
BF(x) == XorAll(<<ROTL8(x, 1), ROTL8(x, 3), ROTL8(x, 6), 5>>)

(* The inverse of a byte, by trial as inverse_af finds it; 0 stands for    *)
(* its own.                                                                *)
inverse_af ==
  [p \in Byte |-> IF p = 0 THEN 0
                  ELSE CHOOSE i \in 1..255 : gf2p8_mul(p, i, \h11B) = 1]

S_Box == [p \in Byte |-> AF(inverse_af[p])]
InvS_Box == [x \in Byte |-> inverse_af[BF(x)]]

(* The two tables undo each other, at every byte. *)
ASSUME TablesAssumption ==
  \A p \in Byte : S_Box[p] \in Byte /\ InvS_Box[S_Box[p]] = p

SubWord(w) == Vector([i \in 1..4 |-> S_Box[w[i]]])

(* Row i moves i columns; the tables are applied on the way. *)
SubBytes_ShiftRows(a) ==
  Vector([c \in 1..4 |->
    Vector([i \in 1..4 |-> S_Box[a[((c + i - 2) % 4) + 1][i]]])])
InvSubBytes_ShiftRows(a) ==
  Vector([c \in 1..4 |->
    Vector([i \in 1..4 |-> InvS_Box[a[((c - i + 4) % 4) + 1][i]]])])

Doubled(w) == Vector([i \in 1..4 |-> Twice(w[i], \h11B)])

(* A column times 02 03 01 01, by the doubled column and itself alone. *)
gmul_vec4(v) ==
  LET r == Xor(Doubled(v), RotR(v, 2))
  IN  Xor(r, RotR(Xor(r, v), 1))

(* A column times 0e 0b 0d 09. *)
SlipInverse(v) ==
  LET r1 == Doubled(v)
      r2 == Doubled(r1)
      r3 == Doubled(r2)
      a == Xor(Xor(r3, r2), r1)
      b == Xor(Xor(r3, r1), v)
      c == Xor(Xor(r3, r2), v)
      d == Xor(r3, v)
  IN  Xor(Xor(Xor(a, RotR(b, 1)), RotR(d, 2)), RotR(c, 3))
gmul_ivec4(v) ==
  LET r1 == Doubled(v)
      r2 == Doubled(r1)
      r3 == Doubled(r2)
      a == Xor(Xor(r3, r2), r1)
      b == Xor(Xor(r3, r1), v)
      c == Xor(Xor(r3, r2), v)
      d == Xor(r3, v)
  IN  Xor(Xor(Xor(a, RotR(b, 1)), RotR(c, 2)), RotR(d, 3))

MixColumns(V) == Vector([c \in 1..4 |-> gmul_vec4(V[c])])
InvMixColumns(V) == Vector([c \in 1..4 |-> gmul_ivec4(V[c])])
AddRoundKey(s, key) == Vector([c \in 1..4 |-> Xor(s[c], key[c])])

-----------------------------------------------------------------------------
AesInit ==
  /\ cipher = "aes" /\ phase = "expand" /\ round = 0
  /\ plain \in AesBlocks /\ state = plain
  /\ \E key \in AesKeys : keys = <<key>>

(* KeyExpansion: the four words of the next round; rcon doubles. *)
AesExpand ==
  LET rcon[j \in 0..9] == IF j = 0 THEN 1 ELSE Twice(rcon[j - 1], \h11B)
      words == keys[Len(keys)]
      w1 == Xor(words[1], Xor(SubWord(RotR(words[4], 1)),
                             <<rcon[Len(keys) - 1], 0, 0, 0>>))
      w2 == Xor(words[2], w1)
      w3 == Xor(words[3], w2)
  IN  /\ cipher = "aes" /\ phase = "expand"
      /\ keys' = Append(keys, <<w1, w2, w3, Xor(words[4], w3)>>)
      /\ phase' = IF Len(keys) = 10 THEN "encrypt" ELSE phase
      /\ UNCHANGED <<cipher, plain, state, round>>

(* A turn of the loop of AES_encrypt; the words adds the words key instead   *)
(* of mixing.                                                              *)
AesEncrypt ==
  LET t == SubBytes_ShiftRows(AddRoundKey(state, keys[round + 1])) IN
  /\ cipher = "aes" /\ phase = "encrypt"
  /\ round' = round + 1
  /\ IF round = 9
     THEN state' = AddRoundKey(t, keys[11]) /\ phase' = "inverse"
     ELSE state' = MixColumns(t) /\ UNCHANGED phase
  /\ UNCHANGED <<cipher, plain, keys>>

(* InvKeyExpansion: the keys of the inner rounds pass InvMixColumns. *)
AesInverse ==
  /\ cipher = "aes" /\ phase = "inverse"
  /\ keys' = Vector([i \in 1..11 |-> IF i \in 2..10 THEN InvMixColumns(keys[i])
                                     ELSE keys[i]])
  /\ phase' = "decrypt"
  /\ UNCHANGED <<cipher, plain, state, round>>

(* AES_decrypt: the loop is entered at its last statement. *)
AesDecrypt ==
  LET t == InvSubBytes_ShiftRows(state)
      mixed == IF round # 0 THEN InvMixColumns(t) ELSE t
  IN  /\ cipher = "aes" /\ phase = "decrypt"
      /\ state' = AddRoundKey(IF round = 10 THEN state ELSE mixed, keys[round + 1])
      /\ IF round = 0 THEN phase' = "done" /\ UNCHANGED round
         ELSE round' = round - 1 /\ UNCHANGED phase
      /\ UNCHANGED <<cipher, plain, keys>>

AesNext == AesExpand \/ AesEncrypt \/ AesInverse \/ AesDecrypt

AesSpec == AesInit /\ [][AesNext]_cipherVars
=============================================================================
