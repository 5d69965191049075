---------------------------- MODULE CryptoProofs ----------------------------
(***************************************************************************)
(* Decryption gives back the block that was encrypted, by aes.c and by     *)
(* magma.c, and the digests of magma.c, md5.c and stribog.c are of the     *)
(* whole message: for every key, block, length and cut into pieces.        *)
(***************************************************************************)
EXTENDS Digest, Magma, Aes, SequenceTheorems, TLAPS

(***************************************************************************)
(* Magma: each half of a round takes the same number from a word that it   *)
(* added, whatever g computes, as long as g gives a word.                  *)
(***************************************************************************)

(* The exclusive or of two nibbles takes itself back. *)
LEMMA NibbleXorIs ==
  ASSUME NEW a \in 0..15, NEW b \in 0..15
  PROVE  /\ NibbleXor[a][b] \in 0..15
         /\ NibbleXor[NibbleXor[a][b]][b] = a
<1>1. \A x, y \in 0..15 : NibbleXor[x][y] =
        (IF x % 2 = y % 2 THEN 0 ELSE 1)
        + (IF (x \div 2) % 2 = (y \div 2) % 2 THEN 0 ELSE 2)
        + (IF (x \div 4) % 2 = (y \div 4) % 2 THEN 0 ELSE 4)
        + (IF (x \div 8) % 2 = (y \div 8) % 2 THEN 0 ELSE 8)
  <2>1. 2^0 = 1 /\ 2^1 = 2 /\ 2^2 = 4 /\ 2^3 = 8
    OBVIOUS
  <2> QED
    BY <2>1 DEF NibbleXor, Bit
<1> QED
  BY <1>1

LEMMA ByteXorOfNibbles ==
  ASSUME NEW a \in 0..15, NEW b \in 0..15
  PROVE  ByteXor[a][b] = NibbleXor[a][b]
<1>1. a \in Byte /\ b \in Byte
  BY DEF Byte
<1>2. a \div 16 = 0 /\ b \div 16 = 0 /\ a % 16 = a /\ b % 16 = b
  OBVIOUS
<1>3. NibbleXor[0][0] = 0
  BY DEF NibbleXor
<1>4. ByteXor[a][b] = 16 * NibbleXor[a \div 16][b \div 16] + NibbleXor[a % 16][b % 16]
  BY <1>1 DEF ByteXor
<1>5. NibbleXor[a][b] \in 0..15
  BY NibbleXorIs
<1> HIDE DEF NibbleXor
<1> QED
  BY <1>2, <1>3, <1>4, <1>5

LEMMA VectorIs ==
  ASSUME NEW n \in Nat, NEW f, DOMAIN f = 1..n, f = [i \in 1..n |-> f[i]]
  PROVE  Vector(f) = f
<1>1. f \in Seq({f[i] : i \in 1..n}) /\ Len(f) = n
  OBVIOUS
<1> QED
  BY <1>1, SubSeqFull DEF Vector

(* Words of nibbles. *)
LEMMA XorIs ==
  ASSUME NEW x \in Word32, NEW y \in Word32
  PROVE  Xor(x, y) \in Word32 /\ Xor(Xor(x, y), y) = x
<1>1. ASSUME NEW u \in Word32, NEW w \in Word32
      PROVE  Xor(u, w) = [i \in 1..8 |-> NibbleXor[u[i]][w[i]]]
  <2> DEFINE f == [i \in 1..8 |-> ByteXor[u[i]][w[i]]]
  <2>1. \A i \in 1..8 : u[i] \in 0..15 /\ w[i] \in 0..15
    BY DEF Word32
  <2>2. f = [i \in 1..8 |-> NibbleXor[u[i]][w[i]]]
    BY <2>1, ByteXorOfNibbles
  <2>3. Xor(u, w) = Vector(f)
    BY DEF Xor, Word32
  <2>4. Vector(f) = f
    <3>1. DOMAIN f = 1..8 /\ f = [i \in 1..8 |-> f[i]]
      OBVIOUS
    <3> HIDE DEF f
    <3> QED
      BY <3>1, VectorIs
  <2> QED
    BY <2>2, <2>3, <2>4
<1>2. \A i \in 1..8 : /\ NibbleXor[x[i]][y[i]] \in 0..15
                      /\ NibbleXor[NibbleXor[x[i]][y[i]]][y[i]] = x[i]
  BY NibbleXorIs DEF Word32
<1>3. Xor(x, y) \in Word32 /\ \A i \in 1..8 : Xor(x, y)[i] = NibbleXor[x[i]][y[i]]
  BY <1>1, <1>2, SMTT(60) DEF Word32
<1>4. Xor(Xor(x, y), y) = [i \in 1..8 |-> NibbleXor[NibbleXor[x[i]][y[i]]][y[i]]]
  BY <1>1, <1>3, SMTT(30)
<1> QED
  BY <1>2, <1>3, <1>4 DEF Word32

LEMMA RotRIs ==
  ASSUME NEW x \in Word32, NEW n \in Nat
  PROVE  RotR(x, n) \in Word32
<1> DEFINE f == [i \in 1..8 |-> x[((i - 1 + n) % 8) + 1]]
<1>1. RotR(x, n) = Vector(f)
  <2>1. Len(x) = 8 /\ DOMAIN x = 1..8
    BY DEF Word32
  <2> QED
    BY <2>1 DEF RotR
<1>2. ASSUME NEW i \in 1..8 PROVE x[((i - 1 + n) % 8) + 1] \in 0..15
  <2>1. ((i - 1 + n) % 8) + 1 \in 1..8
    OBVIOUS
  <2> QED
    BY <2>1 DEF Word32
<1>3. f \in Word32 /\ DOMAIN f = 1..8 /\ f = [i \in 1..8 |-> f[i]]
  BY <1>2 DEF Word32
<1> HIDE DEF f
<1> QED
  BY <1>1, <1>3, VectorIs

LEMMA ROL11Is ==
  ASSUME NEW x \in Word32
  PROVE  ROL11(x) \in Word32
<1> DEFINE y == RotR(x, 6)
           z == RotR(y, 7)
           f == [i \in 1..8 |-> ((8 * y[i]) % 16) + (z[i] \div 2)]
<1>1. y \in Word32 /\ z \in Word32
  BY RotRIs
<1>2. ROL11(x) = Vector(f)
  BY DEF ROL11
<1> HIDE DEF y, z
<1>3. ASSUME NEW i \in 1..8 PROVE ((8 * y[i]) % 16) + (z[i] \div 2) \in 0..15
  <2>1. y[i] \in 0..15 /\ z[i] \in 0..15
    BY <1>1 DEF Word32
  <2>2. (8 * y[i]) % 16 \in {0, 8} /\ z[i] \div 2 \in 0..7
    BY <2>1
  <2> QED
    BY <2>2
<1>4. f \in Word32 /\ DOMAIN f = 1..8 /\ f = [i \in 1..8 |-> f[i]]
  BY <1>3 DEF Word32
<1> HIDE DEF f
<1> QED
  BY <1>2, <1>4, VectorIs

LEMMA SboxIs == \A i \in 1..8 : \A a \in 1..16 : sbox[i][a] \in 0..15
<1>1. \A a \in 1..16 : sbox[1][a] \in 0..15  BY DEF sbox
<1>2. \A a \in 1..16 : sbox[2][a] \in 0..15  BY DEF sbox
<1>3. \A a \in 1..16 : sbox[3][a] \in 0..15  BY DEF sbox
<1>4. \A a \in 1..16 : sbox[4][a] \in 0..15  BY DEF sbox
<1>5. \A a \in 1..16 : sbox[5][a] \in 0..15  BY DEF sbox
<1>6. \A a \in 1..16 : sbox[6][a] \in 0..15  BY DEF sbox
<1>7. \A a \in 1..16 : sbox[7][a] \in 0..15  BY DEF sbox
<1>8. \A a \in 1..16 : sbox[8][a] \in 0..15  BY DEF sbox
<1> QED
  BY <1>1, <1>2, <1>3, <1>4, <1>5, <1>6, <1>7, <1>8

LEMMA tIs ==
  ASSUME NEW x \in Word32
  PROVE  t(x) \in Word32
<1> DEFINE f == [i \in 1..8 |-> sbox[i][x[i] + 1]]
<1>1. t(x) = Vector(f)
  BY DEF t
<1>2. ASSUME NEW i \in 1..8 PROVE sbox[i][x[i] + 1] \in 0..15
  <2>1. x[i] + 1 \in 1..16
    BY DEF Word32
  <2> QED
    BY <2>1, SboxIs
<1>3. f \in Word32 /\ DOMAIN f = 1..8 /\ f = [i \in 1..8 |-> f[i]]
  BY <1>2 DEF Word32
<1> HIDE DEF f
<1> QED
  BY <1>1, <1>3, VectorIs

(* The carries of a sum, from the lowest nibble up. *)
LEMMA Add32Is ==
  ASSUME NEW k \in Word32, NEW a \in Word32
  PROVE  Add32(k, a) \in Word32
<1> DEFINE Carries(sum) ==
             sum = [i \in 1..8 |-> k[i] + a[i] + (IF i = 1 THEN 0 ELSE sum[i - 1] \div 16)]
           sums == CHOOSE sum : Carries(sum)
           f == [i \in 1..8 |-> sums[i] % 16]
<1>1. Add32(k, a) = Vector(f)
  BY DEF Add32
<1>2. \A i \in 1..8 : k[i] + a[i] \in Int
  BY DEF Word32
<1>3. \E sum : Carries(sum)
  <2> DEFINE s1 == k[1] + a[1] + 0
             s2 == k[2] + a[2] + (s1 \div 16)
             s3 == k[3] + a[3] + (s2 \div 16)
             s4 == k[4] + a[4] + (s3 \div 16)
             s5 == k[5] + a[5] + (s4 \div 16)
             s6 == k[6] + a[6] + (s5 \div 16)
             s7 == k[7] + a[7] + (s6 \div 16)
             s8 == k[8] + a[8] + (s7 \div 16)
             s == <<s1, s2, s3, s4, s5, s6, s7, s8>>
  <2>1. \A i \in 1..8 : s[i] = k[i] + a[i] + (IF i = 1 THEN 0 ELSE s[i - 1] \div 16)
    OBVIOUS
  <2>2. DOMAIN s = 1..8 /\ s = [i \in 1..8 |-> s[i]]
    OBVIOUS
  <2> HIDE DEF s
  <2>3. Carries(s)
    BY <2>1, <2>2
  <2> QED
    BY <2>3
<1>4. Carries(sums)
  <2> HIDE DEF Carries
  <2> QED
    BY <1>3
<1> HIDE DEF sums
<1>5. \A i \in 1..8 : sums[i] = k[i] + a[i] + (IF i = 1 THEN 0 ELSE sums[i - 1] \div 16)
  BY <1>4
<1>6. sums[1] \in Int
  BY <1>2, <1>5
<1>7. \A i \in 1..7 : sums[i] \in Int => sums[i + 1] \in Int
  <2>1. TAKE i \in 1..7
  <2>2. sums[i + 1] = k[i + 1] + a[i + 1] + (sums[i] \div 16)
    BY <1>5
  <2> QED
    BY <1>2, <2>2
<1>8. \A i \in 1..8 : sums[i] \in Int
  BY <1>6, <1>7
<1>9. f \in Word32 /\ DOMAIN f = 1..8 /\ f = [i \in 1..8 |-> f[i]]
  BY <1>8 DEF Word32
<1> HIDE DEF f
<1> QED
  BY <1>1, <1>9, VectorIs

LEMMA gIs ==
  ASSUME NEW k \in Word32, NEW a \in Word32
  PROVE  g(k, a) \in Word32
BY Add32Is, tIs, ROL11Is DEF g
(* Two rounds of encryption, from a pair of words to the next. *)
Blocks == [1..2 -> Word32]
MagmaTurn(r, b) ==
  LET n2 == Xor(b[2], g(KeyOf(r), b[1]))
      n1 == Xor(b[1], g(KeyOf(r + 1), n2))
  IN  <<n1, n2>>
Crossed(b) == <<b[2], b[1]>>

(* The pairs that encryption went through, as many turns as it has made.   *)
MagmaTrail(h, turns) ==
  /\ h \in [0..16 -> Blocks] /\ h[0] = plain
  /\ \A j \in 0..15 : j < turns => h[j + 1] = MagmaTurn(2 * j, h[j])

(* Decryption stands before a turn with the pair that encryption had after *)
(* it, its words crossed.                                                  *)
MagmaRetraces ==
  cipher = "magma" /\ keys \in [1..8 -> Word32] /\ phase \in {"encrypt", "decrypt", "done"}
  /\ \E h, j : /\ j \in 0..16 /\ round = 2 * j
               /\ MagmaTrail(h, IF phase = "encrypt" THEN j ELSE 16)
               /\ phase = "encrypt" => state = h[j] /\ j < 16
               /\ phase = "decrypt" => state = Crossed(h[j]) /\ j > 0
               /\ phase = "done" => state = plain

LEMMA KeyOfIs ==
  ASSUME keys \in [1..8 -> Word32], NEW r \in 0..31
  PROVE  KeyOf(r) \in Word32
<1> DEFINE w == IF r < 24 THEN 8 - (r % 8) ELSE r - 23
<1>1. w \in 1..8
  OBVIOUS
<1> HIDE DEF w
<1>2. keys[w] \in Word32
  BY <1>1
<1> QED
  BY <1>2 DEF KeyOf, w

LEMMA MagmaTurnIs ==
  ASSUME keys \in [1..8 -> Word32], NEW r \in 0..30, NEW b \in Blocks
  PROVE  /\ MagmaTurn(r, b) \in Blocks
         /\ Xor(MagmaTurn(r, b)[1], g(KeyOf(r + 1), MagmaTurn(r, b)[2])) = b[1]
         /\ Xor(MagmaTurn(r, b)[2], g(KeyOf(r), b[1])) = b[2]
<1> DEFINE p == g(KeyOf(r), b[1])
           n2 == Xor(b[2], p)
           q == g(KeyOf(r + 1), n2)
           n1 == Xor(b[1], q)
<1>1. b[1] \in Word32 /\ b[2] \in Word32
  BY DEF Blocks
<1>2. r \in 0..31 /\ r + 1 \in 0..31
  OBVIOUS
<1>3. KeyOf(r) \in Word32 /\ KeyOf(r + 1) \in Word32
  BY <1>2, KeyOfIs
<1>4. p \in Word32
  BY <1>1, <1>3, gIs
<1>5. MagmaTurn(r, b) = <<n1, n2>>
  BY DEF MagmaTurn
<1> HIDE DEF p
<1>6. n2 \in Word32 /\ Xor(n2, p) = b[2]
  BY <1>1, <1>4, XorIs
<1> HIDE DEF n2
<1>7. q \in Word32
  BY <1>3, <1>6, gIs
<1> HIDE DEF q
<1>8. n1 \in Word32 /\ Xor(n1, q) = b[1]
  BY <1>1, <1>7, XorIs
<1> HIDE DEF n1
<1>9. MagmaTurn(r, b)[1] = n1 /\ MagmaTurn(r, b)[2] = n2
  BY <1>5
<1>10. <<n1, n2>> \in Blocks
  BY <1>6, <1>8 DEF Blocks
<1>11. Xor(MagmaTurn(r, b)[1], g(KeyOf(r + 1), MagmaTurn(r, b)[2])) = b[1]
  BY <1>8, <1>9 DEF q
<1>12. Xor(MagmaTurn(r, b)[2], g(KeyOf(r), b[1])) = b[2]
  BY <1>6, <1>9 DEF p
<1> QED
  BY <1>5, <1>10, <1>11, <1>12

LEMMA SamePair ==
  ASSUME NEW b \in Blocks
  PROVE  b = <<b[1], b[2]>>
BY DEF Blocks

LEMMA InitMagma == ASSUME MagmaInit PROVE MagmaRetraces
<1> DEFINE h == [j \in 0..16 |-> plain]
<1>1. /\ cipher = "magma" /\ phase = "encrypt" /\ round = 2 * 0 /\ state = plain
      /\ plain \in Blocks /\ keys \in [1..8 -> Word32]
  BY MagmaAssumption DEF MagmaInit, Blocks
<1>2. MagmaTrail(h, 0) /\ h[0] = plain
  BY <1>1 DEF MagmaTrail
<1> HIDE DEF h
<1>3. \E j : /\ j \in 0..16 /\ round = 2 * j
             /\ MagmaTrail(h, IF phase = "encrypt" THEN j ELSE 16)
             /\ phase = "encrypt" => state = h[j] /\ j < 16
             /\ phase = "decrypt" => state = Crossed(h[j]) /\ j > 0
             /\ phase = "done" => state = plain
  <2> WITNESS 0
  <2> QED
    BY <1>1, <1>2
<1> QED
  BY <1>1, <1>3 DEF MagmaRetraces

LEMMA MagmaEncryptKeeps == ASSUME MagmaRetraces, MagmaEncrypt PROVE MagmaRetraces'
<1>1. PICK h, j : /\ j \in 0..16 /\ round = 2 * j
                  /\ MagmaTrail(h, j) /\ state = h[j] /\ j < 16
  BY DEF MagmaRetraces, MagmaEncrypt
<1>2. /\ phase = "encrypt" /\ cipher' = "magma" /\ plain' = plain /\ keys' = keys
      /\ keys \in [1..8 -> Word32] /\ round' = 2 * (j + 1)
      /\ j + 1 \in 0..16 /\ 2 * j \in 0..30
  BY <1>1 DEF MagmaRetraces, MagmaEncrypt
<1>3. state \in Blocks
  BY <1>1 DEF MagmaTrail
<1> DEFINE n == MagmaTurn(2 * j, state)
<1>4. n \in Blocks
  BY <1>2, <1>3, MagmaTurnIs
<1>5. IF j = 15 THEN state' = Crossed(n) /\ phase' = "decrypt"
                ELSE state' = n /\ phase' = "encrypt"
  BY <1>1, <1>2 DEF MagmaEncrypt, MagmaTurn, Crossed
<1> HIDE DEF n
<1>6. PICK m : /\ m \in [0..16 -> Blocks] /\ m[j + 1] = n
               /\ \A i \in 0..16 : i # j + 1 => m[i] = h[i]
  <2> DEFINE w == [h EXCEPT ![j + 1] = n]
  <2>1. w \in [0..16 -> Blocks] /\ w[j + 1] = n /\ \A i \in 0..16 : i # j + 1 => w[i] = h[i]
    BY <1>1, <1>2, <1>4 DEF MagmaTrail
  <2> HIDE DEF w
  <2> QED
    BY <2>1
<1>7. ASSUME NEW i \in 0..15, i < j + 1 PROVE m[i + 1] = MagmaTurn(2 * i, m[i])
  <2>1. m[i] = h[i]
    BY <1>6, <1>7
  <2>2. CASE i = j
    BY <1>1, <1>6, <2>1, <2>2 DEF n
  <2>3. CASE i # j
    <3>1. i < j /\ i + 1 # j + 1 /\ i + 1 \in 0..16
      BY <1>1, <1>7, <2>3
    <3>2. h[i + 1] = MagmaTurn(2 * i, h[i])
      BY <1>1, <3>1 DEF MagmaTrail
    <3> QED
      BY <1>6, <2>1, <3>1, <3>2
  <2> QED
    BY <2>2, <2>3
<1>8. \A r, b : MagmaTurn(r, b)' = MagmaTurn(r, b)
  BY <1>2 DEF MagmaTurn, KeyOf
<1>9. m[0] = plain
  BY <1>1, <1>6 DEF MagmaTrail
<1>10. MagmaTrail(m, j + 1)'
  BY <1>2, <1>6, <1>7, <1>8, <1>9 DEF MagmaTrail
<1>11. j = 15 => MagmaTrail(m, 16)'
  BY <1>10
<1>12. \E i : /\ i \in 0..16 /\ round' = 2 * i
              /\ MagmaTrail(m, IF phase = "encrypt" THEN i ELSE 16)'
              /\ phase' = "encrypt" => state' = m[i] /\ i < 16
              /\ phase' = "decrypt" => state' = Crossed(m[i]) /\ i > 0
              /\ phase' = "done" => state' = plain'
  <2> WITNESS j + 1
  <2> QED
    BY <1>1, <1>2, <1>5, <1>6, <1>10, <1>11
<1> QED
  BY <1>2, <1>5, <1>12 DEF MagmaRetraces

LEMMA MagmaDecryptKeeps == ASSUME MagmaRetraces, MagmaDecrypt PROVE MagmaRetraces'
<1>1. PICK h, j : /\ j \in 0..16 /\ round = 2 * j
                  /\ MagmaTrail(h, 16) /\ state = Crossed(h[j]) /\ j > 0
  BY DEF MagmaRetraces, MagmaDecrypt
<1> DEFINE i == j - 1
<1>2. /\ cipher' = "magma" /\ plain' = plain /\ keys' = keys
      /\ keys \in [1..8 -> Word32] /\ round' = 2 * i
      /\ i \in 0..15 /\ i \in 0..16 /\ 2 * i \in 0..30 /\ i + 1 = j
  BY <1>1 DEF MagmaRetraces, MagmaDecrypt
<1>3. h[i] \in Blocks /\ h[j] = MagmaTurn(2 * i, h[i])
  BY <1>1, <1>2 DEF MagmaTrail
<1>4. /\ Xor(h[j][1], g(KeyOf(2 * i + 1), h[j][2])) = h[i][1]
      /\ Xor(h[j][2], g(KeyOf(2 * i), h[i][1])) = h[i][2]
  <2> HIDE DEF i
  <2> QED
    BY <1>2, <1>3, MagmaTurnIs
<1>5. round - 1 = 2 * i + 1 /\ round - 2 = 2 * i
  BY <1>1
<1>6. state[1] = h[j][2] /\ state[2] = h[j][1]
  BY <1>1 DEF Crossed
<1>7. IF j = 1 THEN state' = <<h[i][1], h[i][2]>> /\ phase' = "done"
               ELSE state' = <<h[i][2], h[i][1]>> /\ phase' = "decrypt"
  <2> DEFINE a1 == Xor(state[2], g(KeyOf(round - 1), state[1]))
             a0 == Xor(state[1], g(KeyOf(round - 2), a1))
  <2>1. a1 = h[i][1]
    BY <1>4, <1>5, <1>6
  <2>2. a0 = h[i][2]
    BY <1>4, <1>5, <1>6, <2>1
  <2>3. IF round = 2 THEN state' = <<a1, a0>> /\ phase' = "done"
                     ELSE state' = <<a0, a1>> /\ phase' = phase
    BY DEF MagmaDecrypt
  <2>4. phase = "decrypt" /\ (round = 2 <=> j = 1)
    BY <1>1 DEF MagmaDecrypt
  <2> HIDE DEF a0, a1, i
  <2> QED
    BY <2>1, <2>2, <2>3, <2>4
<1>8. h[0] = plain /\ (j = 1 => i = 0)
  BY <1>1 DEF MagmaTrail
<1> HIDE DEF i
<1>9. h[i] = <<h[i][1], h[i][2]>>
  BY <1>3, SamePair
<1>10. MagmaTrail(h, 16)'
  <2>1. \A r, b : MagmaTurn(r, b)' = MagmaTurn(r, b)
    BY <1>2 DEF MagmaTurn, KeyOf
  <2> QED
    BY <1>1, <1>2, <2>1 DEF MagmaTrail
<1>11. \E k : /\ k \in 0..16 /\ round' = 2 * k
              /\ MagmaTrail(h, IF phase = "encrypt" THEN k ELSE 16)'
              /\ phase' = "encrypt" => state' = h[k] /\ k < 16
              /\ phase' = "decrypt" => state' = Crossed(h[k]) /\ k > 0
              /\ phase' = "done" => state' = plain'
  <2>1. phase' # "encrypt"
    BY <1>7
  <2>2. phase' = "decrypt" => state' = Crossed(h[i]) /\ i > 0
    BY <1>1, <1>2, <1>7 DEF Crossed
  <2>3. phase' = "done" => state' = plain'
    BY <1>2, <1>7, <1>8, <1>9
  <2> WITNESS i
  <2> QED
    BY <1>2, <1>10, <2>1, <2>2, <2>3
<1>12. phase' \in {"decrypt", "done"}
  BY <1>7
<1> QED
  BY <1>2, <1>11, <1>12 DEF MagmaRetraces

(* Decryption by magma_decrypt gives back the block magma_encrypt was      *)
(* given, for every key and every block.                                   *)
THEOREM MagmaRestores == MagmaSpec => []InverseRestores
<1>1. MagmaInit => MagmaRetraces
  BY InitMagma
<1>2. MagmaRetraces /\ [MagmaNext]_cipherVars => MagmaRetraces'
  <2> SUFFICES ASSUME MagmaRetraces, [MagmaNext]_cipherVars PROVE MagmaRetraces'
    OBVIOUS
  <2>1. CASE MagmaEncrypt
    BY <2>1, MagmaEncryptKeeps
  <2>2. CASE MagmaDecrypt
    BY <2>2, MagmaDecryptKeeps
  <2>3. CASE UNCHANGED cipherVars
    BY <2>3 DEF cipherVars, MagmaRetraces, MagmaTrail, MagmaTurn, KeyOf
  <2> QED
    BY <2>1, <2>2, <2>3 DEF MagmaNext
<1>3. MagmaRetraces => InverseRestores
  BY DEF MagmaRetraces, InverseRestores
<1> QED
  BY <1>1, <1>2, <1>3, PTL DEF MagmaSpec

-----------------------------------------------------------------------------
(***************************************************************************)
(* AES: InvSubBytes_ShiftRows undoes SubBytes_ShiftRows by the tables,     *)
(* AddRoundKey undoes itself, and gmul_ivec4 undoes gmul_vec4 and passes   *)
(* through sums, so that the keys InvKeyExpansion changed serve.  What     *)
(* bytes do is proved of their bits, which add modulo 2.                   *)
(***************************************************************************)

LEMMA NibbleOfBits ==
  ASSUME NEW p \in 0..1, NEW q \in 0..1, NEW r \in 0..1, NEW s \in 0..1,
         NEW n, n = p + 2 * q + 4 * r + 8 * s
  PROVE  /\ n \in 0..15 /\ n % 2 = p /\ (n \div 2) % 2 = q
         /\ (n \div 4) % 2 = r /\ (n \div 8) % 2 = s
OBVIOUS

(* The bits of x are the sums of those of a and b. *)
NibbleSum(x, a, b) ==
  /\ x \in 0..15
  /\ x % 2 = ((a % 2) + (b % 2)) % 2
  /\ (x \div 2) % 2 = (((a \div 2) % 2) + ((b \div 2) % 2)) % 2
  /\ (x \div 4) % 2 = (((a \div 4) % 2) + ((b \div 4) % 2)) % 2
  /\ (x \div 8) % 2 = (((a \div 8) % 2) + ((b \div 8) % 2)) % 2

LEMMA NibbleBits ==
  ASSUME NEW a \in 0..15, NEW b \in 0..15
  PROVE  NibbleSum(NibbleXor[a][b], a, b)
<1> DEFINE x == NibbleXor[a][b]
           p == ((a % 2) + (b % 2)) % 2
           q == (((a \div 2) % 2) + ((b \div 2) % 2)) % 2
           r == (((a \div 4) % 2) + ((b \div 4) % 2)) % 2
           s == (((a \div 8) % 2) + ((b \div 8) % 2)) % 2
<1>1. x = (IF a % 2 = b % 2 THEN 0 ELSE 1)
          + (IF (a \div 2) % 2 = (b \div 2) % 2 THEN 0 ELSE 2)
          + (IF (a \div 4) % 2 = (b \div 4) % 2 THEN 0 ELSE 4)
          + (IF (a \div 8) % 2 = (b \div 8) % 2 THEN 0 ELSE 8)
  <2>1. 2^0 = 1 /\ 2^1 = 2 /\ 2^2 = 4 /\ 2^3 = 8
    OBVIOUS
  <2> QED
    BY <2>1 DEF NibbleXor, Bit
<1>2. /\ p \in 0..1 /\ (IF a % 2 = b % 2 THEN 0 ELSE 1) = p
      /\ q \in 0..1 /\ (IF (a \div 2) % 2 = (b \div 2) % 2 THEN 0 ELSE 2) = 2 * q
      /\ r \in 0..1 /\ (IF (a \div 4) % 2 = (b \div 4) % 2 THEN 0 ELSE 4) = 4 * r
      /\ s \in 0..1 /\ (IF (a \div 8) % 2 = (b \div 8) % 2 THEN 0 ELSE 8) = 8 * s
  OBVIOUS
<1>3. x = p + 2 * q + 4 * r + 8 * s
  BY <1>1, <1>2
<1> HIDE DEF p, q, r, s, x
<1>4. /\ x \in 0..15 /\ x % 2 = p /\ (x \div 2) % 2 = q
      /\ (x \div 4) % 2 = r /\ (x \div 8) % 2 = s
  BY <1>2, <1>3, NibbleOfBits, SMTT(30)
<1> QED
  BY <1>4 DEF p, q, r, s, x, NibbleSum

(* The bits of a byte. *)
EightBits(n) ==
  <<n % 2, (n \div 2) % 2, (n \div 4) % 2, (n \div 8) % 2,
    (n \div 16) % 2, (n \div 32) % 2, (n \div 64) % 2, (n \div 128) % 2>>

LEMMA EightBitsAre ==
  /\ \A n \in Byte : \A j \in 1..8 : EightBits(n)[j] \in 0..1
  /\ \A m, n \in Byte : (\A j \in 1..8 : EightBits(m)[j] = EightBits(n)[j]) => m = n
<1>1. ASSUME NEW n \in Byte
      PROVE  /\ n = EightBits(n)[1] + 2 * EightBits(n)[2] + 4 * EightBits(n)[3]
                    + 8 * EightBits(n)[4] + 16 * EightBits(n)[5] + 32 * EightBits(n)[6]
                    + 64 * EightBits(n)[7] + 128 * EightBits(n)[8]
             /\ \A j \in 1..8 : EightBits(n)[j] \in 0..1
  BY DEF EightBits, Byte
<1> QED
  BY <1>1

HalfBits(h, l) ==
  <<l % 2, (l \div 2) % 2, (l \div 4) % 2, (l \div 8) % 2,
    h % 2, (h \div 2) % 2, (h \div 4) % 2, (h \div 8) % 2>>

LEMMA HalvesOfByte ==
  ASSUME NEW h \in 0..15, NEW l \in 0..15, NEW n, n = 16 * h + l
  PROVE  EightBits(n) = HalfBits(h, l)
<1>1. /\ n % 2 = l % 2 /\ (n \div 2) % 2 = (l \div 2) % 2
      /\ (n \div 4) % 2 = (l \div 4) % 2 /\ (n \div 8) % 2 = (l \div 8) % 2
  OBVIOUS
<1>2. n \div 16 = h /\ n \div 32 = h \div 2 /\ n \div 64 = h \div 4 /\ n \div 128 = h \div 8
  OBVIOUS
<1> QED
  BY <1>1, <1>2 DEF EightBits, HalfBits

LEMMA ByteXorIs ==
  ASSUME NEW a \in Byte, NEW b \in Byte
  PROVE  /\ ByteXor[a][b] \in Byte
         /\ \A j \in 1..8 : EightBits(ByteXor[a][b])[j] =
                              (EightBits(a)[j] + EightBits(b)[j]) % 2
<1> DEFINE high == NibbleXor[a \div 16][b \div 16]
           low == NibbleXor[a % 16][b % 16]
           x == ByteXor[a][b]
<1>1. /\ a \div 16 \in 0..15 /\ b \div 16 \in 0..15 /\ a % 16 \in 0..15 /\ b % 16 \in 0..15
      /\ a \in Nat /\ b \in Nat
  BY DEF Byte
<1>2. x = 16 * high + low
  BY DEF ByteXor
<1>3. NibbleSum(high, a \div 16, b \div 16) /\ NibbleSum(low, a % 16, b % 16)
  BY <1>1, NibbleBits
<1> HIDE DEF high, low, x
<1>5. x \in Byte
  BY <1>2, <1>3 DEF Byte, NibbleSum
<1>6. EightBits(x) = HalfBits(high, low)
  BY <1>2, <1>3, HalvesOfByte DEF NibbleSum
<1>7. EightBits(a) = HalfBits(a \div 16, a % 16) /\ EightBits(b) = HalfBits(b \div 16, b % 16)
  <2>1. a = 16 * (a \div 16) + (a % 16) /\ b = 16 * (b \div 16) + (b % 16)
    BY <1>1
  <2> QED
    BY <1>1, <2>1, HalvesOfByte
<1>9. \A j \in 1..8 : EightBits(x)[j] = (EightBits(a)[j] + EightBits(b)[j]) % 2
  BY <1>3, <1>6, <1>7 DEF HalfBits, NibbleSum
<1> QED
  BY <1>5, <1>9 DEF x

(* The bits of twice a byte in the field. *)
LEMMA TwiceIs ==
  ASSUME NEW p \in Byte, NEW e, e = EightBits(p)
  PROVE  /\ Twice(p, \h11B) \in Byte
         /\ EightBits(Twice(p, \h11B)) =
              <<e[8], (e[1] + e[8]) % 2, e[2], (e[3] + e[8]) % 2, (e[4] + e[8]) % 2,
                e[5], e[6], e[7]>>
<1>1. /\ e[1] \in 0..1 /\ e[2] \in 0..1 /\ e[3] \in 0..1 /\ e[4] \in 0..1
      /\ e[5] \in 0..1 /\ e[6] \in 0..1 /\ e[7] \in 0..1 /\ e[8] \in 0..1
  BY EightBitsAre
<1>2. e = <<p % 2, (p \div 2) % 2, (p \div 4) % 2, (p \div 8) % 2,
            (p \div 16) % 2, (p \div 32) % 2, (p \div 64) % 2, (p \div 128) % 2>>
  BY DEF EightBits
<1>3. CASE p < 128
  <2>1. Twice(p, \h11B) = 2 * p
    BY <1>3 DEF Twice
  <2>2. 2 * p \in Byte /\ e[8] = 0
    BY <1>2, <1>3 DEF Byte
  <2>3. EightBits(2 * p) = <<0, e[1], e[2], e[3], e[4], e[5], e[6], e[7]>>
    BY <1>2, <1>3 DEF EightBits, Byte
  <2> QED
    BY <1>1, <2>1, <2>2, <2>3
<1>4. CASE p >= 128
  <2> DEFINE n == 2 * p - 256
  <2>1. n \in Byte /\ e[8] = 1
    BY <1>2, <1>4 DEF Byte
  <2>2. EightBits(n) = <<0, e[1], e[2], e[3], e[4], e[5], e[6], e[7]>>
    BY <1>2, <1>4, SMTT(30) DEF EightBits, Byte
  <2>3. 27 \in Byte /\ EightBits(27) = <<1, 1, 0, 1, 1, 0, 0, 0>>
    BY DEF EightBits, Byte
  <2>4. Twice(p, \h11B) = ByteXor[n][27]
    BY <1>4 DEF Twice, Byte
  <2> HIDE DEF n
  <2>5. /\ ByteXor[n][27] \in Byte
        /\ \A j \in 1..8 : EightBits(ByteXor[n][27])[j] =
                               (EightBits(n)[j] + EightBits(27)[j]) % 2
    BY <2>1, <2>3, ByteXorIs
  <2> DEFINE x == ByteXor[n][27]
  <2> HIDE DEF x
  <2>6. EightBits(x) = <<EightBits(x)[1], EightBits(x)[2], EightBits(x)[3], EightBits(x)[4],
                         EightBits(x)[5], EightBits(x)[6], EightBits(x)[7], EightBits(x)[8]>>
    BY DEF EightBits
  <2> QED
    BY <1>1, <2>1, <2>2, <2>3, <2>4, <2>5, <2>6 DEF x
<1> QED
  BY <1>3, <1>4 DEF Byte
(* The sum of bytes and twice a byte, under short names. *)
Sum2(a, b) == ByteXor[a][b]
Double(a) == Twice(a, \h11B)

LEMMA Sum2Is ==
  ASSUME NEW a \in Byte, NEW b \in Byte
  PROVE  /\ Sum2(a, b) \in Byte
         /\ \A j \in 1..8 : EightBits(Sum2(a, b))[j] =
                              (EightBits(a)[j] + EightBits(b)[j]) % 2
BY ByteXorIs DEF Sum2

LEMMA DoubleType == \A a \in Byte : Double(a) \in Byte
BY TwiceIs DEF Double

(* Doubling is linear. *)
LEMMA DoubleOfSum ==
  ASSUME NEW a \in Byte, NEW b \in Byte
  PROVE  Double(Sum2(a, b)) = Sum2(Double(a), Double(b))
<1> DEFINE x == Sum2(a, b)
           e == EightBits(a)
           f == EightBits(b)
           y == EightBits(x)
           l == EightBits(Double(x))
           r == EightBits(Sum2(Double(a), Double(b)))
           d == EightBits(Double(a))
           c == EightBits(Double(b))
<1>1. x \in Byte /\ \A j \in 1..8 : y[j] = (e[j] + f[j]) % 2
  BY Sum2Is
<1>2. Double(x) \in Byte /\ Double(a) \in Byte /\ Double(b) \in Byte
  BY <1>1, DoubleType
<1>3. Sum2(Double(a), Double(b)) \in Byte /\ \A j \in 1..8 : r[j] = (d[j] + c[j]) % 2
  BY <1>2, Sum2Is
<1>4. d = <<e[8], (e[1] + e[8]) % 2, e[2], (e[3] + e[8]) % 2, (e[4] + e[8]) % 2,
            e[5], e[6], e[7]>>
  BY TwiceIs DEF Double
<1>5. c = <<f[8], (f[1] + f[8]) % 2, f[2], (f[3] + f[8]) % 2, (f[4] + f[8]) % 2,
            f[5], f[6], f[7]>>
  BY TwiceIs DEF Double
<1>6. l = <<y[8], (y[1] + y[8]) % 2, y[2], (y[3] + y[8]) % 2, (y[4] + y[8]) % 2,
            y[5], y[6], y[7]>>
  <2> HIDE DEF x
  <2> QED
    BY <1>1, TwiceIs DEF Double
<1>7. \A j \in 1..8 : e[j] \in 0..1 /\ f[j] \in 0..1
  BY EightBitsAre
<1> HIDE DEF x, e, f, y, l, r, d, c
<1>8. \A j \in 1..8 : l[j] = r[j]
  BY <1>1, <1>3, <1>4, <1>5, <1>6, <1>7
<1> QED
  BY <1>2, <1>3, <1>8, EightBitsAre DEF l, r, x

(* A byte of a column after gmul_vec4 and after gmul_ivec4, from the bytes *)
(* of the column beginning with the one in its place.                      *)
Mixed(a, b, c, d) ==
  Sum2(Sum2(Double(a), c), Sum2(Sum2(Double(b), d), b))
Unmixed(a, b, c, d) ==
  LET D2(x) == Double(Double(x))
      D3(x) == Double(Double(Double(x)))
  IN  Sum2(Sum2(Sum2(Sum2(Sum2(D3(a), D2(a)), Double(a)),
                     Sum2(Sum2(D3(b), Double(b)), b)),
                Sum2(Sum2(D3(c), D2(c)), c)),
           Sum2(D3(d), d))

LEMMA MixedIs ==
  ASSUME NEW a \in Byte, NEW b \in Byte, NEW c \in Byte, NEW d \in Byte
  PROVE  /\ Mixed(a, b, c, d) \in Byte
         /\ Double(Mixed(a, b, c, d)) = Mixed(Double(a), Double(b), Double(c), Double(d))
<1>1. /\ Double(a) \in Byte /\ Double(b) \in Byte /\ Double(c) \in Byte /\ Double(d) \in Byte
      /\ Double(Double(a)) \in Byte /\ Double(Double(b)) \in Byte
  BY DoubleType
<1> DEFINE p == Sum2(Double(a), c)
           q == Sum2(Double(b), d)
           r == Sum2(q, b)
<1>2. p \in Byte /\ Double(p) = Sum2(Double(Double(a)), Double(c))
  BY <1>1, Sum2Is, DoubleOfSum
<1>3. q \in Byte /\ Double(q) = Sum2(Double(Double(b)), Double(d))
  BY <1>1, Sum2Is, DoubleOfSum
<1> HIDE DEF p, q
<1>4. r \in Byte /\ Double(r) = Sum2(Double(q), Double(b))
  BY <1>1, <1>3, Sum2Is, DoubleOfSum
<1> HIDE DEF r
<1>5. Sum2(p, r) \in Byte /\ Double(Sum2(p, r)) = Sum2(Double(p), Double(r))
  BY <1>2, <1>4, Sum2Is, DoubleOfSum
<1> QED
  BY <1>2, <1>3, <1>4, <1>5 DEF Mixed, p, q, r

(* Sums of bits. *)
MixedBit(m, a, b, c, d, j) ==
  EightBits(m)[j] = (EightBits(Double(a))[j] + EightBits(c)[j] + EightBits(Double(b))[j]
                      + EightBits(d)[j] + EightBits(b)[j]) % 2
UnmixedBit(m, a, b, c, d, j) ==
  EightBits(m)[j] = (EightBits(Double(a))[j] + EightBits(Double(Double(a)))[j]
                     + EightBits(Double(Double(Double(a))))[j]
                     + EightBits(b)[j] + EightBits(Double(b))[j]
                     + EightBits(Double(Double(Double(b))))[j]
                     + EightBits(c)[j] + EightBits(Double(Double(c)))[j]
                     + EightBits(Double(Double(Double(c))))[j]
                     + EightBits(d)[j] + EightBits(Double(Double(Double(d))))[j]) % 2

LEMMA BitOfMixed ==
  ASSUME NEW a \in Byte, NEW b \in Byte, NEW c \in Byte, NEW d \in Byte, NEW j \in 1..8
  PROVE  MixedBit(Mixed(a, b, c, d), a, b, c, d, j)
<1> DEFINE p == Sum2(Double(a), c)
           q == Sum2(Double(b), d)
           r == Sum2(q, b)
           Bit1(x) == EightBits(x)[j]
<1>1. Double(a) \in Byte /\ Double(b) \in Byte
  BY DoubleType
<1>2. p \in Byte /\ Bit1(p) = (Bit1(Double(a)) + Bit1(c)) % 2
  BY <1>1, Sum2Is
<1>3. q \in Byte /\ Bit1(q) = (Bit1(Double(b)) + Bit1(d)) % 2
  BY <1>1, Sum2Is
<1> HIDE DEF p, q
<1>4. r \in Byte /\ Bit1(r) = (Bit1(q) + Bit1(b)) % 2
  BY <1>3, Sum2Is
<1> HIDE DEF r
<1>5. Bit1(Sum2(p, r)) = (Bit1(p) + Bit1(r)) % 2
  BY <1>2, <1>4, Sum2Is
<1>6. /\ Bit1(Double(a)) \in 0..1 /\ Bit1(c) \in 0..1 /\ Bit1(Double(b)) \in 0..1
      /\ Bit1(d) \in 0..1 /\ Bit1(b) \in 0..1
  BY <1>1, EightBitsAre
<1> HIDE DEF Bit1
<1>7. Bit1(Sum2(p, r)) =
        (Bit1(Double(a)) + Bit1(c) + Bit1(Double(b)) + Bit1(d) + Bit1(b)) % 2
  BY <1>2, <1>3, <1>4, <1>5, <1>6
<1> QED
  BY <1>7 DEF Mixed, MixedBit, p, q, r, Bit1

LEMMA ParityOfSum ==
  ASSUME NEW a \in Int, NEW b \in Int, NEW c \in Int, NEW d \in Int
  PROVE  ((((a % 2) + (b % 2) + (c % 2)) % 2) + (d % 2)) % 2 = (a + b + c + d) % 2
OBVIOUS

LEMMA UnmixedIs ==
  ASSUME NEW a \in Byte, NEW b \in Byte, NEW c \in Byte, NEW d \in Byte
  PROVE  /\ Unmixed(a, b, c, d) \in Byte
         /\ \A j \in 1..8 : UnmixedBit(Unmixed(a, b, c, d), a, b, c, d, j)
<1> DEFINE a1 == Double(a)
           a2 == Double(a1)
           a3 == Double(a2)
           b1 == Double(b)
           b3 == Double(Double(b1))
           c2 == Double(Double(c))
           c3 == Double(c2)
           d3 == Double(Double(Double(d)))
           p == Sum2(Sum2(a3, a2), a1)
           q == Sum2(Sum2(b3, b1), b)
           r == Sum2(Sum2(c3, c2), c)
           s == Sum2(d3, d)
<1>1. /\ a1 \in Byte /\ a2 \in Byte /\ a3 \in Byte /\ b1 \in Byte /\ b3 \in Byte
      /\ c2 \in Byte /\ c3 \in Byte /\ d3 \in Byte
  BY DoubleType
<1>2. Unmixed(a, b, c, d) = Sum2(Sum2(Sum2(p, q), r), s)
  BY DEF Unmixed
<1> HIDE DEF a1, a2, a3, b1, b3, c2, c3, d3
<1>3. ASSUME NEW x \in Byte, NEW y \in Byte, NEW z \in Byte
      PROVE  /\ Sum2(Sum2(x, y), z) \in Byte
             /\ \A j \in 1..8 : EightBits(Sum2(Sum2(x, y), z))[j] =
                   (EightBits(x)[j] + EightBits(y)[j] + EightBits(z)[j]) % 2
  <2>1. Sum2(x, y) \in Byte /\ Sum2(Sum2(x, y), z) \in Byte
    BY Sum2Is
  <2>2. ASSUME NEW j \in 1..8
        PROVE  EightBits(Sum2(Sum2(x, y), z))[j] =
                 (EightBits(x)[j] + EightBits(y)[j] + EightBits(z)[j]) % 2
    <3>1. EightBits(Sum2(x, y))[j] = (EightBits(x)[j] + EightBits(y)[j]) % 2
      BY Sum2Is
    <3>2. EightBits(Sum2(Sum2(x, y), z))[j] =
            (EightBits(Sum2(x, y))[j] + EightBits(z)[j]) % 2
      BY <2>1, Sum2Is
    <3>3. EightBits(x)[j] \in 0..1 /\ EightBits(y)[j] \in 0..1 /\ EightBits(z)[j] \in 0..1
      BY EightBitsAre
    <3> QED
      BY <3>1, <3>2, <3>3
  <2> QED
    BY <2>1, <2>2
<1>4. /\ p \in Byte
      /\ \A j \in 1..8 : EightBits(p)[j] =
           (EightBits(a3)[j] + EightBits(a2)[j] + EightBits(a1)[j]) % 2
  BY <1>1, <1>3
<1>5. /\ q \in Byte
      /\ \A j \in 1..8 : EightBits(q)[j] =
           (EightBits(b3)[j] + EightBits(b1)[j] + EightBits(b)[j]) % 2
  BY <1>1, <1>3
<1>6. /\ r \in Byte
      /\ \A j \in 1..8 : EightBits(r)[j] =
           (EightBits(c3)[j] + EightBits(c2)[j] + EightBits(c)[j]) % 2
  BY <1>1, <1>3
<1>7. s \in Byte /\ \A j \in 1..8 : EightBits(s)[j] = (EightBits(d3)[j] + EightBits(d)[j]) % 2
  BY <1>1, Sum2Is
<1> HIDE DEF p, q, r, s
<1> DEFINE u == Sum2(Sum2(p, q), r)
<1>8. /\ u \in Byte
      /\ \A j \in 1..8 : EightBits(u)[j] =
           (EightBits(p)[j] + EightBits(q)[j] + EightBits(r)[j]) % 2
  BY <1>3, <1>4, <1>5, <1>6
<1> HIDE DEF u
<1>9. Sum2(u, s) \in Byte /\ \A j \in 1..8 :
        EightBits(Sum2(u, s))[j] = (EightBits(u)[j] + EightBits(s)[j]) % 2
  BY <1>7, <1>8, Sum2Is
<1>10. ASSUME NEW j \in 1..8
       PROVE  EightBits(Sum2(u, s))[j] =
         (EightBits(a1)[j] + EightBits(a2)[j] + EightBits(a3)[j]
          + EightBits(b)[j] + EightBits(b1)[j] + EightBits(b3)[j]
          + EightBits(c)[j] + EightBits(c2)[j] + EightBits(c3)[j]
          + EightBits(d)[j] + EightBits(d3)[j]) % 2
  <2>1. /\ EightBits(a1)[j] \in Int /\ EightBits(a2)[j] \in Int /\ EightBits(a3)[j] \in Int
        /\ EightBits(b)[j] \in Int /\ EightBits(b1)[j] \in Int /\ EightBits(b3)[j] \in Int
        /\ EightBits(c)[j] \in Int /\ EightBits(c2)[j] \in Int /\ EightBits(c3)[j] \in Int
        /\ EightBits(d)[j] \in Int /\ EightBits(d3)[j] \in Int
    BY <1>1, EightBitsAre
  <2> DEFINE A == EightBits(a3)[j] + EightBits(a2)[j] + EightBits(a1)[j]
             B == EightBits(b3)[j] + EightBits(b1)[j] + EightBits(b)[j]
             C == EightBits(c3)[j] + EightBits(c2)[j] + EightBits(c)[j]
             D == EightBits(d3)[j] + EightBits(d)[j]
  <2>2. EightBits(Sum2(u, s))[j] =
          ((((A % 2) + (B % 2) + (C % 2)) % 2) + (D % 2)) % 2
    BY <1>4, <1>5, <1>6, <1>7, <1>8, <1>9
  <2>3. A \in Int /\ B \in Int /\ C \in Int /\ D \in Int
    BY <2>1
  <2>4. EightBits(Sum2(u, s))[j] = (A + B + C + D) % 2
    <3> HIDE DEF A, B, C, D
    <3> QED
      BY <2>2, <2>3, ParityOfSum
  <2> QED
    BY <2>1, <2>4
<1> QED
  BY <1>2, <1>9, <1>10 DEF UnmixedBit, a1, a2, a3, b1, b3, c2, c3, d3, u

(* gmul_ivec4 undoes gmul_vec4: the products of the two columns of         *)
(* coefficients add up to 1 in place and to nothing elsewhere.             *)
LEMMA UnmixedOfMixed ==
  ASSUME NEW a \in Byte, NEW b \in Byte, NEW c \in Byte, NEW d \in Byte
  PROVE  Unmixed(Mixed(a, b, c, d), Mixed(b, c, d, a),
                 Mixed(c, d, a, b), Mixed(d, a, b, c)) = a
<1> DEFINE D1(x) == Double(x)
           D2(x) == Double(D1(x))
           D3(x) == Double(D2(x))
           D4(x) == Double(D3(x))
           p == Mixed(a, b, c, d)
           q == Mixed(b, c, d, a)
           r == Mixed(c, d, a, b)
           s == Mixed(d, a, b, c)
           v == Unmixed(p, q, r, s)
<1>1. ASSUME NEW x \in Byte
      PROVE  D1(x) \in Byte /\ D2(x) \in Byte /\ D3(x) \in Byte /\ D4(x) \in Byte
  BY DoubleType
<1>2. ASSUME NEW w \in Byte, NEW x \in Byte, NEW y \in Byte, NEW z \in Byte
      PROVE  /\ Mixed(w, x, y, z) \in Byte
             /\ D1(Mixed(w, x, y, z)) = Mixed(D1(w), D1(x), D1(y), D1(z))
             /\ D2(Mixed(w, x, y, z)) = Mixed(D2(w), D2(x), D2(y), D2(z))
             /\ D3(Mixed(w, x, y, z)) = Mixed(D3(w), D3(x), D3(y), D3(z))
  BY DoubleType, MixedIs
<1>3. ASSUME NEW w \in Byte, NEW x \in Byte, NEW y \in Byte, NEW z \in Byte, NEW j \in 1..8
      PROVE  /\ MixedBit(Mixed(w, x, y, z), w, x, y, z, j)
             /\ MixedBit(D1(Mixed(w, x, y, z)), D1(w), D1(x), D1(y), D1(z), j)
             /\ MixedBit(D2(Mixed(w, x, y, z)), D2(w), D2(x), D2(y), D2(z), j)
             /\ MixedBit(D3(Mixed(w, x, y, z)), D3(w), D3(x), D3(y), D3(z), j)
  <2>1. /\ D1(w) \in Byte /\ D1(x) \in Byte /\ D1(y) \in Byte /\ D1(z) \in Byte
        /\ D2(w) \in Byte /\ D2(x) \in Byte /\ D2(y) \in Byte /\ D2(z) \in Byte
        /\ D3(w) \in Byte /\ D3(x) \in Byte /\ D3(y) \in Byte /\ D3(z) \in Byte
    BY <1>1
  <2> HIDE DEF D1, D2, D3, D4
  <2>2. MixedBit(Mixed(w, x, y, z), w, x, y, z, j)
    BY BitOfMixed
  <2>3. MixedBit(Mixed(D1(w), D1(x), D1(y), D1(z)), D1(w), D1(x), D1(y), D1(z), j)
    BY <2>1, BitOfMixed
  <2>4. MixedBit(Mixed(D2(w), D2(x), D2(y), D2(z)), D2(w), D2(x), D2(y), D2(z), j)
    BY <2>1, BitOfMixed
  <2>5. MixedBit(Mixed(D3(w), D3(x), D3(y), D3(z)), D3(w), D3(x), D3(y), D3(z), j)
    BY <2>1, BitOfMixed
  <2> QED
    BY <1>2, <2>2, <2>3, <2>4, <2>5
<1>4. p \in Byte /\ q \in Byte /\ r \in Byte /\ s \in Byte
  BY <1>2
<1>5. v \in Byte /\ \A j \in 1..8 : UnmixedBit(v, p, q, r, s, j)
  <2> HIDE DEF p, q, r, s
  <2> QED
    BY <1>4, UnmixedIs
<1>6. ASSUME NEW j \in 1..8 PROVE EightBits(v)[j] = EightBits(a)[j]
  <2>1. ASSUME NEW x \in Byte
        PROVE  /\ EightBits(x)[j] \in 0..1 /\ EightBits(D1(x))[j] \in 0..1
               /\ EightBits(D2(x))[j] \in 0..1 /\ EightBits(D3(x))[j] \in 0..1
               /\ EightBits(D4(x))[j] \in 0..1
    BY <1>1, EightBitsAre
  <2>2. /\ MixedBit(D1(p), D1(a), D1(b), D1(c), D1(d), j)
        /\ MixedBit(D2(p), D2(a), D2(b), D2(c), D2(d), j)
        /\ MixedBit(D3(p), D3(a), D3(b), D3(c), D3(d), j)
    BY <1>3
  <2>3. /\ MixedBit(q, b, c, d, a, j)
        /\ MixedBit(D1(q), D1(b), D1(c), D1(d), D1(a), j)
        /\ MixedBit(D3(q), D3(b), D3(c), D3(d), D3(a), j)
    BY <1>3
  <2>4. /\ MixedBit(r, c, d, a, b, j)
        /\ MixedBit(D2(r), D2(c), D2(d), D2(a), D2(b), j)
        /\ MixedBit(D3(r), D3(c), D3(d), D3(a), D3(b), j)
    BY <1>3
  <2>5. /\ MixedBit(s, d, a, b, c, j)
        /\ MixedBit(D3(s), D3(d), D3(a), D3(b), D3(c), j)
    BY <1>3
  <2> HIDE DEF p, q, r, s, v
  <2> DEFINE a0 == EightBits(a)[j]
             a1 == EightBits(D1(a))[j]
             a2 == EightBits(D2(a))[j]
             a3 == EightBits(D3(a))[j]
             a4 == EightBits(D4(a))[j]
             b0 == EightBits(b)[j]
             b1 == EightBits(D1(b))[j]
             b2 == EightBits(D2(b))[j]
             b3 == EightBits(D3(b))[j]
             b4 == EightBits(D4(b))[j]
             c0 == EightBits(c)[j]
             c1 == EightBits(D1(c))[j]
             c2 == EightBits(D2(c))[j]
             c3 == EightBits(D3(c))[j]
             c4 == EightBits(D4(c))[j]
             d0 == EightBits(d)[j]
             d1 == EightBits(D1(d))[j]
             d2 == EightBits(D2(d))[j]
             d3 == EightBits(D3(d))[j]
             d4 == EightBits(D4(d))[j]
             p1 == EightBits(D1(p))[j]
             p2 == EightBits(D2(p))[j]
             p3 == EightBits(D3(p))[j]
             q0 == EightBits(q)[j]
             q1 == EightBits(D1(q))[j]
             q3 == EightBits(D3(q))[j]
             r0 == EightBits(r)[j]
             r2 == EightBits(D2(r))[j]
             r3 == EightBits(D3(r))[j]
             s0 == EightBits(s)[j]
             s3 == EightBits(D3(s))[j]
  <2>6. /\ a0 \in 0..1 /\ a1 \in 0..1 /\ a2 \in 0..1 /\ a3 \in 0..1 /\ a4 \in 0..1
        /\ b0 \in 0..1 /\ b1 \in 0..1 /\ b2 \in 0..1 /\ b3 \in 0..1 /\ b4 \in 0..1
        /\ c0 \in 0..1 /\ c1 \in 0..1 /\ c2 \in 0..1 /\ c3 \in 0..1 /\ c4 \in 0..1
        /\ d0 \in 0..1 /\ d1 \in 0..1 /\ d2 \in 0..1 /\ d3 \in 0..1 /\ d4 \in 0..1
    BY <2>1
  <2>7. /\ p1 = (a2 + c1 + b2 + d1 + b1) % 2
        /\ p2 = (a3 + c2 + b3 + d2 + b2) % 2
        /\ p3 = (a4 + c3 + b4 + d3 + b3) % 2
        /\ q0 = (b1 + d0 + c1 + a0 + c0) % 2
        /\ q1 = (b2 + d1 + c2 + a1 + c1) % 2
        /\ q3 = (b4 + d3 + c4 + a3 + c3) % 2
        /\ r0 = (c1 + a0 + d1 + b0 + d0) % 2
        /\ r2 = (c3 + a2 + d3 + b2 + d2) % 2
        /\ r3 = (c4 + a3 + d4 + b3 + d3) % 2
        /\ s0 = (d1 + b0 + a1 + c0 + a0) % 2
        /\ s3 = (d4 + b3 + a4 + c3 + a3) % 2
    BY <2>2, <2>3, <2>4, <2>5 DEF MixedBit
  <2>8. EightBits(v)[j] = (p1 + p2 + p3 + q0 + q1 + q3 + r0 + r2 + r3 + s0 + s3) % 2
    BY <1>5 DEF UnmixedBit
  <2> HIDE DEF a0, a1, a2, a3, a4, b0, b1, b2, b3, b4, c0, c1, c2, c3, c4,
               d0, d1, d2, d3, d4, p1, p2, p3, q0, q1, q3, r0, r2, r3, s0, s3
  <2>9. (p1 + p2 + p3 + q0 + q1 + q3 + r0 + r2 + r3 + s0 + s3) % 2 = a0
    <3>1. (p1 + p2 + p3 + q0 + q1 + q3 + r0 + r2 + r3 + s0 + s3) % 2
           = ((a2 + c1 + b2 + d1 + b1)
              + (a3 + c2 + b3 + d2 + b2)
              + (a4 + c3 + b4 + d3 + b3)
              + (b1 + d0 + c1 + a0 + c0)
              + (b2 + d1 + c2 + a1 + c1)
              + (b4 + d3 + c4 + a3 + c3)
              + (c1 + a0 + d1 + b0 + d0)
              + (c3 + a2 + d3 + b2 + d2)
              + (c4 + a3 + d4 + b3 + d3)
              + (d1 + b0 + a1 + c0 + a0)
              + (d4 + b3 + a4 + c3 + a3)) % 2
      BY ONLY <2>6, <2>7
    <3>2. (a2 + c1 + b2 + d1 + b1)
              + (a3 + c2 + b3 + d2 + b2)
              + (a4 + c3 + b4 + d3 + b3)
              + (b1 + d0 + c1 + a0 + c0)
              + (b2 + d1 + c2 + a1 + c1)
              + (b4 + d3 + c4 + a3 + c3)
              + (c1 + a0 + d1 + b0 + d0)
              + (c3 + a2 + d3 + b2 + d2)
              + (c4 + a3 + d4 + b3 + d3)
              + (d1 + b0 + a1 + c0 + a0)
              + (d4 + b3 + a4 + c3 + a3)
            = a0 + 2 * (a0 + a1 + a2 + 2 * a3 + a4 + b0 + b1 + 2 * b2 + 2 * b3 + b4
                        + c0 + 2 * c1 + c2 + 2 * c3 + c4 + d0 + 2 * d1 + d2 + 2 * d3 + d4)
      BY ONLY <2>6
    <3>3. a0 + a1 + a2 + 2 * a3 + a4 + b0 + b1 + 2 * b2 + 2 * b3 + b4
            + c0 + 2 * c1 + c2 + 2 * c3 + c4 + d0 + 2 * d1 + d2 + 2 * d3 + d4 \in Int
      BY ONLY <2>6
    <3>4. \A z \in Int : (a0 + 2 * z) % 2 = a0
      BY ONLY <2>6
    <3> QED
      BY ONLY <3>1, <3>2, <3>3, <3>4
  <2> QED
    BY <2>8, <2>9 DEF a0
<1> QED
  BY <1>5, <1>6, EightBitsAre

(* Taking a byte back from a sum. *)
LEMMA SumBack ==
  ASSUME NEW a \in Byte, NEW b \in Byte
  PROVE  Sum2(Sum2(a, b), b) = a
<1>1. Sum2(a, b) \in Byte /\ Sum2(Sum2(a, b), b) \in Byte
  BY Sum2Is
<1>2. ASSUME NEW j \in 1..8 PROVE EightBits(Sum2(Sum2(a, b), b))[j] = EightBits(a)[j]
  <2>1. EightBits(Sum2(a, b))[j] = (EightBits(a)[j] + EightBits(b)[j]) % 2
    BY Sum2Is
  <2>2. EightBits(Sum2(Sum2(a, b), b))[j] = (EightBits(Sum2(a, b))[j] + EightBits(b)[j]) % 2
    BY <1>1, Sum2Is
  <2>3. EightBits(a)[j] \in 0..1 /\ EightBits(b)[j] \in 0..1
    BY EightBitsAre
  <2> QED
    BY <2>1, <2>2, <2>3
<1> QED
  BY <1>1, <1>2, EightBitsAre

(* gmul_ivec4 of a sum. *)
SumUnmixes(a, b, c, d, e, f, h, k) ==
  Unmixed(Sum2(a, e), Sum2(b, f), Sum2(c, h), Sum2(d, k)) =
    Sum2(Unmixed(a, b, c, d), Unmixed(e, f, h, k))

LEMMA UnmixedOfSum ==
  ASSUME NEW a \in Byte, NEW b \in Byte, NEW c \in Byte, NEW d \in Byte,
         NEW e \in Byte, NEW f \in Byte, NEW h \in Byte, NEW k \in Byte
  PROVE  SumUnmixes(a, b, c, d, e, f, h, k)
<1> DEFINE l == Unmixed(Sum2(a, e), Sum2(b, f), Sum2(c, h), Sum2(d, k))
           r == Sum2(Unmixed(a, b, c, d), Unmixed(e, f, h, k))
           S(x, y, j) == (EightBits(x)[j] + EightBits(y)[j]) % 2
<1>1. /\ Sum2(a, e) \in Byte /\ Sum2(b, f) \in Byte /\ Sum2(c, h) \in Byte /\ Sum2(d, k) \in Byte
      /\ Unmixed(a, b, c, d) \in Byte /\ Unmixed(e, f, h, k) \in Byte
  BY Sum2Is, UnmixedIs
<1>2. l \in Byte /\ r \in Byte
  BY <1>1, Sum2Is, UnmixedIs
<1>3. ASSUME NEW x \in Byte, NEW y \in Byte
      PROVE  /\ Double(Sum2(x, y)) = Sum2(Double(x), Double(y))
             /\ Double(Double(Sum2(x, y))) = Sum2(Double(Double(x)), Double(Double(y)))
             /\ Double(Double(Double(Sum2(x, y)))) =
                  Sum2(Double(Double(Double(x))), Double(Double(Double(y))))
             /\ Double(x) \in Byte /\ Double(Double(x)) \in Byte
             /\ Double(Double(Double(x))) \in Byte
  BY DoubleOfSum, DoubleType
<1>4. ASSUME NEW j \in 1..8 PROVE EightBits(l)[j] = EightBits(r)[j]
  <2> DEFINE B(x) == EightBits(x)[j]
             B1(x) == B(Double(x))
             B2(x) == B(Double(Double(x)))
             B3(x) == B(Double(Double(Double(x))))
  <2>1. ASSUME NEW x \in Byte, NEW y \in Byte
        PROVE  /\ B(Sum2(x, y)) = (B(x) + B(y)) % 2 /\ B1(Sum2(x, y)) = (B1(x) + B1(y)) % 2
               /\ B2(Sum2(x, y)) = (B2(x) + B2(y)) % 2 /\ B3(Sum2(x, y)) = (B3(x) + B3(y)) % 2
    <3>1. /\ Sum2(x, y) \in Byte
          /\ EightBits(Sum2(x, y))[j] = (EightBits(x)[j] + EightBits(y)[j]) % 2
      BY Sum2Is
    <3> DEFINE x1 == Double(x)
               y1 == Double(y)
               x2 == Double(x1)
               y2 == Double(y1)
               x3 == Double(x2)
               y3 == Double(y2)
    <3>2. /\ x1 \in Byte /\ y1 \in Byte /\ x2 \in Byte /\ y2 \in Byte
          /\ x3 \in Byte /\ y3 \in Byte
          /\ Double(Sum2(x, y)) = Sum2(x1, y1)
          /\ Double(Double(Sum2(x, y))) = Sum2(x2, y2)
          /\ Double(Double(Double(Sum2(x, y)))) = Sum2(x3, y3)
      BY <1>3
    <3>3. EightBits(Sum2(x1, y1))[j] = (EightBits(x1)[j] + EightBits(y1)[j]) % 2
      <4> HIDE DEF x1, y1
      <4> QED
        BY <3>2, Sum2Is
    <3>4. EightBits(Sum2(x2, y2))[j] = (EightBits(x2)[j] + EightBits(y2)[j]) % 2
      <4> HIDE DEF x2, y2
      <4> QED
        BY <3>2, Sum2Is
    <3>5. EightBits(Sum2(x3, y3))[j] = (EightBits(x3)[j] + EightBits(y3)[j]) % 2
      <4> HIDE DEF x3, y3
      <4> QED
        BY <3>2, Sum2Is
    <3> QED
      BY <3>1, <3>2, <3>3, <3>4, <3>5
  <2>2. ASSUME NEW x \in Byte
        PROVE  B(x) \in 0..1 /\ B1(x) \in 0..1 /\ B2(x) \in 0..1 /\ B3(x) \in 0..1
    BY <1>3, EightBitsAre
  <2> DEFINE Total(x, y, z, w) == B1(x) + B2(x) + B3(x) + B(y) + B1(y) + B3(y)
                                  + B(z) + B2(z) + B3(z) + B(w) + B3(w)
             p == Total(a, b, c, d)
             q == Total(e, f, h, k)
             u == Total(Sum2(a, e), Sum2(b, f), Sum2(c, h), Sum2(d, k))
  <2>0. ASSUME NEW x \in Byte, NEW y \in Byte, NEW z \in Byte, NEW w \in Byte
        PROVE  B(Unmixed(x, y, z, w)) = Total(x, y, z, w) % 2
    <3>1. UnmixedBit(Unmixed(x, y, z, w), x, y, z, w, j)
      BY UnmixedIs
    <3>2. B(Unmixed(x, y, z, w)) = (B1(x) + B2(x) + B3(x) + B(y) + B1(y) + B3(y)
                                    + B(z) + B2(z) + B3(z) + B(w) + B3(w)) % 2
      BY ONLY <3>1 DEF UnmixedBit
    <3> QED
      BY <3>2
  <2>3. B(l) = u % 2
    <3> HIDE DEF B, Total
    <3> QED
      BY <1>1, <2>0
  <2>4. B(Unmixed(a, b, c, d)) = p % 2 /\ B(Unmixed(e, f, h, k)) = q % 2
    <3> HIDE DEF B, Total
    <3> QED
      BY <2>0
  <2>5. B(r) = (B(Unmixed(a, b, c, d)) + B(Unmixed(e, f, h, k))) % 2
    BY <1>1, Sum2Is
  <2> HIDE DEF l, r, B, B1, B2, B3
  <2>6. u % 2 = (p + q) % 2
    <3>1. /\ B1(Sum2(a, e)) = (B1(a) + B1(e)) % 2 /\ B2(Sum2(a, e)) = (B2(a) + B2(e)) % 2
          /\ B3(Sum2(a, e)) = (B3(a) + B3(e)) % 2
          /\ B(Sum2(b, f)) = (B(b) + B(f)) % 2 /\ B1(Sum2(b, f)) = (B1(b) + B1(f)) % 2
          /\ B3(Sum2(b, f)) = (B3(b) + B3(f)) % 2
          /\ B(Sum2(c, h)) = (B(c) + B(h)) % 2 /\ B2(Sum2(c, h)) = (B2(c) + B2(h)) % 2
          /\ B3(Sum2(c, h)) = (B3(c) + B3(h)) % 2
          /\ B(Sum2(d, k)) = (B(d) + B(k)) % 2 /\ B3(Sum2(d, k)) = (B3(d) + B3(k)) % 2
      BY <2>1
    <3>2. /\ B1(a) \in Int /\ B2(a) \in Int /\ B3(a) \in Int
          /\ B(b) \in Int /\ B1(b) \in Int /\ B3(b) \in Int
          /\ B(c) \in Int /\ B2(c) \in Int /\ B3(c) \in Int
          /\ B(d) \in Int /\ B3(d) \in Int
          /\ B1(e) \in Int /\ B2(e) \in Int /\ B3(e) \in Int
          /\ B(f) \in Int /\ B1(f) \in Int /\ B3(f) \in Int
          /\ B(h) \in Int /\ B2(h) \in Int /\ B3(h) \in Int
          /\ B(k) \in Int /\ B3(k) \in Int
      BY <2>2
    <3> QED
      BY <3>1, <3>2
  <2>7. p \in Int /\ q \in Int
    BY <2>2
  <2> HIDE DEF p, q, u
  <2> QED
    BY <2>3, <2>4, <2>5, <2>6, <2>7 DEF B
<1> QED
  BY <1>2, <1>4, EightBitsAre DEF SumUnmixes

LEMMA VectorOfFour ==
  ASSUME NEW a, NEW b, NEW c, NEW d, NEW f, f = [i \in 1..4 |-> <<a, b, c, d>>[i]]
  PROVE  Vector(f) = <<a, b, c, d>>
<1>1. f = <<a, b, c, d>>
  OBVIOUS
<1>2. <<a, b, c, d>> \in Seq({a, b, c, d}) /\ Len(<<a, b, c, d>>) = 4
  OBVIOUS
<1> QED
  BY <1>1, <1>2, SubSeqFull DEF Vector

(* Columns of four bytes, one byte at a time. *)
LEMMA TupleOfColumn ==
  ASSUME NEW v \in Column
  PROVE  /\ v = <<v[1], v[2], v[3], v[4]>>
         /\ v[1] \in Byte /\ v[2] \in Byte /\ v[3] \in Byte /\ v[4] \in Byte
BY DEF Column

LEMMA ColumnOfBytes ==
  ASSUME NEW a \in Byte, NEW b \in Byte, NEW c \in Byte, NEW d \in Byte
  PROVE  <<a, b, c, d>> \in Column
BY DEF Column

LEMMA XorOfColumns ==
  ASSUME NEW a \in Byte, NEW b \in Byte, NEW c \in Byte, NEW d \in Byte,
         NEW e \in Byte, NEW f \in Byte, NEW h \in Byte, NEW k \in Byte
  PROVE  /\ Xor(<<a, b, c, d>>, <<e, f, h, k>>) =
               <<Sum2(a, e), Sum2(b, f), Sum2(c, h), Sum2(d, k)>>
         /\ Xor(<<a, b, c, d>>, <<e, f, h, k>>) \in Column
<1> DEFINE w == [i \in 1..4 |-> ByteXor[<<a, b, c, d>>[i]][<<e, f, h, k>>[i]]]
<1>1. Xor(<<a, b, c, d>>, <<e, f, h, k>>) = Vector(w)
  BY DEF Xor
<1>2. w = [i \in 1..4 |-> <<Sum2(a, e), Sum2(b, f), Sum2(c, h), Sum2(d, k)>>[i]]
  BY DEF Sum2
<1>3. /\ Sum2(a, e) \in Byte /\ Sum2(b, f) \in Byte /\ Sum2(c, h) \in Byte /\ Sum2(d, k) \in Byte
  BY Sum2Is
<1> HIDE DEF w
<1>4. Vector(w) = <<Sum2(a, e), Sum2(b, f), Sum2(c, h), Sum2(d, k)>>
  BY <1>2, VectorOfFour
<1> QED
  BY <1>1, <1>3, <1>4, ColumnOfBytes

LEMMA RotROfColumn ==
  ASSUME NEW a \in Byte, NEW b \in Byte, NEW c \in Byte, NEW d \in Byte
  PROVE  /\ RotR(<<a, b, c, d>>, 1) = <<b, c, d, a>>
         /\ RotR(<<a, b, c, d>>, 2) = <<c, d, a, b>>
         /\ RotR(<<a, b, c, d>>, 3) = <<d, a, b, c>>
<1> DEFINE w(n) == [i \in 1..4 |-> <<a, b, c, d>>[((i - 1 + n) % 4) + 1]]
<1>1. ASSUME NEW n \in 1..3 PROVE RotR(<<a, b, c, d>>, n) = Vector(w(n))
  BY DEF RotR
<1>2. /\ w(1) = [i \in 1..4 |-> <<b, c, d, a>>[i]]
      /\ w(2) = [i \in 1..4 |-> <<c, d, a, b>>[i]]
      /\ w(3) = [i \in 1..4 |-> <<d, a, b, c>>[i]]
  OBVIOUS
<1> HIDE DEF w
<1>3. /\ Vector(w(1)) = <<b, c, d, a>> /\ Vector(w(2)) = <<c, d, a, b>>
      /\ Vector(w(3)) = <<d, a, b, c>>
  BY <1>2, VectorOfFour
<1> QED
  BY <1>1, <1>3

LEMMA DoubledOfColumn ==
  ASSUME NEW a \in Byte, NEW b \in Byte, NEW c \in Byte, NEW d \in Byte
  PROVE  Doubled(<<a, b, c, d>>) = <<Double(a), Double(b), Double(c), Double(d)>>
<1> DEFINE w == [i \in 1..4 |-> Twice(<<a, b, c, d>>[i], \h11B)]
<1>1. Doubled(<<a, b, c, d>>) = Vector(w)
  BY DEF Doubled
<1>2. w = [i \in 1..4 |-> <<Double(a), Double(b), Double(c), Double(d)>>[i]]
  BY DEF Double
<1> HIDE DEF w
<1> QED
  BY <1>1, <1>2, VectorOfFour

LEMMA MulOfColumn ==
  ASSUME NEW a \in Byte, NEW b \in Byte, NEW c \in Byte, NEW d \in Byte
  PROVE  /\ gmul_vec4(<<a, b, c, d>>) = <<Mixed(a, b, c, d), Mixed(b, c, d, a),
                                          Mixed(c, d, a, b), Mixed(d, a, b, c)>>
<1> DEFINE v == <<a, b, c, d>>
           a1 == Double(a)
           b1 == Double(b)
           c1 == Double(c)
           d1 == Double(d)
           p == Sum2(a1, c)
           q == Sum2(b1, d)
           r == Sum2(c1, a)
           s == Sum2(d1, b)
           w == <<p, q, r, s>>
           pa == Sum2(p, a)
           qb == Sum2(q, b)
           rc == Sum2(r, c)
           sd == Sum2(s, d)
<1>1. a1 \in Byte /\ b1 \in Byte /\ c1 \in Byte /\ d1 \in Byte
  BY DoubleType
<1>2. Doubled(v) = <<a1, b1, c1, d1>> /\ RotR(v, 2) = <<c, d, a, b>>
  BY DoubledOfColumn, RotROfColumn
<1> HIDE DEF a1, b1, c1, d1
<1>3. p \in Byte /\ q \in Byte /\ r \in Byte /\ s \in Byte
  BY <1>1, Sum2Is
<1>4. Xor(Doubled(v), RotR(v, 2)) = w
  BY <1>1, <1>2, XorOfColumns
<1>5. gmul_vec4(v) = Xor(w, RotR(Xor(w, v), 1))
  BY <1>4 DEF gmul_vec4
<1> HIDE DEF p, q, r, s
<1>6. pa \in Byte /\ qb \in Byte /\ rc \in Byte /\ sd \in Byte
  BY <1>3, Sum2Is
<1>7. Xor(w, v) = <<pa, qb, rc, sd>>
  BY <1>3, XorOfColumns
<1> HIDE DEF pa, qb, rc, sd
<1>8. RotR(Xor(w, v), 1) = <<qb, rc, sd, pa>>
  BY <1>6, <1>7, RotROfColumn
<1>9. Xor(w, <<qb, rc, sd, pa>>) = <<Sum2(p, qb), Sum2(q, rc), Sum2(r, sd), Sum2(s, pa)>>
  BY <1>3, <1>6, XorOfColumns
<1> QED
  BY <1>5, <1>8, <1>9 DEF Mixed, a1, b1, c1, d1, p, q, r, s, pa, qb, rc, sd

(* The same, place by place. *)
LEMMA XorAtPlace ==
  ASSUME NEW v \in Column, NEW w \in Column
  PROVE  Xor(v, w) \in Column /\ \A i \in 1..4 : Xor(v, w)[i] = Sum2(v[i], w[i])
<1> DEFINE x == <<Sum2(v[1], w[1]), Sum2(v[2], w[2]), Sum2(v[3], w[3]), Sum2(v[4], w[4])>>
<1>1. /\ v = <<v[1], v[2], v[3], v[4]>> /\ w = <<w[1], w[2], w[3], w[4]>>
      /\ v[1] \in Byte /\ v[2] \in Byte /\ v[3] \in Byte /\ v[4] \in Byte
      /\ w[1] \in Byte /\ w[2] \in Byte /\ w[3] \in Byte /\ w[4] \in Byte
  BY TupleOfColumn
<1>2. /\ Xor(<<v[1], v[2], v[3], v[4]>>, <<w[1], w[2], w[3], w[4]>>) = x
      /\ Xor(<<v[1], v[2], v[3], v[4]>>, <<w[1], w[2], w[3], w[4]>>) \in Column
  BY <1>1, XorOfColumns, ZenonT(60)
<1>3. Xor(v, w) = x /\ Xor(v, w) \in Column
  BY ONLY <1>1, <1>2
<1>4. \A i \in 1..4 : x[i] = Sum2(v[i], w[i])
  OBVIOUS
<1> HIDE DEF x
<1> QED
  BY <1>3, <1>4

LEMMA DoubledAtPlace ==
  ASSUME NEW v \in Column
  PROVE  Doubled(v) \in Column /\ \A i \in 1..4 : Doubled(v)[i] = Double(v[i])
<1> DEFINE x == <<Double(v[1]), Double(v[2]), Double(v[3]), Double(v[4])>>
<1>1. /\ v = <<v[1], v[2], v[3], v[4]>>
      /\ v[1] \in Byte /\ v[2] \in Byte /\ v[3] \in Byte /\ v[4] \in Byte
  BY TupleOfColumn
<1>2. Doubled(<<v[1], v[2], v[3], v[4]>>) = x /\ x \in Column
  BY <1>1, DoubleType, DoubledOfColumn, ColumnOfBytes
<1>3. Doubled(v) = x /\ x \in Column
  BY ONLY <1>1, <1>2
<1>4. \A i \in 1..4 : x[i] = Double(v[i])
  OBVIOUS
<1> HIDE DEF x
<1> QED
  BY <1>3, <1>4

LEMMA RotRAtPlace ==
  ASSUME NEW v \in Column
  PROVE  /\ RotR(v, 1) \in Column /\ RotR(v, 2) \in Column /\ RotR(v, 3) \in Column
         /\ RotR(v, 1) = <<v[2], v[3], v[4], v[1]>>
         /\ RotR(v, 2) = <<v[3], v[4], v[1], v[2]>>
         /\ RotR(v, 3) = <<v[4], v[1], v[2], v[3]>>
<1>1. /\ v = <<v[1], v[2], v[3], v[4]>>
      /\ v[1] \in Byte /\ v[2] \in Byte /\ v[3] \in Byte /\ v[4] \in Byte
  BY TupleOfColumn
<1>2. /\ RotR(<<v[1], v[2], v[3], v[4]>>, 1) = <<v[2], v[3], v[4], v[1]>>
      /\ RotR(<<v[1], v[2], v[3], v[4]>>, 2) = <<v[3], v[4], v[1], v[2]>>
      /\ RotR(<<v[1], v[2], v[3], v[4]>>, 3) = <<v[4], v[1], v[2], v[3]>>
  BY <1>1, RotROfColumn
<1>3. /\ RotR(v, 1) = <<v[2], v[3], v[4], v[1]>> /\ RotR(v, 2) = <<v[3], v[4], v[1], v[2]>>
      /\ RotR(v, 3) = <<v[4], v[1], v[2], v[3]>>
  BY ONLY <1>1, <1>2
<1>4. /\ <<v[2], v[3], v[4], v[1]>> \in Column /\ <<v[3], v[4], v[1], v[2]>> \in Column
      /\ <<v[4], v[1], v[2], v[3]>> \in Column
  BY <1>1, ColumnOfBytes
<1> QED
  BY <1>3, <1>4

LEMMA InverseMulOfColumn ==
  ASSUME NEW v \in Column
  PROVE  gmul_ivec4(v) = <<Unmixed(v[1], v[2], v[3], v[4]), Unmixed(v[2], v[3], v[4], v[1]),
                           Unmixed(v[3], v[4], v[1], v[2]), Unmixed(v[4], v[1], v[2], v[3])>>
<1> DEFINE v1 == Doubled(v)
           v2 == Doubled(v1)
           v3 == Doubled(v2)
           e2 == Xor(v3, v2)
           ve == Xor(e2, v1)
           b1 == Xor(v3, v1)
           vb == Xor(b1, v)
           vn == Xor(e2, v)
           vi == Xor(v3, v)
           rb == RotR(vb, 1)
           rn == RotR(vn, 2)
           ri == RotR(vi, 3)
           x1 == Xor(ve, rb)
           x2 == Xor(x1, rn)
           x3 == Xor(x2, ri)
<1>1. gmul_ivec4(v) = x3
  BY DEF gmul_ivec4
<1>2. v1 \in Column /\ \A i \in 1..4 : v1[i] = Double(v[i])
  BY DoubledAtPlace
<1> HIDE DEF v1
<1>3. v2 \in Column /\ \A i \in 1..4 : v2[i] = Double(v1[i])
  BY <1>2, DoubledAtPlace
<1> HIDE DEF v2
<1>4. v3 \in Column /\ \A i \in 1..4 : v3[i] = Double(v2[i])
  BY <1>3, DoubledAtPlace
<1> HIDE DEF v3
<1>5. e2 \in Column /\ \A i \in 1..4 : e2[i] = Sum2(v3[i], v2[i])
  BY <1>3, <1>4, XorAtPlace
<1> HIDE DEF e2
<1>6. b1 \in Column /\ \A i \in 1..4 : b1[i] = Sum2(v3[i], v1[i])
  BY <1>2, <1>4, XorAtPlace
<1> HIDE DEF b1
<1>7. ve \in Column /\ \A i \in 1..4 : ve[i] = Sum2(e2[i], v1[i])
  BY <1>2, <1>5, XorAtPlace
<1>8. vb \in Column /\ \A i \in 1..4 : vb[i] = Sum2(b1[i], v[i])
  BY <1>6, XorAtPlace
<1>9. vn \in Column /\ \A i \in 1..4 : vn[i] = Sum2(e2[i], v[i])
  BY <1>5, XorAtPlace
<1>10. vi \in Column /\ \A i \in 1..4 : vi[i] = Sum2(v3[i], v[i])
  BY <1>4, XorAtPlace
<1> HIDE DEF ve, vb, vn, vi
<1>11. rb \in Column /\ rb = <<vb[2], vb[3], vb[4], vb[1]>>
  BY <1>8, RotRAtPlace
<1>12. rn \in Column /\ rn = <<vn[3], vn[4], vn[1], vn[2]>>
  BY <1>9, RotRAtPlace
<1>13. ri \in Column /\ ri = <<vi[4], vi[1], vi[2], vi[3]>>
  BY <1>10, RotRAtPlace
<1> HIDE DEF rb, rn, ri
<1>14. x1 \in Column /\ \A i \in 1..4 : x1[i] = Sum2(ve[i], rb[i])
  BY <1>7, <1>11, XorAtPlace
<1> HIDE DEF x1
<1>15. x2 \in Column /\ \A i \in 1..4 : x2[i] = Sum2(x1[i], rn[i])
  BY <1>12, <1>14, XorAtPlace
<1> HIDE DEF x2
<1>16. x3 \in Column /\ \A i \in 1..4 : x3[i] = Sum2(x2[i], ri[i])
  BY <1>13, <1>15, XorAtPlace
<1> HIDE DEF x3
<1>17. /\ x3[1] = Sum2(Sum2(Sum2(ve[1], vb[2]), vn[3]), vi[4])
       /\ x3[2] = Sum2(Sum2(Sum2(ve[2], vb[3]), vn[4]), vi[1])
       /\ x3[3] = Sum2(Sum2(Sum2(ve[3], vb[4]), vn[1]), vi[2])
       /\ x3[4] = Sum2(Sum2(Sum2(ve[4], vb[1]), vn[2]), vi[3])
  BY <1>11, <1>12, <1>13, <1>14, <1>15, <1>16
<1>18. ASSUME NEW i \in 1..4
       PROVE  /\ ve[i] = Sum2(Sum2(Double(Double(Double(v[i]))), Double(Double(v[i]))),
                              Double(v[i]))
              /\ vb[i] = Sum2(Sum2(Double(Double(Double(v[i]))), Double(v[i])), v[i])
              /\ vn[i] = Sum2(Sum2(Double(Double(Double(v[i]))), Double(Double(v[i]))), v[i])
              /\ vi[i] = Sum2(Double(Double(Double(v[i]))), v[i])
  BY <1>2, <1>3, <1>4, <1>5, <1>6, <1>7, <1>8, <1>9, <1>10
<1>19. /\ x3[1] = Unmixed(v[1], v[2], v[3], v[4]) /\ x3[2] = Unmixed(v[2], v[3], v[4], v[1])
       /\ x3[3] = Unmixed(v[3], v[4], v[1], v[2]) /\ x3[4] = Unmixed(v[4], v[1], v[2], v[3])
  BY <1>17, <1>18 DEF Unmixed
<1>20. x3 = <<x3[1], x3[2], x3[3], x3[4]>>
  BY <1>16, TupleOfColumn
<1> QED
  BY <1>1, <1>19, <1>20

(* What decryption needs of columns: their sums take themselves back, and  *)
(* gmul_ivec4 undoes gmul_vec4 and passes through sums.                    *)
LEMMA ColumnSum ==
  ASSUME NEW v \in Column, NEW w \in Column
  PROVE  Xor(v, w) \in Column /\ Xor(Xor(v, w), w) = v
<1> DEFINE a == v[1]
           b == v[2]
           c == v[3]
           d == v[4]
           e == w[1]
           f == w[2]
           h == w[3]
           k == w[4]
<1>1. /\ v = <<a, b, c, d>> /\ a \in Byte /\ b \in Byte /\ c \in Byte /\ d \in Byte
      /\ w = <<e, f, h, k>> /\ e \in Byte /\ f \in Byte /\ h \in Byte /\ k \in Byte
  BY TupleOfColumn
<1> HIDE DEF a, b, c, d, e, f, h, k
<1>2. /\ Xor(v, w) = <<Sum2(a, e), Sum2(b, f), Sum2(c, h), Sum2(d, k)>>
      /\ Xor(v, w) \in Column
  BY <1>1, XorOfColumns
<1>3. /\ Sum2(a, e) \in Byte /\ Sum2(b, f) \in Byte /\ Sum2(c, h) \in Byte /\ Sum2(d, k) \in Byte
  BY <1>1, Sum2Is
<1>4. Xor(<<Sum2(a, e), Sum2(b, f), Sum2(c, h), Sum2(d, k)>>, <<e, f, h, k>>) =
        <<Sum2(Sum2(a, e), e), Sum2(Sum2(b, f), f), Sum2(Sum2(c, h), h), Sum2(Sum2(d, k), k)>>
  BY <1>1, <1>3, XorOfColumns, SMTT(30)
<1>5. /\ Sum2(Sum2(a, e), e) = a /\ Sum2(Sum2(b, f), f) = b
      /\ Sum2(Sum2(c, h), h) = c /\ Sum2(Sum2(d, k), k) = d
  BY <1>1, SumBack
<1> QED
  BY <1>1, <1>2, <1>4, <1>5

LEMMA ColumnProducts ==
  ASSUME NEW v \in Column
  PROVE  /\ gmul_vec4(v) \in Column /\ gmul_ivec4(v) \in Column
         /\ gmul_ivec4(gmul_vec4(v)) = v
<1> DEFINE a == v[1]
           b == v[2]
           c == v[3]
           d == v[4]
           p == Mixed(a, b, c, d)
           q == Mixed(b, c, d, a)
           r == Mixed(c, d, a, b)
           s == Mixed(d, a, b, c)
<1>1. v = <<a, b, c, d>> /\ a \in Byte /\ b \in Byte /\ c \in Byte /\ d \in Byte
  BY TupleOfColumn
<1> HIDE DEF a, b, c, d
<1>2. p \in Byte /\ q \in Byte /\ r \in Byte /\ s \in Byte
  BY <1>1, MixedIs
<1>3. gmul_vec4(v) = <<p, q, r, s>>
  BY <1>1, MulOfColumn
<1>4. /\ Unmixed(p, q, r, s) = a /\ Unmixed(q, r, s, p) = b
      /\ Unmixed(r, s, p, q) = c /\ Unmixed(s, p, q, r) = d
  BY <1>1, UnmixedOfMixed
<1>5. gmul_ivec4(v) \in Column
  <2>1. gmul_ivec4(v) = <<Unmixed(a, b, c, d), Unmixed(b, c, d, a),
                          Unmixed(c, d, a, b), Unmixed(d, a, b, c)>>
    BY <1>1, InverseMulOfColumn DEF a, b, c, d
  <2>2. /\ Unmixed(a, b, c, d) \in Byte /\ Unmixed(b, c, d, a) \in Byte
        /\ Unmixed(c, d, a, b) \in Byte /\ Unmixed(d, a, b, c) \in Byte
    BY <1>1, UnmixedIs
  <2> QED
    BY <2>1, <2>2, ColumnOfBytes
<1> HIDE DEF p, q, r, s
<1>6. gmul_ivec4(<<p, q, r, s>>) = <<Unmixed(p, q, r, s), Unmixed(q, r, s, p),
                                     Unmixed(r, s, p, q), Unmixed(s, p, q, r)>>
  <2> DEFINE w == <<p, q, r, s>>
  <2>1. w \in Column /\ w[1] = p /\ w[2] = q /\ w[3] = r /\ w[4] = s
    BY <1>2, ColumnOfBytes
  <2> HIDE DEF w
  <2>2. gmul_ivec4(w) = <<Unmixed(p, q, r, s), Unmixed(q, r, s, p),
                          Unmixed(r, s, p, q), Unmixed(s, p, q, r)>>
    BY <2>1, InverseMulOfColumn
  <2> QED
    BY <2>2 DEF w
<1>7. <<p, q, r, s>> \in Column
  BY <1>2, ColumnOfBytes
<1> QED
  BY <1>1, <1>3, <1>4, <1>5, <1>6, <1>7

LEMMA ColumnProductOfSum ==
  ASSUME NEW v \in Column, NEW w \in Column
  PROVE  gmul_ivec4(Xor(v, w)) = Xor(gmul_ivec4(v), gmul_ivec4(w))
<1> DEFINE a == v[1]
           b == v[2]
           c == v[3]
           d == v[4]
           e == w[1]
           f == w[2]
           h == w[3]
           k == w[4]
<1>1. /\ v = <<a, b, c, d>> /\ a \in Byte /\ b \in Byte /\ c \in Byte /\ d \in Byte
      /\ w = <<e, f, h, k>> /\ e \in Byte /\ f \in Byte /\ h \in Byte /\ k \in Byte
  BY TupleOfColumn
<1> HIDE DEF a, b, c, d, e, f, h, k
<1>2. Xor(v, w) = <<Sum2(a, e), Sum2(b, f), Sum2(c, h), Sum2(d, k)>>
  BY <1>1, XorOfColumns
<1>3. /\ Sum2(a, e) \in Byte /\ Sum2(b, f) \in Byte /\ Sum2(c, h) \in Byte /\ Sum2(d, k) \in Byte
  BY <1>1, Sum2Is
<1>4. gmul_ivec4(Xor(v, w)) =
        <<Unmixed(Sum2(a, e), Sum2(b, f), Sum2(c, h), Sum2(d, k)),
          Unmixed(Sum2(b, f), Sum2(c, h), Sum2(d, k), Sum2(a, e)),
          Unmixed(Sum2(c, h), Sum2(d, k), Sum2(a, e), Sum2(b, f)),
          Unmixed(Sum2(d, k), Sum2(a, e), Sum2(b, f), Sum2(c, h))>>
  <2> DEFINE x == Xor(v, w)
  <2>1. x[1] = Sum2(a, e) /\ x[2] = Sum2(b, f) /\ x[3] = Sum2(c, h) /\ x[4] = Sum2(d, k)
    BY <1>2
  <2>2. x \in Column
    BY ColumnSum
  <2> HIDE DEF x
  <2>3. gmul_ivec4(x) = <<Unmixed(x[1], x[2], x[3], x[4]), Unmixed(x[2], x[3], x[4], x[1]),
                          Unmixed(x[3], x[4], x[1], x[2]), Unmixed(x[4], x[1], x[2], x[3])>>
    BY <2>2, InverseMulOfColumn
  <2> QED
    BY <2>1, <2>3 DEF x
<1>5. /\ Unmixed(Sum2(a, e), Sum2(b, f), Sum2(c, h), Sum2(d, k)) =
           Sum2(Unmixed(a, b, c, d), Unmixed(e, f, h, k))
      /\ Unmixed(Sum2(b, f), Sum2(c, h), Sum2(d, k), Sum2(a, e)) =
           Sum2(Unmixed(b, c, d, a), Unmixed(f, h, k, e))
      /\ Unmixed(Sum2(c, h), Sum2(d, k), Sum2(a, e), Sum2(b, f)) =
           Sum2(Unmixed(c, d, a, b), Unmixed(h, k, e, f))
      /\ Unmixed(Sum2(d, k), Sum2(a, e), Sum2(b, f), Sum2(c, h)) =
           Sum2(Unmixed(d, a, b, c), Unmixed(k, e, f, h))
  <2>0. /\ a \in Byte /\ b \in Byte /\ c \in Byte /\ d \in Byte
        /\ e \in Byte /\ f \in Byte /\ h \in Byte /\ k \in Byte
    BY <1>1
  <2>1. SumUnmixes(a, b, c, d, e, f, h, k)
    BY ONLY <2>0, UnmixedOfSum
  <2>2. SumUnmixes(b, c, d, a, f, h, k, e)
    BY ONLY <2>0, UnmixedOfSum
  <2>3. SumUnmixes(c, d, a, b, h, k, e, f)
    BY ONLY <2>0, UnmixedOfSum
  <2>4. SumUnmixes(d, a, b, c, k, e, f, h)
    BY ONLY <2>0, UnmixedOfSum
  <2> QED
    BY ONLY <2>1, <2>2, <2>3, <2>4 DEF SumUnmixes
<1>6. /\ gmul_ivec4(v) = <<Unmixed(a, b, c, d), Unmixed(b, c, d, a),
                           Unmixed(c, d, a, b), Unmixed(d, a, b, c)>>
      /\ gmul_ivec4(w) = <<Unmixed(e, f, h, k), Unmixed(f, h, k, e),
                           Unmixed(h, k, e, f), Unmixed(k, e, f, h)>>
  BY InverseMulOfColumn DEF a, b, c, d, e, f, h, k
<1>7. /\ Unmixed(a, b, c, d) \in Byte /\ Unmixed(b, c, d, a) \in Byte
      /\ Unmixed(c, d, a, b) \in Byte /\ Unmixed(d, a, b, c) \in Byte
      /\ Unmixed(e, f, h, k) \in Byte /\ Unmixed(f, h, k, e) \in Byte
      /\ Unmixed(h, k, e, f) \in Byte /\ Unmixed(k, e, f, h) \in Byte
  BY <1>1, UnmixedIs
<1>8. Xor(gmul_ivec4(v), gmul_ivec4(w)) =
        <<Sum2(Unmixed(a, b, c, d), Unmixed(e, f, h, k)),
          Sum2(Unmixed(b, c, d, a), Unmixed(f, h, k, e)),
          Sum2(Unmixed(c, d, a, b), Unmixed(h, k, e, f)),
          Sum2(Unmixed(d, a, b, c), Unmixed(k, e, f, h))>>
  BY <1>6, <1>7, XorOfColumns
<1> QED
  BY <1>4, <1>5, <1>8

(* Blocks, column by column. *)
LEMMA BlockSum ==
  ASSUME NEW x \in Columns, NEW y \in Columns
  PROVE  /\ AddRoundKey(x, y) \in Columns
         /\ \A c \in 1..4 : AddRoundKey(x, y)[c] = Xor(x[c], y[c])
         /\ AddRoundKey(AddRoundKey(x, y), y) = x
<1>1. ASSUME NEW u \in Columns, NEW w \in Columns
      PROVE  AddRoundKey(u, w) = [c \in 1..4 |-> Xor(u[c], w[c])]
  <2> DEFINE f == [c \in 1..4 |-> Xor(u[c], w[c])]
  <2>1. AddRoundKey(u, w) = Vector(f) /\ DOMAIN f = 1..4 /\ f = [c \in 1..4 |-> f[c]]
    BY DEF AddRoundKey
  <2> HIDE DEF f
  <2>2. Vector(f) = f
    BY <2>1, VectorIs
  <2> QED
    BY <2>1, <2>2 DEF f
<1>2. ASSUME NEW c \in 1..4
      PROVE  Xor(x[c], y[c]) \in Column /\ Xor(Xor(x[c], y[c]), y[c]) = x[c]
  BY ColumnSum DEF Columns
<1>3. /\ AddRoundKey(x, y) \in Columns
      /\ \A c \in 1..4 : AddRoundKey(x, y)[c] = Xor(x[c], y[c])
  BY <1>1, <1>2 DEF Columns
<1>4. AddRoundKey(AddRoundKey(x, y), y) = [c \in 1..4 |-> x[c]]
  BY <1>1, <1>2, <1>3
<1> QED
  BY <1>3, <1>4 DEF Columns

LEMMA BlockMixed ==
  ASSUME NEW x \in Columns
  PROVE  /\ MixColumns(x) \in Columns
         /\ InvMixColumns(x) \in Columns
         /\ InvMixColumns(x) = [c \in 1..4 |-> gmul_ivec4(x[c])]
         /\ InvMixColumns(MixColumns(x)) = x
<1>1. ASSUME NEW u \in Columns
      PROVE  /\ MixColumns(u) = [c \in 1..4 |-> gmul_vec4(u[c])]
             /\ InvMixColumns(u) = [c \in 1..4 |-> gmul_ivec4(u[c])]
  <2> DEFINE f == [c \in 1..4 |-> gmul_vec4(u[c])]
             h == [c \in 1..4 |-> gmul_ivec4(u[c])]
  <2>1. MixColumns(u) = Vector(f) /\ DOMAIN f = 1..4 /\ f = [c \in 1..4 |-> f[c]]
    BY DEF MixColumns
  <2>2. InvMixColumns(u) = Vector(h) /\ DOMAIN h = 1..4 /\ h = [c \in 1..4 |-> h[c]]
    BY DEF InvMixColumns
  <2> HIDE DEF f, h
  <2>3. Vector(f) = f /\ Vector(h) = h
    BY <2>1, <2>2, VectorIs
  <2> QED
    BY <2>1, <2>2, <2>3 DEF f, h
<1>2. ASSUME NEW c \in 1..4
      PROVE  /\ gmul_vec4(x[c]) \in Column /\ gmul_ivec4(x[c]) \in Column
             /\ gmul_ivec4(gmul_vec4(x[c])) = x[c]
  BY ColumnProducts DEF Columns
<1>3. /\ MixColumns(x) \in Columns /\ InvMixColumns(x) \in Columns
      /\ \A c \in 1..4 : MixColumns(x)[c] = gmul_vec4(x[c])
  BY <1>1, <1>2 DEF Columns
<1>4. InvMixColumns(MixColumns(x)) = [c \in 1..4 |-> x[c]]
  BY <1>1, <1>2, <1>3
<1> QED
  BY <1>1, <1>3, <1>4 DEF Columns

LEMMA BlockMixedSum ==
  ASSUME NEW x \in Columns, NEW y \in Columns
  PROVE  AddRoundKey(InvMixColumns(AddRoundKey(x, y)), InvMixColumns(y)) = InvMixColumns(x)
<1> DEFINE z == AddRoundKey(x, y)
           ix == InvMixColumns(x)
           iy == InvMixColumns(y)
           iz == InvMixColumns(z)
<1>1. z \in Columns /\ \A c \in 1..4 : z[c] = Xor(x[c], y[c])
  BY BlockSum
<1> HIDE DEF z
<1>2. /\ iz \in Columns /\ iz = [c \in 1..4 |-> gmul_ivec4(z[c])]
      /\ ix \in Columns /\ ix = [c \in 1..4 |-> gmul_ivec4(x[c])]
      /\ iy \in Columns /\ iy = [c \in 1..4 |-> gmul_ivec4(y[c])]
  BY <1>1, BlockMixed
<1>3. ASSUME NEW c \in 1..4 PROVE iz[c] = Xor(ix[c], iy[c])
  <2>1. gmul_ivec4(Xor(x[c], y[c])) = Xor(gmul_ivec4(x[c]), gmul_ivec4(y[c]))
    BY ColumnProductOfSum DEF Columns
  <2>2. /\ iz[c] = gmul_ivec4(z[c]) /\ ix[c] = gmul_ivec4(x[c]) /\ iy[c] = gmul_ivec4(y[c])
    BY <1>2
  <2> QED
    BY <1>1, <2>1, <2>2
<1> HIDE DEF ix, iy, iz
<1>4. /\ AddRoundKey(ix, iy) \in Columns
      /\ \A c \in 1..4 : AddRoundKey(ix, iy)[c] = Xor(ix[c], iy[c])
  BY <1>2, BlockSum
<1>5. iz = AddRoundKey(ix, iy)
  <2> DEFINE w == AddRoundKey(ix, iy)
  <2>1. w \in Columns /\ \A c \in 1..4 : w[c] = iz[c]
    BY <1>3, <1>4
  <2> HIDE DEF w
  <2>2. iz = [c \in 1..4 |-> iz[c]] /\ w = [c \in 1..4 |-> w[c]]
    <3> SUFFICES \A u \in Columns : u = [c \in 1..4 |-> u[c]]
      BY <1>2, <2>1
    <3> QED
      BY DEF Columns
  <2>3. iz = w
    BY <2>1, <2>2
  <2> QED
    BY <2>3 DEF w
<1>6. AddRoundKey(AddRoundKey(ix, iy), iy) = ix
  BY <1>2, BlockSum
<1> QED
  BY <1>5, <1>6 DEF ix, iy, iz, z

(* The rows move back, and the inverse table is applied on the way. *)
LEMMA RowsMoveBack ==
  ASSUME NEW c \in 1..4, NEW i \in 1..4, NEW r, r = ((c - i + 4) % 4) + 1
  PROVE  /\ ((c + i - 2) % 4) + 1 \in 1..4 /\ r \in 1..4
         /\ ((r + i - 2) % 4) + 1 = c
OBVIOUS

LEMMA SquareIs ==
  ASSUME NEW m \in Columns, NEW f, f = [c \in 1..4 |-> Vector(m[c])]
  PROVE  Vector(f) = m
<1>1. ASSUME NEW c \in 1..4 PROVE Vector(m[c]) = m[c]
  <2> DEFINE v == m[c]
  <2>1. v \in Column
    BY DEF Columns
  <2> HIDE DEF v
  <2>2. DOMAIN v = 1..4 /\ v = [i \in 1..4 |-> v[i]]
    BY <2>1 DEF Column
  <2>3. Vector(v) = v
    BY <2>2, VectorIs
  <2> QED
    BY <2>3 DEF v
<1>2. f = [c \in 1..4 |-> m[c]]
  BY <1>1
<1>3. f = m /\ DOMAIN m = 1..4 /\ m = [c \in 1..4 |-> m[c]]
  BY <1>2 DEF Columns
<1> QED
  BY <1>3, VectorIs

LEMMA BlockSubstituted ==
  ASSUME NEW x \in Columns
  PROVE  /\ SubBytes_ShiftRows(x) \in Columns
         /\ InvSubBytes_ShiftRows(SubBytes_ShiftRows(x)) = x
<1> DEFINE F(c, i) == S_Box[x[((c + i - 2) % 4) + 1][i]]
           s == SubBytes_ShiftRows(x)
           I(c, i) == InvS_Box[s[((c - i + 4) % 4) + 1][i]]
           w == InvSubBytes_ShiftRows(s)
<1>1. ASSUME NEW c \in 1..4, NEW i \in 1..4
      PROVE  F(c, i) \in Byte /\ InvS_Box[F(c, i)] = x[((c + i - 2) % 4) + 1][i]
  <2>1. ((c + i - 2) % 4) + 1 \in 1..4
    OBVIOUS
  <2>2. x[((c + i - 2) % 4) + 1][i] \in Byte
    BY <2>1 DEF Columns, Column
  <2> QED
    BY <2>2, TablesAssumption
<1>2. s = Vector([c \in 1..4 |-> Vector([i \in 1..4 |-> F(c, i)])])
  BY DEF SubBytes_ShiftRows
<1>3. s \in Columns /\ \A c, i \in 1..4 : s[c][i] = F(c, i)
  <2> DEFINE m == [c \in 1..4 |-> [i \in 1..4 |-> F(c, i)]]
             f == [c \in 1..4 |-> Vector([i \in 1..4 |-> F(c, i)])]
  <2> HIDE DEF F
  <2>1. m \in Columns /\ \A c, i \in 1..4 : m[c][i] = F(c, i)
    BY <1>1 DEF Columns, Column
  <2>2. f = [c \in 1..4 |-> Vector(m[c])]
    OBVIOUS
  <2> HIDE DEF m, f
  <2>3. Vector(f) = m
    BY <2>1, <2>2, SquareIs
  <2>4. s = Vector(f)
    BY <1>2 DEF f
  <2> QED
    BY <2>1, <2>3, <2>4
<1>4. ASSUME NEW c \in 1..4, NEW i \in 1..4 PROVE I(c, i) = x[c][i]
  <2> DEFINE r == ((c - i + 4) % 4) + 1
  <2>1. r \in 1..4 /\ ((r + i - 2) % 4) + 1 = c
    BY RowsMoveBack
  <2> HIDE DEF r, s, F
  <2>2. s[r][i] = F(r, i) /\ InvS_Box[F(r, i)] = x[((r + i - 2) % 4) + 1][i]
    BY <1>1, <1>3, <2>1
  <2>3. I(c, i) = InvS_Box[s[r][i]]
    BY DEF r
  <2> QED
    BY <2>1, <2>2, <2>3
<1>5. w = Vector([c \in 1..4 |-> Vector([i \in 1..4 |-> I(c, i)])])
  BY DEF InvSubBytes_ShiftRows
<1>6. \A c, i \in 1..4 : I(c, i) \in Byte
  <2> HIDE DEF I
  <2> QED
    BY <1>4 DEF Columns, Column
<1>7. w \in Columns /\ \A c, i \in 1..4 : w[c][i] = I(c, i)
  <2> DEFINE m == [c \in 1..4 |-> [i \in 1..4 |-> I(c, i)]]
             f == [c \in 1..4 |-> Vector([i \in 1..4 |-> I(c, i)])]
  <2> HIDE DEF I, w, s
  <2>1. m \in Columns /\ \A c, i \in 1..4 : m[c][i] = I(c, i)
    BY <1>6 DEF Columns, Column
  <2>2. f = [c \in 1..4 |-> Vector(m[c])]
    OBVIOUS
  <2> HIDE DEF m, f
  <2>3. Vector(f) = m
    BY <2>1, <2>2, SquareIs
  <2>4. w = Vector(f)
    BY <1>5 DEF f
  <2> QED
    BY <2>1, <2>3, <2>4
<1> HIDE DEF I, w, s, F
<1>8. \A c, i \in 1..4 : w[c][i] = x[c][i]
  BY <1>4, <1>7
<1>9. \A c \in 1..4 : w[c] = x[c]
  BY <1>7, <1>8 DEF Columns, Column
<1>10. w = x
  BY <1>7, <1>9 DEF Columns
<1> QED
  BY <1>3, <1>10 DEF w, s

(* The words of a round key. *)
LEMMA SubWordIs ==
  ASSUME NEW v \in Column
  PROVE  SubWord(v) \in Column
<1> DEFINE f == [i \in 1..4 |-> S_Box[v[i]]]
<1>1. \A i \in 1..4 : S_Box[v[i]] \in Byte
  BY TablesAssumption DEF Column
<1>2. f \in Column /\ DOMAIN f = 1..4 /\ f = [i \in 1..4 |-> f[i]]
  BY <1>1 DEF Column
<1>3. SubWord(v) = Vector(f)
  BY DEF SubWord
<1> HIDE DEF f
<1> QED
  BY <1>2, <1>3, VectorIs

RconOf(rc) == rc = [j \in 0..9 |-> IF j = 0 THEN 1 ELSE Twice(rc[j - 1], \h11B)]

LEMMA RconIs ==
  LET rcon[j \in 0..9] == IF j = 0 THEN 1 ELSE Twice(rcon[j - 1], \h11B)
  IN  \A j \in 0..9 : rcon[j] \in Byte
<1> DEFINE rcon == CHOOSE rc : RconOf(rc)
<1>1. \E rc : RconOf(rc)
  <2> DEFINE w0 == 1
             w1 == Twice(w0, \h11B)
             w2 == Twice(w1, \h11B)
             w3 == Twice(w2, \h11B)
             w4 == Twice(w3, \h11B)
             w5 == Twice(w4, \h11B)
             w6 == Twice(w5, \h11B)
             w7 == Twice(w6, \h11B)
             w8 == Twice(w7, \h11B)
             w9 == Twice(w8, \h11B)
             w == <<w0, w1, w2, w3, w4, w5, w6, w7, w8, w9>>
             rc == [j \in 0..9 |-> w[j + 1]]
  <2> HIDE DEF w0, w1, w2, w3, w4, w5, w6, w7, w8, w9
  <2>1. \A j \in 0..9 : rc[j] = IF j = 0 THEN 1 ELSE Twice(rc[j - 1], \h11B)
    BY DEF w0, w1, w2, w3, w4, w5, w6, w7, w8, w9
  <2>2. RconOf(rc)
    <3> HIDE DEF w
    <3>1. rc = [j \in 0..9 |-> rc[j]]
      OBVIOUS
    <3> HIDE DEF rc
    <3> QED
      BY <2>1, <3>1 DEF RconOf
  <2> QED
    BY <2>2
<1>2. RconOf(rcon)
  BY <1>1
<1> HIDE DEF rcon
<1>3. \A j \in 0..9 : rcon[j] = IF j = 0 THEN 1 ELSE Twice(rcon[j - 1], \h11B)
  BY <1>2 DEF RconOf
<1>4. rcon[0] \in Byte
  BY <1>3 DEF Byte
<1>5. \A j \in 0..8 : rcon[j] \in Byte => rcon[j + 1] \in Byte
  <2> TAKE j \in 0..8
  <2> HAVE rcon[j] \in Byte
  <2>1. rcon[j + 1] = Double(rcon[j])
    BY <1>3 DEF Double
  <2> QED
    BY <2>1, DoubleType
<1>6. \A j \in 0..9 : rcon[j] \in Byte
  BY <1>4, <1>5
<1> QED
  BY <1>6 DEF rcon, RconOf

LEMMA KeyGrows ==
  ASSUME AesExpand, keys \in Seq(Columns), Len(keys) \in 1..10
  PROVE  keys' \in Seq(Columns) /\ Len(keys') = Len(keys) + 1
<1> DEFINE rcon[j \in 0..9] == IF j = 0 THEN 1 ELSE Twice(rcon[j - 1], \h11B)
           words == keys[Len(keys)]
           turned == SubWord(RotR(words[4], 1))
           marked == Xor(turned, <<rcon[Len(keys) - 1], 0, 0, 0>>)
           w1 == Xor(words[1], marked)
           w2 == Xor(words[2], w1)
           w3 == Xor(words[3], w2)
           w4 == Xor(words[4], w3)
<1>1. keys' = Append(keys, <<w1, w2, w3, w4>>)
  BY DEF AesExpand
<1>2. rcon[Len(keys) - 1] \in Byte
  <2>1. Len(keys) - 1 \in 0..9
    OBVIOUS
  <2>2. \A j \in 0..9 : rcon[j] \in Byte
    BY RconIs
  <2> HIDE DEF rcon
  <2> QED
    BY <2>1, <2>2
<1> HIDE DEF rcon
<1>3. words[1] \in Column /\ words[2] \in Column /\ words[3] \in Column /\ words[4] \in Column
  <2>1. words \in Columns
    OBVIOUS
  <2> HIDE DEF words
  <2> QED
    BY <2>1 DEF Columns
<1> HIDE DEF words
<1>4. RotR(words[4], 1) \in Column
  BY <1>3, RotRAtPlace
<1>5. turned \in Column
  BY <1>4, SubWordIs
<1>6. <<rcon[Len(keys) - 1], 0, 0, 0>> \in Column
  <2>1. 0 \in Byte
    BY DEF Byte
  <2> QED
    BY <1>2, <2>1, ColumnOfBytes
<1> HIDE DEF turned
<1>7. marked \in Column
  BY <1>5, <1>6, ColumnSum
<1> HIDE DEF marked
<1>8. w1 \in Column
  BY <1>3, <1>7, ColumnSum
<1> HIDE DEF w1
<1>9. w2 \in Column
  BY <1>3, <1>8, ColumnSum
<1> HIDE DEF w2
<1>10. w3 \in Column
  BY <1>3, <1>9, ColumnSum
<1> HIDE DEF w3
<1>11. w4 \in Column
  BY <1>3, <1>10, ColumnSum
<1> HIDE DEF w4
<1>12. <<w1, w2, w3, w4>> \in Columns
  BY <1>8, <1>9, <1>10, <1>11 DEF Columns
<1> QED
  BY <1>1, <1>12

(* A round of encryption, and the schedule InvKeyExpansion leaves. *)
AesTurn(r, b, k) ==
  LET s == SubBytes_ShiftRows(AddRoundKey(b, k[r + 1]))
  IN  IF r = 9 THEN AddRoundKey(s, k[11]) ELSE MixColumns(s)
Inverted(k) == [i \in 1..11 |-> IF i \in 2..10 THEN InvMixColumns(k[i]) ELSE k[i]]

(* The blocks that encryption went through, as many rounds as it has made. *)
AesTrail(h, k, rounds) ==
  /\ h \in [0..10 -> Columns] /\ h[0] = plain
  /\ \A r \in 0..9 : r < rounds => h[r + 1] = AesTurn(r, h[r], k)

(* Decryption stands, once the last key is off, with the block that the    *)
(* tables gave in the round of encryption it has come back to.             *)
AesRetraces ==
  /\ cipher = "aes" /\ plain \in Columns
  /\ \/ /\ phase = "expand" /\ round = 0 /\ state = plain
        /\ keys \in Seq(Columns) /\ Len(keys) \in 1..10
     \/ /\ phase \in {"encrypt", "inverse", "decrypt", "done"} /\ round \in 0..10
        /\ \E k, h :
             /\ k \in [1..11 -> Columns]
             /\ AesTrail(h, k, IF phase = "encrypt" THEN round ELSE 10)
             /\ phase = "encrypt" => keys = k /\ state = h[round] /\ round < 10
             /\ phase = "inverse" => keys = k /\ state = h[10] /\ round = 10
             /\ phase = "decrypt" =>
                  /\ keys = Inverted(k)
                  /\ state = IF round = 10 THEN h[10]
                             ELSE SubBytes_ShiftRows(AddRoundKey(h[round], k[round + 1]))
             /\ phase = "done" => state = plain

LEMMA InitAes == ASSUME AesInit PROVE AesRetraces
<1>1. PICK key \in AesKeys : keys = <<key>>
  BY DEF AesInit
<1>2. key \in Columns /\ plain \in Columns
  BY AesAssumption DEF AesInit
<1>3. keys \in Seq(Columns) /\ Len(keys) = 1
  BY <1>1, <1>2
<1> QED
  BY <1>2, <1>3 DEF AesInit, AesRetraces

LEMMA AesTurnIs ==
  ASSUME NEW k \in [1..11 -> Columns], NEW r \in 0..9, NEW b \in Columns
  PROVE  /\ AddRoundKey(b, k[r + 1]) \in Columns
         /\ SubBytes_ShiftRows(AddRoundKey(b, k[r + 1])) \in Columns
         /\ AesTurn(r, b, k) \in Columns
<1> DEFINE x == AddRoundKey(b, k[r + 1])
           s == SubBytes_ShiftRows(x)
<1>1. k[r + 1] \in Columns /\ k[11] \in Columns
  OBVIOUS
<1>2. x \in Columns
  BY <1>1, BlockSum
<1>3. AesTurn(r, b, k) = IF r = 9 THEN AddRoundKey(s, k[11]) ELSE MixColumns(s)
  BY DEF AesTurn
<1> HIDE DEF x
<1>4. s \in Columns
  BY <1>2, BlockSubstituted
<1> HIDE DEF s
<1>5. AddRoundKey(s, k[11]) \in Columns /\ MixColumns(s) \in Columns
  BY <1>1, <1>4, BlockSum, BlockMixed
<1> QED
  BY <1>2, <1>3, <1>4, <1>5 DEF x, s

LEMMA AesExpandKeeps == ASSUME AesRetraces, AesExpand PROVE AesRetraces'
<1>1. /\ cipher' = "aes" /\ plain' = plain /\ plain \in Columns /\ state' = plain
      /\ round' = 0 /\ keys \in Seq(Columns) /\ Len(keys) \in 1..10
  BY DEF AesRetraces, AesExpand
<1>2. keys' \in Seq(Columns) /\ Len(keys') = Len(keys) + 1
  BY <1>1, KeyGrows
<1>3. CASE Len(keys) # 10
  <2>1. phase' = "expand"
    BY <1>1, <1>3 DEF AesExpand, AesRetraces
  <2>2. Len(keys') \in 1..10
    <3>1. PICK n : n = Len(keys)
      OBVIOUS
    <3>2. PICK m : m = Len(keys')
      OBVIOUS
    <3>3. n \in 1..10 /\ n # 10 /\ m = n + 1
      BY <1>1, <1>2, <1>3, <3>1, <3>2
    <3> QED
      BY <3>2, <3>3
  <2> QED
    BY <1>1, <1>2, <2>1, <2>2 DEF AesRetraces
<1>4. CASE Len(keys) = 10
  <2>1. phase' = "encrypt"
    BY <1>4 DEF AesExpand
  <2>2. keys' \in [1..11 -> Columns]
    BY <1>2, <1>4
  <2> DEFINE w == [r \in 0..10 |-> plain]
  <2>3. w \in [0..10 -> Columns] /\ w[0] = plain'
    BY <1>1
  <2> HIDE DEF w
  <2>4. PICK h : h = w
    OBVIOUS
  <2>5. PICK k : k = keys'
    OBVIOUS
  <2>6. AesTrail(h, k, 0)'
    BY <2>3, <2>4 DEF AesTrail
  <2> QED
    BY <1>1, <2>1, <2>2, <2>3, <2>4, <2>5, <2>6 DEF AesRetraces
<1> QED
  BY <1>3, <1>4

LEMMA AesEncryptKeeps == ASSUME AesRetraces, AesEncrypt PROVE AesRetraces'
<1>1. PICK k, h : /\ k \in [1..11 -> Columns] /\ AesTrail(h, k, round)
                  /\ keys = k /\ state = h[round] /\ round < 10
  BY DEF AesRetraces, AesEncrypt
<1>2. PICK r : r = round
  OBVIOUS
<1>3. /\ cipher' = "aes" /\ plain' = plain /\ plain \in Columns /\ keys' = k
      /\ r \in 0..9 /\ round' = r + 1 /\ h \in [0..10 -> Columns] /\ h[0] = plain
  BY <1>1, <1>2 DEF AesRetraces, AesEncrypt, AesTrail
<1>4. PICK n : n = AesTurn(r, h[r], k)
  OBVIOUS
<1>5. n \in Columns
  BY <1>1, <1>3, <1>4, AesTurnIs
<1>6. /\ state' = n
      /\ phase' = IF r = 9 THEN "inverse" ELSE "encrypt"
  BY <1>1, <1>2, <1>4 DEF AesEncrypt, AesTurn
<1>7. PICK m : /\ m \in [0..10 -> Columns] /\ m[r + 1] = n
               /\ \A i \in 0..10 : i # r + 1 => m[i] = h[i]
  <2> DEFINE w == [h EXCEPT ![r + 1] = n]
  <2>1. /\ w \in [0..10 -> Columns] /\ w[r + 1] = n
        /\ \A i \in 0..10 : i # r + 1 => w[i] = h[i]
    BY <1>3, <1>5
  <2> HIDE DEF w
  <2> QED
    BY <2>1
<1>8. ASSUME NEW i \in 0..9, i < r + 1 PROVE m[i + 1] = AesTurn(i, m[i], k)
  <2>1. m[i] = h[i]
    BY <1>3, <1>7, <1>8
  <2>2. CASE i = r
    BY <1>4, <1>7, <2>1, <2>2
  <2>3. CASE i # r
    <3>1. i < r /\ i + 1 # r + 1 /\ i + 1 \in 0..10
      BY <1>3, <1>8, <2>3
    <3>2. h[i + 1] = AesTurn(i, h[i], k)
      BY <1>1, <1>2, <3>1 DEF AesTrail
    <3> QED
      BY <1>7, <2>1, <3>1, <3>2
  <2> QED
    BY <2>2, <2>3
<1>9. m[0] = plain
  BY <1>3, <1>7
<1>10. AesTrail(m, k, r + 1)'
  BY <1>3, <1>7, <1>8, <1>9 DEF AesTrail
<1>11. r = 9 => AesTrail(m, k, 10)'
  BY <1>10
<1>12. /\ phase' = "encrypt" => /\ AesTrail(m, k, round)' /\ keys' = k
                                /\ state' = m[round'] /\ round' < 10
       /\ phase' = "inverse" => /\ AesTrail(m, k, 10)' /\ keys' = k
                                /\ state' = m[10] /\ round' = 10
  BY <1>3, <1>6, <1>7, <1>10, <1>11
<1> QED
  BY <1>1, <1>3, <1>6, <1>12 DEF AesRetraces

LEMMA AesInverseKeeps == ASSUME AesRetraces, AesInverse PROVE AesRetraces'
<1>1. PICK k, h : /\ k \in [1..11 -> Columns] /\ AesTrail(h, k, 10)
                  /\ keys = k /\ state = h[10] /\ round = 10
  BY DEF AesRetraces, AesInverse
<1>2. /\ cipher' = "aes" /\ plain' = plain /\ plain \in Columns /\ round' = 10
      /\ state' = h[10] /\ phase' = "decrypt"
  BY <1>1 DEF AesRetraces, AesInverse
<1>3. keys' = Inverted(k)
  <2> DEFINE f == Inverted(k)
  <2>1. keys' = Vector(f)
    BY <1>1 DEF AesInverse, Inverted
  <2>2. DOMAIN f = 1..11 /\ f = [i \in 1..11 |-> f[i]]
    BY DEF Inverted
  <2> HIDE DEF f
  <2>3. Vector(f) = f
    BY <2>2, VectorIs
  <2> QED
    BY <2>1, <2>3 DEF f
<1>4. AesTrail(h, k, 10)'
  BY <1>1, <1>2 DEF AesTrail
<1> QED
  BY <1>1, <1>2, <1>3, <1>4 DEF AesRetraces

LEMMA AesDecryptKeeps == ASSUME AesRetraces, AesDecrypt PROVE AesRetraces'
<1>1. PICK k, h : /\ k \in [1..11 -> Columns] /\ AesTrail(h, k, 10)
                  /\ keys = Inverted(k)
                  /\ state = IF round = 10 THEN h[10]
                             ELSE SubBytes_ShiftRows(AddRoundKey(h[round], k[round + 1]))
  BY DEF AesRetraces, AesDecrypt
<1>2. PICK r : r = round
  OBVIOUS
<1>3. /\ cipher' = "aes" /\ plain' = plain /\ plain \in Columns /\ keys' = Inverted(k)
      /\ r \in 0..10 /\ h \in [0..10 -> Columns] /\ h[0] = plain
      /\ IF r = 0 THEN phase' = "done" /\ round' = 0
                  ELSE round' = r - 1 /\ phase' = "decrypt"
  BY <1>1, <1>2 DEF AesRetraces, AesDecrypt, AesTrail
<1>4. AesTrail(h, k, 10)'
  BY <1>1, <1>3 DEF AesTrail
<1> DEFINE s(i) == SubBytes_ShiftRows(AddRoundKey(h[i], k[i + 1]))
<1>5. CASE r = 10
  <2>1. h[9] \in Columns /\ k[11] \in Columns /\ 9 \in 0..9
    BY <1>1, <1>3
  <2>2. s(9) \in Columns
    BY <1>1, <2>1, AesTurnIs
  <2>3. h[10] = AddRoundKey(s(9), k[11])
    BY <1>1 DEF AesTrail, AesTurn
  <2>4. state' = AddRoundKey(h[10], k[11])
    BY <1>1, <1>2, <1>5 DEF AesDecrypt, Inverted
  <2>5. state' = s(9)
    <3> HIDE DEF s
    <3> QED
      BY <2>1, <2>2, <2>3, <2>4, BlockSum
  <2>6. round' = 9 /\ phase' = "decrypt"
    BY <1>3, <1>5
  <2> QED
    BY <1>1, <1>3, <1>4, <2>5, <2>6 DEF AesRetraces
<1>6. CASE r \in 1..9
  <2>1. PICK i : i = r - 1
    OBVIOUS
  <2>2. /\ i \in 0..8 /\ i \in 0..9 /\ i # 9 /\ i + 1 = r
        /\ h[i] \in Columns /\ h[r] \in Columns /\ k[r + 1] \in Columns
    BY <1>1, <1>3, <1>6, <2>1
  <2>3. h[r] = MixColumns(s(i))
    <3>1. h[i + 1] = AesTurn(i, h[i], k)
      BY <1>1, <2>2 DEF AesTrail
    <3> QED
      BY <2>2, <3>1 DEF AesTurn
  <2>4. s(i) \in Columns
    BY <1>1, <2>2, AesTurnIs
  <2> DEFINE x == AddRoundKey(h[r], k[r + 1])
  <2>5. x \in Columns
    BY <2>2, BlockSum
  <2>6. state = SubBytes_ShiftRows(x)
    BY <1>1, <1>2, <1>6
  <2>7. Inverted(k)[r + 1] = InvMixColumns(k[r + 1])
    BY <1>6 DEF Inverted
  <2>8. state' = AddRoundKey(InvMixColumns(InvSubBytes_ShiftRows(state)),
                             InvMixColumns(k[r + 1]))
    BY <1>1, <1>2, <1>6, <2>7 DEF AesDecrypt
  <2>9. InvSubBytes_ShiftRows(state) = x
    <3> HIDE DEF x
    <3> QED
      BY <2>5, <2>6, BlockSubstituted
  <2>10. AddRoundKey(InvMixColumns(x), InvMixColumns(k[r + 1])) = InvMixColumns(h[r])
    BY <2>2, BlockMixedSum
  <2>11. InvMixColumns(h[r]) = s(i)
    <3> HIDE DEF s
    <3> QED
      BY <2>3, <2>4, BlockMixed
  <2>12. state' = s(i)
    BY <2>8, <2>9, <2>10, <2>11
  <2>13. round' = i /\ phase' = "decrypt"
    BY <1>3, <1>6, <2>1
  <2> QED
    BY <1>1, <1>3, <1>4, <2>2, <2>12, <2>13 DEF AesRetraces
<1>7. CASE r = 0
  <2>1. h[0] \in Columns /\ k[1] \in Columns
    BY <1>1, <1>3
  <2> DEFINE x == AddRoundKey(h[0], k[1])
  <2>2. x \in Columns /\ AddRoundKey(x, k[1]) = h[0]
    BY <2>1, BlockSum
  <2>3. state = SubBytes_ShiftRows(x)
    BY <1>1, <1>2, <1>7
  <2>4. Inverted(k)[1] = k[1]
    BY DEF Inverted
  <2>5. state' = AddRoundKey(InvSubBytes_ShiftRows(state), k[1])
    BY <1>1, <1>2, <1>7, <2>4 DEF AesDecrypt
  <2>6. InvSubBytes_ShiftRows(state) = x
    <3> HIDE DEF x
    <3> QED
      BY <2>2, <2>3, BlockSubstituted
  <2>7. state' = plain'
    BY <1>3, <2>2, <2>5, <2>6
  <2>8. phase' = "done" /\ round' = 0
    BY <1>3, <1>7
  <2> QED
    BY <1>1, <1>3, <1>4, <2>7, <2>8 DEF AesRetraces
<1> QED
  BY <1>3, <1>5, <1>6, <1>7

(* Decryption by AES_decrypt gives back the block AES_encrypt was given,   *)
(* for every key and every block.                                          *)
THEOREM AesRestores == AesSpec => []InverseRestores
<1>1. AesInit => AesRetraces
  BY InitAes
<1>2. AesRetraces /\ [AesNext]_cipherVars => AesRetraces'
  <2> SUFFICES ASSUME AesRetraces, [AesNext]_cipherVars PROVE AesRetraces'
    OBVIOUS
  <2>1. CASE AesExpand
    BY <2>1, AesExpandKeeps
  <2>2. CASE AesEncrypt
    BY <2>2, AesEncryptKeeps
  <2>3. CASE AesInverse
    BY <2>3, AesInverseKeeps
  <2>4. CASE AesDecrypt
    BY <2>4, AesDecryptKeeps
  <2>5. CASE UNCHANGED cipherVars
    BY <2>5 DEF cipherVars, AesRetraces, AesTrail
  <2> QED
    BY <2>1, <2>2, <2>3, <2>4, <2>5 DEF AesNext
<1>3. AesRetraces => InverseRestores
  BY DEF AesRetraces, InverseRestores
<1> QED
  BY <1>1, <1>2, <1>3, PTL DEF AesSpec

-----------------------------------------------------------------------------
(***************************************************************************)
(* Digests: the blocks compressed so far and what the buffer holds are the *)
(* bytes given so far; what closes the digest pads them as the reference   *)
(* cuts.                                                                   *)
(***************************************************************************)

Texts == Seq(Int)
Sizes == {8, 64}

LEMMA SizesAre ==
  8 \in Sizes /\ 64 \in Sizes /\ \A size \in Sizes : size \in Nat /\ (size = 8 \/ size = 64)
BY DEF Sizes

LEMMA PieceIs ==
  ASSUME NEW f \in Int, NEW n \in Nat
  PROVE  /\ Piece(f, n) \in Texts /\ Len(Piece(f, n)) = n
         /\ \A i \in 1..n : Piece(f, n)[i] = f + i
  BY DEF Piece, Texts

LEMMA ZerosIs ==
  ASSUME NEW n \in Nat
  PROVE  /\ Zeros(n) \in Texts /\ Len(Zeros(n)) = n
         /\ \A i \in 1..n : Zeros(n)[i] = 0
  BY DEF Zeros, Texts

LEMMA SameText ==
  ASSUME NEW a \in Texts, NEW b \in Texts, Len(a) = Len(b), \A i \in 1..Len(a) : a[i] = b[i]
  PROVE  a = b
BY SeqEqual DEF Texts

(* A sequence that counts on from a number is a piece. *)
LEMMA PieceFound ==
  ASSUME NEW text \in Texts, NEW f \in Int, \A i \in 1..Len(text) : text[i] = f + i
  PROVE  text = Piece(f, Len(text))
<1>1. Len(text) \in Nat
  BY LenProperties DEF Texts
<1> DEFINE p == Piece(f, Len(text))
<1>2. p \in Texts /\ Len(p) = Len(text) /\ \A i \in 1..Len(text) : p[i] = f + i
  BY <1>1, PieceIs
<1> HIDE DEF p
<1>3. \A i \in 1..Len(text) : text[i] = p[i]
  BY <1>2
<1>4. text = p
  BY <1>2, <1>3, SameText
<1> QED
  BY <1>4 DEF p

LEMMA SubSeqIs ==
  ASSUME NEW text \in Texts, NEW a \in Nat, NEW b \in Nat, a <= b, b <= Len(text)
  PROVE  /\ SubSeq(text, a + 1, b) \in Texts /\ Len(SubSeq(text, a + 1, b)) = b - a
         /\ \A i \in 1..b - a : SubSeq(text, a + 1, b)[i] = text[a + i]
<1>1. \A i \in a + 1 .. b : text[i] \in Int
  BY ElementOfSeq, LenProperties DEF Texts
<1>2. /\ SubSeq(text, a + 1, b) \in Seq(Int)
      /\ Len(SubSeq(text, a + 1, b)) = IF a + 1 <= b THEN b - (a + 1) + 1 ELSE 0
      /\ \A i \in 1 .. b - (a + 1) + 1 : SubSeq(text, a + 1, b)[i] = text[a + 1 + i - 1]
  BY <1>1, SubSeqProperties
<1>3. b - (a + 1) + 1 = b - a /\ \A i \in 1..b - a : a + 1 + i - 1 = a + i
  OBVIOUS
<1>4. (IF a + 1 <= b THEN b - (a + 1) + 1 ELSE 0) = b - a
  OBVIOUS
<1>5. \A i \in 1..b - a : SubSeq(text, a + 1, b)[i] = text[a + i]
  BY <1>2, <1>3
<1>6. SubSeq(text, a + 1, b) \in Texts
  BY ONLY <1>2 DEF Texts
<1>7. Len(SubSeq(text, a + 1, b)) = b - a
  BY ONLY <1>2, <1>4
<1> QED
  BY ONLY <1>5, <1>6, <1>7

LEMMA SubSeqOfPiece ==
  ASSUME NEW f \in Int, NEW n \in Nat, NEW a \in Nat, NEW b \in Nat,
         a <= b, b <= n
  PROVE  SubSeq(Piece(f, n), a + 1, b) = Piece(f + a, b - a)
<1> DEFINE s == SubSeq(Piece(f, n), a + 1, b)
<1>1. s \in Texts /\ Len(s) = b - a /\ \A i \in 1..b - a : s[i] = Piece(f, n)[a + i]
  BY PieceIs, SubSeqIs, SMTT(30)
<1>2. \A i \in 1..Len(s) : s[i] = (f + a) + i
  BY <1>1, PieceIs
<1> HIDE DEF s
<1>3. f + a \in Int
  OBVIOUS
<1>4. s = Piece(f + a, Len(s))
  BY <1>1, <1>2, <1>3, PieceFound
<1> QED
  BY <1>1, <1>4 DEF s

LEMMA PlacedIs ==
  ASSUME NEW b \in Texts, NEW o \in Nat, NEW text \in Texts, o + Len(text) <= Len(b)
  PROVE  /\ Placed(b, o, text) \in Texts /\ Len(Placed(b, o, text)) = Len(b)
         /\ \A i \in 1..Len(b) : Placed(b, o, text)[i] =
              IF i <= o THEN b[i]
              ELSE IF i <= o + Len(text) THEN text[i - o] ELSE b[i]
<1> DEFINE n == Len(text)
           c == Len(b)
           front == SubSeq(b, 1, o)
           back == SubSeq(b, o + n + 1, c)
<1>1. n \in Nat /\ c \in Nat
  BY LenProperties DEF Texts
<1>2. front \in Texts /\ Len(front) = o /\ \A i \in 1..o : front[i] = b[i]
  <2>1. 0 \in Nat /\ 0 <= o /\ o <= Len(b) /\ o \in Nat
    BY <1>1
  <2>2. /\ SubSeq(b, 0 + 1, o) \in Texts /\ Len(SubSeq(b, 0 + 1, o)) = o - 0
        /\ \A i \in 1..o - 0 : SubSeq(b, 0 + 1, o)[i] = b[0 + i]
    BY <2>1, SubSeqIs
  <2> QED
    BY <2>2
<1>3. back \in Texts /\ Len(back) = c - (o + n)
        /\ \A i \in 1..c - (o + n) : back[i] = b[o + n + i]
  <2>1. o + n \in Nat /\ o + n <= c /\ c <= Len(b)
    BY <1>1
  <2> QED
    BY <1>1, <2>1, SubSeqIs
<1>4. /\ front \o text \in Texts /\ Len(front \o text) = o + n
      /\ \A i \in 1..o + n : (front \o text)[i] = IF i <= o THEN front[i] ELSE text[i - o]
  <2> HIDE DEF front
  <2> QED
    BY <1>2, ConcatProperties DEF Texts
<1> DEFINE all == (front \o text) \o back
<1>5. /\ all \in Texts /\ Len(all) = c
      /\ \A i \in 1..c : all[i] = IF i <= o + n THEN (front \o text)[i] ELSE back[i - (o + n)]
  <2> HIDE DEF front, back
  <2>1. /\ all \in Seq(Int)
        /\ Len(all) = Len(front \o text) + Len(back)
        /\ \A i \in 1..Len(front \o text) + Len(back) :
             all[i] = IF i <= Len(front \o text) THEN (front \o text)[i]
                      ELSE back[i - Len(front \o text)]
    <3> DEFINE u == front \o text
    <3>1. u \in Seq(Int) /\ back \in Seq(Int)
      BY <1>3, <1>4 DEF Texts
    <3> HIDE DEF u
    <3>2. /\ u \o back \in Seq(Int) /\ Len(u \o back) = Len(u) + Len(back)
          /\ \A i \in 1..Len(u) + Len(back) :
               (u \o back)[i] = IF i <= Len(u) THEN u[i] ELSE back[i - Len(u)]
      BY ONLY <3>1, ConcatProperties
    <3> QED
      BY <3>2 DEF u
  <2>2. Len(front \o text) = o + n /\ Len(front \o text) + Len(back) = c
    BY <1>1, <1>3, <1>4
  <2> HIDE DEF all
  <2> QED
    BY <2>1, <2>2 DEF Texts
<1>6. Placed(b, o, text) = all
  BY DEF Placed
<1> HIDE DEF all, front, back
<1>7. ASSUME NEW i \in 1..c
      PROVE  all[i] = IF i <= o THEN b[i] ELSE IF i <= o + n THEN text[i - o] ELSE b[i]
  <2>1. CASE i <= o
    BY <1>1, <1>2, <1>4, <1>5, <2>1
  <2>2. CASE o < i /\ i <= o + n
    BY <1>1, <1>4, <1>5, <2>2
  <2>3. CASE o + n < i
    <3>1. i - (o + n) \in 1..c - (o + n) /\ o + n + (i - (o + n)) = i
      BY <1>1, <2>3
    <3> QED
      BY <1>1, <1>3, <1>5, <2>3, <3>1
  <2> QED
    BY <1>1, <2>1, <2>2, <2>3
<1> QED
  BY <1>1, <1>5, <1>6, <1>7

(* What the blocks are made of: pieces of one size, each where the last   *)
(* one ended.                                                              *)
Pieces(s, from, size) ==
  /\ s \in Seq(Texts)
  /\ \A j \in 1..Len(s) : s[j] = Piece(from + size * (j - 1), size)

LEMMA WholeIs ==
  ASSUME NEW f \in Int, NEW n \in Nat, NEW m \in Nat, NEW size \in Sizes,
         m * size <= n
  PROVE  Pieces(Whole(Piece(f, n), m, size), f, size)
         /\ Len(Whole(Piece(f, n), m, size)) = m
<1> DEFINE e(j) == SubSeq(Piece(f, n), (j - 1) * size + 1, j * size)
<1>5. \A a, b \in Nat : a <= b /\ b <= n => SubSeq(Piece(f, n), a + 1, b) = Piece(f + a, b - a)
  BY SubSeqOfPiece, ZenonT(60)
<1>1. ASSUME NEW j \in 1..m PROVE e(j) = Piece(f + size * (j - 1), size)
  <2>1. CASE size = 8
    <3>1. SubSeq(Piece(f, n), 8 * (j - 1) + 1, 8 * j) = Piece(f + 8 * (j - 1), 8 * j - 8 * (j - 1))
      <4>1. 8 * (j - 1) \in Nat /\ 8 * j \in Nat
            /\ 8 * (j - 1) <= 8 * j /\ 8 * j <= n
        BY <2>1
      <4> QED
        BY ONLY <4>1, <1>5
    <3> QED
      BY <2>1, <3>1
  <2>2. CASE size = 64
    <3>1. SubSeq(Piece(f, n), 64 * (j - 1) + 1, 64 * j)
            = Piece(f + 64 * (j - 1), 64 * j - 64 * (j - 1))
      <4>1. 64 * (j - 1) \in Nat /\ 64 * j \in Nat
            /\ 64 * (j - 1) <= 64 * j /\ 64 * j <= n
        BY <2>2
      <4> QED
        BY ONLY <4>1, <1>5
    <3> QED
      BY <2>2, <3>1
  <2> QED
    BY <2>1, <2>2, SizesAre
<1>2. \A j \in 1..m : e(j) \in Texts
  <2>1. \A j \in 1..m : Piece(f + size * (j - 1), size) \in Texts
    <3>1. TAKE j \in 1..m
    <3>2. f + size * (j - 1) \in Int /\ size \in Nat
      <4>1. CASE size = 8
        BY <4>1
      <4>2. CASE size = 64
        BY <4>2
      <4> QED
        BY <4>1, <4>2, SizesAre
    <3> QED
      BY ONLY <3>2, PieceIs
  <2> QED
    BY <1>1, <2>1
<1> HIDE DEF e
<1>3. [j \in 1..m |-> e(j)] \in Seq(Texts) /\ Len([j \in 1..m |-> e(j)]) = m
  BY <1>2
<1>4. Whole(Piece(f, n), m, size) = [j \in 1..m |-> e(j)]
  BY DEF Whole, e
<1> QED
  BY <1>1, <1>3, <1>4 DEF Pieces

LEMMA PiecesJoin ==
  ASSUME NEW s, NEW text, NEW f \in Int, NEW size \in Sizes, Pieces(s, f, size),
         Pieces(text, f + size * Len(s), size)
  PROVE  Pieces(s \o text, f, size) /\ Len(s \o text) = Len(s) + Len(text)
<1>1. /\ Len(s) \in Nat /\ Len(text) \in Nat
      /\ s \o text \in Seq(Texts) /\ Len(s \o text) = Len(s) + Len(text)
      /\ \A i \in 1 .. Len(s) + Len(text) :
           (s \o text)[i] = IF i <= Len(s) THEN s[i] ELSE text[i - Len(s)]
  BY ConcatProperties, LenProperties DEF Pieces
<1>2. ASSUME NEW j \in 1..Len(s) + Len(text)
      PROVE  (s \o text)[j] = Piece(f + size * (j - 1), size)
  <2>1. CASE j <= Len(s)
    BY <1>1, <2>1 DEF Pieces
  <2>2. CASE j > Len(s)
    <3>1. j - Len(s) \in 1..Len(text)
      BY <1>1, <2>2
    <3>2. text[j - Len(s)] = Piece((f + size * Len(s)) + size * ((j - Len(s)) - 1), size)
      BY <3>1 DEF Pieces
    <3>3. (f + size * Len(s)) + size * ((j - Len(s)) - 1) = f + size * (j - 1)
      BY <1>1, SizesAre
    <3> QED
      BY <1>1, <2>2, <3>2, <3>3
  <2> QED
    BY <1>1, <2>1, <2>2
<1> QED
  BY <1>1, <1>2 DEF Pieces

LEMMA OnePiece ==
  ASSUME NEW f \in Int, NEW size \in Sizes, NEW b, b = Piece(f, size)
  PROVE  Pieces(<<b>>, f, size) /\ Len(<<b>>) = 1
<1>1. b \in Texts
  BY PieceIs, SizesAre
<1>2. f + size * (1 - 1) = f
  BY SizesAre
<1> QED
  BY <1>1, <1>2 DEF Pieces

LEMMA NoPiece == ASSUME NEW f, NEW size PROVE Pieces(<<>>, f, size) /\ Len(<<>>) = 0
  BY DEF Pieces

-----------------------------------------------------------------------------
(* What was given so far is what has been compressed and what is buffered. *)

(* The buffer of magma_cmac_update keeps back a whole block, and its other *)
(* bytes are zeros.                                                        *)
CmacLeads ==
  /\ Pieces(blocks, 0, 8) /\ given = 8 * Len(blocks) + len
  /\ len \in 0..8 /\ (len = 0 => given = 0)
  /\ buffer \in Texts /\ Len(buffer) = 8
  /\ \A i \in 1..8 : buffer[i] = IF i <= len THEN 8 * Len(blocks) + i ELSE 0

(* The buffer of md5_updt keeps what an earlier block has left in it.      *)
Md5Leads ==
  /\ Pieces(blocks, 0, 64) /\ given = 64 * Len(blocks) + (len % 64)
  /\ len = given
  /\ buffer \in Texts /\ Len(buffer) = 64
  /\ \A i \in 1..len % 64 : buffer[i] = 64 * Len(blocks) + i

(* The blocks of hash_X so far. *)
StribogLeads ==
  /\ blocks \in Seq(Texts) /\ given = 512 * Len(blocks) + len
  /\ \A j \in 1..Len(blocks) : blocks[j] = StribogBlocks[j]

DigestLeads ==
  /\ given \in Nat /\ len \in Nat /\ closed \in BOOLEAN
  /\ digest \in {"cmac", "md5", "stribog"}
  /\ ~closed => /\ digest = "cmac" => CmacLeads
                /\ digest = "md5" => Md5Leads
                /\ digest = "stribog" => StribogLeads
  /\ closed /\ digest = "stribog" => len < 512
  /\ DigestOfWhole

LEMMA InitDigest == ASSUME DigestInit PROVE DigestLeads
<1>1. closed = FALSE
  BY DEF DigestInit
<1>2. DigestOfWhole
  BY <1>1 DEF DigestOfWhole
<1>3. digest \in {"cmac", "md5", "stribog"} /\ given \in Nat /\ len = given
  <2>1. digest \in {"cmac", "md5", "stribog"} /\ len = given
    BY DEF DigestInit
  <2>2. given = 0 \/ given \in StribogBits
    BY DEF DigestInit
  <2>3. given \in Nat
    <3>1. CASE given = 0
      BY <3>1
    <3>2. CASE given \in StribogBits
      BY <3>2, DigestAssumption
    <3> QED
      BY <2>2, <3>1, <3>2
  <2> QED
    BY <2>1, <2>3
<1>4. ASSUME digest = "cmac" PROVE CmacLeads
  <2>1. buffer = Zeros(8) /\ given = 0 /\ len = 0 /\ blocks = <<>>
    BY <1>4 DEF DigestInit
  <2>2. buffer \in Texts /\ Len(buffer) = 8 /\ \A i \in 1..8 : buffer[i] = 0
    BY <2>1, ZerosIs
  <2>3. Pieces(blocks, 0, 8) /\ Len(blocks) = 0
    BY <2>1, NoPiece
  <2> QED
    BY <2>1, <2>2, <2>3 DEF CmacLeads
<1>5. ASSUME digest = "md5" PROVE Md5Leads
  <2>1. buffer = Zeros(64) /\ given = 0 /\ len = 0 /\ blocks = <<>>
    BY <1>5 DEF DigestInit
  <2>2. buffer \in Texts /\ Len(buffer) = 64
    BY <2>1, ZerosIs
  <2>3. Pieces(blocks, 0, 64) /\ Len(blocks) = 0
    BY <2>1, NoPiece
  <2>4. len % 64 = 0
    BY <2>1
  <2> QED
    BY <2>1, <2>2, <2>3, <2>4 DEF Md5Leads
<1>6. ASSUME digest = "stribog" PROVE StribogLeads
  <2>1. blocks = <<>>
    BY <1>6 DEF DigestInit
  <2> QED
    BY <1>3, <2>1 DEF StribogLeads
<1> QED
  BY <1>1, <1>2, <1>3, <1>4, <1>5, <1>6 DEF DigestLeads

(* magma_cmac_update, once the open block is filled. *)
CmacTaken(n, slen) ==
  LET filled == Placed(buffer, len % 8, Piece(given, slen))
      rest == Piece(given + slen, n - slen)
      whole == (Len(rest) - 1) \div 8
      tail == SubSeq(rest, 8 * whole + 1, Len(rest))
  IN  IF rest = <<>>
      THEN buffer' = filled /\ len' = len + slen /\ blocks' = blocks
      ELSE /\ buffer' = Placed(IF len + slen = 8 THEN Emptied(filled) ELSE filled,
                             0, tail)
           /\ len' = Len(tail)
           /\ blocks' = blocks \o (IF len + slen = 8 THEN <<filled>> ELSE <<>>)
                               \o Whole(rest, whole, 8)

(* The bytes a buffer holds of those it is to hold. *)
Holds(b, from, n) ==
  /\ b \in Texts /\ Len(b) = 8
  /\ \A i \in 1..8 : b[i] = IF i <= n THEN from + i ELSE 0

LEMMA CmacFills ==
  ASSUME NEW b, NEW from \in Nat, NEW l \in 0..8, NEW slen \in 0..8,
         Holds(b, from, l), l + slen <= 8, l = 8 => slen = 0, l = 0 => slen = 0
  PROVE  Holds(Placed(b, l % 8, Piece(from + l, slen)), from, l + slen)
<1> DEFINE o == l % 8
           text == Piece(from + l, slen)
           p == Placed(b, o, text)
<1>1. text \in Texts /\ Len(text) = slen /\ \A i \in 1..slen : text[i] = from + l + i
  <2>1. from + l \in Int /\ slen \in Nat
    OBVIOUS
  <2> QED
    BY ONLY <2>1, PieceIs
<1>2. o \in Nat /\ o + slen <= 8 /\ (l < 8 => o = l) /\ (l = 8 => o = 0)
  OBVIOUS
<1> HIDE DEF text, o
<1>3. /\ p \in Texts /\ Len(p) = Len(b)
      /\ \A i \in 1..Len(b) : p[i] = IF i <= o THEN b[i]
           ELSE IF i <= o + Len(text) THEN text[i - o] ELSE b[i]
  <2>1. b \in Texts /\ o + Len(text) <= Len(b)
    BY <1>1, <1>2 DEF Holds
  <2> QED
    BY ONLY <1>1, <1>2, <2>1, PlacedIs
<1> HIDE DEF p
<1>4. ASSUME NEW i \in 1..8 PROVE p[i] = IF i <= l + slen THEN from + i ELSE 0
  <2>1. b[i] = IF i <= l THEN from + i ELSE 0
    BY DEF Holds
  <2>2. p[i] = IF i <= o THEN b[i] ELSE IF i <= o + slen THEN text[i - o] ELSE b[i]
    BY <1>1, <1>3 DEF Holds
  <2>3. CASE slen = 0
    BY <1>2, <2>1, <2>2, <2>3
  <2>4. CASE slen > 0 /\ l < i /\ i <= l + slen
    <3>1. i - l \in 1..slen /\ o = l
      BY <1>2, <2>4
    <3>2. text[i - l] = from + l + (i - l)
      BY <1>1, <3>1
    <3>3. p[i] = text[i - l]
      BY <2>2, <2>4, <3>1
    <3> QED
      BY <2>4, <3>2, <3>3
  <2>5. CASE slen > 0 /\ ~(l < i /\ i <= l + slen)
    BY <1>2, <2>1, <2>2, <2>5
  <2> QED
    BY <2>3, <2>4, <2>5
<1> QED
  BY <1>3, <1>4 DEF Holds, p, text, o

(* The last bytes of a piece in an empty buffer. *)
LEMMA CmacRefills ==
  ASSUME NEW b, b \in Texts, Len(b) = 8, \A i \in 1..8 : b[i] = 0,
         NEW from \in Nat, NEW l \in 1..8
  PROVE  Holds(Placed(b, 0, Piece(from, l)), from, l)
<1> DEFINE text == Piece(from, l)
           p == Placed(b, 0, text)
<1>1. text \in Texts /\ Len(text) = l /\ \A i \in 1..l : text[i] = from + i
  <2>1. from \in Int /\ l \in Nat
    OBVIOUS
  <2> QED
    BY ONLY <2>1, PieceIs
<1> HIDE DEF text
<1>2. /\ p \in Texts /\ Len(p) = Len(b)
      /\ \A i \in 1..Len(b) : p[i] = IF i <= 0 THEN b[i]
           ELSE IF i <= 0 + Len(text) THEN text[i - 0] ELSE b[i]
  <2>1. 0 \in Nat /\ 0 + Len(text) <= Len(b)
    BY <1>1
  <2>2. b \in Texts
    OBVIOUS
  <2> HIDE DEF p
  <2> QED
    BY ONLY <1>1, <2>1, <2>2, PlacedIs DEF p
<1> HIDE DEF p
<1>3. ASSUME NEW i \in 1..8 PROVE p[i] = IF i <= l THEN from + i ELSE 0
  BY <1>1, <1>2, SMTT(30)
<1> QED
  BY <1>2, <1>3 DEF Holds, p, text

LEMMA HeldBlock ==
  ASSUME NEW b, NEW from \in Nat, Holds(b, from, 8)
  PROVE  b = Piece(from, 8)
<1>1. b \in Texts /\ \A i \in 1..Len(b) : b[i] = from + i
  BY DEF Holds
<1> QED
  <2>1. from \in Int /\ Len(b) = 8
    BY DEF Holds
  <2> QED
    BY ONLY <1>1, <2>1, PieceFound

(* The last block of some bytes, whole or not. *)
LEMMA LastOf ==
  ASSUME NEW r \in Nat, r > 0
  PROVE  LET w == (r - 1) \div 8 IN
         w \in Nat /\ r - 8 * w \in 1..8 /\ w * 8 <= r /\ 8 * w <= r
OBVIOUS

LEMMA CmacTakes ==
  ASSUME CmacLeads, given \in Nat, NEW n \in Nat, NEW slen,
         slen = (IF ~(len % 8 # 0) THEN 0 ELSE IF 8 - len > n THEN n ELSE 8 - len),
         CmacTaken(n, slen), given' = given + n
  PROVE  CmacLeads'
<1> DEFINE k == Len(blocks)
           filled == Placed(buffer, len % 8, Piece(given, slen))
           rest == Piece(given + slen, n - slen)
           whole == (Len(rest) - 1) \div 8
           tail == SubSeq(rest, 8 * whole + 1, Len(rest))
<1>1. /\ k \in Nat /\ given = 8 * k + len /\ len \in 0..8 /\ (len = 0 => given = 0)
      /\ Pieces(blocks, 0, 8) /\ Holds(buffer, 8 * k, len)
  BY LenProperties DEF CmacLeads, Holds, Pieces
<1>2. /\ slen \in 0..8 /\ len + slen <= 8 /\ slen <= n
      /\ (len = 8 => slen = 0) /\ (len = 0 => slen = 0)
      /\ (slen < n => len + slen = 8 \/ len = 0)
  BY <1>1
<1>3. Holds(filled, 8 * k, len + slen)
  <2>1. 8 * k \in Nat /\ given = 8 * k + len
    BY <1>1
  <2> HIDE DEF k
  <2> QED
    BY ONLY <1>1, <1>2, <2>1, CmacFills DEF filled
<1>4. n - slen \in Nat /\ given + slen \in Nat
  BY <1>2
<1>5. rest \in Texts /\ Len(rest) = n - slen
  BY ONLY <1>4, PieceIs DEF rest
<1>6. CASE n = slen
  <2>1. rest = <<>>
    BY <1>5, <1>6, EmptySeq DEF Texts
  <2>2. buffer' = filled /\ len' = len + slen /\ blocks' = blocks
    BY <2>1 DEF CmacTaken
  <2> HIDE DEF filled
  <2>3. given' = 8 * k + len' /\ len' \in 0..8 /\ (len' = 0 => given' = 0)
    BY <1>1, <1>2, <1>6, <2>2
  <2> QED
    BY <1>1, <1>3, <2>2, <2>3 DEF CmacLeads, Holds
<1>7. CASE slen < n
  <2> DEFINE front == IF len + slen = 8 THEN <<filled>> ELSE <<>>
             base == IF len + slen = 8 THEN Emptied(filled) ELSE filled
             w == (n - slen - 1) \div 8
             l == n - slen - 8 * w
  <2>1. rest # <<>>
    BY <1>5, <1>7
  <2>2. w \in Nat /\ l \in 1..8 /\ w * 8 <= n - slen /\ 8 * w <= n - slen
    <3>1. n - slen > 0
      BY <1>2, <1>4, <1>7
    <3> QED
      BY ONLY <1>4, <3>1, LastOf
  <2>3. whole = w
    BY <1>5
  <2>4. tail = Piece(given + slen + 8 * w, l)
    <3>1. SubSeq(Piece(given + slen, n - slen), 8 * w + 1, n - slen)
            = Piece(given + slen + 8 * w, n - slen - 8 * w)
      <4> DEFINE a == 8 * w
                 r == n - slen
                 f == given + slen
      <4>1. a \in Nat /\ a <= r /\ r <= r /\ r \in Nat /\ f \in Int
        BY <1>4, <2>2
      <4> HIDE DEF a, r, f
      <4>2. SubSeq(Piece(f, r), a + 1, r) = Piece(f + a, r - a)
        BY ONLY <4>1, SubSeqOfPiece
      <4> QED
        BY ONLY <4>2 DEF a, r, f
    <3> QED
      BY <1>5, <2>3, <3>1
  <2>5. /\ buffer' = Placed(base, 0, tail) /\ len' = Len(tail)
        /\ blocks' = blocks \o front \o Whole(rest, whole, 8)
    BY <2>1 DEF CmacTaken
  <2>6. Pieces(Whole(rest, w, 8), given + slen, 8) /\ Len(Whole(rest, w, 8)) = w
    <3>1. given + slen \in Int /\ 8 \in Sizes
      BY <1>4, SizesAre
    <3> HIDE DEF w
    <3> QED
      BY ONLY <1>4, <2>2, <3>1, WholeIs DEF rest
  <2>7. /\ Pieces(front, 8 * k, 8)
        /\ given + slen = 8 * k + 8 * Len(front)
        /\ Len(front) \in Nat
    <3>1. CASE len + slen = 8
      <4>1. filled = Piece(8 * k, 8)
        BY <1>1, <1>3, <3>1, HeldBlock
      <4> QED
        BY <1>1, <3>1, <4>1, OnePiece, SizesAre, SMTT(30)
    <3>2. CASE len + slen # 8
      BY <1>1, <1>2, <1>7, <3>2, NoPiece
    <3> QED
      BY <3>1, <3>2
  <2>8. base \in Texts /\ Len(base) = 8 /\ \A i \in 1..8 : base[i] = 0
    <3>1. CASE len + slen = 8
      <4>1. base = Zeros(8)
        BY <1>3, <3>1 DEF Emptied, Holds
      <4> QED
        BY ONLY <4>1, ZerosIs, ZenonT(60)
    <3>2. CASE len + slen # 8
      BY <1>1, <1>2, <1>3, <1>7, <3>2 DEF Holds
    <3> QED
      BY <3>1, <3>2
  <2>9. Len(tail) = l
    <3>1. given + slen + 8 * w \in Int /\ l \in Nat
      BY <1>4, <2>2
    <3> QED
      BY ONLY <2>4, <3>1, PieceIs
  <2>10. Holds(buffer', given + slen + 8 * w, l)
    <3>1. given + slen + 8 * w \in Nat
      BY <1>4, <2>2
    <3> HIDE DEF base, l
    <3> QED
      BY <2>2, <2>4, <2>5, <2>8, <3>1, CmacRefills
  <2> HIDE DEF front, rest, filled, tail
  <2>11. /\ Pieces(blocks \o front, 0, 8)
         /\ Len(blocks \o front) = k + Len(front)
    <3>1. Pieces(front, 0 + 8 * Len(blocks), 8)
      BY <1>1, <2>7
    <3> QED
      BY <1>1, <3>1, PiecesJoin, SizesAre
  <2> HIDE DEF k, w, l
  <2>12. /\ Pieces(blocks', 0, 8)
         /\ Len(blocks') = k + Len(front) + w
    <3>1. Pieces(Whole(rest, w, 8), 0 + 8 * Len(blocks \o front), 8)
      BY <1>1, <2>6, <2>7, <2>11
    <3>2. blocks' = (blocks \o front) \o Whole(rest, w, 8)
      BY <2>3, <2>5
    <3>3. 0 \in Int /\ 8 \in Sizes
      BY SizesAre
    <3>4. /\ Pieces((blocks \o front) \o Whole(rest, w, 8), 0, 8)
          /\ Len((blocks \o front) \o Whole(rest, w, 8))
               = Len(blocks \o front) + Len(Whole(rest, w, 8))
      BY ONLY <2>11, <3>1, <3>3, PiecesJoin
    <3> QED
      BY ONLY <2>6, <2>11, <3>2, <3>4
  <2>13. given + slen + 8 * w = 8 * Len(blocks')
    BY <1>1, <1>4, <2>2, <2>7, <2>12
  <2>14. given' = 8 * Len(blocks') + len' /\ len' = l
    <3>1. l = n - slen - 8 * w
      BY DEF l
    <3> QED
      BY <1>1, <1>2, <1>4, <2>2, <2>5, <2>9, <2>13, <3>1
  <2> QED
    <3>1. Holds(buffer', 8 * Len(blocks'), len')
      BY ONLY <2>10, <2>13, <2>14
    <3>2. len' \in 0..8 /\ len' # 0
      BY <2>2, <2>14
    <3> QED
      BY ONLY <2>12, <2>14, <3>1, <3>2 DEF CmacLeads, Holds
<1> QED
  BY <1>2, <1>6, <1>7

LEMMA CmacUpdateKeeps ==
  ASSUME DigestLeads, NEW n \in CmacPieces, CmacUpdate(n)
  PROVE  DigestLeads'
<1> DEFINE slen == IF ~(len % 8 # 0) THEN 0 ELSE IF 8 - len > n THEN n ELSE 8 - len
<1>1. /\ digest = "cmac" /\ ~closed /\ given' = given + n
      /\ digest' = digest /\ closed' = closed
      /\ CmacTaken(n, slen)
  BY DEF CmacUpdate, CmacTaken
<1>2. n \in Nat
  BY DigestAssumption
<1>3. CmacLeads /\ given \in Nat /\ closed \in BOOLEAN
  BY <1>1 DEF DigestLeads
<1>4. CmacLeads'
  BY <1>1, <1>2, <1>3, CmacTakes
<1>5. given' \in Nat /\ len' \in Nat
  <2>1. len' \in 0..8
    BY <1>4 DEF CmacLeads
  <2> QED
    BY <1>1, <1>2, <1>3, <2>1
<1> QED
  BY <1>1, <1>3, <1>4, <1>5 DEF DigestLeads, DigestOfWhole

(* The padded message: the bytes, 80 and zeros. *)
PaddedWith(p, f, z) ==
  /\ p \in Texts /\ Len(p) = f + 1 + z
  /\ \A i \in 1..f + 1 + z :
       p[i] = IF i <= f THEN i ELSE IF i = f + 1 THEN Closing ELSE 0

(* The zeros that fill a block after some bytes, 80 and a given room. *)
Fill(f, size, room) ==
  IF (f + 1 + room) % size = 0 THEN 0 ELSE size - ((f + 1 + room) % size)

LEMMA PaddedIs ==
  ASSUME NEW f \in Nat, NEW size \in Sizes, NEW room \in Nat, NEW z,
         z = Fill(f, size, room)
  PROVE  /\ z \in Nat /\ (f + 1 + room + z) % size = 0 /\ z < size
         /\ PaddedWith(Padded(Piece(0, f), size, room), f, z)
<1> DEFINE text == Piece(0, f)
           u == text \o <<Closing>>
           p == u \o Zeros(z)
<1>1. z \in Nat /\ (f + 1 + room + z) % size = 0 /\ z < size
  <2>1. CASE size = 8
    BY <2>1 DEF Fill
  <2>2. CASE size = 64
    BY <2>2 DEF Fill
  <2> QED
    BY <2>1, <2>2, SizesAre
<1>2. text \in Texts /\ Len(text) = f /\ \A i \in 1..f : text[i] = 0 + i
  <2>1. 0 \in Int /\ f \in Nat
    OBVIOUS
  <2> QED
    BY ONLY <2>1, PieceIs
<1>3. Closing \in Int /\ <<Closing>> \in Seq(Int) /\ Len(<<Closing>>) = 1
  BY DEF Closing
<1>4. Padded(Piece(0, f), size, room) = p
  <2>1. Len(text) = f
    BY <1>2
  <2> HIDE DEF text
  <2>2. Padded(text, size, room) =
          text \o <<Closing>> \o Zeros(IF (Len(text) + 1 + room) % size = 0 THEN 0
                                  ELSE size - ((Len(text) + 1 + room) % size))
    BY DEF Padded
  <2>3. z = IF (Len(text) + 1 + room) % size = 0 THEN 0
            ELSE size - ((Len(text) + 1 + room) % size)
    BY <2>1 DEF Fill
  <2> QED
    BY <2>2, <2>3 DEF text
<1> HIDE DEF text
<1>5. /\ u \in Seq(Int) /\ Len(u) = f + 1
      /\ \A i \in 1..f + 1 : u[i] = IF i <= f THEN text[i] ELSE <<Closing>>[i - f]
  <2>1. text \in Seq(Int)
    BY <1>2 DEF Texts
  <2> QED
    BY ONLY <1>2, <1>3, <2>1, ConcatProperties
<1> HIDE DEF u
<1>6. Zeros(z) \in Seq(Int) /\ Len(Zeros(z)) = z /\ \A i \in 1..z : Zeros(z)[i] = 0
  BY <1>1, ZerosIs DEF Texts
<1>7. /\ p \in Seq(Int) /\ Len(p) = f + 1 + z
      /\ \A i \in 1..f + 1 + z : p[i] = IF i <= f + 1 THEN u[i] ELSE Zeros(z)[i - (f + 1)]
  <2>1. /\ p \in Seq(Int) /\ Len(p) = Len(u) + Len(Zeros(z))
        /\ \A i \in 1..Len(u) + Len(Zeros(z)) :
             p[i] = IF i <= Len(u) THEN u[i] ELSE Zeros(z)[i - Len(u)]
    <3>1. u \in Seq(Int) /\ Zeros(z) \in Seq(Int)
      BY <1>5, <1>6
    <3> QED
      BY ONLY <3>1, ConcatProperties
  <2> HIDE DEF p
  <2> QED
    BY <1>5, <1>6, <2>1
<1> HIDE DEF p
<1>8. ASSUME NEW i \in 1..f + 1 + z
      PROVE  p[i] = IF i <= f THEN i ELSE IF i = f + 1 THEN Closing ELSE 0
  <2>1. CASE i <= f
    BY <1>2, <1>5, <1>7, <2>1
  <2>2. CASE i = f + 1
    BY <1>5, <1>7, <2>2
  <2>3. CASE i > f + 1
    <3>1. i - (f + 1) \in 1..z /\ ~(i <= f + 1) /\ ~(i <= f) /\ i # f + 1
      BY <1>1, <2>3
    <3>2. p[i] = Zeros(z)[i - (f + 1)]
      BY <1>7, <3>1
    <3>3. Zeros(z)[i - (f + 1)] = 0
      BY <1>6, <3>1
    <3> QED
      BY <3>1, <3>2, <3>3
  <2> QED
    BY <2>1, <2>2, <2>3
<1> QED
  BY <1>1, <1>4, <1>7, <1>8 DEF Texts, PaddedWith

LEMMA CutIs ==
  ASSUME NEW text \in Texts, NEW size \in Sizes, NEW n,
         n = (Len(text) + size - 1) \div size
  PROVE  /\ n \in Nat /\ Cut(text, size) \in Seq(Texts) /\ Len(Cut(text, size)) = n
         /\ \A j \in 1..n : Cut(text, size)[j] =
              SubSeq(text, (j - 1) * size + 1, IF j * size > Len(text) THEN Len(text) ELSE j * size)
<1> DEFINE e(j) == SubSeq(text, (j - 1) * size + 1,
                          IF j * size > Len(text) THEN Len(text) ELSE j * size)
<1>1. Len(text) \in Nat
  BY LenProperties DEF Texts
<1>2. n \in Nat
  <2>1. CASE size = 8
    BY <1>1, <2>1
  <2>2. CASE size = 64
    BY <1>1, <2>2
  <2> QED
    BY <2>1, <2>2, SizesAre
<1>3. ASSUME NEW j \in 1..n PROVE e(j) \in Texts
  <2> DEFINE a == (j - 1) * size
             b == IF j * size > Len(text) THEN Len(text) ELSE j * size
  <2>1. a \in Nat /\ b \in Nat /\ a <= b /\ b <= Len(text)
    <3>1. CASE size = 8
      BY <1>1, <3>1
    <3>2. CASE size = 64
      BY <1>1, <3>2
    <3> QED
      BY <3>1, <3>2, SizesAre
  <2>2. e(j) = SubSeq(text, a + 1, b)
    OBVIOUS
  <2> HIDE DEF a, b, e
  <2> QED
    BY <2>1, <2>2, SubSeqIs
<1>4. Cut(text, size) = [j \in 1..n |-> e(j)]
  BY DEF Cut
<1> HIDE DEF e
<1>5. [j \in 1..n |-> e(j)] \in Seq(Texts) /\ Len([j \in 1..n |-> e(j)]) = n
  BY <1>2, <1>3
<1> QED
  BY <1>2, <1>4, <1>5 DEF e

(* A block of what starts with the message is a piece of it. *)
LEMMA CutPiece ==
  ASSUME NEW text \in Texts, NEW f \in Nat, f <= Len(text), \A i \in 1..f : text[i] = i,
         NEW size \in Sizes, NEW j \in Nat, 1 <= j, size * j <= f
  PROVE  SubSeq(text, (j - 1) * size + 1, IF j * size > Len(text) THEN Len(text) ELSE j * size)
           = Piece(0 + size * (j - 1), size)
<1> DEFINE a == size * (j - 1)
           s == SubSeq(text, a + 1, a + size)
<1>1. Len(text) \in Nat
  BY LenProperties DEF Texts
<1>2. /\ a \in Nat /\ a + size \in Nat /\ a <= a + size /\ a + size <= f
      /\ (j - 1) * size = a /\ j * size = a + size /\ ~(j * size > Len(text))
      /\ (a + size) - a = size
  <2>1. CASE size = 8
    BY <1>1, <2>1
  <2>2. CASE size = 64
    BY <1>1, <2>2
  <2> QED
    BY <2>1, <2>2, SizesAre
<1>3. SubSeq(text, (j - 1) * size + 1, IF j * size > Len(text) THEN Len(text) ELSE j * size) = s
  BY <1>2
<1> HIDE DEF a
<1>4. s \in Texts /\ Len(s) = size /\ \A i \in 1..size : s[i] = text[a + i]
  <2>1. a + size <= Len(text)
    BY <1>1, <1>2
  <2>2. /\ s \in Texts /\ Len(s) = (a + size) - a
        /\ \A i \in 1..(a + size) - a : s[i] = text[a + i]
    BY ONLY <1>2, <2>1, SubSeqIs, text \in Texts
  <2> QED
    BY <1>2, <2>2
<1> HIDE DEF s
<1>5. \A i \in 1..Len(s) : s[i] = a + i
  <2>1. TAKE i \in 1..Len(s)
  <2>2. i \in 1..size /\ size \in Nat
    BY <1>4, SizesAre
  <2>3. a + i \in 1..f
    BY <1>2, <2>2
  <2> QED
    BY <1>4, <2>2, <2>3
<1>6. s = Piece(a, size)
  <2>1. a \in Int
    BY <1>2
  <2>2. s = Piece(a, Len(s))
    BY <1>4, <1>5, <2>1, PieceFound
  <2> QED
    BY <1>4, <2>2
<1>7. a = 0 + size * (j - 1)
  BY <1>2 DEF a
<1> QED
  BY <1>3, <1>6, <1>7

(* A block after others is what a cut of one more block has for its last. *)
LEMMA LastChanged ==
  ASSUME NEW s \in Seq(Texts), NEW c \in Seq(Texts), Len(c) = Len(s) + 1,
         \A j \in 1..Len(s) : c[j] = s[j], NEW e \in Texts
  PROVE  Append(s, e) = [c EXCEPT ![Len(c)] = e]
<1> DEFINE d == [c EXCEPT ![Len(c)] = e]
<1>1. Len(s) \in Nat /\ Len(c) \in 1..Len(c)
  BY LenProperties
<1>2. /\ d \in Seq(Texts) /\ Len(d) = Len(c)
      /\ \A j \in 1..Len(c) : d[j] = IF j = Len(c) THEN e ELSE c[j]
  BY <1>1, ExceptSeq
<1>3. /\ Append(s, e) \in Seq(Texts) /\ Len(Append(s, e)) = Len(s) + 1
      /\ \A j \in 1..Len(s) : Append(s, e)[j] = s[j]
      /\ Append(s, e)[Len(s) + 1] = e
  BY AppendProperties
<1> HIDE DEF d
<1>4. \A j \in 1..Len(Append(s, e)) : Append(s, e)[j] = d[j]
  BY <1>1, <1>2, <1>3
<1>5. Append(s, e) = d
  BY <1>2, <1>3, <1>4, SeqEqual
<1> QED
  BY <1>5 DEF d

(* The blocks of one size so far are those of any cut of the message, with *)
(* something after it.                                                     *)
CutBegins(text, size, s) ==
  Len(s) \in Nat /\ \A j \in 1..Len(s) : Cut(text, size)[j] = s[j]

LEMMA CutLeads ==
  ASSUME NEW text \in Texts, NEW f \in Nat, f <= Len(text), \A i \in 1..f : text[i] = i,
         NEW size \in Sizes, NEW s, Pieces(s, 0, size), size * Len(s) <= f
  PROVE  CutBegins(text, size, s)
<1> DEFINE n == (Len(text) + size - 1) \div size
<1>1. Len(s) \in Nat /\ Len(text) \in Nat
  BY LenProperties DEF Texts, Pieces
<1>2. Len(s) <= n
  <2>1. CASE size = 8
    BY <1>1, <2>1
  <2>2. CASE size = 64
    BY <1>1, <2>2
  <2> QED
    BY <2>1, <2>2, SizesAre
<1>3. ASSUME NEW j \in 1..Len(s) PROVE Cut(text, size)[j] = s[j]
  <2>1. j \in Nat /\ 1 <= j /\ size * j <= f
    <3>1. CASE size = 8
      BY <1>1, <3>1
    <3>2. CASE size = 64
      BY <1>1, <3>2
    <3> QED
      BY <3>1, <3>2, SizesAre
  <2>2. text \in Texts /\ size \in Sizes /\ n = (Len(text) + size - 1) \div size
    OBVIOUS
  <2>5. /\ n \in Nat /\ \A i \in 1..n : Cut(text, size)[i] =
           SubSeq(text, (i - 1) * size + 1, IF i * size > Len(text) THEN Len(text) ELSE i * size)
    <3> HIDE DEF n
    <3> QED
      BY ONLY <2>2, CutIs
  <2>6. j \in 1..n
    BY <1>1, <1>2, <2>5
  <2>3. Cut(text, size)[j] =
          SubSeq(text, (j - 1) * size + 1, IF j * size > Len(text) THEN Len(text) ELSE j * size)
    BY ONLY <2>5, <2>6
  <2>4. SubSeq(text, (j - 1) * size + 1, IF j * size > Len(text) THEN Len(text) ELSE j * size)
          = Piece(0 + size * (j - 1), size)
    <3>1. /\ text \in Texts /\ f \in Nat /\ f <= Len(text) /\ \A i \in 1..f : text[i] = i
          /\ size \in Sizes
      OBVIOUS
    <3> QED
      BY ONLY <2>1, <3>1, CutPiece
  <2> QED
    BY <2>3, <2>4 DEF Pieces
<1> QED
  BY <1>1, <1>2, <1>3 DEF CutBegins

(* The last block of a cut. *)
LEMMA CutLast ==
  ASSUME NEW text \in Texts, NEW size \in Sizes, NEW k \in Nat,
         size * k < Len(text), Len(text) <= size * k + size
  PROVE  /\ Cut(text, size) \in Seq(Texts) /\ Len(Cut(text, size)) = k + 1
         /\ Cut(text, size)[k + 1] \in Texts
         /\ Len(Cut(text, size)[k + 1]) = Len(text) - size * k
         /\ \A i \in 1..Len(text) - size * k : Cut(text, size)[k + 1][i] = text[size * k + i]
<1> DEFINE n == (Len(text) + size - 1) \div size
           a == size * k
           c == Len(text)
<1>1. c \in Nat
  BY LenProperties DEF Texts
<1>2. /\ n = k + 1 /\ a \in Nat /\ a <= c /\ ((k + 1) - 1) * size = a
      /\ (IF (k + 1) * size > Len(text) THEN Len(text) ELSE (k + 1) * size) = c
  <2>1. CASE size = 8
    BY <1>1, <2>1
  <2>2. CASE size = 64
    BY <1>1, <2>2
  <2> QED
    BY <2>1, <2>2, SizesAre
<1>3. /\ n \in Nat /\ Cut(text, size) \in Seq(Texts) /\ Len(Cut(text, size)) = n
      /\ \A j \in 1..n : Cut(text, size)[j] =
           SubSeq(text, (j - 1) * size + 1, IF j * size > Len(text) THEN Len(text) ELSE j * size)
  <2>1. text \in Texts /\ size \in Sizes /\ n = (Len(text) + size - 1) \div size
    OBVIOUS
  <2> HIDE DEF n
  <2> QED
    BY ONLY <2>1, CutIs
<1>4. Cut(text, size)[k + 1] = SubSeq(text, a + 1, c)
  <2>1. k + 1 \in 1..n
    BY <1>2
  <2>2. Cut(text, size)[k + 1] =
          SubSeq(text, ((k + 1) - 1) * size + 1,
                 IF (k + 1) * size > Len(text) THEN Len(text) ELSE (k + 1) * size)
    BY <1>3, <2>1
  <2> QED
    BY <1>2, <2>2
<1>5. /\ SubSeq(text, a + 1, c) \in Texts /\ Len(SubSeq(text, a + 1, c)) = c - a
      /\ \A i \in 1..c - a : SubSeq(text, a + 1, c)[i] = text[a + i]
  <2>1. c <= Len(text)
    BY <1>1
  <2> HIDE DEF a
  <2> QED
    BY <1>1, <1>2, <2>1, SubSeqIs
<1> QED
  BY <1>2, <1>3, <1>4, <1>5

LEMMA CmacFiniKeeps == ASSUME DigestLeads, CmacFini PROVE DigestLeads'
<1> DEFINE k == Len(blocks)
<1>1. /\ digest = "cmac" /\ ~closed /\ given > 0 /\ closed' = TRUE
      /\ digest' = digest /\ given' = given /\ len' = len /\ buffer' = buffer
  BY DEF CmacFini
<1>2. CmacLeads /\ given \in Nat /\ len \in Nat
  BY <1>1 DEF DigestLeads
<1>3. /\ Pieces(blocks, 0, 8) /\ given = 8 * k + len /\ len \in 1..8
      /\ k \in Nat /\ blocks \in Seq(Texts) /\ Holds(buffer, 8 * k, len)
  <2>1. Pieces(blocks, 0, 8) /\ given = 8 * k + len /\ len \in 1..8
    BY <1>1, <1>2 DEF CmacLeads
  <2>2. k \in Nat /\ blocks \in Seq(Texts)
    BY <2>1, LenProperties DEF Pieces
  <2> QED
    BY <1>2, <2>1, <2>2 DEF CmacLeads, Holds
<1>4. CASE len = 8
  <2> DEFINE text == Piece(0, given)
             whole == Cut(text, 8)
             e == Append(buffer, K1)
  <2>1. text \in Texts /\ Len(text) = given /\ \A i \in 1..given : text[i] = 0 + i
    <3>1. 0 \in Int
      OBVIOUS
    <3> QED
      BY ONLY <1>2, <3>1, PieceIs DEF text
  <2>2. blocks' = Append(blocks, e) /\ given % 8 = 0 /\ len % 8 = 0
    BY <1>3, <1>4 DEF CmacFini
  <2> HIDE DEF text
  <2>3. /\ whole \in Seq(Texts) /\ Len(whole) = k + 1 /\ whole[k + 1] \in Texts
        /\ Len(whole[k + 1]) = Len(text) - 8 * k
        /\ \A i \in 1..Len(text) - 8 * k : whole[k + 1][i] = text[8 * k + i]
    <3>1. 8 * k < Len(text) /\ Len(text) <= 8 * k + 8 /\ 8 \in Sizes /\ text \in Texts /\ k \in Nat
      BY <1>3, <1>4, <2>1, SizesAre
    <3> HIDE DEF k
    <3> QED
      BY ONLY <3>1, CutLast DEF whole
  <2>4. \A j \in 1..k : whole[j] = blocks[j]
    <3>1. given <= Len(text) /\ 8 * Len(blocks) <= given /\ \A i \in 1..given : text[i] = i
      BY <1>2, <1>3, <2>1
    <3> QED
      <4>1. /\ text \in Texts /\ given \in Nat /\ Pieces(blocks, 0, 8) /\ 8 \in Sizes
        BY <1>2, <1>3, <1>4, <2>1, SizesAre
      <4>2. CutBegins(text, 8, blocks)
        BY ONLY <3>1, <4>1, CutLeads
      <4> QED
        BY ONLY <4>2 DEF CutBegins
  <2> HIDE DEF whole
  <2>5. buffer = Piece(8 * k, 8)
    BY <1>3, <1>4, HeldBlock
  <2>6. whole[k + 1] = Piece(8 * k, 8)
    <3>1. Len(whole[k + 1]) = 8
      BY <1>3, <1>4, <2>1, <2>3
    <3>2. \A i \in 1..8 : whole[k + 1][i] = 8 * k + i
      BY <1>3, <1>4, <2>1, <2>3
    <3>3. 8 * k \in Int
      BY <1>3
    <3>4. \A i \in 1..Len(whole[k + 1]) : whole[k + 1][i] = 8 * k + i
      BY <3>1, <3>2
    <3>5. whole[k + 1] = Piece(8 * k, Len(whole[k + 1]))
      BY <2>3, <3>3, <3>4, PieceFound
    <3> QED
      BY <3>1, <3>5
  <2>7. e \in Texts
    BY <1>3 DEF Holds, Texts, K1
  <2> HIDE DEF e
  <2>8. blocks' = [whole EXCEPT ![Len(whole)] = e]
    <3>1. /\ blocks \in Seq(Texts) /\ whole \in Seq(Texts) /\ Len(whole) = Len(blocks) + 1
          /\ \A j \in 1..Len(blocks) : whole[j] = blocks[j]
      BY <1>3, <2>3, <2>4
    <3>2. Append(blocks, e) = [whole EXCEPT ![Len(whole)] = e]
      BY ONLY <2>7, <3>1, LastChanged
    <3> QED
      BY ONLY <2>2, <3>2
  <2>9. CmacBlocks = [whole EXCEPT ![Len(whole)] = Append(whole[Len(whole)], K1)]
    BY <2>2 DEF CmacBlocks, whole, text
  <2>10. e = Append(whole[Len(whole)], K1)
    BY <2>3, <2>5, <2>6 DEF e
  <2>11. CmacBlocks' = CmacBlocks
    BY <1>1 DEF CmacBlocks
  <2>12. blocks' = CmacBlocks'
    BY <2>8, <2>9, <2>10, <2>11
  <2> QED
    BY <1>1, <1>2, <2>12 DEF DigestLeads, DigestOfWhole
<1>5. CASE len # 8
  <2> DEFINE z == IF (given + 1 + 0) % 8 = 0 THEN 0 ELSE 8 - ((given + 1 + 0) % 8)
             text == Padded(Piece(0, given), 8, 0)
             padded == Cut(text, 8)
             last == Placed(buffer, len % 8, <<Closing>>)
             e == Append(last, K2)
  <2>1. /\ z \in Nat /\ z < 8 /\ (given + 1 + 0 + z) % 8 = 0
        /\ text \in Texts /\ Len(text) = given + 1 + z
        /\ \A i \in 1..given + 1 + z :
             text[i] = IF i <= given THEN i ELSE IF i = given + 1 THEN Closing ELSE 0
    <3>1. 0 \in Nat /\ 8 \in Sizes
      BY SizesAre
    <3> HIDE DEF z
    <3>2. z = IF (given + 1 + 0) % 8 = 0 THEN 0 ELSE 8 - ((given + 1 + 0) % 8)
      BY DEF z
    <3> QED
      <4>1. z = Fill(given, 8, 0)
        BY <3>2 DEF Fill
      <4>2. z \in Nat /\ (given + 1 + 0 + z) % 8 = 0 /\ z < 8 /\ PaddedWith(text, given, z)
        BY ONLY <1>2, <3>1, <4>1, PaddedIs
      <4> QED
        BY ONLY <4>2 DEF PaddedWith
  <2>2. /\ blocks' = Append(blocks, e) /\ given % 8 = len /\ len % 8 = len /\ len # 0
    <3>1. given % 8 = len /\ len % 8 = len /\ len # 0
      BY <1>3, <1>5
    <3>2. blocks' = Append(blocks, IF len % 8 = 0 THEN Append(buffer, K1)
                                   ELSE Append(Placed(buffer, len % 8, <<Closing>>), K2))
      BY DEF CmacFini
    <3> QED
      BY <3>1, <3>2
  <2> HIDE DEF text, z
  <2>3. Len(text) = 8 * k + 8
    BY <1>3, <1>5, <2>1
  <2>4. /\ padded \in Seq(Texts) /\ Len(padded) = k + 1 /\ padded[k + 1] \in Texts
        /\ Len(padded[k + 1]) = 8
        /\ \A i \in 1..8 : padded[k + 1][i] = text[8 * k + i]
    <3>1. 8 * k < Len(text) /\ Len(text) <= 8 * k + 8 /\ Len(text) - 8 * k = 8
      BY <1>3, <2>3
    <3>2. /\ Cut(text, 8) \in Seq(Texts) /\ Len(Cut(text, 8)) = k + 1
          /\ Cut(text, 8)[k + 1] \in Texts
          /\ Len(Cut(text, 8)[k + 1]) = Len(text) - 8 * k
          /\ \A i \in 1..Len(text) - 8 * k : Cut(text, 8)[k + 1][i] = text[8 * k + i]
      <4>1. text \in Texts /\ 8 \in Sizes /\ k \in Nat
        BY <1>3, <2>1, SizesAre
      <4> HIDE DEF k
      <4> QED
        BY ONLY <3>1, <4>1, CutLast
    <3> QED
      BY <3>1, <3>2
  <2>5. \A j \in 1..k : padded[j] = blocks[j]
    <3>1. given <= Len(text) /\ 8 * Len(blocks) <= given /\ \A i \in 1..given : text[i] = i
      BY <1>2, <1>3, <2>1
    <3> QED
      <4>1. /\ text \in Texts /\ given \in Nat /\ Pieces(blocks, 0, 8) /\ 8 \in Sizes
        BY <1>2, <1>3, <2>1, <2>3, SizesAre
      <4>2. CutBegins(text, 8, blocks)
        BY ONLY <3>1, <4>1, CutLeads
      <4> QED
        BY ONLY <4>2 DEF CutBegins
  <2> HIDE DEF padded
  <2>6. /\ last \in Texts /\ Len(last) = 8
        /\ \A i \in 1..8 : last[i] = IF i <= len THEN buffer[i]
             ELSE IF i = len + 1 THEN Closing ELSE buffer[i]
    <3>1. <<Closing>> \in Texts /\ Len(<<Closing>>) = 1 /\ <<Closing>>[1] = Closing
      BY DEF Closing, Texts
    <3>2. buffer \in Texts /\ Len(buffer) = 8 /\ len + Len(<<Closing>>) <= Len(buffer)
      BY <1>3, <1>5, <3>1 DEF Holds
    <3>3. last = Placed(buffer, len, <<Closing>>)
      BY <2>2
    <3> HIDE DEF last
    <3>4. /\ last \in Texts /\ Len(last) = Len(buffer)
          /\ \A i \in 1..Len(buffer) : last[i] = IF i <= len THEN buffer[i]
               ELSE IF i <= len + Len(<<Closing>>) THEN <<Closing>>[i - len] ELSE buffer[i]
      <4> DEFINE c == <<Closing>>
      <4>1. c \in Texts /\ len + Len(c) <= Len(buffer) /\ last = Placed(buffer, len, c)
        BY <3>1, <3>2, <3>3
      <4> HIDE DEF c
      <4>2. /\ last \in Texts /\ Len(last) = Len(buffer)
            /\ \A i \in 1..Len(buffer) : last[i] = IF i <= len THEN buffer[i]
                 ELSE IF i <= len + Len(c) THEN c[i - len] ELSE buffer[i]
        <5> DEFINE q == Placed(buffer, len, c)
        <5>1. /\ q \in Texts /\ Len(q) = Len(buffer)
              /\ \A i \in 1..Len(buffer) : q[i] = IF i <= len THEN buffer[i]
                   ELSE IF i <= len + Len(c) THEN c[i - len] ELSE buffer[i]
          <6>1. buffer \in Texts /\ len \in Nat
            BY <1>2, <3>2
          <6> QED
            BY ONLY <4>1, <6>1, PlacedIs
        <5> HIDE DEF q
        <5>2. last = q
          BY <4>1 DEF q
        <5> QED
          BY ONLY <5>1, <5>2
      <4> QED
        BY ONLY <4>2 DEF c
    <3>5. ASSUME NEW i \in 1..8
          PROVE  last[i] = IF i <= len THEN buffer[i]
                           ELSE IF i = len + 1 THEN Closing ELSE buffer[i]
      <4>1. CASE i = len + 1
        <5>1. last[i] = <<Closing>>[1]
          BY <1>3, <3>1, <3>2, <3>4, <4>1
        <5> QED
          BY <1>3, <3>1, <4>1, <5>1
      <4>2. CASE i # len + 1
        BY <1>3, <3>1, <3>2, <3>4, <4>2, SMTT(30)
      <4> QED
        BY <4>1, <4>2
    <3> QED
      BY <3>2, <3>4, <3>5
  <2> HIDE DEF last
  <2>7. padded[k + 1] = last
    <3>1. ASSUME NEW i \in 1..8 PROVE padded[k + 1][i] = last[i]
      <4>1. padded[k + 1][i] = text[8 * k + i]
        BY <2>4
      <4>2. 8 * k + i \in 1..given + 1 + z
        BY <1>3, <2>1, <2>3
      <4>3. text[8 * k + i] = IF 8 * k + i <= given THEN 8 * k + i
                           ELSE IF 8 * k + i = given + 1 THEN Closing ELSE 0
        BY <2>1, <4>2
      <4>4. buffer[i] = IF i <= len THEN 8 * k + i ELSE 0
        BY <1>3 DEF Holds
      <4>5. last[i] = IF i <= len THEN buffer[i]
                      ELSE IF i = len + 1 THEN Closing ELSE buffer[i]
        BY <2>6
      <4> QED
        BY <1>3, <4>1, <4>3, <4>4, <4>5
    <3> QED
      <4>1. /\ padded[k + 1] \in Seq(Int) /\ last \in Seq(Int)
            /\ Len(padded[k + 1]) = Len(last)
        BY <2>4, <2>6 DEF Texts
      <4>2. \A i \in 1..Len(padded[k + 1]) : padded[k + 1][i] = last[i]
        BY <2>4, <3>1
      <4> QED
        BY ONLY <4>1, <4>2, SeqEqual
  <2>8. e \in Texts
    BY <2>6 DEF Texts, K2
  <2> HIDE DEF e
  <2>9. blocks' = [padded EXCEPT ![Len(padded)] = e]
    <3>1. /\ blocks \in Seq(Texts) /\ padded \in Seq(Texts) /\ e \in Texts
          /\ Len(padded) = Len(blocks) + 1
          /\ \A j \in 1..Len(blocks) : padded[j] = blocks[j]
      BY <1>3, <2>4, <2>5, <2>8
    <3>2. Append(blocks, e) = [padded EXCEPT ![Len(padded)] = e]
      BY ONLY <3>1, LastChanged
    <3> QED
      BY <2>2, <3>2
  <2>10. CmacBlocks = [padded EXCEPT ![Len(padded)] = Append(padded[Len(padded)], K2)]
    BY <2>2 DEF CmacBlocks, padded, text
  <2>11. e = Append(padded[Len(padded)], K2)
    BY <2>4, <2>7 DEF e
  <2>12. CmacBlocks' = CmacBlocks
    BY <1>1 DEF CmacBlocks
  <2>13. blocks' = CmacBlocks'
    BY <2>9, <2>10, <2>11, <2>12
  <2> QED
    BY <1>1, <1>2, <2>13 DEF DigestLeads, DigestOfWhole
<1> QED
  BY <1>4, <1>5

LEMMA Mod64 ==
  ASSUME NEW k \in Nat, NEW x \in Nat
  PROVE  /\ x \div 64 \in Nat /\ x - 64 * (x \div 64) \in 0..63
         /\ (64 * k + x) % 64 = x - 64 * (x \div 64)
         /\ x = 64 * (x \div 64) + (x - 64 * (x \div 64))
OBVIOUS

LEMMA Md5UpdateKeeps ==
  ASSUME DigestLeads, NEW n \in Md5Pieces, Md5Update(n)
  PROVE  DigestLeads'
<1> DEFINE k == Len(blocks)
           o == len % 64
           piece == Piece(given, n)
           front == SubSeq(buffer, 1, o)
           all == front \o piece
           w == (o + n) \div 64
           l == (o + n) - 64 * w
           tail == SubSeq(all, 64 * w + 1, Len(all))
           base == IF w = 0 THEN buffer ELSE SubSeq(all, 64 * w - 63, 64 * w)
<1>1. /\ digest = "md5" /\ ~closed /\ given' = given + n /\ len' = len + n
      /\ digest' = digest /\ closed' = closed
  BY DEF Md5Update
<1>2. n \in Nat
  BY DigestAssumption
<1>3. Md5Leads /\ given \in Nat /\ len \in Nat /\ closed \in BOOLEAN
  BY <1>1 DEF DigestLeads
<1>4. /\ k \in Nat /\ given = 64 * k + o /\ len = given /\ Pieces(blocks, 0, 64)
      /\ o \in 0..63 /\ buffer \in Texts /\ Len(buffer) = 64
      /\ \A i \in 1..o : buffer[i] = 64 * k + i
  <2>1. o \in 0..63
    BY <1>3
  <2>2. Pieces(blocks, 0, 64)
    BY <1>3 DEF Md5Leads
  <2>3. k \in Nat
    BY <2>2, LenProperties DEF Pieces
  <2> QED
    <3>1. /\ given = 64 * k + o /\ len = given
          /\ buffer \in Texts /\ Len(buffer) = 64
      <4>1. given = 64 * Len(blocks) + (len % 64) /\ len = given
        BY ONLY <1>3, Zenon DEF Md5Leads
      <4>2. buffer \in Texts /\ Len(buffer) = 64
        BY ONLY <1>3, Zenon DEF Md5Leads
      <4> QED
        BY ONLY <4>1, <4>2, Zenon
    <3>2. \A i \in 1..o : buffer[i] = 64 * k + i
      BY <1>3 DEF Md5Leads
    <3> HIDE DEF o, k
    <3> QED
      BY <2>1, <2>2, <2>3, <3>1, <3>2
<1> HIDE DEF o
<1>5. all = Piece(64 * k, o + n)
  <2>1. front \in Texts /\ Len(front) = o /\ \A i \in 1..o : front[i] = buffer[i]
    <3>1. PICK a \in Nat : a = 0
      OBVIOUS
    <3>2. o \in Nat /\ a <= o /\ o <= Len(buffer) /\ buffer \in Texts
      BY <1>4, <3>1
    <3>3. /\ SubSeq(buffer, a + 1, o) \in Texts /\ Len(SubSeq(buffer, a + 1, o)) = o - a
          /\ \A i \in 1..o - a : SubSeq(buffer, a + 1, o)[i] = buffer[a + i]
      BY ONLY <3>1, <3>2, SubSeqIs
    <3> QED
      BY <3>1, <3>2, <3>3
  <2>2. piece \in Texts /\ Len(piece) = n /\ \A i \in 1..n : piece[i] = given + i
    <3>1. given \in Int
      BY <1>3
    <3> QED
      BY ONLY <1>2, <3>1, PieceIs
  <2> HIDE DEF front, piece
  <2>3. /\ all \in Texts /\ Len(all) = o + n
        /\ \A i \in 1..o + n : all[i] = IF i <= o THEN front[i] ELSE piece[i - o]
    <3>1. front \in Seq(Int) /\ piece \in Seq(Int)
      BY <2>1, <2>2 DEF Texts
    <3>2. /\ all \in Seq(Int) /\ Len(all) = Len(front) + Len(piece)
          /\ \A i \in 1..Len(front) + Len(piece) :
               all[i] = IF i <= Len(front) THEN front[i] ELSE piece[i - Len(front)]
      BY ONLY <3>1, ConcatProperties
    <3> HIDE DEF all
    <3> QED
      BY <2>1, <2>2, <3>2 DEF Texts
  <2> HIDE DEF all
  <2>4. ASSUME NEW i \in 1..Len(all) PROVE all[i] = 64 * k + i
    <3>1. CASE i <= o
      BY <1>2, <1>4, <2>1, <2>3, <3>1
    <3>2. CASE i > o
      <4>1. i - o \in 1..n
        BY <1>2, <1>4, <2>3, <3>2
      <4>2. all[i] = piece[i - o]
        BY <1>4, <2>3, <3>2
      <4>3. piece[i - o] = given + (i - o)
        BY ONLY <2>2, <4>1
      <4> QED
        BY <1>4, <2>3, <4>2, <4>3
    <3> QED
      BY <1>4, <2>3, <3>1, <3>2
  <2>5. 64 * k \in Int
    BY <1>4
  <2>6. all = Piece(64 * k, Len(all))
    BY ONLY <2>3, <2>4, <2>5, PieceFound
  <2> QED
    BY <2>3, <2>6
<1> HIDE DEF all
<1>6. /\ o + n \in Nat /\ w \in Nat /\ l \in 0..63 /\ w * 64 <= o + n
      /\ 64 * w \in Nat /\ 64 * w <= o + n /\ 64 * k \in Nat
      /\ len' % 64 = l /\ o + n = 64 * w + l
  <2>1. o + n \in Nat /\ 64 * k \in Nat
    BY <1>2, <1>4
  <2>2. len' = 64 * k + (o + n)
    BY <1>1, <1>2, <1>4
  <2>3. /\ (o + n) \div 64 \in Nat /\ (o + n) - 64 * ((o + n) \div 64) \in 0..63
        /\ (64 * k + (o + n)) % 64 = (o + n) - 64 * ((o + n) \div 64)
        /\ o + n = 64 * ((o + n) \div 64) + ((o + n) - 64 * ((o + n) \div 64))
    <3> DEFINE x == o + n
    <3>1. k \in Nat /\ x \in Nat
      BY ONLY <1>4, <2>1
    <3> HIDE DEF k, x
    <3>2. /\ x \div 64 \in Nat /\ x - 64 * (x \div 64) \in 0..63
          /\ (64 * k + x) % 64 = x - 64 * (x \div 64)
          /\ x = 64 * (x \div 64) + (x - 64 * (x \div 64))
      BY ONLY <3>1, Mod64
    <3> QED
      BY ONLY <3>2 DEF x
  <2>5. w = (o + n) \div 64 /\ l = (o + n) - 64 * ((o + n) \div 64)
    OBVIOUS
  <2>6. len' % 64 = (o + n) - 64 * ((o + n) \div 64)
    BY ONLY <2>2, <2>3
  <2>7. w \in Nat /\ l \in 0..63 /\ len' % 64 = l
    <3> HIDE DEF w, l
    <3> QED
      BY ONLY <2>3, <2>5, <2>6
  <2>8. o + n = 64 * w + l
    BY ONLY <2>3, <2>5, Zenon
  <2> HIDE DEF w, l
  <2> QED
    BY <2>1, <2>7, <2>8
<1> HIDE DEF w, l
<1>7. all \in Texts /\ Len(all) = o + n
  <2>1. 64 * k \in Int
    BY <1>6
  <2> QED
    BY ONLY <1>5, <1>6, <2>1, PieceIs
<1>8. tail = Piece(64 * k + 64 * w, l)
  <2> DEFINE a == 64 * w
             r == o + n
             f == 64 * k
  <2>1. a \in Nat /\ r \in Nat /\ f \in Int /\ a <= r /\ r <= r
    BY <1>6
  <2>2. r - a = l /\ tail = SubSeq(Piece(f, r), a + 1, r)
    BY <1>5, <1>6, <1>7
  <2> HIDE DEF a, r, f, tail
  <2>3. SubSeq(Piece(f, r), a + 1, r) = Piece(f + a, r - a)
    BY ONLY <2>1, SubSeqOfPiece
  <2> QED
    BY ONLY <2>2, <2>3 DEF a, f
<1>9. tail \in Texts /\ Len(tail) = l /\ \A i \in 1..l : tail[i] = 64 * k + 64 * w + i
  <2>1. 64 * k + 64 * w \in Int /\ l \in Nat
    BY <1>6
  <2> HIDE DEF tail
  <2> QED
    BY ONLY <1>8, <2>1, PieceIs
<1>10. /\ blocks' = blocks \o Whole(all, w, 64)
       /\ buffer' = Placed(base, 0, tail)
  <2>1. Len(SubSeq(buffer, 1, len % 64) \o Piece(given, n)) = o + n
    BY <1>7 DEF all, o
  <2> QED
    BY <2>1 DEF Md5Update, all, o, w
<1> HIDE DEF tail
<1>11. base \in Texts /\ Len(base) = 64
  <2>1. CASE w = 0
    BY <1>4, <2>1
  <2>2. CASE w # 0
    <3> DEFINE a == 64 * w - 64
               b == 64 * w
    <3>1. a \in Nat /\ b \in Nat /\ a <= b /\ b <= Len(all) /\ b - a = 64 /\ a + 1 = 64 * w - 63
      BY <1>6, <1>7, <2>2
    <3>2. base = SubSeq(all, a + 1, b)
      BY <2>2, <3>1
    <3> HIDE DEF a, b, base
    <3>3. SubSeq(all, a + 1, b) \in Texts /\ Len(SubSeq(all, a + 1, b)) = b - a
      BY ONLY <1>7, <3>1, SubSeqIs
    <3> QED
      BY <3>1, <3>2, <3>3
  <2> QED
    BY <2>1, <2>2
<1> HIDE DEF base
<1>12. /\ buffer' \in Texts /\ Len(buffer') = 64
       /\ \A i \in 1..l : buffer'[i] = 64 * k + 64 * w + i
  <2>1. 0 \in Nat /\ 0 + Len(tail) <= Len(base)
    BY <1>6, <1>9, <1>11
  <2> DEFINE p == Placed(base, 0, tail)
  <2>2. /\ p \in Texts /\ Len(p) = Len(base)
        /\ \A i \in 1..Len(base) : p[i] = IF i <= 0 THEN base[i]
             ELSE IF i <= 0 + Len(tail) THEN tail[i - 0] ELSE base[i]
    <3>1. base \in Texts /\ tail \in Texts
      BY <1>9, <1>11
    <3> QED
      BY ONLY <2>1, <3>1, PlacedIs
  <2>3. buffer' = p
    BY <1>10
  <2> HIDE DEF p
  <2>4. ASSUME NEW i \in 1..l PROVE p[i] = 64 * k + 64 * w + i
    <3>1. i \in 1..Len(base) /\ ~(i <= 0) /\ i <= 0 + Len(tail) /\ i - 0 = i
      BY <1>6, <1>9, <1>11
    <3>2. p[i] = tail[i]
      BY ONLY <2>2, <3>1
    <3> QED
      BY <1>9, <3>2
  <2> QED
    BY <1>11, <2>2, <2>3, <2>4
<1>13. Pieces(blocks', 0, 64) /\ Len(blocks') = k + w
  <2>1. 64 * k \in Int /\ 64 \in Sizes /\ 0 \in Int
    BY <1>6, SizesAre
  <2>2. Pieces(Whole(all, w, 64), 64 * k, 64) /\ Len(Whole(all, w, 64)) = w
    <3> QED
      BY ONLY <1>5, <1>6, <2>1, WholeIs
  <2>3. Pieces(Whole(all, w, 64), 0 + 64 * Len(blocks), 64)
    BY <1>6, <2>2
  <2>4. /\ Pieces(blocks \o Whole(all, w, 64), 0, 64)
        /\ Len(blocks \o Whole(all, w, 64)) = Len(blocks) + Len(Whole(all, w, 64))
    BY ONLY <1>4, <2>1, <2>3, PiecesJoin
  <2> QED
    BY <1>10, <2>2, <2>4
<1>14. Md5Leads'
  <2>1. 64 * k + 64 * w = 64 * Len(blocks')
    BY <1>4, <1>6, <1>13
  <2>2. given' = 64 * Len(blocks') + (len' % 64) /\ len' = given'
    <3>1. given' = 64 * k + (o + n) /\ len' = given'
      BY <1>1, <1>2, <1>4, <1>6
    <3>2. given' = (64 * k + 64 * w) + l
      BY <1>4, <1>6, <3>1
    <3> QED
      <4>1. given' = 64 * Len(blocks') + l
        BY ONLY <2>1, <3>2
      <4> QED
        BY ONLY <1>6, <3>1, <4>1
  <2>3. \A i \in 1..len' % 64 : buffer'[i] = 64 * Len(blocks') + i
    <3> HIDE DEF k
    <3> QED
      BY ONLY <1>6, <1>12, <2>1
  <2> QED
    BY ONLY <1>12, <1>13, <2>2, <2>3 DEF Md5Leads
<1>15. given' \in Nat /\ len' \in Nat
  BY <1>1, <1>2, <1>3
<1> QED
  BY <1>1, <1>3, <1>14, <1>15 DEF DigestLeads, DigestOfWhole

(* A block of a cut that is not the last one. *)
LEMMA CutWhole ==
  ASSUME NEW text \in Texts, NEW size \in Sizes, NEW k \in Nat,
         size * k + size <= Len(text)
  PROVE  /\ Cut(text, size)[k + 1] \in Texts /\ Len(Cut(text, size)[k + 1]) = size
         /\ \A i \in 1..size : Cut(text, size)[k + 1][i] = text[size * k + i]
<1> DEFINE n == (Len(text) + size - 1) \div size
           a == size * k
           b == size * k + size
<1>1. Len(text) \in Nat
  BY LenProperties DEF Texts
<1>2. /\ k + 1 \in 1..n /\ a \in Nat /\ b \in Nat /\ a <= b /\ b <= Len(text)
      /\ ((k + 1) - 1) * size = a /\ b - a = size
      /\ (IF (k + 1) * size > Len(text) THEN Len(text) ELSE (k + 1) * size) = b
  <2>1. CASE size = 8
    BY <1>1, <2>1
  <2>2. CASE size = 64
    BY <1>1, <2>2
  <2> QED
    BY <2>1, <2>2, SizesAre
<1>3. \A j \in 1..n : Cut(text, size)[j] =
        SubSeq(text, (j - 1) * size + 1, IF j * size > Len(text) THEN Len(text) ELSE j * size)
  <2>1. text \in Texts /\ size \in Sizes /\ n = (Len(text) + size - 1) \div size
    OBVIOUS
  <2> HIDE DEF n
  <2> QED
    BY ONLY <2>1, CutIs
<1>4. Cut(text, size)[k + 1] =
        SubSeq(text, ((k + 1) - 1) * size + 1,
               IF (k + 1) * size > Len(text) THEN Len(text) ELSE (k + 1) * size)
  BY ONLY <1>2, <1>3
<1>5. Cut(text, size)[k + 1] = SubSeq(text, a + 1, b)
  BY ONLY <1>2, <1>4
<1> HIDE DEF a, b
<1>6. /\ SubSeq(text, a + 1, b) \in Texts /\ Len(SubSeq(text, a + 1, b)) = b - a
      /\ \A i \in 1..b - a : SubSeq(text, a + 1, b)[i] = text[a + i]
  <2>1. text \in Texts
    OBVIOUS
  <2> QED
    BY ONLY <1>2, <2>1, SubSeqIs, ZenonT(60)
<1> QED
  BY ONLY <1>2, <1>5, <1>6 DEF a

(* md5_fini: the bytes, 80, and zeros up to a place. *)
Filled(fill, from, o, z) ==
  /\ fill \in Texts /\ Len(fill) = 64
  /\ \A i \in 1..o + 1 + z :
       fill[i] = IF i <= o THEN from + i ELSE IF i = o + 1 THEN Closing ELSE 0

LEMMA Md5Fills ==
  ASSUME NEW b \in Texts, Len(b) = 64, NEW from \in Nat, NEW o \in Nat,
         \A i \in 1..o : b[i] = from + i, NEW z \in Nat, o + 1 + z <= 64
  PROVE  Filled(Placed(Placed(b, o, <<Closing>>), o + 1, Zeros(z)), from, o, z)
<1> DEFINE c == <<Closing>>
           zs == Zeros(z)
           p == Placed(b, o, c)
           q == Placed(p, o + 1, zs)
<1>1. c \in Texts /\ Len(c) = 1 /\ c[1] = Closing
  BY DEF Closing, Texts
<1>2. zs \in Texts /\ Len(zs) = z /\ \A i \in 1..z : zs[i] = 0
  BY ZerosIs
<1> HIDE DEF c, zs
<1>3. /\ p \in Texts /\ Len(p) = Len(b)
      /\ \A i \in 1..Len(b) : p[i] = IF i <= o THEN b[i]
           ELSE IF i <= o + Len(c) THEN c[i - o] ELSE b[i]
  <2>1. b \in Texts /\ c \in Texts /\ o \in Nat /\ o + Len(c) <= Len(b)
    BY <1>1
  <2> QED
    BY ONLY <2>1, PlacedIs
<1> HIDE DEF p
<1>4. /\ q \in Texts /\ Len(q) = Len(p)
      /\ \A i \in 1..Len(p) : q[i] = IF i <= o + 1 THEN p[i]
           ELSE IF i <= o + 1 + Len(zs) THEN zs[i - (o + 1)] ELSE p[i]
  <2> DEFINE r == o + 1
  <2>1. r \in Nat /\ r + Len(zs) <= Len(p)
    BY <1>2, <1>3
  <2>2. q = Placed(p, r, zs)
    OBVIOUS
  <2> HIDE DEF r, q
  <2>3. /\ Placed(p, r, zs) \in Texts /\ Len(Placed(p, r, zs)) = Len(p)
        /\ \A i \in 1..Len(p) : Placed(p, r, zs)[i] = IF i <= r THEN p[i]
             ELSE IF i <= r + Len(zs) THEN zs[i - r] ELSE p[i]
    BY ONLY <1>2, <1>3, <2>1, PlacedIs
  <2> QED
    BY ONLY <2>2, <2>3 DEF r
<1> HIDE DEF q
<1>5. ASSUME NEW i \in 1..o + 1 + z
      PROVE  q[i] = IF i <= o THEN from + i ELSE IF i = o + 1 THEN Closing ELSE 0
  <2>1. i \in 1..Len(b) /\ i \in 1..Len(p) /\ Len(zs) = z
    BY <1>2, <1>3
  <2>2. CASE i <= o
    BY <1>3, <1>4, <2>1, <2>2
  <2>3. CASE i = o + 1
    <3>1. q[i] = p[i]
      BY <1>4, <2>1, <2>3
    <3>2. ~(i <= o) /\ i <= o + Len(c) /\ i - o = 1
      BY <1>1, <2>3
    <3>3. p[i] = c[1]
      BY <1>3, <2>1, <3>2
    <3> QED
      BY <1>1, <2>3, <3>1, <3>2, <3>3
  <2>4. CASE i > o + 1
    <3>1. ~(i <= o + 1) /\ i <= o + 1 + Len(zs) /\ i - (o + 1) \in 1..z
      BY <2>1, <2>4
    <3>2. q[i] = zs[i - (o + 1)]
      BY <1>4, <2>1, <3>1
    <3> QED
      BY <1>2, <2>4, <3>1, <3>2
  <2> QED
    BY <2>2, <2>3, <2>4
<1> QED
  BY <1>3, <1>4, <1>5 DEF q, p, c, zs, Filled

(* The bytes of a last block before the length, and the length after them. *)
EndsAs(final, text, k) == \A i \in 1..56 : final[i] = text[64 * k + i]
WithField(cut, number) == [cut EXCEPT ![Len(cut)] = @ \o <<LengthField, number>>]

(* The last block of a message whose padding leaves room for its length.   *)
LEMMA Md5Closes ==
  ASSUME NEW s \in Seq(Texts), NEW text \in Texts, Len(text) = 64 * Len(s) + 56,
         \A j \in 1..Len(s) : Cut(text, 64)[j] = s[j], NEW final \in Texts,
         Len(final) = 64, NEW number \in Int,
         EndsAs(final, text, Len(s))
  PROVE  s \o <<SubSeq(final, 1, 56) \o <<LengthField, number>>>> =
           WithField(Cut(text, 64), number)
<1> DEFINE k == Len(s)
           cut == Cut(text, 64)
           head == SubSeq(final, 1, 56)
           field == <<LengthField, number>>
           e == head \o field
<1>1. k \in Nat
  BY LenProperties
<1>2. /\ cut \in Seq(Texts) /\ Len(cut) = k + 1
      /\ cut[k + 1] \in Texts /\ Len(cut[k + 1]) = 56
      /\ \A i \in 1..56 : cut[k + 1][i] = text[64 * k + i]
  <2>1. 64 \in Sizes /\ text \in Texts /\ 64 * k < Len(text) /\ Len(text) <= 64 * k + 64
        /\ k \in Nat
    BY <1>1, SizesAre
  <2>3. Len(text) - 64 * k = 56
    BY <1>1
  <2> HIDE DEF k
  <2>2. /\ cut \in Seq(Texts) /\ Len(cut) = k + 1 /\ cut[k + 1] \in Texts
        /\ Len(cut[k + 1]) = Len(text) - 64 * k
        /\ \A i \in 1..Len(text) - 64 * k : cut[k + 1][i] = text[64 * k + i]
    BY ONLY <2>1, CutLast, ZenonT(60)
  <2> QED
    BY ONLY <2>2, <2>3
<1>3. head \in Texts /\ Len(head) = 56 /\ \A i \in 1..56 : head[i] = final[i]
  <2>1. PICK a \in Nat : a = 0
    OBVIOUS
  <2>2. PICK b \in Nat : b = 56
    OBVIOUS
  <2>3. a <= b /\ b <= Len(final) /\ final \in Texts /\ a \in Nat /\ b \in Nat
    BY <2>1, <2>2
  <2>4. /\ SubSeq(final, a + 1, b) \in Texts /\ Len(SubSeq(final, a + 1, b)) = b - a
        /\ \A i \in 1..b - a : SubSeq(final, a + 1, b)[i] = final[a + i]
    BY ONLY <2>3, SubSeqIs
  <2>5. head = SubSeq(final, a + 1, b)
    BY <2>1, <2>2
  <2> HIDE DEF head
  <2> QED
    BY <2>1, <2>2, <2>4, <2>5
<1>4. head = cut[k + 1]
  <2>1. \A i \in 1..Len(head) : head[i] = cut[k + 1][i]
    <3> HIDE DEF head, cut
    <3>1. TAKE i \in 1..Len(head)
    <3>2. i \in 1..56
      BY ONLY <1>3
    <3>3. head[i] = final[i] /\ cut[k + 1][i] = text[64 * k + i]
      BY ONLY <1>2, <1>3, <3>2, Zenon
    <3>4. final[i] = text[64 * k + i]
      BY <3>2, Zenon DEF EndsAs
    <3> QED
      BY ONLY <3>3, <3>4
  <2>2. head \in Seq(Int) /\ cut[k + 1] \in Seq(Int) /\ Len(head) = Len(cut[k + 1])
    BY <1>2, <1>3 DEF Texts
  <2> HIDE DEF head, cut
  <2> QED
    BY ONLY <2>1, <2>2, SeqEqual
<1>5. e \in Texts
  <2>1. field \in Seq(Int)
    BY DEF LengthField
  <2>2. head \in Seq(Int)
    BY <1>3 DEF Texts
  <2> HIDE DEF head, field
  <2> QED
    BY ONLY <2>1, <2>2, ConcatProperties DEF Texts
<1> HIDE DEF e
<1>6. Append(s, e) = [cut EXCEPT ![Len(cut)] = e]
  <2>1. /\ Len(cut) = Len(s) + 1 /\ cut \in Seq(Texts)
        /\ \A j \in 1..Len(s) : cut[j] = s[j]
    BY <1>2
  <2>2. s \in Seq(Texts)
    OBVIOUS
  <2> HIDE DEF cut
  <2> QED
    BY ONLY <1>5, <2>1, <2>2, LastChanged
<1>7. s \o <<e>> = Append(s, e)
  BY <1>1, <1>5
<1>8. e = cut[Len(cut)] \o field
  BY <1>2, <1>4 DEF e
<1>9. s \o <<e>> = [cut EXCEPT ![Len(cut)] = cut[Len(cut)] \o field]
  BY <1>6, <1>7, <1>8
<1> QED
  BY <1>9 DEF e, WithField

LEMMA Md5FiniKeeps == ASSUME DigestLeads, Md5Fini PROVE DigestLeads'
<1> DEFINE k == Len(blocks)
           o == len % 64
           z == Fill(given, 64, 8)
           text == Padded(Piece(0, given), 64, 8)
           cut == Cut(text, 64)
           closing == Placed(buffer, o, <<Closing>>)
           field == <<LengthField, 8 * len>>
<1>1. /\ digest = "md5" /\ ~closed /\ closed' = TRUE
      /\ digest' = digest /\ given' = given /\ len' = len
  BY DEF Md5Fini
<1>2. Md5Leads /\ given \in Nat /\ len \in Nat
  BY <1>1 DEF DigestLeads
<1>3. /\ k \in Nat /\ given = 64 * k + o /\ len = given /\ Pieces(blocks, 0, 64)
      /\ o \in 0..63 /\ buffer \in Texts /\ Len(buffer) = 64
      /\ blocks \in Seq(Texts)
      /\ \A i \in 1..o : buffer[i] = 64 * k + i
  <2>1. o \in 0..63
    BY <1>2
  <2>2. Pieces(blocks, 0, 64)
    BY <1>2 DEF Md5Leads
  <2>3. k \in Nat /\ blocks \in Seq(Texts)
    BY <2>2, LenProperties DEF Pieces
  <2>4. /\ given = 64 * k + o /\ len = given
        /\ buffer \in Texts /\ Len(buffer) = 64
    BY <1>2 DEF Md5Leads
  <2>5. \A i \in 1..o : buffer[i] = 64 * k + i
    BY <1>2 DEF Md5Leads
  <2> HIDE DEF o, k
  <2> QED
    BY <2>1, <2>2, <2>3, <2>4, <2>5
<1>4. /\ z \in Nat /\ (given + 1 + 8 + z) % 64 = 0 /\ z < 64
      /\ text \in Texts /\ Len(text) = given + 1 + z
      /\ \A i \in 1..given + 1 + z :
           text[i] = IF i <= given THEN i ELSE IF i = given + 1 THEN Closing ELSE 0
  <2>1. 8 \in Nat /\ 64 \in Sizes /\ given \in Nat
    BY <1>2, SizesAre
  <2>2. z = Fill(given, 64, 8)
    OBVIOUS
  <2> HIDE DEF z
  <2>3. z \in Nat /\ (given + 1 + 8 + z) % 64 = 0 /\ z < 64 /\ PaddedWith(text, given, z)
    BY ONLY <2>1, <2>2, PaddedIs
  <2> QED
    BY ONLY <2>3 DEF PaddedWith
<1> HIDE DEF z, text, o
<1>5. \A j \in 1..k : cut[j] = blocks[j]
  <2>1. given <= Len(text) /\ 64 * Len(blocks) <= given /\ \A i \in 1..given : text[i] = i
    BY <1>2, <1>3, <1>4
  <2>3. text \in Texts /\ given \in Nat /\ Pieces(blocks, 0, 64) /\ 64 \in Sizes
    BY <1>2, <1>3, <1>4, SizesAre
  <2>4. CutBegins(text, 64, blocks)
    BY ONLY <2>1, <2>3, CutLeads
  <2> QED
    BY ONLY <2>4 DEF CutBegins
<1>6. Md5Blocks = WithField(cut, 8 * len)
  BY <1>3 DEF Md5Blocks, text, WithField
<1>7. Md5Blocks' = Md5Blocks
  BY <1>1 DEF Md5Blocks
<1>8. 8 * len \in Int
  BY <1>2
<1>9. CASE o < 56
  <2> DEFINE final == Placed(closing, o + 1, Zeros(55 - o))
  <2>1. z = 55 - o
    BY <1>2, <1>3, <1>4, <1>9
  <2>2. blocks' = blocks \o <<>> \o <<SubSeq(final, 1, 56) \o field>>
    <3>1. ~(len % 64 >= 56)
      BY <1>3, <1>9 DEF o
    <3> QED
      BY ONLY <3>1, Md5Fini, Zenon DEF Md5Fini, o
  <2>3. blocks \o <<>> = blocks
    BY <1>3
  <2>4. /\ final \in Texts /\ Len(final) = 64
        /\ \A i \in 1..o + 1 + z : final[i] =
             IF i <= o THEN 64 * k + i ELSE IF i = o + 1 THEN Closing ELSE 0
    <3>1. z \in Nat /\ o + 1 + z <= 64 /\ 64 * k \in Nat
      BY <1>3, <1>4, <1>9, <2>1
    <3> DEFINE from == 64 * k
    <3>2. /\ buffer \in Texts /\ Len(buffer) = 64 /\ from \in Nat /\ o \in Nat
          /\ z \in Nat /\ o + 1 + z <= 64 /\ \A i \in 1..o : buffer[i] = from + i
      BY <1>3, <3>1
    <3>3. final = Placed(closing, o + 1, Zeros(z))
      BY <2>1
    <3> HIDE DEF from, final
    <3>4. Filled(Placed(closing, o + 1, Zeros(z)), from, o, z)
      BY ONLY <3>2, Md5Fills
    <3> QED
      BY ONLY <3>3, <3>4 DEF from, Filled
  <2> HIDE DEF final
  <2>5. EndsAs(final, text, Len(blocks))
    <3> SUFFICES \A i \in 1..56 : final[i] = text[64 * k + i]
      BY DEF EndsAs
    <3>1. TAKE i \in 1..56
    <3>2. i \in 1..o + 1 + z /\ 64 * k + i \in 1..given + 1 + z
      BY <1>3, <1>4, <2>1
    <3>3. final[i] = IF i <= o THEN 64 * k + i ELSE IF i = o + 1 THEN Closing ELSE 0
      BY ONLY <2>4, <3>2
    <3>4. text[64 * k + i] = IF 64 * k + i <= given THEN 64 * k + i
                          ELSE IF 64 * k + i = given + 1 THEN Closing ELSE 0
      BY ONLY <1>4, <3>2
    <3> QED
      BY <1>3, <3>2, <3>3, <3>4
  <2>6. Len(text) = 64 * Len(blocks) + 56
    BY <1>3, <1>4, <2>1
  <2>7. blocks \o <<SubSeq(final, 1, 56) \o field>> = WithField(cut, 8 * len)
    <3> DEFINE number == 8 * len
    <3>1. /\ blocks \in Seq(Texts) /\ text \in Texts /\ number \in Int
          /\ final \in Texts /\ Len(final) = 64
          /\ \A j \in 1..Len(blocks) : Cut(text, 64)[j] = blocks[j]
      BY <1>3, <1>4, <1>5, <1>8, <2>4
    <3> HIDE DEF number
    <3>2. blocks \o <<SubSeq(final, 1, 56) \o <<LengthField, number>>>> =
            WithField(Cut(text, 64), number)
      BY ONLY <2>5, <2>6, <3>1, Md5Closes, ZenonT(60)
    <3> QED
      BY <3>2 DEF number
  <2>8. blocks' = Md5Blocks'
    BY <1>6, <1>7, <2>2, <2>3, <2>7
  <2> QED
    BY <1>1, <1>2, <2>8 DEF DigestLeads, DigestOfWhole
<1>10. CASE o >= 56
  <2> DEFINE fill == Placed(closing, o + 1, Zeros(63 - o))
             final == Placed(fill, 0, Zeros(56))
             s == Append(blocks, fill)
  <2>1. z = 119 - o
    <3>1. (64 * k + (o + 9 + z)) % 64 = 0 /\ o + 9 + z \in Nat
      BY <1>3, <1>4
    <3>2. PICK x \in Nat : x = o + 9 + z
      BY <3>1
    <3>3. x % 64 = 0 /\ x >= 65 /\ x <= 135
      BY <1>3, <1>4, <1>10, <3>1, <3>2
    <3>4. x = 128
      BY ONLY <3>3, x \in Nat
    <3> QED
      BY <1>3, <1>4, <3>2, <3>4
  <2>2. blocks' = blocks \o <<fill>> \o <<SubSeq(final, 1, 56) \o field>>
    BY <1>3, <1>10 DEF Md5Fini, o
  <2>3. /\ fill \in Texts /\ Len(fill) = 64
        /\ \A i \in 1..64 : fill[i] =
             IF i <= o THEN 64 * k + i ELSE IF i = o + 1 THEN Closing ELSE 0
    <3> DEFINE y == 63 - o
    <3>1. y \in Nat /\ o + 1 + y <= 64 /\ 64 * k \in Nat /\ o + 1 + y = 64
      BY <1>3
    <3> DEFINE from == 64 * k
    <3>2. /\ buffer \in Texts /\ Len(buffer) = 64 /\ from \in Nat /\ o \in Nat
          /\ y \in Nat /\ o + 1 + y <= 64 /\ \A i \in 1..o : buffer[i] = from + i
      BY <1>3, <3>1
    <3>3. fill = Placed(closing, o + 1, Zeros(y))
      OBVIOUS
    <3> HIDE DEF from, fill, y
    <3>4. Filled(Placed(closing, o + 1, Zeros(y)), from, o, y)
      BY ONLY <3>2, Md5Fills
    <3> QED
      BY ONLY <3>1, <3>3, <3>4 DEF from, Filled
  <2> HIDE DEF fill
  <2>4. s \in Seq(Texts) /\ Len(s) = k + 1 /\ blocks \o <<fill>> = s
        /\ s[k + 1] = fill /\ \A j \in 1..k : s[j] = blocks[j]
    BY <1>3, <2>3
  <2>5. final \in Texts /\ Len(final) = 64 /\ \A i \in 1..56 : final[i] = 0
    <3> DEFINE zs == Zeros(56)
    <3>1. zs \in Texts /\ Len(zs) = 56 /\ \A i \in 1..56 : zs[i] = 0
      BY ZerosIs
    <3> HIDE DEF zs
    <3>2. 0 \in Nat /\ 0 + Len(zs) <= Len(fill)
      BY <2>3, <3>1
    <3>3. zs \in Texts /\ fill \in Texts
      BY <2>3, <3>1
    <3>4. /\ final \in Texts /\ Len(final) = Len(fill)
          /\ \A i \in 1..Len(fill) : final[i] = IF i <= 0 THEN fill[i]
               ELSE IF i <= 0 + Len(zs) THEN zs[i - 0] ELSE fill[i]
      <4>1. final = Placed(fill, 0, zs)
        BY DEF zs
      <4> HIDE DEF final
      <4>2. /\ Placed(fill, 0, zs) \in Texts /\ Len(Placed(fill, 0, zs)) = Len(fill)
            /\ \A i \in 1..Len(fill) : Placed(fill, 0, zs)[i] = IF i <= 0 THEN fill[i]
                 ELSE IF i <= 0 + Len(zs) THEN zs[i - 0] ELSE fill[i]
        BY ONLY <3>2, <3>3, PlacedIs
      <4> QED
        BY ONLY <4>1, <4>2
    <3> HIDE DEF final
    <3>5. ASSUME NEW i \in 1..56 PROVE final[i] = 0
      <4>1. i \in 1..Len(fill) /\ ~(i <= 0) /\ i <= 0 + Len(zs) /\ i - 0 = i
        <5>1. Len(fill) = 64 /\ Len(zs) = 56
          BY ONLY <2>3, <3>1, Zenon
        <5> QED
          BY ONLY <5>1, i \in 1..56
      <4>2. final[i] = zs[i]
        BY ONLY <3>4, <4>1
      <4>3. zs[i] = 0
        BY ONLY <3>1, i \in 1..56, Zenon
      <4> QED
        BY ONLY <4>2, <4>3
    <3> QED
      BY <2>3, <3>4, <3>5
  <2> HIDE DEF final
  <2>6. cut[k + 1] = fill
    <3>1. /\ cut[k + 1] \in Texts /\ Len(cut[k + 1]) = 64
          /\ \A i \in 1..64 : cut[k + 1][i] = text[64 * k + i]
      <4>1. text \in Texts /\ 64 \in Sizes /\ k \in Nat /\ 64 * k + 64 <= Len(text)
        BY <1>3, <1>4, <2>1, SizesAre
      <4> HIDE DEF k
      <4> QED
        BY ONLY <4>1, CutWhole
    <3>2. ASSUME NEW i \in 1..64 PROVE cut[k + 1][i] = fill[i]
      <4>1. 64 * k + i \in 1..given + 1 + z
        BY <1>3, <1>4, <2>1
      <4>2. text[64 * k + i] = IF 64 * k + i <= given THEN 64 * k + i
                            ELSE IF 64 * k + i = given + 1 THEN Closing ELSE 0
        BY ONLY <1>4, <4>1
      <4>3. cut[k + 1][i] = text[64 * k + i]
        BY ONLY <3>1, i \in 1..64, Zenon
      <4>4. fill[i] = IF i <= o THEN 64 * k + i ELSE IF i = o + 1 THEN Closing ELSE 0
        BY ONLY <2>3, i \in 1..64, Zenon
      <4> HIDE DEF cut
      <4> QED
        BY <1>3, <4>2, <4>3, <4>4
    <3>3. \A i \in 1..Len(fill) : fill[i] = cut[k + 1][i]
      BY <2>3, <3>2
    <3>4. fill \in Seq(Int) /\ cut[k + 1] \in Seq(Int) /\ Len(fill) = Len(cut[k + 1])
      BY <2>3, <3>1 DEF Texts
    <3> HIDE DEF cut
    <3> QED
      BY ONLY <3>3, <3>4, SeqEqual
  <2>7. \A j \in 1..Len(s) : cut[j] = s[j]
    <3> HIDE DEF cut, s
    <3>1. TAKE j \in 1..Len(s)
    <3>2. j \in 1..k \/ j = k + 1
      BY <1>3, <2>4
    <3>3. CASE j \in 1..k
      BY ONLY <1>5, <2>4, <3>3
    <3>4. CASE j = k + 1
      BY ONLY <2>4, <2>6, <3>4
    <3> QED
      BY ONLY <3>2, <3>3, <3>4
  <2>8. Len(text) = 64 * Len(s) + 56
    <3>1. Len(s) = k + 1
      BY ONLY <2>4
    <3>2. Len(text) = 64 * (k + 1) + 56
      BY <1>3, <1>4, <2>1
    <3> QED
      BY ONLY <3>1, <3>2
  <2>9. EndsAs(final, text, Len(s))
    <3> SUFFICES \A i \in 1..56 : final[i] = text[64 * Len(s) + i]
      BY DEF EndsAs
    <3>1. TAKE i \in 1..56
    <3>2. 64 * (k + 1) + i \in 1..given + 1 + z
      BY <1>3, <1>4, <2>1
    <3>3. text[64 * (k + 1) + i] = IF 64 * (k + 1) + i <= given THEN 64 * (k + 1) + i
               ELSE IF 64 * (k + 1) + i = given + 1 THEN Closing ELSE 0
      BY ONLY <1>4, <3>2
    <3>4. text[64 * (k + 1) + i] = 0
      BY <1>3, <3>2, <3>3
    <3>5. final[i] = 0
      BY ONLY <2>5, i \in 1..56, Zenon
    <3> QED
      BY ONLY <2>4, <3>4, <3>5
  <2> HIDE DEF s
  <2>10. s \o <<SubSeq(final, 1, 56) \o field>> = WithField(cut, 8 * len)
    <3> DEFINE number == 8 * len
    <3>1. /\ s \in Seq(Texts) /\ text \in Texts /\ number \in Int
          /\ final \in Texts /\ Len(final) = 64
          /\ \A j \in 1..Len(s) : Cut(text, 64)[j] = s[j]
      BY <1>4, <1>8, <2>4, <2>5, <2>7
    <3> HIDE DEF number
    <3>2. s \o <<SubSeq(final, 1, 56) \o <<LengthField, number>>>> =
            WithField(Cut(text, 64), number)
      BY ONLY <2>8, <2>9, <3>1, Md5Closes, ZenonT(60)
    <3> QED
      BY <3>2 DEF number
  <2>11. blocks' = Md5Blocks'
    BY <1>6, <1>7, <2>2, <2>4, <2>10
  <2> QED
    BY <1>1, <1>2, <2>11 DEF DigestLeads, DigestOfWhole
<1> QED
  BY <1>3, <1>9, <1>10

-----------------------------------------------------------------------------
(* The bytes and the mark of a block of hash_X. *)
StribogByte(bits, i) == IF (bits + 7) \div 8 > i THEN ((bits + 7) \div 8) - i ELSE 0
StribogMark(bits, b, i) ==
  IF b = (bits \div 512) + 1 /\ 64 - i = (bits \div 8) % 64 THEN 2^(bits % 8) ELSE 0
StribogOf(bits, b) ==
  [i \in 1..64 |-> Marked(StribogByte(bits, 64 * b - i), StribogMark(bits, b, i))]

LEMMA StribogIs == StribogBlocks = [b \in 1..(given \div 512) + 1 |-> StribogOf(given, b)]
BY DEF StribogBlocks, StribogOf, StribogByte, StribogMark

(* Bits, bytes and blocks of what has been compressed and of the rest. *)
BitsOf(bits, k, l, full) ==
  /\ full \in {0, 1} /\ l \div 8 \in Nat
  /\ (bits + 7) \div 8 = (64 * k + (l \div 8)) + (1 - full)
  /\ bits % 8 = l % 8
  /\ (bits \div 8) % 64 = (l \div 8) % 64
  /\ l >= 512 => l \div 8 >= 64 /\ k + 1 <= bits \div 512
  /\ l < 512 => bits \div 512 = k /\ l \div 8 \in 0..63 /\ (l \div 8) % 64 = l \div 8

LEMMA StribogBits512 ==
  ASSUME NEW k \in Nat, NEW l \in Nat, NEW bits, bits = 512 * k + l,
         NEW full, full = IF l % 8 = 0 THEN 1 ELSE 0
  PROVE  BitsOf(bits, k, l, full)
<1>1. full \in {0, 1}
  OBVIOUS
<1>2. l \div 8 \in Nat /\ bits \div 8 = 64 * k + (l \div 8) /\ bits % 8 = l % 8
  OBVIOUS
<1>3. (bits + 7) \div 8 = (64 * k + (l \div 8)) + (1 - full)
  OBVIOUS
<1>4. (bits \div 8) % 64 = (l \div 8) % 64
  <2>1. PICK q \in Nat : q = l \div 8
    BY <1>2
  <2>2. (64 * k + q) % 64 = q % 64
    OBVIOUS
  <2> QED
    BY <1>2, <2>1, <2>2
<1>5. l >= 512 => l \div 8 >= 64 /\ k + 1 <= bits \div 512
  OBVIOUS
<1>6. l < 512 => bits \div 512 = k /\ l \div 8 \in 0..63
  OBVIOUS
<1>7. l < 512 => (l \div 8) % 64 = l \div 8
  BY <1>6
<1> QED
  BY <1>1, <1>2, <1>3, <1>4, <1>5, <1>6, <1>7 DEF BitsOf

LEMMA StribogByteIs ==
  ASSUME NEW bits, NEW n \in Int, NEW i \in Int, (bits + 7) \div 8 = n
  PROVE  StribogByte(bits, i) = IF n > i THEN n - i ELSE 0
BY DEF StribogByte

MarkAt(bits, q, i) == IF i = 64 - q THEN 2^(bits % 8) ELSE 0

LEMMA StribogBlockKeeps == ASSUME DigestLeads, StribogBlock PROVE DigestLeads'
<1> DEFINE k == Len(blocks)
           f == (len \div 8) - 63 - Full
           x == Piece(f, 64)
<1>1. /\ digest = "stribog" /\ len >= 512 /\ len' = len - 512
      /\ blocks' = Append(blocks, x)
      /\ digest' = digest /\ given' = given /\ closed' = closed
  BY DEF StribogBlock
<1>2. ~closed /\ given \in Nat /\ len \in Nat /\ closed \in BOOLEAN /\ StribogLeads
  BY <1>1 DEF DigestLeads
<1>3. /\ blocks \in Seq(Texts) /\ k \in Nat /\ given = 512 * k + len
      /\ \A j \in 1..k : blocks[j] = StribogBlocks[j]
  BY <1>2, LenProperties DEF StribogLeads
<1>4. /\ Full \in {0, 1} /\ len \div 8 \in Nat
      /\ (given + 7) \div 8 = (64 * k + (len \div 8)) + (1 - Full)
      /\ len \div 8 >= 64 /\ k + 1 <= given \div 512
  <2>1. Full = IF len % 8 = 0 THEN 1 ELSE 0
    BY DEF Full
  <2> HIDE DEF k
  <2>2. BitsOf(given, k, len, Full)
    BY ONLY <1>2, <1>3, <2>1, StribogBits512, ZenonT(60)
  <2> QED
    BY ONLY <1>1, <2>2 DEF BitsOf
<1>5. f \in Int
  BY <1>4
<1>6. x \in Texts
  BY <1>5, PieceIs
<1>7. StribogBlocks[k + 1] = x
  <2>1. StribogBlocks[k + 1] = StribogOf(given, k + 1)
    <3>1. k + 1 \in 1..(given \div 512) + 1
      BY <1>2, <1>3, <1>4
    <3> QED
      BY ONLY <3>1, StribogIs
  <2>2. ASSUME NEW i \in 1..64
        PROVE  Marked(StribogByte(given, 64 * (k + 1) - i), StribogMark(given, k + 1, i)) = f + i
    <3>1. StribogMark(given, k + 1, i) = 0
      BY <1>2, <1>3, <1>4 DEF StribogMark
    <3>2. StribogByte(given, 64 * (k + 1) - i) = f + i
      <4>1. PICK q \in Nat : q = len \div 8
        BY <1>4
      <4>2. PICK u \in {0, 1} : u = Full
        BY <1>4
      <4>3. f = q - 63 - u
        BY <4>1, <4>2
      <4>4. (given + 7) \div 8 = (64 * k + q) + (1 - u) /\ q >= 64
        BY <1>4, <4>1, <4>2
      <4> HIDE DEF f, k
      <4>5. (64 * k + q) + (1 - u) \in Int /\ 64 * (k + 1) - i \in Int
        BY <1>3
      <4>6. StribogByte(given, 64 * (k + 1) - i) =
              IF (64 * k + q) + (1 - u) > 64 * (k + 1) - i
              THEN ((64 * k + q) + (1 - u)) - (64 * (k + 1) - i) ELSE 0
        BY ONLY <4>4, <4>5, StribogByteIs
      <4> QED
        BY ONLY <1>3, <4>3, <4>4, <4>6, i \in 1..64, q \in Nat, u \in {0, 1}
    <3> QED
      BY <1>5, <3>1, <3>2 DEF Marked
  <2> HIDE DEF f
  <2> QED
    BY <2>1, <2>2 DEF StribogOf, Piece
<1> HIDE DEF x
<1>8. /\ blocks' \in Seq(Texts) /\ Len(blocks') = k + 1
      /\ \A j \in 1..k : blocks'[j] = blocks[j]
      /\ blocks'[k + 1] = x
  BY <1>1, <1>3, <1>6, AppendProperties
<1>9. StribogBlocks' = StribogBlocks
  BY <1>1 DEF StribogBlocks
<1>10. \A j \in 1..Len(blocks') : blocks'[j] = StribogBlocks'[j]
  <2>1. TAKE j \in 1..Len(blocks')
  <2>2. j \in 1..k \/ j = k + 1
    BY <1>3, <1>8
  <2> HIDE DEF k
  <2> QED
    BY <1>3, <1>7, <1>8, <1>9, <2>2
<1>11. given' = 512 * Len(blocks') + len' /\ len' \in Nat
  BY <1>1, <1>2, <1>3, <1>8
<1>12. StribogLeads'
  BY <1>8, <1>10, <1>11 DEF StribogLeads
<1> QED
  BY <1>1, <1>2, <1>11, <1>12 DEF DigestLeads, DigestOfWhole

LEMMA StribogRestKeeps == ASSUME DigestLeads, StribogRest PROVE DigestLeads'
<1> DEFINE k == Len(blocks)
           q == len \div 8
           o == (63 - q) + Full
           rest == Piece(0, q + (1 - Full))
           m == Placed(Zeros(64), o, rest)
           mark == 64 - q
           x == [m EXCEPT ![mark] = Marked(@, 2^(len % 8))]
<1>1. /\ digest = "stribog" /\ len < 512 /\ ~closed /\ closed' = TRUE
      /\ len' = len /\ digest' = digest /\ given' = given
      /\ blocks' = Append(blocks, x)
  BY DEF StribogRest
<1>2. given \in Nat /\ len \in Nat /\ StribogLeads
  BY <1>1 DEF DigestLeads
<1>3. /\ blocks \in Seq(Texts) /\ k \in Nat /\ given = 512 * k + len
      /\ \A j \in 1..k : blocks[j] = StribogBlocks[j]
  BY <1>2, LenProperties DEF StribogLeads
<1>4. /\ Full \in {0, 1} /\ q \in 0..63
      /\ (given + 7) \div 8 = (64 * k + q) + (1 - Full)
      /\ given % 8 = len % 8 /\ (given \div 8) % 64 = q /\ given \div 512 = k
  <2>1. Full = IF len % 8 = 0 THEN 1 ELSE 0
    BY DEF Full
  <2> HIDE DEF k
  <2>2. q = len \div 8
    OBVIOUS
  <2> HIDE DEF q, o, rest, m, mark, x
  <2>3. BitsOf(given, k, len, Full)
    BY ONLY <1>2, <1>3, <2>1, StribogBits512, ZenonT(60)
  <2> QED
    BY ONLY <1>1, <2>2, <2>3 DEF BitsOf
<1> HIDE DEF q
<1>5. /\ m \in Texts /\ Len(m) = 64
      /\ \A i \in 1..64 : m[i] = IF i <= o THEN 0 ELSE i - o
  <2> DEFINE r == q + (1 - Full)
             zs == Zeros(64)
  <2>1. r \in Nat /\ o \in Nat /\ 0 \in Int /\ o + r = 64
    BY <1>4
  <2>2. rest \in Texts /\ Len(rest) = r /\ \A i \in 1..r : rest[i] = 0 + i
    <3>1. rest = Piece(0, r)
      OBVIOUS
    <3> HIDE DEF r, rest
    <3>2. /\ Piece(0, r) \in Texts /\ Len(Piece(0, r)) = r
          /\ \A i \in 1..r : Piece(0, r)[i] = 0 + i
      BY ONLY <2>1, PieceIs, ZenonT(60)
    <3> QED
      BY ONLY <3>1, <3>2
  <2>3. zs \in Texts /\ Len(zs) = 64 /\ \A i \in 1..64 : zs[i] = 0
    BY ZerosIs
  <2>4. m = Placed(zs, o, rest)
    OBVIOUS
  <2> HIDE DEF r, zs, o, rest, m
  <2>5. o + Len(rest) <= Len(zs)
    BY <2>1, <2>2, <2>3
  <2>6. rest \in Texts /\ zs \in Texts /\ o \in Nat
    BY <2>1, <2>2, <2>3
  <2>7. /\ Placed(zs, o, rest) \in Texts /\ Len(Placed(zs, o, rest)) = Len(zs)
        /\ \A i \in 1..Len(zs) : Placed(zs, o, rest)[i] = IF i <= o THEN zs[i]
             ELSE IF i <= o + Len(rest) THEN rest[i - o] ELSE zs[i]
    BY ONLY <2>5, <2>6, PlacedIs
  <2>8. ASSUME NEW i \in 1..64 PROVE m[i] = IF i <= o THEN 0 ELSE i - o
    <3>1. i \in 1..Len(zs) /\ zs[i] = 0
      BY ONLY <2>3, i \in 1..64, Zenon
    <3>2. m[i] = IF i <= o THEN zs[i]
                 ELSE IF i <= o + Len(rest) THEN rest[i - o] ELSE zs[i]
      BY ONLY <2>4, <2>7, <3>1
    <3>3. CASE i <= o
      BY <3>1, <3>2, <3>3
    <3>4. CASE ~(i <= o)
      <4>1. i - o \in 1..r /\ i <= o + Len(rest)
        BY <2>1, <2>2, <3>4
      <4>2. rest[i - o] = 0 + (i - o)
        BY ONLY <2>2, <4>1
      <4> QED
        BY <2>1, <3>2, <3>4, <4>1, <4>2
    <3> QED
      BY <3>3, <3>4
  <2> QED
    BY <2>3, <2>4, <2>7, <2>8
<1>6. StribogOf(given, k + 1) = x
  <2>1. m \in [1..64 -> Int]
    BY <1>5, LenProperties DEF Texts
  <2>2. mark \in 1..64
    BY <1>4
  <2>3. ASSUME NEW i \in 1..64
        PROVE  Marked(StribogByte(given, 64 * (k + 1) - i), StribogMark(given, k + 1, i)) =
                 IF i = mark THEN Marked(m[i], 2^(len % 8)) ELSE m[i]
    <3>1. StribogByte(given, 64 * (k + 1) - i) = m[i]
      <4>1. m[i] = IF i <= o THEN 0 ELSE i - o
        BY <1>5
      <4>2. PICK u \in {0, 1} : u = Full
        BY <1>4
      <4>3. (given + 7) \div 8 = (64 * k + q) + (1 - u)
        BY ONLY <1>4, <4>2
      <4>4. o = (63 - q) + u
        BY <4>2
      <4> HIDE DEF m, o, k
      <4>5. (64 * k + q) + (1 - u) \in Int /\ 64 * (k + 1) - i \in Int
        BY <1>3, <1>4
      <4>6. StribogByte(given, 64 * (k + 1) - i) =
              IF (64 * k + q) + (1 - u) > 64 * (k + 1) - i
              THEN ((64 * k + q) + (1 - u)) - (64 * (k + 1) - i) ELSE 0
        BY ONLY <4>3, <4>5, StribogByteIs
      <4>7. k \in Nat /\ q \in 0..63
        BY <1>3, <1>4
      <4> QED
        BY ONLY <4>1, <4>4, <4>6, <4>7, i \in 1..64, u \in {0, 1}
    <3>2. StribogMark(given, k + 1, i) = IF i = mark THEN 2^(len % 8) ELSE 0
      <4>1. q \in 0..63 /\ (given \div 8) % 64 = q
        BY ONLY <1>4
      <4>2. StribogMark(given, (given \div 512) + 1, i) = MarkAt(given, q, i)
        BY ONLY <4>1, i \in 1..64 DEF StribogMark, MarkAt
      <4>3. given \div 512 = k /\ given % 8 = len % 8
        BY ONLY <1>4
      <4> HIDE DEF k
      <4> QED
        BY ONLY <4>2, <4>3 DEF MarkAt
    <3>3. m[i] \in Int
      BY <2>1
    <3>4. Marked(m[i], 0) = m[i]
      BY <3>3 DEF Marked
    <3> HIDE DEF m, mark
    <3> QED
      BY <3>1, <3>2, <3>4
  <2> HIDE DEF m, mark
  <2>4. x = [i \in 1..64 |-> IF i = mark THEN Marked(m[i], 2^(len % 8)) ELSE m[i]]
    BY <2>1, <2>2
  <2> QED
    BY <2>3, <2>4 DEF StribogOf
<1> HIDE DEF x
<1>7. blocks' = [b \in 1..k + 1 |-> StribogOf(given, b)]
  <2> DEFINE S == Texts \cup {x}
  <2>1. blocks \in Seq(S) /\ x \in S
    BY <1>3, SeqMonotonic
  <2> HIDE DEF S
  <2>2. /\ Append(blocks, x) \in Seq(S) /\ Len(Append(blocks, x)) = k + 1
        /\ \A j \in 1..k : Append(blocks, x)[j] = blocks[j]
        /\ Append(blocks, x)[k + 1] = x
    BY <2>1, AppendProperties
  <2>3. Append(blocks, x) \in [1..k + 1 -> S]
    BY <2>2, LenProperties
  <2>4. ASSUME NEW j \in 1..k + 1 PROVE blocks'[j] = StribogOf(given, j)
    <3>1. CASE j = k + 1
      BY <1>1, <1>6, <2>2, <3>1
    <3>2. CASE j # k + 1
      <4>1. j \in 1..k /\ j \in 1..(given \div 512) + 1
        <5>1. given \div 512 = k /\ k \in Nat
          BY <1>3, <1>4
        <5> HIDE DEF k
        <5>2. j \in 1..k /\ j \in 1..k + 1
          BY ONLY <3>2, <5>1, j \in 1..k + 1
        <5> QED
          BY ONLY <5>1, <5>2
      <4>2. StribogBlocks[j] = StribogOf(given, j)
        BY ONLY <4>1, StribogIs
      <4> QED
        BY <1>1, <1>3, <2>2, <4>1, <4>2
    <3> QED
      BY <3>1, <3>2
  <2> QED
    BY <1>1, <2>3, <2>4
<1>8. blocks' = StribogBlocks'
  <2>1. StribogBlocks' = StribogBlocks
    BY <1>1 DEF StribogBlocks
  <2> QED
    BY <1>4, <1>7, <2>1, StribogIs
<1> QED
  BY <1>1, <1>2, <1>8 DEF DigestLeads, DigestOfWhole

(* Whatever pieces a message comes in, what is compressed is the padded    *)
(* message, cut into blocks.                                               *)
THEOREM DigestOfWholeCorrect == DigestSpec => []DigestOfWhole
<1>1. DigestInit => DigestLeads
  BY InitDigest
<1>2. DigestLeads /\ [DigestNext]_digestVars => DigestLeads'
  <2> SUFFICES ASSUME DigestLeads, [DigestNext]_digestVars PROVE DigestLeads'
    OBVIOUS
  <2>1. CASE \E n \in CmacPieces : CmacUpdate(n)
    BY <2>1, CmacUpdateKeeps
  <2>2. CASE CmacFini
    BY <2>2, CmacFiniKeeps
  <2>3. CASE \E n \in Md5Pieces : Md5Update(n)
    BY <2>3, Md5UpdateKeeps
  <2>4. CASE Md5Fini
    BY <2>4, Md5FiniKeeps
  <2>5. CASE StribogBlock
    BY <2>5, StribogBlockKeeps
  <2>6. CASE StribogRest
    BY <2>6, StribogRestKeeps
  <2>7. CASE UNCHANGED digestVars
    <3>1. /\ digest' = digest /\ given' = given /\ len' = len /\ buffer' = buffer
          /\ blocks' = blocks /\ closed' = closed
      BY <2>7 DEF digestVars
    <3>2. CmacLeads' = CmacLeads /\ Md5Leads' = Md5Leads /\ StribogLeads' = StribogLeads
          /\ DigestOfWhole' = DigestOfWhole
      BY <3>1 DEF CmacLeads, Md5Leads, StribogLeads, Pieces, DigestOfWhole,
                  CmacBlocks, Md5Blocks, StribogBlocks
    <3> QED
      BY <3>1, <3>2 DEF DigestLeads
  <2> QED
    BY <2>1, <2>2, <2>3, <2>4, <2>5, <2>6, <2>7 DEF DigestNext
<1>3. DigestLeads => DigestOfWhole
  BY DEF DigestLeads
<1> QED
  BY <1>1, <1>2, <1>3, PTL DEF DigestSpec
=============================================================================
