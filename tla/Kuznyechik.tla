---------------------------- MODULE Kuznyechik ------------------------------
(***************************************************************************)
(* The block cipher of kuznyechik.c.  The substitution and the matrix are  *)
(* kept as logarithms in the field, so that a round adds exponents.  The   *)
(* tables are given by what they are tables of.                            *)
(***************************************************************************)
EXTENDS Cipher
LOCAL INSTANCE SequencesExt

CONSTANTS KuznKeys, KuznBlocks   \* the keys, in two halves, and the blocks

SYM == 255      \* the logarithm of 0

(* The powers of x, as kuzn_gen_tables lists them: those known so far, and *)
(* as many again.                                                          *)
Powers(poly) ==
  LET known[k \in 0..8] ==
        IF k = 0 THEN <<1>>
        ELSE LET half == known[k - 1]
                 power == Twice(half[Len(half)], poly)
             IN  half \o Vector([i \in DOMAIN half |-> gf2p8_mul(half[i], power, poly)])
  IN  known[8]

exp_ == Powers(\h1C3)
log_ == [b \in Byte |-> IF b = 0 THEN SYM ELSE CHOOSE v \in 0..254 : exp_[v + 1] = b]

(* The substitution, by the formula kept in stribog.c. *)
Sbox ==
  LET s == <<1, 221, 146, 79, 147, 153, 11, 68, 214, 215, 78, 220, 152, 10, 69>>
      k == <<0, 32, 50, 6, 20, 4, 22, 34, 48, 16, 2, 54, 36, 52, 38, 18, 0>>
      powers == Powers(\h11D)
      affine(l) ==
        IF l % 17 # 0 THEN XorAll(<<252, k[(l % 17) + 1], s[(l \div 17) + 1]>>)
        ELSE ByteXor[252][k[(l \div 17) + 1]]
  IN  [x \in Byte |-> IF x = 0 THEN 252
                      ELSE affine(CHOOSE l \in 1..255 : powers[l + 1] = x)]

(* The linear transformation: sixteen steps of a feedback register. *)
Feedback(a) ==
  LET c == <<1, 148, 32, 133, 16, 194, 192, 1, 251, 1, 192, 194, 16, 133, 32, 148>>
  IN  Append(Tail(a), XorAll([i \in 1..16 |-> gf2p8_mul(c[i], a[i], \h1C3)]))
Linear(a) ==
  LET after[i \in 0..16] == IF i = 0 THEN a ELSE Feedback(after[i - 1])
  IN  after[16]

Unit(i, n) == [j \in 1..16 |-> IF j = i THEN n ELSE 0]
log_LMT == Vector([i \in 1..16 |->
             LET row == Linear(Unit(i, 1)) IN Vector([j \in 1..16 |-> log_[row[j]]])])
log_sbox == Vector([b \in 1..256 |-> log_[Sbox[b - 1]]])
Cx == Vector([n \in 1..32 |-> Linear(Unit(1, n))])

SlipMod255(v) == v % 256
mod255(v) == (v + (v \div 256)) % 256

(* LS4: substitution and matrix at once; a 0 has no logarithm. *)
LS4(a) ==
  LET term(i, j) ==
        LET a8 == log_sbox[a[i] + 1]
        IN  IF a8 = SYM THEN 0 ELSE exp_[mod255(a8 + log_LMT[i][j]) + 1]
  IN  Vector([j \in 1..16 |-> XorAll([i \in 1..16 |-> term(i, j)])])

-----------------------------------------------------------------------------
(* kuzn_key_expansion: the first two keys are the halves, turned round. *)
KuznInit ==
  /\ cipher = "kuznyechik" /\ phase = "expand" /\ round = 0
  /\ plain \in KuznBlocks
  /\ \E key \in KuznKeys : keys = <<Reverse(key[1]), Reverse(key[2])>>
  /\ state = keys

(* A turn of its inner loop; after every fourth the pair is two keys. *)
KuznExpand ==
  LET b == Xor(LS4(Xor(state[1], Cx[round + 1])), state[2])
      a == Xor(LS4(Xor(b, Cx[round + 2])), state[1])
  IN  /\ cipher = "kuznyechik" /\ phase = "expand"
      /\ keys' = IF round % 8 = 6 THEN keys \o <<a, b>> ELSE keys
      /\ IF round = 30
         THEN /\ phase' = "encrypt" /\ round' = 0
              /\ state' = Xor(plain, keys[1])
         ELSE /\ round' = round + 2 /\ state' = <<a, b>>
              /\ UNCHANGED phase
      /\ UNCHANGED <<cipher, plain>>

(* kuzn_encrypt *)
KuznEncrypt ==
  /\ cipher = "kuznyechik" /\ phase = "encrypt"
  /\ state' = Xor(LS4(state), keys[round + 2])
  /\ round' = round + 1
  /\ phase' = IF round = 8 THEN "done" ELSE phase
  /\ UNCHANGED <<cipher, plain, keys>>

KuznNext == KuznExpand \/ KuznEncrypt

-----------------------------------------------------------------------------
(* A round by logarithms is the substitution and then the linear           *)
(* transformation in the field, whatever the sums of exponents: 255 is the *)
(* exponent of 1, more than 255 carries, and 0 has none.                   *)
KuznAgrees ==
  cipher = "kuznyechik" /\ phase = "encrypt" =>
    LS4(state) = Linear([i \in 1..16 |-> Sbox[state[i]]])
=============================================================================
