------------------------------ MODULE Stribog -------------------------------
(***************************************************************************)
(* The compression of stribog.c, and the other forms of its round that the *)
(* test of the file works out: a product of matrices in the field, the     *)
(* same by logarithms, by products reduced once at the end, and in the     *)
(* field of AES, which has an instruction for it.  The tables are given by *)
(* what they are tables of.                                                *)
(***************************************************************************)
EXTENDS Kuznyechik

CONSTANTS
  StribogC,        \* the table C: what the rounds add to the key
  StribogInputs    \* of the compression: N, the hash so far and a block

(* AddXor512 is Xor.  P transposes the block, as the table Tau has it. *)
StribogS(s) == Vector([i \in DOMAIN s |-> Sbox[s[i]]])
StribogP(s) == Vector([i \in DOMAIN s |-> s[8 * ((i - 1) % 8) + (i - 1) \div 8 + 1]])

Rev8 ==
  [a \in Byte |->
    LET sum[i \in 0..8] ==
          IF i = 0 THEN 0 ELSE sum[i - 1] + Bit(a, i - 1) * 2^(8 - i)
    IN  sum[8]]

LM == <<
  <<\h71, \h05, \h09, \hB9, \h61, \hA2, \h27, \h0E>>,
  <<\h04, \h88, \h5B, \hB2, \hE4, \h36, \h5F, \h65>>,
  <<\h5F, \hCB, \hAD, \h0F, \hBA, \h2C, \h04, \hA5>>,
  <<\hE5, \h01, \h54, \hBA, \h0F, \h11, \h2A, \h76>>,
  <<\hD4, \h81, \h1C, \hFA, \h39, \h5E, \h15, \h24>>,
  <<\h05, \h71, \h5E, \h66, \h17, \h1C, \hD0, \h02>>,
  <<\h2D, \hF1, \hE7, \h28, \h55, \hA0, \h4C, \h9A>>,
  <<\h0E, \h02, \hF6, \h8A, \h15, \h9D, \h39, \h71>> >>

(* The table A: what a bit of a byte adds to its row. *)
A == [k \in 1..8 |-> [bit \in 0..7 |-> [b \in 1..8 |->
       Rev8[gf2p8_mul(LM[b][k], 2^(7 - bit), \h171)]]]]

StribogL(s) ==
  LET row(i) == SubSeq(s, 8 * i + 1, 8 * i + 8)
      added(k, byte, b) ==
        XorAll([j \in 1..8 |-> IF Bit(byte, j - 1) = 1 THEN A[k][j - 1][b] ELSE 0])
      mixed(r) == [b \in 1..8 |-> XorAll([k \in 1..8 |-> added(k, r[k], b)])]
  IN  Vector([i \in 1..64 |-> mixed(row((i - 1) \div 8))[((i - 1) % 8) + 1]])

LPS(s) == StribogL(StribogP(StribogS(s)))

-----------------------------------------------------------------------------
(* A matrix of 8x8 bits is the sequence of its rows. *)
Parity(x, y) ==
  LET sum[i \in 0..8] ==
        IF i = 0 THEN 0 ELSE sum[i - 1] + Bit(x, i - 1) * Bit(y, i - 1)
  IN  sum[8] % 2
ByteOf(bit) ==
  LET sum[i \in 0..8] == IF i = 0 THEN 0 ELSE sum[i - 1] + bit[i - 1] * 2^(i - 1)
  IN  sum[8]

affine(matrix, byte) == ByteOf([i \in 0..7 |-> Parity(matrix[i + 1], byte)])
m_column(matrix, n) == ByteOf([i \in 0..7 |-> Bit(matrix[i + 1], n)])
m_mul(m1, m2) ==
  Vector([y \in 1..8 |-> ByteOf([x \in 0..7 |-> Parity(m1[y], m_column(m2, x))])])
m_transpose(matrix) == Vector([x \in 1..8 |-> m_column(matrix, x - 1)])
m_mulC(c, poly) ==
  m_transpose([i \in 1..8 |-> gf2p8_mul(c, 2^(i - 1), poly)])

(* R reverses a byte; m takes the field of 171 to that of 11B, m_ back. *)
R == <<\h80, \h40, \h20, \h10, \h08, \h04, \h02, \h01>>
m == <<\h49, \hA2, \h4E, \hE2, \h2C, \h98, \h4C, \hF0>>
m_ == <<\hFB, \h44, \hBA, \hF0, \hCC, \h5A, \h0A, \h1C>>
mr == m_mul(m, R)
rm_ == m_mul(R, m_)
Q_171 == m_mulC(\h71, \h171)

Sbox_R == [i \in Byte |-> affine(R, Sbox[affine(R, i)])]
Sbox_iso == [i \in Byte |-> affine(mr, Sbox[affine(rm_, i)])]
LM_11b == [j \in 1..8 |-> [k \in 1..8 |-> affine(m, LM[j][k])]]

exp_171 == LET powers == Powers(\h171) IN [v \in 0..255 |-> Rev8[powers[v + 1]]]
log_171 == [b \in Byte |-> IF b = 0 THEN SYM
                           ELSE CHOOSE v \in 0..254 : exp_171[v] = Rev8[b]]
log_LM == [j \in 1..8 |-> [k \in 1..8 |-> log_171[LM[j][k]]]]
log_Sbox == [b \in Byte |-> log_171[Sbox_R[Rev8[b]]]]

(* A byte of the product: the sum over a row of the matrix and a column of *)
(* the block, of what each byte of the two gives.                          *)
Summed(s, product) ==
  LET at(n, k) == s[8 * (k - 1) + ((n - 1) \div 8) + 1]
  IN  Vector([n \in 1..64 |->
        XorAll([k \in 1..8 |-> product[((n - 1) % 8) + 1][k][at(n, k)]])])

MulM(s) ==
  LET v == Summed(s, [j \in 1..8 |-> [k \in 1..8 |-> [a \in Byte |->
                       gf2p8_mul(LM[j][k], Sbox_R[Rev8[a]], \h171)]]])
  IN  Vector([n \in 1..64 |-> Rev8[v[n]]])

(* By logarithms; only A5 is substituted by 0. *)
MulME(s) ==
  Summed(s, [j \in 1..8 |-> [k \in 1..8 |-> [a \in Byte |->
    IF a = \hA5 THEN 0 ELSE exp_171[mod255(log_LM[j][k] + log_Sbox[a])]]]])

(* By products of polynomials, not reduced: their low and their high byte. *)
ClMul8(p, q) ==
  LET shifted(b) == IF Bit(q, b) = 0 THEN 0 ELSE p * 2^b
  IN  [low |-> XorAll([b \in 1..8 |-> shifted(b - 1) % 256]),
       high |-> XorAll([b \in 1..8 |-> shifted(b - 1) \div 256])]
MulMQ(s) ==
  LET product(byte) == [j \in 1..8 |-> [k \in 1..8 |-> [a \in Byte |->
                          ClMul8(LM[j][k], Sbox_R[Rev8[a]])[byte]]]]
      l == Summed(s, product("low"))
      h == Summed(s, product("high"))
  IN  Vector([n \in 1..64 |-> Rev8[ByteXor[l[n]][affine(Q_171, h[n])]]])

(* In the other field. *)
MulM_11b(s) ==
  LET v == Summed(s, [j \in 1..8 |-> [k \in 1..8 |-> [a \in Byte |->
                       gf2p8_mul(LM_11b[j][k], Sbox_iso[affine(mr, a)], \h11B)]]])
  IN  Vector([n \in 1..64 |-> affine(rm_, v[n])])

-----------------------------------------------------------------------------
(* g_N: the key of the first round, and E begins with the block. *)
StribogInit ==
  /\ cipher = "stribog" /\ phase = "encrypt" /\ round = 0
  /\ \E input \in StribogInputs :
       /\ plain = <<input.hash, input.block>>
       /\ keys = LPS(Xor(input.n, input.hash))
  /\ state = Xor(plain[2], keys)

(* A round of E. *)
StribogRound ==
  /\ cipher = "stribog" /\ phase = "encrypt" /\ round < Len(StribogC)
  /\ keys' = LPS(Xor(keys, StribogC[round + 1]))
  /\ state' = Xor(LPS(state), keys')
  /\ round' = round + 1
  /\ UNCHANGED <<cipher, plain, phase>>

(* The end of g_N: the hash and the block are added. *)
StribogEnd ==
  /\ cipher = "stribog" /\ phase = "encrypt" /\ round = Len(StribogC)
  /\ state' = Xor(Xor(state, plain[1]), plain[2])
  /\ phase' = "done"
  /\ UNCHANGED <<cipher, plain, keys, round>>

StribogNext == StribogRound \/ StribogEnd

-----------------------------------------------------------------------------
(* The four other forms of a round give what S, P and L give, of the block *)
(* and of the key, whatever the bytes are: the zero that has no logarithm, *)
(* exponents that add up to 255 or more, and the field they are taken in.  *)
StribogAgrees ==
  cipher = "stribog" =>
    \A s \in {state, keys} :
      LET lps == LPS(s)
      IN  /\ MulM(s) = lps
          /\ MulME(s) = lps
          /\ MulMQ(s) = lps
          /\ MulM_11b(s) = lps
=============================================================================
