------------------------------ MODULE MCDevice ------------------------------
(* The device, for TLC.  One key is given two values; the ciphers work on  *)
(* the examples of their standards, the checksums on short messages and    *)
(* the one of the check values.                                            *)
EXTENDS Device, TLC

KeyData == [k \in Keys |-> IF k = 0 THEN {0, 1} ELSE {k}]

DeviceSymmetry == Permutations(Inserter)

Words(first, step) ==
  [c \in 1..4 |-> [i \in 1..4 |-> (first + step * (4 * (c - 1) + i - 1)) % 256]]
AesKeySet == {Words(0, 1)}
AesBlockSet == {Words(0, 17)}
AesAnswer == << <<\h69, \hC4, \hE0, \hD8>>, <<\h6A, \h7B, \h04, \h30>>,
                <<\hD8, \hCD, \hB7, \h80>>, <<\h70, \hB4, \hC5, \h5A>> >>

KuznKeySet == {<<
  <<\h88, \h99, \hAA, \hBB, \hCC, \hDD, \hEE, \hFF,
    \h00, \h11, \h22, \h33, \h44, \h55, \h66, \h77>>,
  <<\hFE, \hDC, \hBA, \h98, \h76, \h54, \h32, \h10,
    \h01, \h23, \h45, \h67, \h89, \hAB, \hCD, \hEF>> >>}
KuznBlock == <<\h88, \h99, \hAA, \hBB, \hCC, \hDD, \hEE, \hFF,
               \h00, \h77, \h66, \h55, \h44, \h33, \h22, \h11>>
KuznBlockSet == {KuznBlock}
KuznAnswer == <<\hCD, \hED, \hD4, \hB9, \h42, \h8D, \h46, \h5A,
                \h30, \h24, \hBC, \hBE, \h90, \h9D, \h67, \h7F>>

(* A word by its halves. *)
Nibbles(high, low) ==
  LET of(n) == <<n % 16, (n \div 16) % 16, (n \div 256) % 16, n \div 4096>>
  IN  of(low) \o of(high)
MagmaKeySet == {<<
  Nibbles(\hFCFD, \hFEFF), Nibbles(\hF8F9, \hFAFB),
  Nibbles(\hF4F5, \hF6F7), Nibbles(\hF0F1, \hF2F3),
  Nibbles(\h3322, \h1100), Nibbles(\h7766, \h5544),
  Nibbles(\hBBAA, \h9988), Nibbles(\hFFEE, \hDDCC)>>}
MagmaBlock == <<Nibbles(\h7654, \h3210), Nibbles(\hFEDC, \hBA98)>>
MagmaBlockSet == {MagmaBlock}
MagmaAnswer == <<Nibbles(\hC2D8, \hCA3D), Nibbles(\h4EE9, \h01E5)>>

(* The rounds of Stribog add numbers of no meaning; what is hashed is one  *)
(* block of all the small bytes, and the rounds mix it into every byte.    *)
StribogTable == [r \in 1..12 |-> [i \in 1..64 |-> (37 * i * i + 101 * r) % 256]]
StribogInputSet == {
  [n |-> [i \in 1..64 |-> IF i = 63 THEN 2 ELSE 0], hash |-> [i \in 1..64 |-> 1],
   block |-> [i \in 1..64 |-> i - 1]]}

Examples == {
  [cipher |-> "aes", plain |-> Words(0, 17), phase |-> "inverse",
   round |-> 10, state |-> AesAnswer],
  [cipher |-> "kuznyechik", plain |-> KuznBlock, phase |-> "done",
   round |-> 9, state |-> KuznAnswer],
  [cipher |-> "magma", plain |-> MagmaBlock, phase |-> "decrypt",
   round |-> 32, state |-> MagmaAnswer]}

CheckMessage == [i \in 1..9 |-> 48 + i]
Messages == {<<>>, CheckMessage} \cup [1..3 -> {0, 1, 90, 128, 255}]
AdlerStarts == {<<1, 0>>, <<65520, 65519>>}
=============================================================================
