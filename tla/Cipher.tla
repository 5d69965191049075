------------------------------- MODULE Cipher -------------------------------
(***************************************************************************)
(* The work of a block cipher, one round at a time: the key is expanded,   *)
(* the block is encrypted, and decrypted where the code can.               *)
(***************************************************************************)
EXTENDS Bytes, Integers, Sequences

VARIABLES
  cipher,     \* which one
  plain,      \* the block that was given
  keys,       \* the round keys, or the words of the key
  state,      \* the block in the making
  round,      \* rounds done
  phase       \* "expand", "encrypt", "inverse", "decrypt" or "done"

cipherVars == <<cipher, plain, keys, state, round, phase>>

(* Decryption gives the block back: of AES by tables and products of its   *)
(* own and a schedule that InvKeyExpansion changed in place, of Magma by   *)
(* the rounds in the other order.  The tests print the blocks for a reader *)
(* to compare.                                                             *)
InverseRestores ==
  cipher \in {"aes", "magma"} /\ phase = "done" => state = plain
=============================================================================
