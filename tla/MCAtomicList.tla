---------------------------- MODULE MCAtomicList ----------------------------
(***************************************************************************)
(* Instances of AtomicList for TLC.                                        *)
(***************************************************************************)
EXTENDS AtomicList, TLC

Symmetric == Permutations(Proc) \cup Permutations(Node)
=============================================================================
