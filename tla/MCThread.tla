------------------------------ MODULE MCThread ------------------------------
(***************************************************************************)
(* Instances of Thread for TLC.                                            *)
(***************************************************************************)
EXTENDS Thread, TLC

OneToken == [s \in Sem |-> 1]
AnyOnly == {osFlagsWaitAny}
Others == Permutations(Thread \ {Main})
Forever == {osWaitForever}
=============================================================================
