------------------------------ MODULE MCQueue -------------------------------
(* The three kinds of queue and the pool, for TLC. *)
EXTENDS Queue, TLC

AllKinds == {"queue", "async", "message", "pool"}
Senders == Permutations(Putter)
=============================================================================
