-------------------------------- MODULE Fifo --------------------------------
(***************************************************************************)
(* What the non-blocking queues promise: elements leave in the order in    *)
(* which they were put, each of them once.                                 *)
(***************************************************************************)
EXTENDS Sequences

CONSTANT Node
VARIABLE items      \* the elements of the queue, oldest first

Init == items = <<>>
Put(n) == items' = Append(items, n)
Get == items # <<>> /\ items' = Tail(items)
Next == Get \/ \E n \in Node : Put(n)
Spec == Init /\ [][Next]_items
=============================================================================
