------------------------------ MODULE FreeList ------------------------------
(***************************************************************************)
(* What atomic_list_push and atomic_list_pop promise to the allocators     *)
(* built on them: a stack of free nodes and the contexts that hold the     *)
(* others, every operation one indivisible step.  AtomicList implements    *)
(* this specification.                                                     *)
(***************************************************************************)
EXTENDS Naturals, Sequences

CONSTANTS
  Proc,       \* the contexts that call: threads and interrupt handlers
  Node,       \* the nodes, made or still to be made
  Batch       \* nodes that g_slice_alloc cuts from one block of memory

VARIABLES
  list,       \* the free nodes, the top of the stack first
  held,       \* the nodes each context has been given
  heap        \* the nodes not made yet: memory still to be had from malloc

freeListVars == <<list, held, heap>>

NodesOf(s) == {s[i] : i \in DOMAIN s}
Distinct(s) == \A i, j \in DOMAIN s : s[i] = s[j] => i = j

(* The ways to cut a block into nodes. *)
Chains(memory) == {s \in [1..Batch -> memory] : Distinct(s)}

FreeListInit ==
  /\ list = <<>>
  /\ held = [p \in Proc |-> {}]
  /\ heap = Node

Alloc(p) ==
  /\ list # <<>>
  /\ list' = Tail(list)
  /\ held' = [held EXCEPT ![p] = @ \cup {Head(list)}]
  /\ UNCHANGED heap

Free(p, n) ==
  /\ n \in held[p]
  /\ list' = <<n>> \o list
  /\ held' = [held EXCEPT ![p] = @ \ {n}]
  /\ UNCHANGED heap

Grow(s) ==
  /\ list' = s \o list
  /\ heap' = heap \ NodesOf(s)
  /\ UNCHANGED held

FreeListNext ==
  \/ \E p \in Proc : Alloc(p) \/ \E n \in Node : Free(p, n)
  \/ \E s \in Chains(heap) : Grow(s)

FreeListSpec == FreeListInit /\ [][FreeListNext]_freeListVars
=============================================================================
