----------------------------- MODULE AtomicList -----------------------------
(***************************************************************************)
(* The lock-free list of free nodes under g_slice_alloc, g_slice_free1 and *)
(* osMemoryPoolAlloc, osMemoryPoolFree: threads and interrupt handlers     *)
(* push and pop with a load and a conditional store, one memory access a   *)
(* step.                                                                   *)
(*                                                                         *)
(* On the cores with exclusive access the load is LDREX and the store is   *)
(* STREX: the core has one reservation, which every exception clears, so   *)
(* that it survives only as long as no other context runs (reserved).  On  *)
(* Cortex-M0 and on Intel the store compares the value of the top pointer  *)
(* with the one loaded (ValueCAS).                                         *)
(***************************************************************************)
EXTENDS Naturals, Sequences, FiniteSets

CONSTANTS
  Proc,       \* the contexts that call: threads and interrupt handlers
  Node,       \* the nodes, made or still to be made
  NULL,
  Data,       \* what the user of a node has written over its next pointer
  Batch,      \* nodes cut from one block: 32 >> pool_idx, 2 at least
  ValueCAS    \* TRUE where the conditional store compares values

ASSUME ListAssumption ==
  /\ NULL \notin Node /\ Data \notin Node /\ NULL # Data
  /\ Batch \in Nat /\ Batch >= 2
  /\ ValueCAS \in BOOLEAN

VARIABLES
  top,        \* pool->free_list, or mp->pool
  next,       \* the next pointer of each node
  heap,       \* the nodes not made yet: memory still to be had from malloc
  held,       \* the nodes each context has been given
  pc,         \* where each context is in its call
  ref,        \* the top it has loaded
  succ,       \* pop: the next pointer it has loaded
  seg,        \* push: the chain it pushes
  reserved,   \* the context that has the exclusive reservation, as a set
  list        \* history: the nodes pushed and not popped, the last first

nodeVars == <<top, next, heap, held, list>>
callVars == <<pc, ref, succ, seg>>
vars == <<nodeVars, callVars, reserved>>

Ptr == Node \cup {NULL, Data}
NodesOf(s) == {s[i] : i \in DOMAIN s}
Distinct(s) == \A i, j \in DOMAIN s : s[i] = s[j] => i = j
Chains(memory) == {s \in [1..Batch -> memory] : Distinct(s)}

(* A call that pushes a chain cut from fresh memory. *)
Growing(p) == Len(seg[p]) > 1
Fresh == UNION {NodesOf(seg[p]) : p \in {q \in Proc : Growing(q)}}

Init ==
  /\ top = NULL
  /\ next = [n \in Node |-> Data]
  /\ heap = Node
  /\ held = [p \in Proc |-> {}]
  /\ pc = [p \in Proc |-> "idle"]
  /\ ref = [p \in Proc |-> NULL]
  /\ succ = [p \in Proc |-> NULL]
  /\ seg = [p \in Proc |-> <<>>]
  /\ reserved = {}
  /\ list = <<>>

(* Another context has run since: its entry cleared the reservation. *)
Preempts(p) == reserved' = reserved \cap {p}

SlipStoreSucceeds(p) == TRUE
StoreSucceeds(p) == IF ValueCAS THEN top = ref[p] ELSE p \in reserved

(* atomic_list_pop: load the top.  An empty list sends g_slice_alloc for   *)
(* memory; when there is none left it is an exhausted pool's NULL.         *)
PopLoad(p) ==
  /\ pc[p] \in {"idle", "pop"}
  /\ ref' = [ref EXCEPT ![p] = top]
  /\ reserved' = {p}
  /\ pc' = [pc EXCEPT ![p] =
       IF top # NULL THEN "popNext"
       ELSE IF Cardinality(heap) >= Batch THEN "cut" ELSE "idle"]
  /\ UNCHANGED <<nodeVars, succ, seg>>

(* The argument ref->next of the conditional store. *)
PopNext(p) ==
  /\ pc[p] = "popNext"
  /\ succ' = [succ EXCEPT ![p] = next[ref[p]]]
  /\ pc' = [pc EXCEPT ![p] = "popStore"]
  /\ Preempts(p)
  /\ UNCHANGED <<nodeVars, ref, seg>>

SlipPopStore(p) ==
  /\ pc[p] = "popStore"
  /\ reserved' = {}
  /\ held' = [held EXCEPT ![p] = @ \cup {ref[p]}]
  /\ IF StoreSucceeds(p) THEN top' = succ[p] /\ list' = Tail(list)
     ELSE UNCHANGED <<top, list>>
  /\ pc' = [pc EXCEPT ![p] = "idle"]
  /\ UNCHANGED <<next, heap, ref, succ, seg>>

(* The conditional store, from the beginning again if it fails. *)
PopStore(p) ==
  /\ pc[p] = "popStore"
  /\ reserved' = {}
  /\ IF StoreSucceeds(p)
       THEN /\ top' = succ[p]
            /\ held' = [held EXCEPT ![p] = @ \cup {ref[p]}]
            /\ list' = Tail(list)
            /\ pc' = [pc EXCEPT ![p] = "idle"]
       ELSE /\ pc' = [pc EXCEPT ![p] = "pop"]
            /\ UNCHANGED <<top, held, list>>
  /\ UNCHANGED <<next, heap, ref, succ, seg>>

(* malloc a block and link its nodes (g_slice_init). *)
Cut(p, s) ==
  /\ pc[p] = "cut"
  /\ seg' = [seg EXCEPT ![p] = s]
  /\ next' = [n \in Node |->
       IF \E i \in 1..(Batch - 1) : s[i] = n
       THEN s[(CHOOSE i \in 1..(Batch - 1) : s[i] = n) + 1] ELSE next[n]]
  /\ heap' = heap \ NodesOf(s)
  /\ pc' = [pc EXCEPT ![p] = "push"]
  /\ Preempts(p)
  /\ UNCHANGED <<top, held, list, ref, succ>>

(* g_slice_free1, osMemoryPoolFree: the node is pushed as it is. *)
FreeCall(p, n) ==
  /\ pc[p] = "idle" /\ n \in held[p]
  /\ seg' = [seg EXCEPT ![p] = <<n>>]
  /\ pc' = [pc EXCEPT ![p] = "push"]
  /\ Preempts(p)
  /\ UNCHANGED <<nodeVars, ref, succ>>

SlipPushLoad(p) ==
  /\ pc[p] = "push"
  /\ ref' = [ref EXCEPT ![p] = top]
  /\ next' = IF ref[p] = NULL THEN [next EXCEPT ![seg[p][Len(seg[p])]] = top]
             ELSE next
  /\ reserved' = {p}
  /\ pc' = [pc EXCEPT ![p] = "pushStore"]
  /\ UNCHANGED <<top, heap, held, list, succ, seg>>

(* atomic_list_push: load the top into the next pointer of the last node. *)
PushLoad(p) ==
  /\ pc[p] = "push"
  /\ ref' = [ref EXCEPT ![p] = top]
  /\ next' = [next EXCEPT ![seg[p][Len(seg[p])]] = top]
  /\ reserved' = {p}
  /\ pc' = [pc EXCEPT ![p] = "pushStore"]
  /\ UNCHANGED <<top, heap, held, list, succ, seg>>

PushStore(p) ==
  /\ pc[p] = "pushStore"
  /\ reserved' = {}
  /\ IF StoreSucceeds(p)
       THEN /\ top' = seg[p][1]
            /\ list' = seg[p] \o list
            /\ held' = [held EXCEPT ![p] = @ \ NodesOf(seg[p])]
            /\ seg' = [seg EXCEPT ![p] = <<>>]
            /\ pc' = [pc EXCEPT ![p] = IF Growing(p) THEN "pop" ELSE "idle"]
       ELSE /\ pc' = [pc EXCEPT ![p] = "push"]
            /\ UNCHANGED <<top, list, held, seg>>
  /\ UNCHANGED <<next, heap, ref, succ>>

(* The user of a node writes over it. *)
Use(p, n) ==
  /\ pc[p] = "idle" /\ n \in held[p]
  /\ next' = [next EXCEPT ![n] = Data]
  /\ Preempts(p)
  /\ UNCHANGED <<top, heap, held, list, callVars>>

Next ==
  \E p \in Proc :
    \/ PopLoad(p) \/ PopNext(p) \/ PopStore(p)
    \/ \E s \in Chains(heap) : Cut(p, s)
    \/ \E n \in held[p] : FreeCall(p, n) \/ Use(p, n)
    \/ PushLoad(p) \/ PushStore(p)

Spec == Init /\ [][Next]_vars

-----------------------------------------------------------------------------
ListTypeOK ==
  /\ top \in Ptr
  /\ next \in [Node -> Ptr]
  /\ heap \subseteq Node
  /\ held \in [Proc -> SUBSET Node]
  /\ pc \in [Proc -> {"idle", "pop", "popNext", "popStore", "cut", "push",
                      "pushStore"}]
  /\ ref \in [Proc -> Ptr] /\ succ \in [Proc -> Ptr]
  /\ seg \in [Proc -> Seq(Node)]
  /\ reserved \subseteq Proc
  /\ list \in Seq(Node)

(* The pointers spell out the list: from the top the next pointers lead    *)
(* through the nodes pushed and not popped, in order, to NULL, whatever    *)
(* other contexts did between a load and its conditional store.            *)
ListExact ==
  /\ top = IF list = <<>> THEN NULL ELSE list[1]
  /\ \A i \in DOMAIN list :
       next[list[i]] = IF i = Len(list) THEN NULL ELSE list[i + 1]

(* A node is in one place: not made yet, in the list once, held by one     *)
(* context, or in the one chain that is about to be pushed.                *)
OnePlace ==
  /\ Distinct(list)
  /\ \A p, q \in Proc : p # q => held[p] \cap held[q] = {}
  /\ \A p \in Proc : held[p] \cap (NodesOf(list) \cup heap \cup Fresh) = {}
  /\ NodesOf(list) \cap (heap \cup Fresh) = {}
  /\ heap \cap Fresh = {}

(* Seen without the calls in flight, this is FreeList: every call takes    *)
(* effect at its conditional store.  Memory cut but not pushed yet has not *)
(* been made.                                                              *)
F == INSTANCE FreeList WITH heap <- heap \cup Fresh
ImplementsFreeList == F!FreeListSpec
=============================================================================
