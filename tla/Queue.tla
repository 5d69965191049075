------------------------------- MODULE Queue --------------------------------
(***************************************************************************)
(* The asynchronous queues: any number of senders push onto a chain with a *)
(* conditional store, newest first; the one receiver takes the whole chain *)
(* with an exchange and puts it in order in a list of its own.             *)
(*                                                                         *)
(*  "queue"    queue.c, for callers whose nodes lie apart in memory, like  *)
(*             the command queue of ocl.c                                  *)
(*  "async"    async_queue.c, with nodes from slices                       *)
(*  "message"  message_queue.c: a semaphore counts the messages and the    *)
(*             receiver's list is ordered by priority                      *)
(*  "pool"     no queue: the bit maps of pool.c, which numbered elements   *)
(*             are taken from and go back to                               *)
(*                                                                         *)
(* The pool is a kind of its own since its blocks do not lie apart:        *)
(* osPoolCreate counts the size of an element in words, osPoolAlloc takes  *)
(* it for a number of bytes.  The queues of mail.c and message.c link such *)
(* blocks and are not modelled.                                            *)
(*                                                                         *)
(* A conditional store succeeds only while the chain starts with the node  *)
(* that was loaded; with exclusive access it may fail even then.           *)
(***************************************************************************)
EXTENDS Integers, FiniteSets, Sequences

CONSTANTS
  Sender,     \* threads and interrupts that put, or use a pool
  Putter,     \* bound: those of them that put
  Size,       \* nodes, or the elements of a pool, numbered from 0
  MapBits,    \* bits of a map word of the pool (32)
  Priority,   \* priorities of messages
  Kinds,      \* the kinds of queue considered
  NULL

(* The last map word has a bit for every number up to a multiple of its    *)
(* width; osPoolCreate marks none of them as beyond the pool.              *)
ASSUME SizeAssumption ==
  Size \in Nat /\ MapBits \in Nat \ {0} /\ Size % MapBits = 0
ASSUME NullAssumption == NULL \notin 0..Size
ASSUME SenderAssumption == IsFiniteSet(Sender) /\ Putter \subseteq Sender
ASSUME KindsAssumption == Kinds \subseteq {"queue", "async", "message", "pool"}
ASSUME PriorityAssumption == Priority \subseteq Int /\ Priority # {}

Node == 0..(Size - 1)

VARIABLES
  kind,       \* which of the queues this is
  map,        \* nodes in use: of a pool, the bits that are set
  tail,       \* the newest node of the chain
  head,       \* the first node of the receiver's list
  next,       \* the next pointers
  prio,       \* priorities of the messages
  count,      \* the semaphore of a message queue
  pc,         \* where a sender is
  word,       \* the map word a sender examines, and the mask it has read
  mine,       \* the node a sender has
  rpc,        \* where the receiver is
  taken,      \* the next node of the chain it took off the queue
  at,         \* the node of its list it compares behind, NULL for the head
  got,        \* the node it was given
  chain,      \* history: the nodes pushed and not taken, the oldest first
  batch,      \* history: the nodes taken and not in the list, the oldest first
  list,       \* history: the nodes of the receiver's list
  before,     \* history: nodes in the queue when the receiver got its token
  old         \* history: nodes of the list when the receiver took a chain

poolVars == <<kind, map>>
sendVars == <<pc, word, mine>>
linkVars == <<tail, head, next>>
nodeVars == <<linkVars, prio, chain, batch, list>>
recvVars == <<rpc, taken, at, got, before, old>>
vars == <<poolVars, nodeVars, count, sendVars, recvVars>>

Ptr == Node \cup {NULL}
NodesOf(s) == {s[i] : i \in DOMAIN s}
Distinct(s) == \A i, j \in DOMAIN s : s[i] = s[j] => i = j
Oldest(s) == [i \in 1..(Len(s) - 1) |-> s[i]]      \* all but the newest

Init ==
  /\ kind \in Kinds
  /\ map = {} /\ tail = NULL /\ head = NULL /\ count = 0
  /\ next = [n \in Node |-> NULL]
  /\ prio = [n \in Node |-> CHOOSE x \in Priority : TRUE]
  /\ pc = [s \in Sender |-> "idle"]
  /\ word = [s \in Sender |-> [i |-> 0, mask |-> {}]]
  /\ mine = [s \in Sender |-> NULL]
  /\ rpc = "idle" /\ taken = NULL /\ at = NULL /\ got = NULL
  /\ chain = <<>> /\ batch = <<>> /\ list = <<>>
  /\ before = {} /\ old = {}

-----------------------------------------------------------------------------
(* The pool of pool.c: a bit of a map word for each element.               *)

WordOf(i) == {n \in Node : n \div MapBits = i}

(* The lowest clear bit of the mask a sender has read. *)
LowestClear(s) ==
  LET free == WordOf(word[s].i) \ word[s].mask
  IN  {n \in free : \A o \in free : n <= o}

(* osPoolAlloc reads the map word it is at. *)
PoolLoad(s) ==
  /\ kind = "pool" /\ pc[s] = "idle"
  /\ pc' = [pc EXCEPT ![s] = "scan"]
  /\ word' = [word EXCEPT ![s] = [i |-> 0, mask |-> map \cap WordOf(0)]]
  /\ UNCHANGED <<poolVars, nodeVars, count, mine, recvVars>>

SlipPoolSet(s) ==
  /\ pc[s] = "scan"
  /\ \E n \in LowestClear(s) :
       /\ map' = map \cup {n}
       /\ mine' = [mine EXCEPT ![s] = n]
  /\ pc' = [pc EXCEPT ![s] = "own"]
  /\ UNCHANGED <<kind, nodeVars, count, word, recvVars>>

(* The lowest clear bit of the mask is set; the word as it was says        *)
(* whether another context has been faster.                                *)
PoolSet(s) ==
  /\ pc[s] = "scan"
  /\ \E n \in LowestClear(s) :
       /\ map' = map \cup {n}
       /\ IF n \in map
          THEN /\ word' = [word EXCEPT ![s].mask = map \cap WordOf(word[s].i)]
               /\ UNCHANGED <<pc, mine>>
          ELSE /\ pc' = [pc EXCEPT ![s] = "own"]
               /\ mine' = [mine EXCEPT ![s] = n]
               /\ UNCHANGED word
  /\ UNCHANGED <<kind, nodeVars, count, recvVars>>

(* All bits of the word are set: on to the next, or back to the caller     *)
(* with nothing.                                                           *)
PoolNext(s) ==
  LET i == word[s].i + 1 IN
  /\ pc[s] = "scan" /\ WordOf(word[s].i) \subseteq word[s].mask
  /\ IF WordOf(i) = {}
     THEN pc' = [pc EXCEPT ![s] = "idle"] /\ UNCHANGED word
     ELSE /\ word' = [word EXCEPT ![s] = [i |-> i, mask |-> map \cap WordOf(i)]]
          /\ UNCHANGED pc
  /\ UNCHANGED <<poolVars, nodeVars, count, mine, recvVars>>

(* osPoolFree clears the bit of the element its owner gives back. *)
PoolFree(s) ==
  /\ pc[s] = "own"
  /\ map' = map \ {mine[s]}
  /\ mine' = [mine EXCEPT ![s] = NULL]
  /\ pc' = [pc EXCEPT ![s] = "idle"]
  /\ UNCHANGED <<kind, nodeVars, count, word, recvVars>>

(* A node to put: from g_slice_alloc or osMemoryPoolAlloc, as FreeList has *)
(* them, or one that the caller of queue_push has at hand.                 *)
SliceAlloc(s) ==
  /\ kind # "pool" /\ pc[s] = "idle" /\ s \in Putter
  /\ \E n \in Node \ map, p \in Priority :
       /\ map' = map \cup {n}
       /\ mine' = [mine EXCEPT ![s] = n]
       /\ prio' = IF kind = "message" THEN [prio EXCEPT ![n] = p] ELSE prio
  /\ pc' = [pc EXCEPT ![s] = "load"]
  /\ UNCHANGED <<kind, linkVars, chain, batch, list, count, word, recvVars>>

-----------------------------------------------------------------------------
(* Putting. *)

(* The newest node is loaded and becomes the next of the node to push. *)
PutLoad(s) ==
  /\ pc[s] = "load"
  /\ next' = [next EXCEPT ![mine[s]] = tail]
  /\ pc' = [pc EXCEPT ![s] = "store"]
  /\ UNCHANGED <<poolVars, tail, head, prio, chain, batch, list, count, word,
                 mine, recvVars>>

SlipStoreSucceeds(s) == TRUE

(* The conditional store compares with what was loaded. *)
StoreSucceeds(s) == tail = next[mine[s]]

PutStore(s) ==
  /\ pc[s] = "store" /\ StoreSucceeds(s)
  /\ tail' = mine[s]
  /\ chain' = Append(chain, mine[s])
  /\ mine' = [mine EXCEPT ![s] = NULL]
  /\ pc' = [pc EXCEPT ![s] = IF kind = "message" THEN "leave" ELSE "idle"]
  /\ UNCHANGED <<poolVars, head, next, prio, batch, list, count, word, recvVars>>

PutRetry(s) ==
  /\ pc[s] = "store"
  /\ pc' = [pc EXCEPT ![s] = "load"]
  /\ UNCHANGED <<poolVars, nodeVars, count, word, mine, recvVars>>

SlipPutLeave(s) ==
  /\ pc[s] = "load" /\ kind = "message"
  /\ count' = count + 1
  /\ pc' = [pc EXCEPT ![s] = "store"]
  /\ next' = [next EXCEPT ![mine[s]] = tail]
  /\ UNCHANGED <<poolVars, tail, head, prio, chain, batch, list, word, mine,
                 recvVars>>

(* A message is counted once it is in the chain. *)
PutLeave(s) ==
  /\ pc[s] = "leave"
  /\ count' = count + 1
  /\ pc' = [pc EXCEPT ![s] = "idle"]
  /\ UNCHANGED <<poolVars, nodeVars, word, mine, recvVars>>

-----------------------------------------------------------------------------
(* Getting. *)

(* osMessageQueueGet has waited for a message to be counted. *)
GetEnter ==
  /\ kind = "message" /\ rpc = "idle" /\ count > 0
  /\ count' = count - 1
  /\ rpc' = "take"
  /\ before' = NodesOf(list) \cup NodesOf(chain)
  /\ UNCHANGED <<poolVars, nodeVars, sendVars, taken, at, got, old>>

(* The first node of the receiver's list. *)
TakeFirst ==
  /\ head # NULL
  /\ got' = head /\ head' = next[head]
  /\ list' = Tail(list)
  /\ rpc' = "use"
  /\ UNCHANGED <<poolVars, tail, next, prio, chain, batch, count, sendVars,
                 taken, at, before>>

(* The receiver's list has a node. *)
GetHead ==
  /\ kind # "message" /\ rpc = "idle" /\ TakeFirst /\ UNCHANGED old

(* The chain is exchanged for an empty one, by a receiver whose own list   *)
(* is empty or, in a message queue, by every receiver.                     *)
GetTake ==
  /\ \/ kind # "message" /\ rpc = "idle" /\ head = NULL /\ tail # NULL
     \/ rpc = "take"
  /\ taken' = tail /\ tail' = NULL
  /\ batch' = chain /\ chain' = <<>>
  /\ old' = NodesOf(list)
  /\ rpc' = "sort"
  /\ UNCHANGED <<poolVars, head, next, prio, list, count, sendVars, at, got,
                 before>>

(* The list once n is linked behind m, or in front of all others.          *)
Inserted(l, m, n) ==
  LET k == IF m = NULL THEN 0 ELSE CHOOSE i \in DOMAIN l : l[i] = m
  IN  [i \in 1..(Len(l) + 1) |->
         IF i <= k THEN l[i] ELSE IF i = k + 1 THEN n ELSE l[i - 1]]

(* The list pointer at which the next node of the chain may be linked. *)
Link == IF at = NULL THEN head ELSE next[at]

LinkTaken ==
  /\ taken' = next[taken]
  /\ IF at = NULL
     THEN head' = taken /\ next' = [next EXCEPT ![taken] = Link]
     ELSE /\ next' = [next EXCEPT ![taken] = Link, ![at] = taken]
          /\ UNCHANGED head
  /\ at' = NULL
  /\ list' = Inserted(list, at, taken)
  /\ batch' = Oldest(batch)
  /\ UNCHANGED <<poolVars, tail, prio, chain, count, sendVars, rpc, got, before,
                 old>>

(* The chain is turned over node by node. *)
GetTurn ==
  /\ kind # "message" /\ rpc = "sort" /\ taken # NULL
  /\ kind = "queue" => next[taken] # NULL
  /\ LinkTaken

(* queue_pop returns the oldest without linking it. *)
GetLast ==
  /\ kind = "queue" /\ rpc = "sort" /\ next[taken] = NULL
  /\ got' = taken /\ taken' = NULL
  /\ batch' = <<>> /\ old' = {}
  /\ rpc' = "use"
  /\ UNCHANGED <<poolVars, linkVars, prio, chain, list, count, sendVars, at,
                 before>>

SlipStaysBehind(m, n) == prio[m] > prio[n]
SlipStaysBefore(m, n) == prio[m] <= prio[n]

(* A message stays behind those of at least its priority. *)
StaysBehind(m, n) == prio[m] >= prio[n]

GetWalk ==
  /\ kind = "message" /\ rpc = "sort" /\ taken # NULL
  /\ Link # NULL /\ StaysBehind(Link, taken)
  /\ at' = Link
  /\ UNCHANGED <<poolVars, nodeVars, count, sendVars, rpc, taken, got, before,
                 old>>

GetInsert ==
  /\ kind = "message" /\ rpc = "sort" /\ taken # NULL
  /\ Link # NULL => ~StaysBehind(Link, taken)
  /\ LinkTaken

(* osAsyncQueueGet and osMessageQueueGet go on to take the first. *)
GetPop ==
  /\ kind # "queue" /\ rpc = "sort" /\ taken = NULL
  /\ TakeFirst /\ old' = {}

(* The node has been read and is free: a slice for the allocator, a node   *)
(* of queue.c for its owner, who may put it once more.                     *)
Release ==
  /\ rpc = "use"
  /\ map' = map \ {got}
  /\ got' = NULL /\ before' = {}
  /\ rpc' = "idle"
  /\ UNCHANGED <<kind, nodeVars, count, sendVars, taken, at, old>>

Next ==
  \/ \E s \in Sender :
       \/ PoolLoad(s) \/ PoolSet(s) \/ PoolNext(s) \/ PoolFree(s)
       \/ SliceAlloc(s) \/ PutLoad(s) \/ PutStore(s) \/ PutRetry(s)
       \/ PutLeave(s)
  \/ GetEnter \/ GetHead \/ GetTake \/ GetTurn \/ GetLast \/ GetWalk
  \/ GetInsert \/ GetPop \/ Release

Spec == Init /\ [][Next]_vars

-----------------------------------------------------------------------------
QueueTypeOK ==
  /\ kind \in {"queue", "async", "message", "pool"}
  /\ map \subseteq Node
  /\ tail \in Ptr /\ head \in Ptr /\ taken \in Ptr /\ at \in Ptr /\ got \in Ptr
  /\ next \in [Node -> Ptr]
  /\ prio \in [Node -> Priority]
  /\ count \in Nat
  /\ pc \in [Sender -> {"idle", "scan", "own", "load", "store", "leave"}]
  /\ word \in [Sender -> [i : Nat, mask : SUBSET Node]]
  /\ mine \in [Sender -> Ptr]
  /\ rpc \in {"idle", "take", "sort", "use"}
  /\ chain \in Seq(Node) /\ batch \in Seq(Node) /\ list \in Seq(Node)
  /\ before \subseteq Node /\ old \subseteq Node

(* The pointers lead from n backwards through l, or forwards. *)
LeadsBack(n, l) ==
  /\ n = IF l = <<>> THEN NULL ELSE l[Len(l)]
  /\ \A i \in DOMAIN l : next[l[i]] = IF i = 1 THEN NULL ELSE l[i - 1]
LeadsOn(n, l) ==
  /\ n = IF l = <<>> THEN NULL ELSE l[1]
  /\ \A i \in DOMAIN l : next[l[i]] = IF i < Len(l) THEN l[i + 1] ELSE NULL

(* From the two ends of the queue, and from what the receiver holds of the *)
(* chain it is ordering, the next pointers lead through the nodes put and  *)
(* not yet got, whatever ran between a load and its conditional store.     *)
PointersExact ==
  LeadsBack(tail, chain) /\ LeadsBack(taken, batch) /\ LeadsOn(head, list)

(* Every node that is not free is in one place: with a sender, in the      *)
(* chain, in the chain that was taken, in the receiver's list or with the  *)
(* receiver.  No node is lost, and none is handed out twice; of a pool,    *)
(* a bit that is set has one owner.                                        *)
Apart ==
  /\ \A s, u \in Sender : mine[s] = mine[u] /\ mine[s] # NULL => s = u
  /\ \A s \in Sender :
       mine[s] \notin NodesOf(chain) \cup NodesOf(batch) \cup NodesOf(list)
  /\ Distinct(chain) /\ Distinct(batch) /\ Distinct(list)
  /\ NodesOf(chain) \cap NodesOf(batch) = {}
  /\ NodesOf(chain) \cap NodesOf(list) = {}
  /\ NodesOf(batch) \cap NodesOf(list) = {}
  /\ got \notin NodesOf(chain) \cup NodesOf(batch) \cup NodesOf(list)
  /\ got # NULL => \A s \in Sender : mine[s] # got
  /\ map = (NodesOf(chain) \cup NodesOf(batch) \cup NodesOf(list)
              \cup {got} \cup {mine[s] : s \in Sender}) \ {NULL}

OnePlace == PointersExact /\ Apart

(* The queues of queue.c and async_queue.c are first in, first out: what   *)
(* was taken and is still to be turned over comes before the list.         *)
F == INSTANCE Fifo WITH
       items <- IF kind = "message" THEN <<>> ELSE batch \o (list \o chain)
ImplementsFifo == F!Spec

(* Who has waited for a message to be counted finds one in the list: the   *)
(* list is not tested before its first element is removed.                 *)
TokenFindsMessage ==
  (kind = "message" /\ rpc = "sort" /\ taken = NULL) => head # NULL

(* The message delivered has the highest priority of all that were in the  *)
(* queue when the receiver got its token.                                  *)
HighestFirst ==
  (kind = "message" /\ rpc = "use") => \A n \in before : prio[got] >= prio[n]

(* Ordering a new chain never puts one of its messages ahead of a message  *)
(* of the same priority that was taken in an earlier chain.                *)
EarlierChainFirst ==
  (kind = "message" /\ rpc = "sort") =>
    \A i, j \in DOMAIN list :
      (/\ list[i] \notin old /\ list[j] \in old
       /\ prio[list[i]] = prio[list[j]]) => j < i
=============================================================================
