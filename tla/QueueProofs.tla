---------------------------- MODULE QueueProofs -----------------------------
(***************************************************************************)
(* No node of a queue is lost or given twice, nor a bit of the pool, the   *)
(* queues of queue.c and async_queue.c implement Fifo, and a counted       *)
(* message is found and is the first by priority, for any number of        *)
(* senders, nodes and priorities.                                          *)
(*                                                                         *)
(* OnePlace is inductive only with what the program counters say of the    *)
(* nodes (Stages).  The other properties add what the receiver knows of    *)
(* its list while it orders a chain: the list is sorted and the cursor     *)
(* stands behind messages of enough priority (Ordered), what was there     *)
(* when the token came has not gone (Served), and the tokens in flight     *)
(* match the messages (Counted).                                           *)
(***************************************************************************)
EXTENDS Queue, SequenceTheorems, FiniteSetTheorems, TLAPS

(* What the program counters say of the nodes in hand.                     *)
Stages ==
  /\ \A s \in Sender : mine[s] # NULL <=> pc[s] \in {"own", "load", "store"}
  /\ got # NULL <=> rpc = "use"
  /\ rpc # "sort" => taken = NULL
  /\ rpc = "take" => kind = "message"
  /\ rpc = "sort" /\ kind = "queue" => taken # NULL
  /\ kind # "message" => \A s \in Sender : pc[s] # "leave"
  /\ at # NULL => rpc = "sort" /\ taken # NULL /\ kind = "message"
  /\ at # NULL => at \in NodesOf(list)

PlaceInv == QueueTypeOK /\ PointersExact /\ Apart /\ Stages

(***************************************************************************)
(* Sequences of nodes.                                                     *)
(***************************************************************************)

LEMMA NullIsNoNode == NULL \notin Node
  BY NullAssumption, SizeAssumption DEF Node

(* A function on an initial segment is a sequence. *)
LEMMA SeqOfFunction ==
  ASSUME NEW m \in Nat, NEW f \in [1..m -> Node]
  PROVE  f \in Seq(Node) /\ Len(f) = m /\ DOMAIN f = 1..m
<1>1. f \in Seq(Node)
  BY SeqDef
<1>2. Len(f) \in Nat /\ DOMAIN f = 1..Len(f)
  BY <1>1, LenProperties
<1> QED  BY <1>1, <1>2

LEMMA SeqFacts ==
  ASSUME NEW l \in Seq(Node)
  PROVE  /\ Len(l) \in Nat /\ DOMAIN l = 1..Len(l)
         /\ \A i \in 1..Len(l) : l[i] \in Node /\ l[i] \in NodesOf(l)
         /\ l = <<>> <=> Len(l) = 0
         /\ NodesOf(l) \subseteq Node
<1>1. Len(l) \in Nat /\ DOMAIN l = 1..Len(l) /\ (l = <<>> <=> Len(l) = 0)
  BY LenProperties, EmptySeq
<1>2. \A i \in 1..Len(l) : l[i] \in Node
  BY ElementOfSeq
<1> QED  BY <1>1, <1>2 DEF NodesOf

(* A chain with one node more. *)
LEMMA AppendFacts ==
  ASSUME NEW l \in Seq(Node), NEW n \in Node
  PROVE  /\ Append(l, n) \in Seq(Node) /\ Append(l, n) # <<>>
         /\ Len(Append(l, n)) = Len(l) + 1
         /\ DOMAIN Append(l, n) = 1..(Len(l) + 1)
         /\ \A i \in 1..Len(l) : Append(l, n)[i] = l[i]
         /\ Append(l, n)[Len(l) + 1] = n
         /\ NodesOf(Append(l, n)) = NodesOf(l) \cup {n}
         /\ Distinct(l) /\ n \notin NodesOf(l) => Distinct(Append(l, n))
<1> DEFINE r == Append(l, n)
<1>0. /\ Len(l) \in Nat /\ DOMAIN l = 1..Len(l)
      /\ \A i \in 1..Len(l) : l[i] \in NodesOf(l)
  BY SeqFacts
<1>1. /\ r \in Seq(Node) /\ r # <<>> /\ Len(r) = Len(l) + 1
      /\ \A i \in 1..Len(l) : r[i] = l[i]
      /\ r[Len(l) + 1] = n
  BY AppendProperties
<1>2. DOMAIN r = 1..(Len(l) + 1)
  BY <1>1, LenProperties
<1>3. \A i \in DOMAIN r : i \in 1..Len(l) \/ i = Len(l) + 1
  BY <1>0, <1>2
<1>4. NodesOf(r) = NodesOf(l) \cup {n}
  <2>1. ASSUME NEW i \in DOMAIN r PROVE r[i] \in NodesOf(l) \cup {n}
    BY <1>0, <1>1, <1>3
  <2>2. ASSUME NEW i \in DOMAIN l PROVE l[i] \in NodesOf(r)
    BY <1>0, <1>1, <1>2 DEF NodesOf
  <2>3. n \in NodesOf(r)
    BY SMTT(30), <1>0, <1>1, <1>2 DEF NodesOf
  <2> QED  BY <2>1, <2>2, <2>3 DEF NodesOf
<1>5. ASSUME Distinct(l), n \notin NodesOf(l) PROVE Distinct(r)
  BY <1>0, <1>1, <1>3, <1>5 DEF Distinct
<1> HIDE DEF r
<1>6. QED  BY <1>1, <1>2, <1>4, <1>5 DEF r

(* A chain without its newest node. *)
LEMMA OldestFacts ==
  ASSUME NEW l \in Seq(Node), l # <<>>
  PROVE  /\ Oldest(l) \in Seq(Node)
         /\ Len(l) \in Nat /\ Len(l) >= 1
         /\ Len(Oldest(l)) = Len(l) - 1
         /\ DOMAIN Oldest(l) = 1..(Len(l) - 1)
         /\ \A i \in 1..(Len(l) - 1) : Oldest(l)[i] = l[i]
         /\ NodesOf(l) = NodesOf(Oldest(l)) \cup {l[Len(l)]}
         /\ Distinct(l) => Distinct(Oldest(l)) /\ l[Len(l)] \notin NodesOf(Oldest(l))
<1>1. /\ Len(l) \in Nat /\ Len(l) >= 1 /\ DOMAIN l = 1..Len(l)
      /\ \A i \in 1..Len(l) : l[i] \in Node
  BY SeqFacts
<1>2. /\ Len(l) - 1 \in Nat /\ Oldest(l) \in [1..(Len(l) - 1) -> Node]
      /\ \A i \in 1..(Len(l) - 1) : Oldest(l)[i] = l[i]
  BY <1>1 DEF Oldest
<1>3. Oldest(l) \in Seq(Node) /\ Len(Oldest(l)) = Len(l) - 1
      /\ DOMAIN Oldest(l) = 1..(Len(l) - 1)
  BY <1>2, SeqOfFunction
<1>4. \A i \in DOMAIN l : i \in 1..(Len(l) - 1) \/ i = Len(l)
  BY <1>1
<1>5. NodesOf(l) = NodesOf(Oldest(l)) \cup {l[Len(l)]}
  BY <1>1, <1>2, <1>3, <1>4 DEF NodesOf
<1>6. ASSUME Distinct(l)
      PROVE  Distinct(Oldest(l)) /\ l[Len(l)] \notin NodesOf(Oldest(l))
  <2>1. ASSUME NEW i \in 1..(Len(l) - 1) PROVE l[i] # l[Len(l)]
    BY <1>1, <1>6 DEF Distinct
  <2> QED  BY <1>1, <1>2, <1>3, <1>6, <2>1 DEF Distinct, NodesOf
<1> QED  BY <1>1, <1>2, <1>3, <1>5, <1>6

(* The list without its first node. *)
LEMMA TailFacts ==
  ASSUME NEW l \in Seq(Node), l # <<>>
  PROVE  /\ Tail(l) \in Seq(Node)
         /\ Len(l) \in Nat /\ Len(l) >= 1
         /\ Len(Tail(l)) = Len(l) - 1
         /\ DOMAIN Tail(l) = 1..(Len(l) - 1)
         /\ \A i \in 1..(Len(l) - 1) : Tail(l)[i] = l[i + 1]
         /\ NodesOf(l) = NodesOf(Tail(l)) \cup {l[1]}
         /\ Distinct(l) => Distinct(Tail(l)) /\ l[1] \notin NodesOf(Tail(l))
<1>1. /\ Len(l) \in Nat /\ Len(l) >= 1 /\ DOMAIN l = 1..Len(l)
  BY SeqFacts
<1>2. /\ Tail(l) \in Seq(Node)
      /\ Len(Tail(l)) = Len(l) - 1
      /\ \A i \in 1..(Len(l) - 1) : Tail(l)[i] = l[i + 1]
  BY HeadTailProperties
<1>3. DOMAIN Tail(l) = 1..(Len(l) - 1)
  BY <1>2, LenProperties
<1>4. \A i \in DOMAIN l : i - 1 \in 1..(Len(l) - 1) \/ i = 1
  BY <1>1
<1>5. NodesOf(l) = NodesOf(Tail(l)) \cup {l[1]}
  <2>1. ASSUME NEW i \in 1..(Len(l) - 1) PROVE Tail(l)[i] \in NodesOf(l)
    BY <1>1, <1>2 DEF NodesOf
  <2>2. ASSUME NEW i \in DOMAIN l, i # 1 PROVE l[i] \in NodesOf(Tail(l))
    <3>1. i - 1 \in 1..(Len(l) - 1) /\ Tail(l)[i - 1] = l[i]
      BY <1>1, <1>2, <2>2
    <3> QED  BY <1>3, <3>1 DEF NodesOf
  <2> QED  BY SMTT(30), <1>1, <1>3, <2>1, <2>2 DEF NodesOf
<1>6. ASSUME Distinct(l)
      PROVE  Distinct(Tail(l)) /\ l[1] \notin NodesOf(Tail(l))
  <2>1. ASSUME NEW i \in 1..(Len(l) - 1), NEW j \in 1..(Len(l) - 1),
               Tail(l)[i] = Tail(l)[j]
        PROVE  i = j
    <3>1. i + 1 \in DOMAIN l /\ j + 1 \in DOMAIN l /\ l[i + 1] = l[j + 1]
      BY <1>1, <1>2, <2>1
    <3> QED  BY <1>6, <3>1 DEF Distinct
  <2>2. ASSUME NEW i \in 1..(Len(l) - 1) PROVE Tail(l)[i] # l[1]
    <3>1. i + 1 \in DOMAIN l /\ 1 \in DOMAIN l /\ i + 1 # 1 /\ Tail(l)[i] = l[i + 1]
      BY <1>1, <1>2
    <3> QED  BY <1>6, <3>1 DEF Distinct
  <2> QED  BY <1>3, <2>1, <2>2 DEF Distinct, NodesOf
<1> QED  BY <1>1, <1>2, <1>3, <1>5, <1>6

(* The list with a node linked behind its k-th. *)
LEMMA InsertedFacts ==
  ASSUME NEW l \in Seq(Node), NEW k \in 0..Len(l), NEW m, NEW n \in Node,
         Distinct(l), n \notin NodesOf(l),
         k = 0 => m = NULL,
         k # 0 => m = l[k]
  PROVE  /\ Inserted(l, m, n) \in Seq(Node)
         /\ Len(l) \in Nat
         /\ Len(Inserted(l, m, n)) = Len(l) + 1
         /\ DOMAIN Inserted(l, m, n) = 1..(Len(l) + 1)
         /\ \A i \in 1..k : Inserted(l, m, n)[i] = l[i]
         /\ Inserted(l, m, n)[k + 1] = n
         /\ \A i \in (k + 2)..(Len(l) + 1) : Inserted(l, m, n)[i] = l[i - 1]
         /\ NodesOf(Inserted(l, m, n)) = NodesOf(l) \cup {n}
         /\ Distinct(Inserted(l, m, n))
<1> DEFINE r == Inserted(l, m, n)
<1>1. /\ Len(l) \in Nat /\ DOMAIN l = 1..Len(l)
      /\ \A i \in 1..Len(l) : l[i] \in Node /\ l[i] \in NodesOf(l)
  BY SeqFacts
<1>2. k = IF m = NULL THEN 0 ELSE CHOOSE i \in DOMAIN l : l[i] = m
  <2>1. CASE k = 0  BY <2>1
  <2>2. CASE k # 0
    <3>1. k \in DOMAIN l /\ l[k] = m /\ m # NULL
      BY <1>1, <2>2, NullIsNoNode
    <3>2. \A i \in DOMAIN l : l[i] = m => i = k
      BY <3>1 DEF Distinct
    <3> QED  BY <3>1, <3>2
  <2> QED  BY <2>1, <2>2
<1>3. r = [i \in 1..(Len(l) + 1) |->
             IF i <= k THEN l[i] ELSE IF i = k + 1 THEN n ELSE l[i - 1]]
  BY <1>2 DEF Inserted
<1> HIDE DEF r
<1>4. \A i \in 1..(Len(l) + 1) :
        \/ i \in 1..k /\ r[i] = l[i] /\ i \in 1..Len(l)
        \/ i = k + 1 /\ r[i] = n
        \/ i \in (k + 2)..(Len(l) + 1) /\ r[i] = l[i - 1] /\ i - 1 \in 1..Len(l)
  BY <1>1, <1>3
<1>5. r \in [1..(Len(l) + 1) -> Node]
  BY <1>1, <1>3
<1>6. r \in Seq(Node) /\ Len(r) = Len(l) + 1 /\ DOMAIN r = 1..(Len(l) + 1)
  BY <1>1, <1>5, SeqOfFunction
<1>7. /\ \A i \in 1..k : r[i] = l[i]
      /\ r[k + 1] = n
      /\ \A i \in (k + 2)..(Len(l) + 1) : r[i] = l[i - 1]
  BY <1>1, <1>3
<1>8. NodesOf(r) = NodesOf(l) \cup {n}
  <2>1. ASSUME NEW i \in DOMAIN l PROVE l[i] \in NodesOf(r)
    <3>1. CASE i <= k
      <4>1. i \in DOMAIN r /\ r[i] = l[i]  BY <1>1, <1>6, <1>7, <3>1
      <4> QED  BY <4>1 DEF NodesOf
    <3>2. CASE ~(i <= k)
      <4>1. i + 1 \in DOMAIN r /\ r[i + 1] = l[i]  BY <1>1, <1>6, <1>7, <3>2
      <4> QED  BY <4>1 DEF NodesOf
    <3> QED  BY <3>1, <3>2
  <2>2. n \in NodesOf(r)
    <3>1. k + 1 \in DOMAIN r  BY <1>1, <1>6
    <3> QED  BY <1>7, <3>1 DEF NodesOf
  <2>3. \A i \in DOMAIN r : r[i] \in NodesOf(l) \cup {n}
    BY <1>1, <1>4, <1>6
  <2> QED  BY <2>1, <2>2, <2>3 DEF NodesOf
<1>9. Distinct(r)
  <2> SUFFICES ASSUME NEW i \in DOMAIN r, NEW j \in DOMAIN r, r[i] = r[j]
               PROVE  i = j
    BY DEF Distinct
  <2>1. \A a, b \in 1..Len(l) : l[a] = l[b] => a = b
    BY <1>1 DEF Distinct
  <2>2. \A a \in 1..Len(l) : l[a] # n
    BY <1>1
  <2> QED  BY <1>1, <1>4, <1>6, <2>1, <2>2
<1> QED  BY <1>1, <1>6, <1>7, <1>8, <1>9 DEF r

(***************************************************************************)
(* What a step leaves alone.                                               *)
(***************************************************************************)

(* The links of a chain are about its nodes only. *)
LEMMA LinksElsewhere ==
  ASSUME NEW l \in Seq(Node), NEW n,
         \A x \in NodesOf(l) : next'[x] = next[x]
  PROVE  /\ LeadsBack(n, l) <=> LeadsBack(n, l)'
         /\ LeadsOn(n, l) <=> LeadsOn(n, l)'
  BY DEF LeadsBack, LeadsOn, NodesOf

(* Steps that move no node between the sequences. *)
LEMMA SamePointers ==
  ASSUME PlaceInv, UNCHANGED <<linkVars, taken, chain, batch, list>>
  PROVE  PointersExact'
  BY DEF PlaceInv, PointersExact, LeadsBack, LeadsOn, linkVars

LEMMA SamePlaces ==
  ASSUME PlaceInv, UNCHANGED <<map, mine, got, chain, batch, list>>
  PROVE  Apart'
  BY DEF PlaceInv, Apart, NodesOf, Distinct

(* A sender is given a node of the pool. *)
LEMMA GainApart ==
  ASSUME PlaceInv, NEW s \in Sender, NEW n \in Node \ map,
         mine[s] = NULL, map' = map \cup {n}, mine' = [mine EXCEPT ![s] = n],
         UNCHANGED <<got, chain, batch, list>>
  PROVE  Apart'
<1> USE NullIsNoNode DEF PlaceInv, QueueTypeOK
<1>1. /\ NodesOf(chain)' = NodesOf(chain) /\ NodesOf(batch)' = NodesOf(batch)
      /\ NodesOf(list)' = NodesOf(list)
      /\ Distinct(chain)' /\ Distinct(batch)' /\ Distinct(list)'
  BY DEF Apart, NodesOf, Distinct
<1>2. /\ n \notin NodesOf(chain) \cup NodesOf(batch) \cup NodesOf(list)
      /\ n # got /\ \A u \in Sender : mine[u] # n
  BY DEF Apart
<1>3. mine'[s] = n /\ \A u \in Sender \ {s} : mine'[u] = mine[u]
  OBVIOUS
<1>4. {mine'[u] : u \in Sender} \ {NULL} = ({mine[u] : u \in Sender} \ {NULL}) \cup {n}
  BY <1>3
<1>5. map' = (NodesOf(chain) \cup NodesOf(batch) \cup NodesOf(list)
                \cup {got} \cup {mine'[u] : u \in Sender}) \ {NULL}
  BY <1>4 DEF Apart
<1> QED  BY <1>1, <1>2, <1>3, <1>5 DEF Apart

(* At the start every node is free. *)
LEMMA InitPlaceInv ==
  ASSUME Init
  PROVE  PlaceInv
<1>1. (CHOOSE x \in Priority : TRUE) \in Priority
  BY PriorityAssumption
<1>2. QueueTypeOK
  BY <1>1, KindsAssumption DEF Init, QueueTypeOK, Ptr
<1>3. PointersExact
  BY DEF Init, PointersExact, LeadsBack, LeadsOn
<1>4. Apart
  BY DEF Init, Apart, NodesOf, Distinct
<1>5. Stages
  BY DEF Init, Stages
<1> QED  BY <1>2, <1>3, <1>4, <1>5 DEF PlaceInv

LEMMA PoolLoadKeeps ==
  ASSUME PlaceInv, NEW s \in Sender, PoolLoad(s)
  PROVE  PlaceInv'
<1> USE DEF PoolLoad, poolVars, nodeVars, linkVars, recvVars
<1>1. QueueTypeOK'
  <2>1. word' \in [Sender -> [i : Nat, mask : SUBSET Node]]
    BY DEF PlaceInv, QueueTypeOK, WordOf
  <2> QED  BY <2>1 DEF PlaceInv, QueueTypeOK
<1>2. PointersExact' /\ Apart'
  BY SamePointers, SamePlaces
<1>3. Stages'
  BY DEF PlaceInv, QueueTypeOK, Stages, NodesOf
<1> QED  BY <1>1, <1>2, <1>3 DEF PlaceInv

LEMMA PoolSetKeeps ==
  ASSUME PlaceInv, NEW s \in Sender, PoolSet(s)
  PROVE  PlaceInv'
<1> USE DEF PoolSet, poolVars, nodeVars, linkVars, recvVars
<1>1. PICK n \in LowestClear(s) :
        /\ map' = map \cup {n}
        /\ IF n \in map
           THEN /\ word' = [word EXCEPT ![s].mask = map \cap WordOf(word[s].i)]
                /\ UNCHANGED <<pc, mine>>
           ELSE /\ pc' = [pc EXCEPT ![s] = "own"]
                /\ mine' = [mine EXCEPT ![s] = n]
                /\ UNCHANGED word
  OBVIOUS
<1>2. n \in Node /\ map \cap WordOf(word[s].i) \in SUBSET Node
  BY DEF LowestClear, WordOf
<1>3. mine[s] = NULL
  BY DEF PlaceInv, Stages
<1>4. QueueTypeOK'
  <2>1. word' \in [Sender -> [i : Nat, mask : SUBSET Node]]
    BY ZenonT(40), <1>1, <1>2 DEF PlaceInv, QueueTypeOK
  <2>2. pc' \in [Sender -> {"idle", "scan", "own", "load", "store", "leave"}]
    BY <1>1 DEF PlaceInv, QueueTypeOK
  <2>3. mine' \in [Sender -> Ptr] /\ map' \subseteq Node
    BY <1>1, <1>2 DEF PlaceInv, QueueTypeOK, Ptr
  <2> QED  BY <2>1, <2>2, <2>3 DEF PlaceInv, QueueTypeOK
<1>5. PointersExact'
  BY SamePointers
<1>6. Apart'
  <2>1. CASE n \in map  BY <2>1, <1>1, SamePlaces DEF PlaceInv, QueueTypeOK
  <2>2. CASE n \notin map  BY <2>2, <1>1, <1>2, <1>3, GainApart
  <2> QED  BY <2>1, <2>2
<1>7. Stages'
  BY <1>1, <1>2, NullIsNoNode DEF PlaceInv, QueueTypeOK, Stages, NodesOf
<1> QED  BY <1>4, <1>5, <1>6, <1>7 DEF PlaceInv

LEMMA PoolNextKeeps ==
  ASSUME PlaceInv, NEW s \in Sender, PoolNext(s)
  PROVE  PlaceInv'
<1> USE DEF PoolNext, poolVars, nodeVars, linkVars, recvVars
<1>1. QueueTypeOK'
  <2>1. word' \in [Sender -> [i : Nat, mask : SUBSET Node]]
    <3>1. word[s].i + 1 \in Nat /\ map \cap WordOf(word[s].i + 1) \in SUBSET Node
      BY DEF PlaceInv, QueueTypeOK
    <3> HIDE DEF poolVars, nodeVars, linkVars, recvVars
    <3>2. PICK r \in [i : Nat, mask : SUBSET Node] :
            word' = word \/ word' = [word EXCEPT ![s] = r]
      BY <3>1 DEF PlaceInv, QueueTypeOK
    <3> QED  BY <3>2 DEF PlaceInv, QueueTypeOK
  <2> QED  BY <2>1 DEF PlaceInv, QueueTypeOK
<1>2. PointersExact' /\ Apart'
  BY SamePointers, SamePlaces
<1>3. Stages'
  BY DEF PlaceInv, QueueTypeOK, Stages, NodesOf
<1> QED  BY <1>1, <1>2, <1>3 DEF PlaceInv

LEMMA PoolFreeKeeps ==
  ASSUME PlaceInv, NEW s \in Sender, PoolFree(s)
  PROVE  PlaceInv'
<1> USE DEF PoolFree, nodeVars, linkVars, recvVars
<1>1. mine[s] \in Node
  BY DEF PlaceInv, QueueTypeOK, Stages, Ptr
<1>2. QueueTypeOK'
  BY DEF PlaceInv, QueueTypeOK, Ptr
<1>3. PointersExact'
  BY SamePointers
<1>4. Apart'
  <2>1. \A u \in Sender : mine'[u] = IF u = s THEN NULL ELSE mine[u]
    BY DEF PlaceInv, QueueTypeOK
  <2>2. /\ NULL \notin NodesOf(chain) \cup NodesOf(batch) \cup NodesOf(list)
        /\ mine[s] \notin NodesOf(chain) \cup NodesOf(batch) \cup NodesOf(list)
        /\ got # mine[s]
    BY <1>1, SeqFacts, NullIsNoNode DEF PlaceInv, QueueTypeOK, Apart
  <2>3. {mine'[u] : u \in Sender} \ {NULL} = ({mine[u] : u \in Sender} \ {NULL}) \ {mine[s]}
    BY <1>1, <2>1, NullIsNoNode DEF PlaceInv, Apart
  <2> QED  BY <1>1, <2>1, <2>2, <2>3, NullIsNoNode DEF PlaceInv, Apart, NodesOf
<1>5. Stages'
  BY <1>1, NullIsNoNode DEF PlaceInv, QueueTypeOK, Stages, NodesOf
<1> QED  BY <1>2, <1>3, <1>4, <1>5 DEF PlaceInv

LEMMA SliceAllocKeeps ==
  ASSUME PlaceInv, NEW s \in Sender, SliceAlloc(s)
  PROVE  PlaceInv'
<1> USE DEF SliceAlloc, poolVars, nodeVars, linkVars, recvVars
<1>1. PICK n \in Node \ map, p \in Priority :
        /\ map' = map \cup {n}
        /\ mine' = [mine EXCEPT ![s] = n]
        /\ prio' = IF kind = "message" THEN [prio EXCEPT ![n] = p] ELSE prio
  OBVIOUS
<1>2. QueueTypeOK'
  BY <1>1 DEF PlaceInv, QueueTypeOK, Ptr, linkVars
<1>3. mine[s] = NULL
  BY DEF PlaceInv, Stages
<1>4. PointersExact' /\ Apart'
  BY <1>1, <1>3, SamePointers, GainApart
<1>5. Stages'
  BY <1>1, NullIsNoNode DEF PlaceInv, QueueTypeOK, Stages, NodesOf, linkVars
<1> QED  BY <1>2, <1>4, <1>5 DEF PlaceInv

(* A sender links the node it has, which is in no chain. *)
LEMMA PutLoadKeeps ==
  ASSUME PlaceInv, NEW s \in Sender, PutLoad(s)
  PROVE  PlaceInv'
<1> USE DEF PutLoad, poolVars, recvVars
<1>1. mine[s] \in Node
  BY DEF PlaceInv, QueueTypeOK, Stages, Ptr
<1>2. QueueTypeOK'
  BY DEF PlaceInv, QueueTypeOK
<1>3. PointersExact'
  <2>1. \A x \in NodesOf(chain) \cup NodesOf(batch) \cup NodesOf(list) :
          next'[x] = next[x]
    BY <1>1, SeqFacts DEF PlaceInv, QueueTypeOK, Apart
  <2>2. chain \in Seq(Node) /\ batch \in Seq(Node) /\ list \in Seq(Node)
    BY DEF PlaceInv, QueueTypeOK
  <2> QED
    BY <2>1, <2>2 DEF PlaceInv, PointersExact, LeadsBack, LeadsOn, NodesOf
<1>4. Apart'
  BY SamePlaces
<1>5. Stages'
  BY DEF PlaceInv, QueueTypeOK, Stages, NodesOf
<1> QED  BY <1>2, <1>3, <1>4, <1>5 DEF PlaceInv

LEMMA PutRetryKeeps ==
  ASSUME PlaceInv, NEW s \in Sender, PutRetry(s)
  PROVE  PlaceInv'
<1> USE DEF PutRetry, poolVars, nodeVars, linkVars, recvVars
<1>1. QueueTypeOK'
  BY DEF PlaceInv, QueueTypeOK
<1>2. PointersExact' /\ Apart'
  BY SamePointers, SamePlaces
<1>3. Stages'
  BY DEF PlaceInv, QueueTypeOK, Stages, NodesOf
<1> QED  BY <1>1, <1>2, <1>3 DEF PlaceInv

LEMMA PutLeaveKeeps ==
  ASSUME PlaceInv, NEW s \in Sender, PutLeave(s)
  PROVE  PlaceInv'
<1> USE DEF PutLeave, poolVars, nodeVars, linkVars, recvVars
<1>1. QueueTypeOK'
  BY DEF PlaceInv, QueueTypeOK
<1>2. PointersExact' /\ Apart'
  BY SamePointers, SamePlaces
<1>3. Stages'
  BY DEF PlaceInv, QueueTypeOK, Stages, NodesOf
<1> QED  BY <1>1, <1>2, <1>3 DEF PlaceInv

(* The conditional store: the node becomes the newest of the chain, and    *)
(* its next pointer is the one that was compared.                          *)
LEMMA PutStoreKeeps ==
  ASSUME PlaceInv, NEW s \in Sender, PutStore(s)
  PROVE  PlaceInv'
<1> USE DEF PutStore, poolVars, recvVars
<1> DEFINE n == mine[s]
<1>1. n \in Node /\ chain \in Seq(Node) /\ mine \in [Sender -> Ptr]
  BY DEF PlaceInv, QueueTypeOK, Stages, Ptr
<1>2. n \notin NodesOf(chain) /\ tail = next[n]
  BY DEF PlaceInv, Apart, StoreSucceeds
<1>3. /\ chain' \in Seq(Node) /\ chain' # <<>>
      /\ Len(chain') = Len(chain) + 1
      /\ DOMAIN chain' = 1..(Len(chain) + 1)
      /\ \A i \in 1..Len(chain) : chain'[i] = chain[i]
      /\ chain'[Len(chain) + 1] = n
      /\ NodesOf(chain') = NodesOf(chain) \cup {n}
      /\ Distinct(chain) => Distinct(chain')
  BY <1>1, <1>2, AppendFacts
<1>4. Len(chain) \in Nat /\ DOMAIN chain = 1..Len(chain)
      /\ (chain = <<>> <=> Len(chain) = 0)
  BY <1>1, SeqFacts
<1>5. QueueTypeOK'
  BY <1>1, <1>3 DEF PlaceInv, QueueTypeOK, Ptr
<1>6. PointersExact'
  <2>1. LeadsBack(tail, chain)'
    <3>1. LeadsBack(tail, chain)  BY DEF PlaceInv, PointersExact
    <3>2. tail' = chain'[Len(chain')]  BY <1>3, <1>4
    <3>3. ASSUME NEW i \in DOMAIN chain'
          PROVE  next'[chain'[i]] = IF i = 1 THEN NULL ELSE chain'[i - 1]
      <4>1. CASE i \in 1..Len(chain)
        <5>1. next[chain[i]] = IF i = 1 THEN NULL ELSE chain[i - 1]
          BY <3>1, <4>1, <1>4 DEF LeadsBack
        <5>2. i # 1 => i - 1 \in 1..Len(chain)  BY <4>1, <1>4
        <5> QED  BY <5>1, <5>2, <4>1, <1>3
      <4>2. CASE i = Len(chain) + 1
        <5>1. tail = IF i = 1 THEN NULL ELSE chain[i - 1]
          BY <3>1, <4>2, <1>4 DEF LeadsBack
        <5>2. i # 1 => i - 1 \in 1..Len(chain)  BY <4>2, <1>4
        <5> QED  BY <5>1, <5>2, <4>2, <1>2, <1>3
      <4> QED  BY <4>1, <4>2, <1>3, <1>4
    <3> QED  BY <3>2, <3>3, <1>3 DEF LeadsBack
  <2>2. LeadsBack(taken, batch)' /\ LeadsOn(head, list)'
    BY DEF PlaceInv, PointersExact, LeadsBack, LeadsOn
  <2> QED  BY <2>1, <2>2 DEF PointersExact
<1>7. Apart'
  <2>1. /\ mine'[s] = NULL /\ \A u \in Sender \ {s} : mine'[u] = mine[u]
        /\ \A u \in Sender \ {s} : mine[u] # n
        /\ n \notin NodesOf(batch) \cup NodesOf(list) /\ n # got /\ n # NULL
    BY <1>1, NullIsNoNode DEF PlaceInv, Apart
  <2>2. {mine[u] : u \in Sender} \ {NULL}
          = ({mine'[u] : u \in Sender} \ {NULL}) \cup {n}
    BY <1>1, <2>1
  <2>3. map' = (NodesOf(chain') \cup NodesOf(batch) \cup NodesOf(list)
                  \cup {got} \cup {mine'[u] : u \in Sender}) \ {NULL}
    BY <1>3, <2>1, <2>2 DEF PlaceInv, Apart
  <2>4. /\ NodesOf(chain)' = NodesOf(chain') /\ (Distinct(chain)' <=> Distinct(chain'))
        /\ NodesOf(batch)' = NodesOf(batch) /\ NodesOf(list)' = NodesOf(list)
        /\ (Distinct(batch)' <=> Distinct(batch)) /\ (Distinct(list)' <=> Distinct(list))
    BY DEF NodesOf, Distinct
  <2>5. NULL \notin NodesOf(chain') \cup NodesOf(batch) \cup NodesOf(list)
    BY <1>3, SeqFacts, NullIsNoNode DEF PlaceInv, QueueTypeOK
  <2> QED  BY <1>3, <2>1, <2>3, <2>4, <2>5 DEF PlaceInv, Apart
<1>8. Stages'
  BY <1>1, NullIsNoNode DEF PlaceInv, QueueTypeOK, Stages, NodesOf
<1> QED  BY <1>5, <1>6, <1>7, <1>8 DEF PlaceInv

LEMMA GetEnterKeeps ==
  ASSUME PlaceInv, GetEnter
  PROVE  PlaceInv'
<1> USE DEF GetEnter, poolVars, nodeVars, linkVars, sendVars
<1>1. QueueTypeOK'
  BY SeqFacts DEF PlaceInv, QueueTypeOK
<1>2. PointersExact' /\ Apart'
  BY SamePointers, SamePlaces
<1>3. Stages'
  BY DEF PlaceInv, QueueTypeOK, Stages, NodesOf
<1> QED  BY <1>1, <1>2, <1>3 DEF PlaceInv

(* The first of the list is the head, and the next pointer of the head     *)
(* leads on through the rest.                                              *)
LEMMA HeadFacts ==
  ASSUME PlaceInv, head # NULL
  PROVE  /\ list \in Seq(Node) /\ list # <<>> /\ head = list[1] /\ head \in Node
         /\ LeadsOn(next[head], Tail(list))
<1>1. /\ list \in Seq(Node) /\ list # <<>> /\ head = list[1]
      /\ LeadsOn(head, list)
  BY DEF PlaceInv, QueueTypeOK, PointersExact, LeadsOn
<1>2. /\ Len(list) \in Nat /\ Len(list) >= 1 /\ DOMAIN list = 1..Len(list)
      /\ head \in Node
  BY <1>1, SeqFacts
<1>3. /\ Tail(list) \in Seq(Node) /\ Len(Tail(list)) = Len(list) - 1
      /\ DOMAIN Tail(list) = 1..(Len(list) - 1)
      /\ \A i \in 1..(Len(list) - 1) : Tail(list)[i] = list[i + 1]
  BY <1>1, TailFacts
<1>4. Tail(list) = <<>> <=> Len(list) = 1
  BY <1>2, <1>3, SeqFacts
<1>5. next[list[1]] = IF 1 < Len(list) THEN list[2] ELSE NULL
  BY <1>1, <1>2 DEF LeadsOn
<1>6. next[head] = IF Tail(list) = <<>> THEN NULL ELSE Tail(list)[1]
  BY <1>1, <1>2, <1>3, <1>4, <1>5
<1>7. ASSUME NEW i \in DOMAIN Tail(list)
      PROVE  next[Tail(list)[i]]
               = IF i < Len(Tail(list)) THEN Tail(list)[i + 1] ELSE NULL
  <2>1. i + 1 \in DOMAIN list /\ Tail(list)[i] = list[i + 1]
    BY <1>2, <1>3
  <2>2. next[list[i + 1]] = IF i + 1 < Len(list) THEN list[i + 2] ELSE NULL
    BY <1>1, <2>1, <1>2, <1>3 DEF LeadsOn
  <2>3. i # Len(list) - 1 => i + 1 \in 1..(Len(list) - 1)
    BY <1>2, <1>3
  <2> QED  BY <1>2, <1>3, <2>1, <2>2, <2>3
<1> QED  BY <1>1, <1>2, <1>6, <1>7 DEF LeadsOn

(* The first node goes from the list to the receiver. *)
LEMMA TakeFirstKeeps ==
  ASSUME PlaceInv, TakeFirst, rpc # "use", taken = NULL, old' \subseteq Node
  PROVE  PlaceInv'
<1> USE DEF TakeFirst, poolVars, sendVars
<1>1. /\ list \in Seq(Node) /\ list # <<>> /\ head = list[1] /\ head \in Node
      /\ LeadsOn(next[head], Tail(list))
  BY HeadFacts
<1>2. /\ Tail(list) \in Seq(Node)
      /\ NodesOf(list) = NodesOf(Tail(list)) \cup {head}
      /\ Distinct(Tail(list)) /\ head \notin NodesOf(Tail(list))
  BY <1>1, TailFacts DEF PlaceInv, Apart
<1>3. QueueTypeOK'
  BY <1>1, <1>2 DEF PlaceInv, QueueTypeOK, Ptr
<1>4. PointersExact'
  <2>1. LeadsOn(head, list)'
    BY <1>1 DEF LeadsOn
  <2>2. LeadsBack(tail, chain)' /\ LeadsBack(taken, batch)'
    BY DEF PlaceInv, PointersExact, LeadsBack
  <2> QED  BY <2>1, <2>2 DEF PointersExact
<1>5. Apart'
  <2>1. /\ NodesOf(chain)' = NodesOf(chain) /\ NodesOf(batch)' = NodesOf(batch)
        /\ NodesOf(list)' = NodesOf(Tail(list))
        /\ (Distinct(chain)' <=> Distinct(chain)) /\ (Distinct(batch)' <=> Distinct(batch))
        /\ (Distinct(list)' <=> Distinct(Tail(list)))
    BY DEF NodesOf, Distinct
  <2>2. got = NULL /\ head # NULL
    BY DEF PlaceInv, Stages
  <2>3. /\ head \notin NodesOf(chain) \cup NodesOf(batch)
        /\ \A s \in Sender : mine[s] # head
    BY <1>2 DEF PlaceInv, Apart
  <2> QED  BY <1>2, <2>1, <2>2, <2>3 DEF PlaceInv, Apart
<1>6. Stages'
  BY DEF PlaceInv, QueueTypeOK, Stages
<1> QED  BY <1>3, <1>4, <1>5, <1>6 DEF PlaceInv

LEMMA GetHeadKeeps ==
  ASSUME PlaceInv, GetHead
  PROVE  PlaceInv'
<1>1. old \subseteq Node  BY DEF PlaceInv, QueueTypeOK
<1>2. TakeFirst /\ rpc # "use" /\ old' \subseteq Node  BY <1>1 DEF GetHead
<1>3. taken = NULL  BY DEF GetHead, PlaceInv, Stages
<1> QED  BY <1>2, <1>3, TakeFirstKeeps

LEMMA GetPopKeeps ==
  ASSUME PlaceInv, GetPop
  PROVE  PlaceInv'
<1>1. TakeFirst /\ rpc # "use" /\ old' \subseteq Node /\ taken = NULL
  BY DEF GetPop
<1> QED  BY <1>1, TakeFirstKeeps

(* The exchange: the chain becomes the batch to be ordered. *)
LEMMA GetTakeKeeps ==
  ASSUME PlaceInv, GetTake
  PROVE  PlaceInv'
<1> USE DEF GetTake, poolVars, sendVars
<1>1. taken = NULL /\ batch = <<>>
  <2>1. taken = NULL  BY DEF PlaceInv, Stages
  <2>2. batch \in Seq(Node) /\ LeadsBack(taken, batch)
    BY DEF PlaceInv, QueueTypeOK, PointersExact
  <2>3. batch # <<>> => batch[Len(batch)] \in Node
    BY <2>2, SeqFacts
  <2> QED  BY <2>1, <2>2, <2>3, NullIsNoNode DEF LeadsBack
<1>2. QueueTypeOK'
  BY SeqFacts DEF PlaceInv, QueueTypeOK, Ptr
<1>3. PointersExact'
  <2>1. LeadsBack(tail, chain)'  BY DEF LeadsBack
  <2>2. LeadsBack(taken, batch)' /\ LeadsOn(head, list)'
    BY DEF PlaceInv, PointersExact, LeadsBack, LeadsOn
  <2> QED  BY <2>1, <2>2 DEF PointersExact
<1>4. Apart'
  <2>1. /\ NodesOf(chain)' = {} /\ NodesOf(batch)' = NodesOf(chain)
        /\ NodesOf(list)' = NodesOf(list) /\ NodesOf(batch) = {}
        /\ Distinct(chain)' /\ (Distinct(batch)' <=> Distinct(chain))
        /\ (Distinct(list)' <=> Distinct(list))
    BY <1>1 DEF NodesOf, Distinct
  <2> QED  BY <2>1 DEF PlaceInv, Apart
<1>5. Stages'
  BY DEF PlaceInv, QueueTypeOK, Stages
<1> QED  BY <1>2, <1>3, <1>4, <1>5 DEF PlaceInv

(* The cursor stands behind the k-th node of the list, and Link is the     *)
(* pointer to the next one.                                                *)
LEMMA CursorFacts ==
  ASSUME PlaceInv
  PROVE  \E k \in Nat :
           /\ k <= Len(list)
           /\ k = 0 => at = NULL
           /\ k # 0 => at = list[k] /\ at \in Node
           /\ Len(list) <= k => Link = NULL
           /\ k < Len(list) => Link = list[k + 1]
<1>1. /\ list \in Seq(Node) /\ LeadsOn(head, list)
      /\ Len(list) \in Nat /\ DOMAIN list = 1..Len(list)
      /\ (list = <<>> <=> Len(list) = 0)
      /\ \A i \in 1..Len(list) : list[i] \in Node
  BY SeqFacts DEF PlaceInv, QueueTypeOK, PointersExact
<1>2. CASE at = NULL
  <2>1. IF 0 < Len(list) THEN Link = list[0 + 1] ELSE Link = NULL
    BY <1>1, <1>2 DEF Link, LeadsOn
  <2>2. 0 \in Nat /\ 0 <= Len(list)
    BY <1>1
  <2> QED  BY <1>2, <2>1, <2>2
<1>3. CASE at # NULL
  <2>1. PICK k \in 1..Len(list) : list[k] = at
    BY <1>1, <1>3 DEF PlaceInv, Stages, NodesOf
  <2>2. IF k < Len(list) THEN Link = list[k + 1] ELSE Link = NULL
    BY <1>1, <1>3, <2>1 DEF Link, LeadsOn
  <2>3. k \in Nat /\ k <= Len(list) /\ k # 0 /\ at \in Node
    BY <1>1, <2>1
  <2> QED  BY <2>1, <2>2, <2>3
<1> QED  BY <1>2, <1>3

(* The node taken is the newest of the batch, and its next pointer leads   *)
(* on through the others.                                                  *)
LEMMA TakenFacts ==
  ASSUME PlaceInv, taken # NULL
  PROVE  /\ batch \in Seq(Node) /\ batch # <<>>
         /\ taken = batch[Len(batch)] /\ taken \in Node
         /\ LeadsBack(next[taken], Oldest(batch))
         /\ next[taken] = NULL => batch = <<taken>>
<1>1. /\ batch \in Seq(Node) /\ batch # <<>> /\ taken = batch[Len(batch)]
      /\ LeadsBack(taken, batch)
  BY DEF PlaceInv, QueueTypeOK, PointersExact, LeadsBack
<1>2. /\ Len(batch) \in Nat /\ Len(batch) >= 1 /\ DOMAIN batch = 1..Len(batch)
      /\ taken \in Node
      /\ \A i \in 1..Len(batch) : batch[i] \in Node
  BY <1>1, SeqFacts
<1>3. /\ Oldest(batch) \in Seq(Node) /\ Len(Oldest(batch)) = Len(batch) - 1
      /\ DOMAIN Oldest(batch) = 1..(Len(batch) - 1)
      /\ \A i \in 1..(Len(batch) - 1) : Oldest(batch)[i] = batch[i]
  BY <1>1, OldestFacts
<1>4. Oldest(batch) = <<>> <=> Len(batch) = 1
  BY <1>2, <1>3, SeqFacts
<1>5. next[taken] = IF Len(batch) = 1 THEN NULL ELSE batch[Len(batch) - 1]
  BY <1>1, <1>2 DEF LeadsBack
<1>6. next[taken] = IF Oldest(batch) = <<>> THEN NULL
                    ELSE Oldest(batch)[Len(Oldest(batch))]
  BY <1>2, <1>3, <1>4, <1>5
<1>7. ASSUME NEW i \in DOMAIN Oldest(batch)
      PROVE  next[Oldest(batch)[i]] = IF i = 1 THEN NULL ELSE Oldest(batch)[i - 1]
  <2>1. i \in DOMAIN batch /\ Oldest(batch)[i] = batch[i]
        /\ (i # 1 => i - 1 \in 1..(Len(batch) - 1))
    BY <1>2, <1>3
  <2>2. next[batch[i]] = IF i = 1 THEN NULL ELSE batch[i - 1]
    BY <1>1, <2>1 DEF LeadsBack
  <2> QED  BY <1>3, <2>1, <2>2
<1>8. ASSUME next[taken] = NULL PROVE batch = <<taken>>
  <2>1. Len(batch) = 1
    <3>1. Len(batch) # 1 => Len(batch) - 1 \in 1..Len(batch)  BY <1>2
    <3> QED  BY <1>2, <1>5, <1>8, <3>1, NullIsNoNode
  <2> QED  BY <1>1, <1>2, <2>1
<1> QED  BY <1>1, <1>2, <1>6, <1>7, <1>8 DEF LeadsBack

(* The pointers f lead through the m nodes of l; r is l with n behind its  *)
(* k-th node; g are the pointers f once n is linked there.                 *)
Along(f, l, m) == \A i \in 1..m : f[l[i]] = IF i < m THEN l[i + 1] ELSE NULL
Spliced(l, m, k, n, r) ==
  /\ \A i \in 1..k : r[i] = l[i]
  /\ r[k + 1] = n
  /\ \A i \in (k + 2)..(m + 1) : r[i] = l[i - 1]
Relinked(f, l, m, k, n, g) ==
  /\ g[n] = IF k < m THEN l[k + 1] ELSE NULL
  /\ k # 0 => g[l[k]] = n
  /\ \A x \in Node : x # n /\ (k # 0 => x # l[k]) => g[x] = f[x]
Fresh(l, m, n) ==
  /\ \A i \in 1..m : l[i] \in Node /\ l[i] # n
  /\ \A i, j \in 1..m : l[i] = l[j] => i = j

LEMMA LinkedBehind ==
  ASSUME NEW m \in Nat, NEW l, NEW r, NEW n \in Node, NEW k \in 0..m, NEW f, NEW g,
         Fresh(l, m, n), Spliced(l, m, k, n, r), Along(f, l, m),
         Relinked(f, l, m, k, n, g)
  PROVE  Along(g, r, m + 1)
<1> USE DEF Fresh, Spliced, Along, Relinked
<1> SUFFICES ASSUME NEW i \in 1..(m + 1)
             PROVE  g[r[i]] = IF i < m + 1 THEN r[i + 1] ELSE NULL
  OBVIOUS
<1>1. CASE i < k
  <2>1. /\ r[i] = l[i] /\ r[i + 1] = l[i + 1] /\ i # m + 1
        /\ i \in 1..m /\ k \in 1..m /\ i # k /\ i # m
    BY <1>1
  <2>2. l[i] # l[k] /\ l[i] # n /\ l[i] \in Node
    BY <2>1
  <2> QED  BY <2>1, <2>2
<1>2. CASE i = k
  <2>1. r[i] = l[k] /\ r[i + 1] = n /\ k # 0 /\ i # m + 1
    BY <1>2
  <2> QED  BY <2>1
<1>3. CASE i = k + 1
  <2>1. r[i] = n /\ (k # m => k + 2 \in (k + 2)..(m + 1) /\ r[k + 2] = l[k + 1])
    BY <1>3
  <2> QED  BY <1>3, <2>1
<1>4. CASE i > k + 1
  <2>1. /\ r[i] = l[i - 1] /\ i - 1 \in 1..m /\ i - 1 # k
        /\ i # m + 1 => r[i + 1] = l[i]
    BY <1>4
  <2>2. l[i - 1] # n /\ l[i - 1] \in Node /\ (k # 0 => l[i - 1] # l[k])
    BY <2>1
  <2>3. g[r[i]] = f[l[i - 1]]
    BY <2>1, <2>2
  <2>4. f[l[i - 1]] = IF i - 1 < m THEN l[i] ELSE NULL
    BY <2>1
  <2> QED  BY <2>1, <2>3, <2>4
<1> QED  BY <1>1, <1>2, <1>3, <1>4

(* The node taken is linked into the list behind the cursor. *)
LEMMA LinkTakenKeeps ==
  ASSUME PlaceInv, LinkTaken, rpc = "sort", taken # NULL,
         kind = "queue" => next[taken] # NULL
  PROVE  PlaceInv'
<1>0. /\ list' = Inserted(list, at, taken)
      /\ at' = NULL /\ taken' = next[taken] /\ batch' = Oldest(batch)
      /\ UNCHANGED <<kind, map, tail, prio, chain, count, pc, word, mine, rpc, got,
                     before, old>>
  BY DEF LinkTaken, poolVars, sendVars
<1>1. /\ batch \in Seq(Node) /\ batch # <<>> /\ taken \in Node
      /\ taken = batch[Len(batch)]
      /\ LeadsBack(next[taken], Oldest(batch))
  BY TakenFacts
<1>2. /\ Oldest(batch) \in Seq(Node)
      /\ NodesOf(batch) = NodesOf(Oldest(batch)) \cup {taken}
      /\ Distinct(Oldest(batch)) /\ taken \notin NodesOf(Oldest(batch))
  BY <1>1, OldestFacts DEF PlaceInv, Apart
<1>3. PICK k \in Nat :
        /\ k <= Len(list)
        /\ k = 0 => at = NULL
        /\ k # 0 => at = list[k] /\ at \in Node
        /\ Len(list) <= k => Link = NULL
        /\ k < Len(list) => Link = list[k + 1]
  BY CursorFacts
<1>4. /\ list \in Seq(Node) /\ Distinct(list) /\ taken \notin NodesOf(list)
      /\ Len(list) \in Nat /\ DOMAIN list = 1..Len(list)
      /\ \A i \in 1..Len(list) : list[i] \in Node /\ list[i] \in NodesOf(list)
  BY <1>2, SeqFacts DEF PlaceInv, QueueTypeOK, Apart
<1>13. k \in 0..Len(list) /\ Len(list) \in Nat /\ (k # 0 => k \in 1..Len(list))
  BY <1>3, <1>4
<1>5. /\ list' \in Seq(Node)
      /\ Len(list') = Len(list) + 1
      /\ DOMAIN list' = 1..(Len(list) + 1)
      /\ \A i \in 1..k : list'[i] = list[i]
      /\ list'[k + 1] = taken
      /\ \A i \in (k + 2)..(Len(list) + 1) : list'[i] = list[i - 1]
      /\ NodesOf(list') = NodesOf(list) \cup {taken}
      /\ Distinct(list')
  BY SMTT(30), <1>0, <1>1, <1>3, <1>4, <1>13, InsertedFacts
<1>6. /\ k = 0 => head' = taken /\ next' = [next EXCEPT ![taken] = Link]
      /\ k # 0 => /\ head' = head
                   /\ next' = [next EXCEPT ![taken] = Link, ![list[k]] = taken]
  BY <1>3, NullIsNoNode DEF LinkTaken
<1>7. Link \in Ptr
  BY <1>3, <1>4 DEF Ptr
<1>8. QueueTypeOK'
  <2>1. next' \in [Node -> Ptr] /\ head' \in Ptr
    <3>1. next \in [Node -> Ptr] /\ head \in Ptr /\ taken \in Ptr
      BY <1>1 DEF PlaceInv, QueueTypeOK, Ptr
    <3>2. CASE k = 0  BY <3>1, <3>2, <1>1, <1>6, <1>7
    <3>3. CASE k # 0
      <4>1. list[k] \in Node  BY <3>3, <1>4, <1>13
      <4> QED  BY <3>1, <3>3, <4>1, <1>1, <1>6, <1>7
    <3> QED  BY <3>2, <3>3
  <2>2. taken' \in Ptr /\ at' \in Ptr
    BY <1>0, <1>1 DEF PlaceInv, QueueTypeOK, Ptr
  <2> QED  BY <1>0, <1>2, <1>5, <2>1, <2>2 DEF PlaceInv, QueueTypeOK
<1>9. /\ next'[taken] = Link
      /\ k # 0 => next'[list[k]] = taken
      /\ \A x \in Node : x # taken /\ (k # 0 => x # list[k]) => next'[x] = next[x]
  <2>1. next \in [Node -> Ptr] /\ (k # 0 => list[k] \in Node /\ list[k] # taken)
    BY <1>3, <1>4 DEF PlaceInv, QueueTypeOK
  <2> QED  BY <1>1, <1>6, <2>1
<1>10. PointersExact'
  <2>1. LeadsBack(tail, chain)'
    <3>1. \A x \in NodesOf(chain) : x \in Node /\ x # taken /\ (k # 0 => x # list[k])
      BY <1>2, <1>4, <1>13, SeqFacts DEF PlaceInv, QueueTypeOK, Apart
    <3> QED  BY <1>0, <1>9, <3>1 DEF PlaceInv, PointersExact, LeadsBack, NodesOf
  <2>2. LeadsBack(taken, batch)'
    <3>1. \A x \in NodesOf(Oldest(batch)) :
            x \in Node /\ x # taken /\ (k # 0 => x # list[k])
      BY <1>2, <1>4, <1>13, SeqFacts DEF PlaceInv, Apart
    <3> QED  BY <1>0, <1>1, <1>9, <3>1 DEF LeadsBack, NodesOf
  <2>3. LeadsOn(head, list)'
    <3>1. head' = list'[1] /\ list' # <<>>
      <4>1. LeadsOn(head, list) /\ (list = <<>> <=> Len(list) = 0)
        BY <1>4, SeqFacts DEF PlaceInv, PointersExact
      <4>2. list' # <<>>  BY <1>4, <1>5, SeqFacts
      <4>3. CASE k = 0  BY <4>2, <4>3, <1>5, <1>6
      <4>4. CASE k # 0
        <5>1. list # <<>> /\ 1 \in 1..k  BY <4>1, <4>4, <1>3, <1>4
        <5> QED  BY <4>1, <4>2, <4>4, <5>1, <1>5, <1>6 DEF LeadsOn
      <4> QED  BY <4>3, <4>4
    <3>2. \A i \in 1..(Len(list) + 1) :
            next'[list'[i]] = IF i < Len(list) + 1 THEN list'[i + 1] ELSE NULL
      <4>1. Along(next, list, Len(list))
        BY <1>4 DEF PlaceInv, PointersExact, LeadsOn, Along
      <4>2. Fresh(list, Len(list), taken)
        BY <1>4 DEF Distinct, Fresh
      <4>3. Spliced(list, Len(list), k, taken, list')
        BY <1>5 DEF Spliced
      <4>4. Relinked(next, list, Len(list), k, taken, next')
        BY <1>3, <1>9, <1>13 DEF Relinked
      <4>5. Along(next', list', Len(list) + 1)
        BY <1>1, <1>13, <4>1, <4>2, <4>3, <4>4, LinkedBehind
      <4> QED  BY <4>5 DEF Along
    <3> QED  BY <3>1, <3>2, <1>5 DEF LeadsOn
  <2> QED  BY <2>1, <2>2, <2>3 DEF PointersExact
<1>11. Apart'
  <2>1. /\ NodesOf(chain)' = NodesOf(chain) /\ NodesOf(batch)' = NodesOf(Oldest(batch))
        /\ NodesOf(list)' = NodesOf(list')
        /\ (Distinct(chain)' <=> Distinct(chain))
        /\ (Distinct(batch)' <=> Distinct(Oldest(batch)))
        /\ (Distinct(list)' <=> Distinct(list'))
    BY <1>0 DEF NodesOf, Distinct
  <2> QED  BY <1>0, <1>2, <1>5, <2>1 DEF PlaceInv, Apart
<1>12. Stages'
  BY <1>0 DEF PlaceInv, QueueTypeOK, Stages
<1> QED  BY <1>8, <1>10, <1>11, <1>12 DEF PlaceInv

LEMMA GetTurnKeeps ==
  ASSUME PlaceInv, GetTurn
  PROVE  PlaceInv'
  BY LinkTakenKeeps DEF GetTurn

LEMMA GetInsertKeeps ==
  ASSUME PlaceInv, GetInsert
  PROVE  PlaceInv'
  BY LinkTakenKeeps DEF GetInsert

(* The oldest of the batch goes to the receiver. *)
LEMMA GetLastKeeps ==
  ASSUME PlaceInv, GetLast
  PROVE  PlaceInv'
<1> USE DEF GetLast, poolVars, sendVars, linkVars
<1>1. taken # NULL /\ got = NULL
  BY DEF PlaceInv, Stages, QueueTypeOK
<1>2. batch = <<taken>> /\ taken \in Node
  BY <1>1, TakenFacts
<1>3. QueueTypeOK'
  BY <1>2 DEF PlaceInv, QueueTypeOK, Ptr
<1>4. PointersExact'
  <2>1. LeadsBack(taken, batch)'  BY DEF LeadsBack
  <2>2. LeadsBack(tail, chain)' /\ LeadsOn(head, list)'
    BY DEF PlaceInv, PointersExact, LeadsBack, LeadsOn
  <2> QED  BY <2>1, <2>2 DEF PointersExact
<1>5. Apart'
  <2>1. /\ NodesOf(chain)' = NodesOf(chain) /\ NodesOf(batch)' = {}
        /\ NodesOf(list)' = NodesOf(list) /\ NodesOf(batch) = {taken}
        /\ (Distinct(chain)' <=> Distinct(chain)) /\ Distinct(batch)'
        /\ (Distinct(list)' <=> Distinct(list))
    BY <1>2 DEF NodesOf, Distinct
  <2> QED  BY <1>1, <1>2, <2>1, NullIsNoNode DEF PlaceInv, Apart
<1>6. Stages'
  BY <1>1 DEF PlaceInv, QueueTypeOK, Stages
<1> QED  BY <1>3, <1>4, <1>5, <1>6 DEF PlaceInv

LEMMA GetWalkKeeps ==
  ASSUME PlaceInv, GetWalk
  PROVE  PlaceInv'
<1> USE DEF GetWalk, poolVars, nodeVars, linkVars, sendVars
<1>1. Link \in NodesOf(list) /\ Link \in Node
  <2>1. PICK k \in Nat :
          /\ k <= Len(list)
          /\ Len(list) <= k => Link = NULL
          /\ k < Len(list) => Link = list[k + 1]
    BY CursorFacts
  <2>2. list \in Seq(Node)  BY DEF PlaceInv, QueueTypeOK
  <2>3. k + 1 \in 1..Len(list) /\ Link = list[k + 1]  BY <2>1, <2>2, SeqFacts
  <2> QED  BY <2>2, <2>3, SeqFacts
<1>2. QueueTypeOK'
  BY <1>1 DEF PlaceInv, QueueTypeOK, Ptr
<1>3. PointersExact' /\ Apart'
  BY SamePointers, SamePlaces
<1>4. Stages'
  BY <1>1 DEF PlaceInv, QueueTypeOK, Stages, NodesOf
<1> QED  BY <1>2, <1>3, <1>4 DEF PlaceInv

(* The node is free again. *)
LEMMA ReleaseKeeps ==
  ASSUME PlaceInv, Release
  PROVE  PlaceInv'
<1> USE DEF Release, poolVars, nodeVars, linkVars, sendVars
<1>1. QueueTypeOK'
  BY DEF PlaceInv, QueueTypeOK, Ptr
<1>2. PointersExact'
  BY SamePointers
<1>3. Apart'
  <2>1. /\ NodesOf(chain)' = NodesOf(chain) /\ NodesOf(batch)' = NodesOf(batch)
        /\ NodesOf(list)' = NodesOf(list)
        /\ (Distinct(chain)' <=> Distinct(chain)) /\ (Distinct(batch)' <=> Distinct(batch))
        /\ (Distinct(list)' <=> Distinct(list))
    BY DEF NodesOf, Distinct
  <2>2. /\ got # NULL
        /\ NULL \notin NodesOf(chain) \cup NodesOf(batch) \cup NodesOf(list)
    BY SeqFacts, NullIsNoNode DEF PlaceInv, QueueTypeOK, Stages
  <2> QED  BY <2>1, <2>2 DEF PlaceInv, Apart
<1>4. Stages'
  BY DEF PlaceInv, QueueTypeOK, Stages, NodesOf
<1> QED  BY <1>1, <1>2, <1>3, <1>4 DEF PlaceInv

(* The invariant of the places, by the actions. *)
LEMMA NextPlaceInv ==
  ASSUME PlaceInv, [Next]_vars
  PROVE  PlaceInv'
<1>1. ASSUME NEW s \in Sender,
             \/ PoolLoad(s) \/ PoolSet(s) \/ PoolNext(s) \/ PoolFree(s) \/ SliceAlloc(s)
             \/ PutLoad(s) \/ PutStore(s) \/ PutRetry(s) \/ PutLeave(s)
      PROVE  PlaceInv'
  BY <1>1, PoolLoadKeeps, PoolSetKeeps, PoolNextKeeps, PoolFreeKeeps,
     SliceAllocKeeps,
     PutLoadKeeps, PutStoreKeeps, PutRetryKeeps, PutLeaveKeeps
<1>2. ASSUME \/ GetEnter \/ GetHead \/ GetTake \/ GetTurn \/ GetLast
             \/ GetWalk \/ GetInsert \/ GetPop \/ Release
      PROVE  PlaceInv'
  BY <1>2, GetEnterKeeps, GetHeadKeeps, GetTakeKeeps, GetTurnKeeps,
     GetLastKeeps, GetWalkKeeps, GetInsertKeeps, GetPopKeeps, ReleaseKeeps
<1>3. ASSUME UNCHANGED vars PROVE PlaceInv'
  <2> USE <1>3 DEF vars, poolVars, nodeVars, linkVars, sendVars, recvVars
  <2>1. QueueTypeOK'  BY DEF PlaceInv, QueueTypeOK
  <2>2. PointersExact' /\ Apart'  BY SamePointers, SamePlaces
  <2>3. Stages'  BY DEF PlaceInv, Stages, NodesOf
  <2> QED  BY <2>1, <2>2, <2>3 DEF PlaceInv
<1> QED  BY <1>1, <1>2, <1>3 DEF Next

(* No node of a queue is lost, no node is in two places, and the pointers  *)
(* lead through exactly the nodes put and not yet got.                     *)
THEOREM OnePlaceCorrect == Spec => []OnePlace
<1>1. Init => PlaceInv
  BY InitPlaceInv
<1>2. PlaceInv /\ [Next]_vars => PlaceInv'
  BY NextPlaceInv
<1>3. PlaceInv => OnePlace
  BY DEF PlaceInv, OnePlace
<1> QED  BY <1>1, <1>2, <1>3, PTL DEF Spec

(***************************************************************************)
(* The mail and asynchronous queues implement Fifo.                        *)
(***************************************************************************)

(* A sequence of one node in front of another. *)
LEMMA PushFacts ==
  ASSUME NEW l \in Seq(Node), NEW n \in Node
  PROVE  /\ <<n>> \in Seq(Node) /\ <<n>> \o l \in Seq(Node)
         /\ Len(l) \in Nat /\ Len(<<n>> \o l) = Len(l) + 1
         /\ (<<n>> \o l)[1] = n
         /\ \A i \in 2..(Len(l) + 1) : (<<n>> \o l)[i] = l[i - 1]
         /\ <<n>> \o l # <<>>
         /\ Tail(<<n>> \o l) = l
<1> DEFINE r == <<n>> \o l
<1>1. <<n>> \in Seq(Node) /\ Len(<<n>>) = 1 /\ <<n>>[1] = n /\ Len(l) \in Nat
  BY SeqFacts
<1>2. /\ r \in Seq(Node) /\ Len(r) = 1 + Len(l)
      /\ \A i \in 1..(1 + Len(l)) : r[i] = IF i <= 1 THEN <<n>>[i] ELSE l[i - 1]
  BY <1>1, ConcatProperties
<1> HIDE DEF r
<1>3. /\ r[1] = n /\ \A i \in 2..(Len(l) + 1) : r[i] = l[i - 1]
      /\ r # <<>>
  BY <1>1, <1>2, SeqFacts
<1>4. /\ Tail(r) \in Seq(Node) /\ Len(Tail(r)) = Len(l)
      /\ \A i \in 1..Len(l) : Tail(r)[i] = l[i]
  <2>1. /\ Tail(r) \in Seq(Node) /\ Len(Tail(r)) = Len(r) - 1
        /\ \A i \in 1..(Len(r) - 1) : Tail(r)[i] = r[i + 1]
    BY <1>2, <1>3, TailFacts
  <2>2. \A i \in 1..Len(l) : i + 1 \in 2..(Len(l) + 1) /\ (i + 1) - 1 = i
    BY <1>1
  <2> QED  BY <1>1, <1>2, <1>3, <2>1, <2>2
<1>5. Tail(r) = l
  BY <1>4, SeqEqual
<1> QED  BY <1>1, <1>2, <1>3, <1>5 DEF r

(* A sequence taken apart at its first element, or at its last. *)
LEMMA FirstAndTail ==
  ASSUME NEW l \in Seq(Node), l # <<>>
  PROVE  l[1] \in Node /\ l = <<l[1]>> \o Tail(l)
<1>1. /\ Tail(l) \in Seq(Node) /\ Len(Tail(l)) = Len(l) - 1
      /\ Len(l) \in Nat /\ Len(l) >= 1
      /\ \A i \in 1..(Len(l) - 1) : Tail(l)[i] = l[i + 1]
  BY TailFacts
<1>2. l[1] \in Node
  BY <1>1, SeqFacts
<1> DEFINE r == <<l[1]>> \o Tail(l)
<1>3. /\ r \in Seq(Node) /\ Len(r) = Len(Tail(l)) + 1 /\ r[1] = l[1]
      /\ \A i \in 2..(Len(Tail(l)) + 1) : r[i] = Tail(l)[i - 1]
  BY <1>1, <1>2, PushFacts
<1> HIDE DEF r
<1>4. ASSUME NEW i \in 1..Len(l) PROVE l[i] = r[i]
  <2>1. CASE i = 1  BY <2>1, <1>3
  <2>2. CASE i # 1
    <3>1. i \in 2..(Len(Tail(l)) + 1) /\ i - 1 \in 1..(Len(l) - 1) /\ (i - 1) + 1 = i
      BY <2>2, <1>1
    <3> QED  BY <3>1, <1>1, <1>3
  <2> QED  BY <2>1, <2>2
<1>5. l = r
  BY <1>1, <1>3, <1>4, SeqEqual
<1> QED  BY <1>2, <1>5 DEF r

LEMMA OldestAndNewest ==
  ASSUME NEW l \in Seq(Node), l # <<>>
  PROVE  l = Oldest(l) \o <<l[Len(l)]>>
<1>1. /\ Oldest(l) \in Seq(Node) /\ Len(Oldest(l)) = Len(l) - 1
      /\ Len(l) \in Nat /\ Len(l) >= 1
      /\ \A i \in 1..(Len(l) - 1) : Oldest(l)[i] = l[i]
  BY OldestFacts
<1> DEFINE n == l[Len(l)]
           r == Append(Oldest(l), n)
<1>2. n \in Node
  BY <1>1, SeqFacts
<1>3. /\ r \in Seq(Node) /\ Len(r) = Len(Oldest(l)) + 1
      /\ \A i \in 1..Len(Oldest(l)) : r[i] = Oldest(l)[i]
      /\ r[Len(Oldest(l)) + 1] = n
      /\ r = Oldest(l) \o <<n>>
  BY <1>1, <1>2, AppendFacts, AppendIsConcat
<1> HIDE DEF r
<1>4. Len(r) = Len(l)
  BY <1>1, <1>3
<1>5. ASSUME NEW i \in 1..Len(l) PROVE l[i] = r[i]
  <2>1. CASE i = Len(l)  BY <2>1, <1>1, <1>3
  <2>2. CASE i # Len(l)
    <3>1. i \in 1..(Len(l) - 1) /\ i \in 1..Len(Oldest(l))  BY <2>2, <1>1
    <3> QED  BY <3>1, <1>1, <1>3
  <2> QED  BY <2>1, <2>2
<1>6. l = r
  BY <1>3, <1>4, <1>5, SeqEqual
<1> QED  BY <1>3, <1>6

(* A node linked in front of the list. *)
LEMMA InsertedFirst ==
  ASSUME NEW l \in Seq(Node), NEW n \in Node, Distinct(l), n \notin NodesOf(l)
  PROVE  Inserted(l, NULL, n) = <<n>> \o l
<1> DEFINE r == Inserted(l, NULL, n)
           t == <<n>> \o l
<1>1. 0 \in 0..Len(l) /\ 0 + 1 = 1 /\ 0 + 2 = 2
  BY SeqFacts
<1>2. /\ Inserted(l, NULL, n) \in Seq(Node) /\ Len(l) \in Nat
      /\ Len(Inserted(l, NULL, n)) = Len(l) + 1
      /\ Inserted(l, NULL, n)[0 + 1] = n
      /\ \A i \in (0 + 2)..(Len(l) + 1) : Inserted(l, NULL, n)[i] = l[i - 1]
  BY <1>1, InsertedFacts
<1>3. /\ r \in Seq(Node) /\ Len(r) = Len(l) + 1 /\ r[1] = n
      /\ \A i \in 2..(Len(l) + 1) : r[i] = l[i - 1]
  BY <1>1, <1>2
<1>4. /\ t \in Seq(Node) /\ Len(t) = Len(l) + 1 /\ t[1] = n
      /\ \A i \in 2..(Len(l) + 1) : t[i] = l[i - 1]
  BY PushFacts
<1> HIDE DEF r, t
<1>5. ASSUME NEW i \in 1..Len(r) PROVE r[i] = t[i]
  <2>1. i = 1 \/ i \in 2..(Len(l) + 1)
    BY <1>2, <1>3
  <2> QED  BY <2>1, <1>3, <1>4
<1>6. r = t
  BY <1>3, <1>4, <1>5, SeqEqual
<1> QED  BY <1>6 DEF r, t

(* What has been put and not got, oldest first. *)
Items == IF kind = "message" THEN <<>> ELSE batch \o (list \o chain)

(* A node put is the last of the items. *)
LEMMA PutItems ==
  ASSUME NEW a \in Seq(Node), NEW b \in Seq(Node), NEW c \in Seq(Node),
         NEW n \in Node
  PROVE  a \o (b \o Append(c, n)) = Append(a \o (b \o c), n)
<1>1. <<n>> \in Seq(Node) /\ Append(c, n) = c \o <<n>>
  BY AppendIsConcat
<1>2. b \o (c \o <<n>>) = (b \o c) \o <<n>>
  BY <1>1, ConcatAssociative
<1>3. b \o c \in Seq(Node) /\ a \o (b \o c) \in Seq(Node)
  BY ConcatProperties
<1>4. a \o ((b \o c) \o <<n>>) = (a \o (b \o c)) \o <<n>>
  BY <1>1, <1>3, ConcatAssociative
<1>5. Append(a \o (b \o c), n) = (a \o (b \o c)) \o <<n>>
  BY <1>3, AppendIsConcat
<1> QED  BY <1>1, <1>2, <1>4, <1>5

(* Turning a node over changes nothing of the order of the items. *)
LEMMA TurnItems ==
  ASSUME NEW a \in Seq(Node), NEW b \in Seq(Node), NEW c \in Seq(Node),
         NEW n \in Node, a # <<>>, n = a[Len(a)], Distinct(b), n \notin NodesOf(b)
  PROVE  Oldest(a) \o (Inserted(b, NULL, n) \o c) = a \o (b \o c)
<1>1. /\ <<n>> \in Seq(Node) /\ Oldest(a) \in Seq(Node)
      /\ b \o c \in Seq(Node) /\ <<n>> \o b \in Seq(Node)
  BY OldestFacts, ConcatProperties
<1>2. Inserted(b, NULL, n) = <<n>> \o b
  BY InsertedFirst
<1>3. a = Oldest(a) \o <<n>>
  BY OldestAndNewest
<1>4. (<<n>> \o b) \o c = <<n>> \o (b \o c)
  BY <1>1, ConcatAssociative
<1>5. (Oldest(a) \o <<n>>) \o (b \o c) = Oldest(a) \o (<<n>> \o (b \o c))
  BY SMTT(30), <1>1, ConcatAssociative
<1> QED  BY <1>2, <1>3, <1>4, <1>5

(* A node got is the first of the items. *)
LEMMA GetItems ==
  ASSUME NEW b \in Seq(Node), NEW c \in Seq(Node), b # <<>>
  PROVE  <<>> \o (b \o c) # <<>> /\ <<>> \o (Tail(b) \o c) = Tail(<<>> \o (b \o c))
<1>1. Tail(b) \in Seq(Node) /\ b \o c \in Seq(Node) /\ Tail(b) \o c \in Seq(Node)
  BY TailFacts, ConcatProperties
<1>2. b[1] \in Node /\ <<b[1]>> \in Seq(Node) /\ b = <<b[1]>> \o Tail(b)
  BY FirstAndTail
<1>3. (<<b[1]>> \o Tail(b)) \o c = <<b[1]>> \o (Tail(b) \o c)
  BY <1>1, <1>2, ConcatAssociative
<1>4. b \o c = <<b[1]>> \o (Tail(b) \o c)
  BY <1>2, <1>3
<1>5. b \o c # <<>> /\ Tail(b \o c) = Tail(b) \o c
  BY <1>1, <1>2, <1>4, PushFacts
<1>6. <<>> \o (b \o c) = b \o c /\ <<>> \o (Tail(b) \o c) = Tail(b) \o c
  BY <1>1, ConcatEmptySeq
<1> QED  BY <1>5, <1>6

(* Nothing is taken while the receiver is not ordering a chain. *)
LEMMA BatchFacts ==
  ASSUME PlaceInv
  PROVE  taken = NULL <=> batch = <<>>
<1>1. batch \in Seq(Node) /\ LeadsBack(taken, batch)
  BY DEF PlaceInv, QueueTypeOK, PointersExact
<1>2. batch # <<>> => batch[Len(batch)] \in Node
  BY <1>1, SeqFacts
<1> QED  BY <1>1, <1>2, NullIsNoNode DEF LeadsBack

LEMMA ListFacts ==
  ASSUME PlaceInv
  PROVE  head = NULL <=> list = <<>>
<1>1. list \in Seq(Node) /\ LeadsOn(head, list)
  BY DEF PlaceInv, QueueTypeOK, PointersExact
<1>2. list # <<>> => list[1] \in Node
  BY <1>1, SeqFacts
<1> QED  BY <1>1, <1>2, NullIsNoNode DEF LeadsOn

(* Steps that neither put nor get leave the items as they are. *)
LEMMA StutterItems ==
  ASSUME UNCHANGED <<kind, chain, batch, list>>
  PROVE  UNCHANGED Items
  BY DEF Items

LEMMA FirstItems ==
  ASSUME PlaceInv, TakeFirst, taken = NULL, kind # "message"
  PROVE  Items # <<>> /\ Items' = Tail(Items)
<1>1. batch = <<>> /\ list # <<>> /\ list \in Seq(Node) /\ chain \in Seq(Node)
  BY BatchFacts, ListFacts DEF TakeFirst, PlaceInv, QueueTypeOK
<1>2. /\ Items = <<>> \o (list \o chain) /\ Items' = <<>> \o (Tail(list) \o chain)
  BY <1>1 DEF Items, TakeFirst, poolVars
<1> QED  BY <1>1, <1>2, GetItems

(* Every step of a queue puts an item, gets the first or leaves the items. *)
LEMMA StepOfFifo ==
  ASSUME PlaceInv, [Next]_vars
  PROVE  \/ UNCHANGED Items
         \/ Items # <<>> /\ Items' = Tail(Items)
         \/ \E n \in Node : Items' = Append(Items, n)
<1> USE DEF poolVars, nodeVars, linkVars
<1>0. chain \in Seq(Node) /\ batch \in Seq(Node) /\ list \in Seq(Node)
  BY DEF PlaceInv, QueueTypeOK
<1>1. ASSUME NEW s \in Sender, PutStore(s)
      PROVE  UNCHANGED Items \/ \E n \in Node : Items' = Append(Items, n)
  <2>1. mine[s] \in Node
    BY <1>1 DEF PutStore, PlaceInv, Stages, QueueTypeOK, Ptr
  <2>2. /\ kind' = kind /\ batch' = batch /\ list' = list
        /\ chain' = Append(chain, mine[s])
    BY <1>1 DEF PutStore
  <2>3. CASE kind = "message"
    BY <2>2, <2>3 DEF Items
  <2>4. CASE kind # "message"
    <3>1. Items' = Append(Items, mine[s])
      BY <1>0, <2>1, <2>2, <2>4, PutItems DEF Items
    <3> QED  BY <2>1, <3>1
  <2> QED  BY <2>3, <2>4
<1>2. ASSUME NEW s \in Sender,
             \/ PoolLoad(s) \/ PoolSet(s) \/ PoolNext(s) \/ PoolFree(s) \/ SliceAlloc(s)
             \/ PutLoad(s) \/ PutRetry(s) \/ PutLeave(s)
      PROVE  UNCHANGED Items
  <2>1. UNCHANGED <<kind, chain, batch, list>>
    BY <1>2 DEF PoolLoad, PoolSet, PoolNext, PoolFree, SliceAlloc, PutLoad, PutRetry, PutLeave
  <2> QED  BY <2>1, StutterItems
<1>3. CASE GetEnter \/ GetWalk \/ Release
  <2>1. UNCHANGED <<kind, chain, batch, list>>
    BY <1>3 DEF GetEnter, GetWalk, Release
  <2> QED  BY <2>1, StutterItems
<1>4. CASE GetHead
  <2>1. taken = NULL /\ TakeFirst /\ kind # "message"
    BY <1>4 DEF GetHead, PlaceInv, Stages
  <2> QED  BY <2>1, FirstItems
<1>5. CASE GetTake
  <2>1. kind' = kind /\ list' = list /\ batch' = chain /\ chain' = <<>>
    BY <1>5 DEF GetTake
  <2>2. CASE kind = "message"  BY <2>1, <2>2 DEF Items
  <2>3. CASE kind # "message"
    <3>1. head = NULL /\ taken = NULL
      BY <1>5, <2>3 DEF GetTake, PlaceInv, Stages
    <3>2. list = <<>> /\ batch = <<>>
      BY <3>1, ListFacts, BatchFacts
    <3>3. Items = <<>> \o (<<>> \o chain) /\ Items' = chain \o (<<>> \o <<>>)
      BY <2>1, <2>3, <3>2 DEF Items
    <3>4. /\ <<>> \o chain = chain /\ chain \o <<>> = chain
          /\ <<>> \in Seq(Node)
      BY <1>0, ConcatEmptySeq, EmptySeq
    <3>5. <<>> \o <<>> = <<>>
      BY <3>4, ConcatEmptySeq
    <3> QED  BY <3>3, <3>4, <3>5
  <2> QED  BY <2>2, <2>3
<1>6. CASE GetTurn
  <2>1. /\ kind # "message" /\ taken # NULL /\ at = NULL
    BY <1>6 DEF GetTurn, PlaceInv, Stages
  <2>2. /\ batch # <<>> /\ taken = batch[Len(batch)] /\ taken \in Node
        /\ Distinct(list) /\ taken \notin NodesOf(list)
    <3>1. batch # <<>> /\ taken = batch[Len(batch)] /\ taken \in Node
      BY <2>1, TakenFacts
    <3>2. taken \in NodesOf(batch)
      BY <1>0, <3>1, OldestFacts
    <3> QED  BY <3>1, <3>2 DEF PlaceInv, Apart
  <2>3. /\ kind' = kind /\ list' = Inserted(list, NULL, taken)
        /\ batch' = Oldest(batch) /\ chain' = chain
    BY <1>6, <2>1 DEF GetTurn, LinkTaken
  <2>4. Oldest(batch) \o (Inserted(list, NULL, taken) \o chain)
          = batch \o (list \o chain)
    BY SMTT(30), <1>0, <2>2, TurnItems
  <2> QED  BY <2>1, <2>3, <2>4 DEF Items
<1>7. CASE GetLast
  <2>1. kind = "queue" /\ taken # NULL /\ next[taken] = NULL
    BY <1>7 DEF GetLast, PlaceInv, Stages
  <2>2. batch = <<taken>> /\ taken \in Node
    BY <2>1, TakenFacts
  <2>3. list \o chain \in Seq(Node)
    BY <1>0, ConcatProperties
  <2>4. /\ Items = <<taken>> \o (list \o chain)
        /\ Items' = <<>> \o (list \o chain)
    BY <1>7, <2>1, <2>2 DEF Items, GetLast
  <2> QED  BY <2>2, <2>3, <2>4, PushFacts, ConcatEmptySeq
<1>8. CASE GetInsert
  BY <1>8 DEF GetInsert, LinkTaken, Items
<1>9. CASE GetPop
  <2>1. CASE kind = "message"
    BY <1>9, <2>1 DEF GetPop, TakeFirst, Items
  <2>2. CASE kind # "message"
    <3>1. taken = NULL /\ TakeFirst
      BY <1>9 DEF GetPop
    <3> QED  BY <2>2, <3>1, FirstItems
  <2> QED  BY <2>1, <2>2
<1>10. CASE UNCHANGED vars
  BY <1>10, StutterItems DEF vars
<1> QED  BY <1>1, <1>2, <1>3, <1>4, <1>5, <1>6, <1>7, <1>8, <1>9, <1>10 DEF Next

(* The queues of queue.c and async_queue.c implement Fifo: every node put  *)
(* is got once, in the order of the conditional stores.                    *)
THEOREM QueueImplementsFifo == Spec => ImplementsFifo
<1>1. Init => PlaceInv /\ F!Init
  BY InitPlaceInv, ConcatEmptySeq, EmptySeq DEF Init, F!Init
<1>2. PlaceInv /\ [Next]_vars => PlaceInv'
  BY NextPlaceInv
<1>3. ASSUME PlaceInv, [Next]_vars
      PROVE  [F!Next]_Items
  BY <1>3, StepOfFifo DEF F!Next, F!Get, F!Put, Items
<1> QED  BY <1>1, <1>2, <1>3, PTL DEF Spec, ImplementsFifo, F!Spec, Items

(***************************************************************************)
(* The message queue: the list is sorted by priority.                      *)
(***************************************************************************)

Sorted == \A i, j \in DOMAIN list : i <= j => prio[list[i]] >= prio[list[j]]

(* The cursor stands behind a message of at least the priority to insert,  *)
(* and what the list held when the chain was taken is still in it.         *)
Ordered ==
  kind = "message" =>
    /\ Sorted
    /\ at # NULL => prio[at] >= prio[taken]
    /\ rpc = "sort" => old \subseteq NodesOf(list)
    /\ EarlierChainFirst

(* What was in the queue when the receiver got its token is still there,   *)
(* until one of it is delivered.                                           *)
Served ==
  kind = "message" =>
    /\ rpc = "take" => before \subseteq NodesOf(list) \cup NodesOf(chain)
    /\ rpc = "sort" => before \subseteq NodesOf(list) \cup NodesOf(batch)
    /\ rpc = "use" => /\ before \subseteq NodesOf(list) \cup {got}
                      /\ \A n \in before : prio[got] >= prio[n]

OrderInv == PlaceInv /\ Ordered /\ Served

(* A sorted list stays sorted when n is linked behind the last node of at  *)
(* least its priority.                                                     *)
LEMMA SplicedSorted ==
  ASSUME NEW m \in Nat, NEW l, NEW r, NEW n, NEW k \in 0..m, NEW p,
         Spliced(l, m, k, n, r),
         \A i \in 1..m : p[l[i]] \in Int,
         p[n] \in Int,
         \A i, j \in 1..m : i <= j => p[l[i]] >= p[l[j]],
         k # 0 => p[l[k]] >= p[n],
         k < m => p[l[k + 1]] < p[n]
  PROVE  \A i, j \in 1..(m + 1) : i <= j => p[r[i]] >= p[r[j]]
<1> SUFFICES ASSUME NEW i \in 1..(m + 1), NEW j \in 1..(m + 1), i <= j
             PROVE  p[r[i]] >= p[r[j]]
  OBVIOUS
<1>1. ASSUME NEW a \in 1..k PROVE a \in 1..m /\ r[a] = l[a] /\ p[l[a]] >= p[n]
  <2>1. a \in 1..m /\ k \in 1..m /\ a <= k /\ k # 0 /\ r[a] = l[a]
    BY DEF Spliced
  <2>2. p[l[a]] >= p[l[k]] /\ p[l[k]] >= p[n] /\ p[l[a]] \in Int /\ p[l[k]] \in Int
    BY <2>1
  <2> QED  BY <2>1, <2>2
<1>2. ASSUME NEW a \in (k + 2)..(m + 1)
      PROVE  a - 1 \in 1..m /\ r[a] = l[a - 1] /\ p[l[a - 1]] < p[n]
  <2>1. a - 1 \in 1..m /\ k + 1 \in 1..m /\ k + 1 <= a - 1 /\ k < m
        /\ r[a] = l[a - 1]
    BY DEF Spliced
  <2>2. p[l[k + 1]] >= p[l[a - 1]] /\ p[l[k + 1]] < p[n] /\ p[l[a - 1]] \in Int
        /\ p[l[k + 1]] \in Int
    BY <2>1
  <2> QED  BY <2>1, <2>2
<1>3. r[k + 1] = n
  BY DEF Spliced
<1>4. /\ i \in 1..k \/ i = k + 1 \/ i \in (k + 2)..(m + 1)
      /\ j \in 1..k \/ j = k + 1 \/ j \in (k + 2)..(m + 1)
  OBVIOUS
<1>5. CASE j \in 1..k
  <2>1. i \in 1..k  BY <1>5
  <2> QED  BY <2>1, <1>1, <1>5
<1>6. CASE j = k + 1
  <2>1. i \in 1..k \/ i = k + 1  BY <1>6
  <2> QED  BY <2>1, <1>1, <1>3, <1>6
<1>7. CASE j \in (k + 2)..(m + 1)
  <2>1. r[j] = l[j - 1] /\ p[l[j - 1]] < p[n] /\ j - 1 \in 1..m /\ p[l[j - 1]] \in Int
    BY <1>2, <1>7
  <2>2. CASE i \in 1..k
    <3>1. i \in 1..m /\ i <= j - 1 /\ r[i] = l[i]  BY <2>2, <1>1, <1>7
    <3> QED  BY <2>1, <3>1
  <2>3. CASE i = k + 1  BY <2>1, <2>3, <1>3
  <2>4. CASE i \in (k + 2)..(m + 1)
    <3>1. i - 1 \in 1..m /\ i - 1 <= j - 1 /\ r[i] = l[i - 1]  BY <2>4, <1>2
    <3> QED  BY <2>1, <3>1
  <2> QED  BY <1>4, <2>2, <2>3, <2>4
<1> QED  BY <1>4, <1>5, <1>6, <1>7

(* Nor does it overtake an older one of its priority. *)
LEMMA SplicedLater ==
  ASSUME NEW m \in Nat, NEW l, NEW r, NEW n, NEW k \in 0..m, NEW p, NEW O,
         Spliced(l, m, k, n, r),
         \A i \in 1..m : p[l[i]] \in Int,
         p[n] \in Int,
         \A i, j \in 1..m : i <= j => p[l[i]] >= p[l[j]],
         k < m => p[l[k + 1]] < p[n],
         n \notin O,
         \A i, j \in 1..m :
           l[i] \notin O /\ l[j] \in O /\ p[l[i]] = p[l[j]] => j < i
  PROVE  \A i, j \in 1..(m + 1) :
           r[i] \notin O /\ r[j] \in O /\ p[r[i]] = p[r[j]] => j < i
<1> SUFFICES ASSUME NEW i \in 1..(m + 1), NEW j \in 1..(m + 1),
                    r[i] \notin O, r[j] \in O, p[r[i]] = p[r[j]]
             PROVE  j < i
  OBVIOUS
<1>1. ASSUME NEW a \in 1..k PROVE a \in 1..m /\ r[a] = l[a]
  BY DEF Spliced
<1>2. ASSUME NEW a \in (k + 2)..(m + 1)
      PROVE  a - 1 \in 1..m /\ r[a] = l[a - 1] /\ p[l[a - 1]] < p[n]
  <2>1. a - 1 \in 1..m /\ k + 1 \in 1..m /\ k + 1 <= a - 1 /\ k < m
        /\ r[a] = l[a - 1]
    BY DEF Spliced
  <2>2. p[l[k + 1]] >= p[l[a - 1]] /\ p[l[k + 1]] < p[n] /\ p[l[a - 1]] \in Int
        /\ p[l[k + 1]] \in Int
    BY <2>1
  <2> QED  BY <2>1, <2>2
<1>3. r[k + 1] = n
  BY DEF Spliced
<1>4. j \in 1..k \/ j \in (k + 2)..(m + 1)
  BY <1>3
<1>5. i \in 1..k \/ i = k + 1 \/ i \in (k + 2)..(m + 1)
  OBVIOUS
<1>6. CASE i = k + 1
  <2>1. CASE j \in 1..k  BY <1>6, <2>1
  <2>2. CASE j \in (k + 2)..(m + 1)
    BY <1>2, <1>3, <1>6, <2>2
  <2> QED  BY <1>4, <2>1, <2>2
<1>7. CASE i \in 1..k /\ j \in 1..k
  BY <1>1, <1>7
<1>8. CASE i \in (k + 2)..(m + 1) /\ j \in 1..k
  BY <1>8
<1>9. CASE i \in 1..k /\ j \in (k + 2)..(m + 1)
  <2>1. /\ i \in 1..m /\ r[i] = l[i] /\ j - 1 \in 1..m /\ r[j] = l[j - 1]
    BY <1>1, <1>2, <1>9
  <2>2. j - 1 < i  BY <2>1
  <2> QED  BY <2>2, <1>9
<1>10. CASE i \in (k + 2)..(m + 1) /\ j \in (k + 2)..(m + 1)
  <2>1. /\ i - 1 \in 1..m /\ r[i] = l[i - 1] /\ j - 1 \in 1..m /\ r[j] = l[j - 1]
    BY <1>2, <1>10
  <2>2. j - 1 < i - 1  BY <2>1
  <2> QED  BY <2>2, <1>10
<1> QED  BY <1>4, <1>5, <1>6, <1>7, <1>8, <1>9, <1>10

(* The priorities of the nodes in use, and the nodes whose priorities      *)
(* the invariant compares, which are all in use.                           *)
LEMMA PrioFacts ==
  ASSUME PlaceInv
  PROVE  /\ \A n \in Node : prio[n] \in Int
         /\ NodesOf(list) \cup NodesOf(batch) \cup NodesOf(chain) \subseteq map
         /\ NodesOf(list) \cup NodesOf(batch) \cup NodesOf(chain) \subseteq Node
         /\ got # NULL => got \in map /\ got \in Node
         /\ at # NULL => at \in map /\ taken \in map
         /\ list \in Seq(Node) /\ Len(list) \in Nat /\ DOMAIN list = 1..Len(list)
         /\ \A i \in DOMAIN list : list[i] \in NodesOf(list)
<1>1. prio \in [Node -> Priority] /\ Priority \subseteq Int
  BY PriorityAssumption DEF PlaceInv, QueueTypeOK
<1>2. /\ chain \in Seq(Node) /\ batch \in Seq(Node) /\ list \in Seq(Node)
      /\ got \in Ptr
  BY DEF PlaceInv, QueueTypeOK
<1>3. /\ NodesOf(list) \cup NodesOf(batch) \cup NodesOf(chain) \subseteq Node
      /\ Len(list) \in Nat /\ DOMAIN list = 1..Len(list)
      /\ \A i \in DOMAIN list : list[i] \in NodesOf(list)
  BY <1>2, SeqFacts
<1>4. /\ NodesOf(list) \cup NodesOf(batch) \cup NodesOf(chain) \subseteq map
      /\ got # NULL => got \in map
  BY <1>3, NullIsNoNode DEF PlaceInv, Apart
<1>5. at # NULL => at \in NodesOf(list) /\ taken # NULL
  BY DEF PlaceInv, Stages
<1>6. taken # NULL => taken \in NodesOf(batch)
  BY <1>2, TakenFacts, OldestFacts
<1> QED  BY <1>1, <1>2, <1>3, <1>4, <1>5, <1>6 DEF Ptr

(* Steps of the senders that put no node into the chain change no priority *)
(* of a node in use.                                                       *)
LEMMA SenderOrder ==
  ASSUME OrderInv,
         UNCHANGED <<kind, rpc, taken, at, got, before, old, chain, batch, list>>,
         \A n \in map : prio'[n] = prio[n]
  PROVE  Ordered' /\ Served'
<1> USE DEF OrderInv
<1>1. \A i \in DOMAIN list : prio'[list[i]] = prio[list[i]]
  BY PrioFacts
<1>2. at # NULL => prio'[at] = prio[at] /\ prio'[taken] = prio[taken]
  BY PrioFacts
<1>3. NodesOf(list)' = NodesOf(list) /\ NodesOf(batch)' = NodesOf(batch)
      /\ NodesOf(chain)' = NodesOf(chain)
  BY DEF NodesOf
<1>4. Ordered'
  <2>1. kind = "message" => Sorted'
    BY <1>1 DEF Ordered, Sorted
  <2>2. kind = "message" => EarlierChainFirst'
    BY <1>1 DEF Ordered, EarlierChainFirst
  <2> QED  BY <1>2, <1>3, <2>1, <2>2 DEF Ordered
<1>5. Served'
  <2>1. rpc = "use" => got # NULL
    BY DEF PlaceInv, Stages
  <2>2. ASSUME rpc = "use", kind = "message", NEW n \in before
        PROVE  prio'[got] >= prio'[n]
    <3>1. got \in map /\ n \in map /\ prio[got] >= prio[n]
      BY <2>1, <2>2, PrioFacts DEF Served
    <3> QED  BY <3>1
  <2> QED  BY <1>3, <2>2 DEF Served
<1> QED  BY <1>4, <1>5

(* The steps of the senders. *)
LEMMA SendersKeepOrder ==
  ASSUME OrderInv, NEW s \in Sender,
         \/ PoolLoad(s) \/ PoolSet(s) \/ PoolNext(s) \/ PoolFree(s) \/ SliceAlloc(s)
         \/ PutLoad(s) \/ PutStore(s) \/ PutRetry(s) \/ PutLeave(s)
  PROVE  Ordered' /\ Served'
<1>1. CASE \/ PoolLoad(s) \/ PoolSet(s) \/ PoolNext(s) \/ PoolFree(s)
           \/ PutLoad(s) \/ PutRetry(s) \/ PutLeave(s)
  <2>1. UNCHANGED <<kind, rpc, taken, at, got, before, old, chain, batch, list, prio>>
    BY <1>1 DEF PoolLoad, PoolSet, PoolNext, PoolFree, PutLoad, PutRetry, PutLeave,
       poolVars, nodeVars, linkVars, recvVars
  <2> QED  BY <2>1, SenderOrder
<1>2. CASE SliceAlloc(s)
  <2>1. UNCHANGED <<kind, rpc, taken, at, got, before, old, chain, batch, list>>
    BY <1>2 DEF SliceAlloc, linkVars, recvVars
  <2>2. PICK n \in Node \ map, p \in Priority :
          prio' = IF kind = "message" THEN [prio EXCEPT ![n] = p] ELSE prio
    BY <1>2 DEF SliceAlloc
  <2>3. \A x \in map : prio'[x] = prio[x]
    BY <2>2 DEF OrderInv, PlaceInv, QueueTypeOK
  <2> QED  BY <2>1, <2>3, SenderOrder
<1>3. CASE PutStore(s)
  <2>1. /\ UNCHANGED <<kind, rpc, taken, at, got, before, old, batch, list, prio>>
        /\ chain' = Append(chain, mine[s]) /\ pc[s] = "store"
    BY <1>3 DEF PutStore, poolVars, recvVars
  <2>2. NodesOf(chain)' = NodesOf(chain) \cup {mine[s]}
    <3>1. chain \in Seq(Node) /\ mine[s] \in Node
      BY <2>1 DEF OrderInv, PlaceInv, QueueTypeOK, Stages, Ptr
    <3>2. NodesOf(chain') = NodesOf(chain) \cup {mine[s]}
      BY <2>1, <3>1, AppendFacts
    <3> QED  BY <3>2 DEF NodesOf
  <2>3. NodesOf(list)' = NodesOf(list) /\ NodesOf(batch)' = NodesOf(batch)
    BY <2>1 DEF NodesOf
  <2>4. Ordered'
    BY <2>1, <2>3 DEF OrderInv, Ordered, Sorted, EarlierChainFirst
  <2>5. Served'
    BY <2>1, <2>2, <2>3 DEF OrderInv, Served
  <2> QED  BY <2>4, <2>5
<1> QED  BY <1>1, <1>2, <1>3

(* The list after an insertion. *)
LEMMA InsertOrdered ==
  ASSUME OrderInv, GetInsert
  PROVE  /\ Sorted' /\ EarlierChainFirst'
         /\ NodesOf(list)' = NodesOf(list) \cup {taken}
         /\ NodesOf(batch) = NodesOf(batch)' \cup {taken}
<1> USE DEF OrderInv
<1>0. /\ kind = "message" /\ rpc = "sort" /\ taken # NULL
      /\ Link # NULL => ~StaysBehind(Link, taken)
      /\ list' = Inserted(list, at, taken) /\ batch' = Oldest(batch)
      /\ prio' = prio /\ old' = old /\ rpc' = rpc
  BY DEF GetInsert, LinkTaken
<1>1. /\ taken \in Node /\ NodesOf(batch) = NodesOf(Oldest(batch)) \cup {taken}
  <2>1. /\ batch \in Seq(Node) /\ batch # <<>> /\ taken \in Node
        /\ taken = batch[Len(batch)]
    BY <1>0, TakenFacts
  <2> QED  BY <2>1, OldestFacts
<1>2. PICK k \in Nat :
        /\ k <= Len(list)
        /\ k = 0 => at = NULL
        /\ k # 0 => at = list[k] /\ at \in Node
        /\ Len(list) <= k => Link = NULL
        /\ k < Len(list) => Link = list[k + 1]
  BY CursorFacts
<1>3. /\ list \in Seq(Node) /\ Len(list) \in Nat /\ DOMAIN list = 1..Len(list)
      /\ \A n \in Node : prio[n] \in Int
      /\ \A i \in 1..Len(list) : list[i] \in Node
      /\ Distinct(list) /\ taken \notin NodesOf(list)
  BY <1>1, PrioFacts, SeqFacts DEF PlaceInv, Apart
<1>4. k \in 0..Len(list)
  BY <1>2, <1>3
<1>5. /\ Spliced(list, Len(list), k, taken, list')
      /\ DOMAIN list' = 1..(Len(list) + 1)
      /\ NodesOf(list') = NodesOf(list) \cup {taken}
  <2>1. /\ DOMAIN list' = 1..(Len(list) + 1)
        /\ \A i \in 1..k : list'[i] = list[i]
        /\ list'[k + 1] = taken
        /\ \A i \in (k + 2)..(Len(list) + 1) : list'[i] = list[i - 1]
        /\ NodesOf(list') = NodesOf(list) \cup {taken}
    BY <1>0, <1>1, <1>2, <1>3, <1>4, InsertedFacts
  <2> QED  BY <2>1 DEF Spliced
<1>6. /\ \A i \in 1..Len(list) : prio[list[i]] \in Int
      /\ prio[taken] \in Int
      /\ \A i, j \in 1..Len(list) : i <= j => prio[list[i]] >= prio[list[j]]
      /\ k # 0 => prio[list[k]] >= prio[taken]
      /\ k < Len(list) => prio[list[k + 1]] < prio[taken]
  <2>1. /\ \A i \in 1..Len(list) : prio[list[i]] \in Int
        /\ prio[taken] \in Int
    BY <1>1, <1>3
  <2>2. \A i, j \in 1..Len(list) : i <= j => prio[list[i]] >= prio[list[j]]
    BY <1>0, <1>3 DEF Ordered, Sorted
  <2>3. k # 0 => prio[list[k]] >= prio[taken]
    BY <1>0, <1>2, NullIsNoNode DEF Ordered
  <2>4. ASSUME k < Len(list) PROVE prio[list[k + 1]] < prio[taken]
    <3>1. k + 1 \in 1..Len(list)  BY <2>4, <1>3, <1>4
    <3>2. Link = list[k + 1] /\ Link # NULL
      BY <2>4, <3>1, <1>2, <1>3, NullIsNoNode
    <3> QED  BY <2>1, <3>1, <3>2, <1>0 DEF StaysBehind
  <2> QED  BY <2>1, <2>2, <2>3, <2>4
<1>7. \A i, j \in 1..(Len(list) + 1) : i <= j => prio[list'[i]] >= prio[list'[j]]
  <2> HIDE DEF OrderInv
  <2> QED  BY <1>3, <1>4, <1>5, <1>6, SplicedSorted
<1>8. Sorted'
  BY <1>0, <1>5, <1>7 DEF Sorted
<1>9. taken \notin old
  BY <1>0, <1>3 DEF Ordered
<1>10. \A i, j \in 1..Len(list) :
         list[i] \notin old /\ list[j] \in old /\ prio[list[i]] = prio[list[j]] => j < i
  BY <1>0, <1>3 DEF Ordered, EarlierChainFirst
<1>11. \A i, j \in 1..(Len(list) + 1) :
         list'[i] \notin old /\ list'[j] \in old /\ prio[list'[i]] = prio[list'[j]]
           => j < i
  BY <1>3, <1>4, <1>5, <1>6, <1>9, <1>10, SplicedLater
<1>12. EarlierChainFirst'
  BY <1>0, <1>5, <1>11 DEF EarlierChainFirst
<1>13. /\ NodesOf(list)' = NodesOf(list') /\ NodesOf(batch)' = NodesOf(Oldest(batch))
  BY <1>0 DEF NodesOf
<1> QED  BY <1>1, <1>5, <1>8, <1>12, <1>13

(* The first of a sorted list has the highest priority of it. *)
LEMMA PopOrdered ==
  ASSUME OrderInv, TakeFirst, kind = "message"
  PROVE  /\ Sorted'
         /\ NodesOf(list) = NodesOf(list)' \cup {head}
         /\ \A n \in NodesOf(list) : prio[head] >= prio[n]
<1> USE DEF OrderInv
<1>1. /\ list \in Seq(Node) /\ list # <<>> /\ head = list[1]
      /\ list' = Tail(list) /\ prio' = prio
  BY HeadFacts DEF TakeFirst
<1>2. /\ Len(list) \in Nat /\ Len(list) >= 1 /\ DOMAIN list = 1..Len(list)
      /\ DOMAIN list' = 1..(Len(list) - 1)
      /\ \A i \in 1..(Len(list) - 1) : list'[i] = list[i + 1]
      /\ NodesOf(list) = NodesOf(list') \cup {head}
  BY <1>1, TailFacts, SeqFacts
<1>3. \A i, j \in 1..Len(list) : i <= j => prio[list[i]] >= prio[list[j]]
  BY <1>2 DEF Ordered, Sorted
<1>4. ASSUME NEW i \in 1..(Len(list) - 1), NEW j \in 1..(Len(list) - 1), i <= j
      PROVE  prio[list'[i]] >= prio[list'[j]]
  <2>1. i + 1 \in 1..Len(list) /\ j + 1 \in 1..Len(list) /\ i + 1 <= j + 1
    BY <1>2, <1>4
  <2> QED  BY <2>1, <1>2, <1>3
<1>5. ASSUME NEW n \in NodesOf(list) PROVE prio[head] >= prio[n]
  <2>1. PICK j \in 1..Len(list) : n = list[j]  BY <1>2 DEF NodesOf
  <2>2. 1 \in 1..Len(list) /\ 1 <= j  BY <1>2
  <2> QED  BY <2>1, <2>2, <1>1, <1>3
<1>6. NodesOf(list)' = NodesOf(list')
  BY DEF NodesOf
<1> QED  BY <1>1, <1>2, <1>4, <1>5, <1>6 DEF Sorted

(* The steps of the receiver. *)
LEMMA ReceiverKeepsOrder ==
  ASSUME OrderInv,
         \/ GetEnter \/ GetHead \/ GetTake \/ GetTurn \/ GetLast
         \/ GetWalk \/ GetInsert \/ GetPop \/ Release
  PROVE  Ordered' /\ Served'
<1> USE DEF OrderInv
<1>0. kind' = kind
  BY DEF GetEnter, GetHead, GetTake, GetTurn, GetLast, GetWalk, GetInsert, GetPop,
     Release, TakeFirst, LinkTaken, poolVars
<1>1. CASE kind # "message"
  BY <1>0, <1>1 DEF Ordered, Served
<1>2. CASE kind = "message" /\ GetEnter
  <2>1. /\ UNCHANGED <<chain, batch, list, prio, taken, at, got, old>>
        /\ before' = NodesOf(list) \cup NodesOf(chain) /\ rpc' = "take"
        /\ rpc = "idle"
    BY <1>2 DEF GetEnter, nodeVars
  <2>2. NodesOf(list)' = NodesOf(list) /\ NodesOf(chain)' = NodesOf(chain)
    BY <2>1 DEF NodesOf
  <2> QED  BY <1>0, <2>1, <2>2 DEF Ordered, Sorted, EarlierChainFirst, Served
<1>3. CASE kind = "message" /\ GetTake
  <2>1. /\ UNCHANGED <<list, prio, at, got, before>> /\ batch' = chain
        /\ rpc = "take" /\ rpc' = "sort" /\ old' = NodesOf(list)
    BY <1>3 DEF GetTake
  <2>2. NodesOf(list)' = NodesOf(list) /\ NodesOf(batch)' = NodesOf(chain)
    BY <2>1 DEF NodesOf
  <2>3. at = NULL
    BY <2>1 DEF PlaceInv, Stages
  <2>4. EarlierChainFirst'
    BY <2>1 DEF EarlierChainFirst, NodesOf
  <2> QED  BY <1>0, <2>1, <2>2, <2>3, <2>4 DEF Ordered, Sorted, Served
<1>4. CASE kind = "message" /\ GetWalk
  <2>1. /\ UNCHANGED <<chain, batch, list, prio, taken, got, old, before, rpc>>
        /\ at' = Link /\ StaysBehind(Link, taken) /\ rpc = "sort"
    BY <1>4 DEF GetWalk, nodeVars
  <2>2. NodesOf(list)' = NodesOf(list) /\ NodesOf(batch)' = NodesOf(batch)
    BY <2>1 DEF NodesOf
  <2> QED  BY <1>0, <2>1, <2>2 DEF Ordered, Sorted, EarlierChainFirst, Served, StaysBehind
<1>5. CASE kind = "message" /\ GetInsert
  <2>1. /\ Sorted' /\ EarlierChainFirst'
        /\ NodesOf(list)' = NodesOf(list) \cup {taken}
        /\ NodesOf(batch) = NodesOf(batch)' \cup {taken}
    BY <1>5, InsertOrdered
  <2>2. /\ rpc = "sort" /\ rpc' = "sort" /\ at' = NULL /\ old' = old /\ before' = before
    BY <1>5 DEF GetInsert, LinkTaken
  <2> QED  BY <1>0, <1>5, <2>1, <2>2 DEF Ordered, Served
<1>6. CASE kind = "message" /\ GetPop
  <2>1. /\ taken = NULL /\ TakeFirst /\ rpc = "sort" /\ rpc' = "use" /\ got' = head
        /\ before' = before /\ prio' = prio /\ at' = at
    BY <1>6 DEF GetPop, TakeFirst
  <2>2. /\ Sorted'
        /\ NodesOf(list) = NodesOf(list)' \cup {head}
        /\ \A n \in NodesOf(list) : prio[head] >= prio[n]
    BY <1>6, <2>1, PopOrdered
  <2>3. batch = <<>> /\ NodesOf(batch) = {}
    BY <2>1, BatchFacts DEF NodesOf
  <2>4. before \subseteq NodesOf(list)
    BY <1>6, <2>1, <2>3 DEF Served
  <2>5. at = NULL
    BY <2>1 DEF PlaceInv, Stages
  <2>6. EarlierChainFirst'
    BY <2>1 DEF EarlierChainFirst
  <2> QED  BY <1>0, <2>1, <2>2, <2>4, <2>5, <2>6 DEF Ordered, Served
<1>7. CASE kind = "message" /\ Release
  <2>1. /\ UNCHANGED <<chain, batch, list, prio, taken, at, old>>
        /\ before' = {} /\ rpc' = "idle"
    BY <1>7 DEF Release, nodeVars
  <2> QED  BY <1>0, <1>7, <2>1 DEF Ordered, Sorted, EarlierChainFirst, Served
<1>8. CASE kind = "message" /\ (GetHead \/ GetTurn \/ GetLast)
  BY <1>8 DEF GetHead, GetTurn, GetLast
<1> QED  BY <1>1, <1>2, <1>3, <1>4, <1>5, <1>6, <1>7, <1>8

LEMMA OrderInvAlways == Spec => []OrderInv
<1>1. ASSUME Init PROVE OrderInv
  <2>1. PlaceInv  BY <1>1, InitPlaceInv
  <2>2. Ordered /\ Served
    BY <1>1 DEF Init, Ordered, Served, Sorted, EarlierChainFirst
  <2> QED  BY <2>1, <2>2 DEF OrderInv
<1>2. ASSUME OrderInv, [Next]_vars PROVE OrderInv'
  <2>1. PlaceInv'  BY <1>2, NextPlaceInv DEF OrderInv
  <2>2. CASE UNCHANGED vars
    <3>1. /\ UNCHANGED <<kind, rpc, taken, at, got, before, old, chain, batch, list, prio>>
      BY <2>2 DEF vars, poolVars, nodeVars, linkVars, recvVars
    <3> QED  BY <1>2, <2>1, <3>1, SenderOrder DEF OrderInv
  <2>3. CASE Next
    BY <1>2, <2>1, <2>3, SendersKeepOrder, ReceiverKeepsOrder DEF Next, OrderInv
  <2> QED  BY <1>2, <2>2, <2>3
<1> QED  BY <1>1, <1>2, PTL DEF Spec

(* A message delivered has the highest priority of all that were in the    *)
(* queue when its receiver got a token.                                    *)
THEOREM HighestFirstCorrect == Spec => []HighestFirst
<1>1. OrderInv => HighestFirst
  BY DEF OrderInv, Served, HighestFirst
<1> QED  BY <1>1, OrderInvAlways, PTL

(* Messages of one priority from different chains stay in the order in     *)
(* which the chains were taken.                                            *)
THEOREM EarlierChainFirstCorrect == Spec => []EarlierChainFirst
<1>1. OrderInv => EarlierChainFirst
  BY DEF OrderInv, Ordered, EarlierChainFirst
<1> QED  BY <1>1, OrderInvAlways, PTL

(***************************************************************************)
(* A counted message is found.                                             *)
(***************************************************************************)

Leaving == {s \in Sender : pc[s] = "leave"}
Token == IF rpc \in {"take", "sort"} THEN 1 ELSE 0

(* The tokens of the semaphore, those to be added for messages that are in *)
(* the chain already, and the one that the receiver has taken off for the  *)
(* message it will deliver, are as many as the messages; and while the     *)
(* receiver is at work there is a message outside the chain.               *)
Counted ==
  kind = "message" =>
    /\ count + Cardinality(Leaving) + Token = Len(chain) + Len(batch) + Len(list)
    /\ rpc = "sort" => Len(batch) + Len(list) >= 1

CountInv == PlaceInv /\ Counted

LEMMA LeavingFinite == IsFiniteSet(Leaving) /\ Cardinality(Leaving) \in Nat
<1>1. Leaving \subseteq Sender  BY DEF Leaving
<1> QED  BY <1>1, SenderAssumption, FS_Subset, FS_CardinalityType

LEMMA LengthFacts ==
  ASSUME PlaceInv
  PROVE  /\ Len(chain) \in Nat /\ Len(batch) \in Nat /\ Len(list) \in Nat
         /\ count \in Nat
         /\ chain \in Seq(Node) /\ batch \in Seq(Node) /\ list \in Seq(Node)
  BY SeqFacts DEF PlaceInv, QueueTypeOK

(* The steps of the senders. *)
LEMMA SendersCount ==
  ASSUME CountInv, NEW s \in Sender,
         \/ PoolLoad(s) \/ PoolSet(s) \/ PoolNext(s) \/ PoolFree(s) \/ SliceAlloc(s)
         \/ PutLoad(s) \/ PutStore(s) \/ PutRetry(s) \/ PutLeave(s)
  PROVE  Counted'
<1> USE DEF CountInv
<1>0. pc \in [Sender -> {"idle", "scan", "own", "load", "store", "leave"}]
  BY DEF PlaceInv, QueueTypeOK
<1>1. CASE \/ PoolLoad(s) \/ PoolSet(s) \/ PoolNext(s) \/ PoolFree(s) \/ SliceAlloc(s)
           \/ PutLoad(s) \/ PutRetry(s)
  <2>1. /\ UNCHANGED <<kind, rpc, chain, batch, list, count>>
    BY <1>1 DEF PoolLoad, PoolSet, PoolNext, PoolFree, SliceAlloc, PutLoad, PutRetry,
       poolVars, nodeVars, linkVars, recvVars
  <2>2. \A u \in Sender : pc'[u] = "leave" <=> pc[u] = "leave"
    BY <1>0, <1>1 DEF PoolLoad, PoolSet, PoolNext, PoolFree, SliceAlloc, PutLoad, PutRetry
  <2>3. Leaving' = Leaving
    BY <2>2 DEF Leaving
  <2> QED  BY <2>1, <2>3 DEF Counted, Token
<1>2. CASE PutStore(s)
  <2>1. /\ UNCHANGED <<kind, rpc, batch, list, count>>
        /\ chain' = Append(chain, mine[s]) /\ pc[s] = "store"
        /\ pc' = [pc EXCEPT ![s] = IF kind = "message" THEN "leave" ELSE "idle"]
    BY <1>2 DEF PutStore, poolVars, recvVars
  <2>2. Len(chain') = Len(chain) + 1
    <3>1. chain \in Seq(Node) /\ mine[s] \in Node
      BY <2>1 DEF PlaceInv, QueueTypeOK, Stages, Ptr
    <3> QED  BY <2>1, <3>1, AppendFacts
  <2>3. CASE kind # "message"  BY <2>1, <2>3 DEF Counted
  <2>4. CASE kind = "message"
    <3>1. Leaving' = Leaving \cup {s} /\ s \notin Leaving
      BY <1>0, <2>1, <2>4 DEF Leaving
    <3>2. Cardinality(Leaving') = Cardinality(Leaving) + 1
      BY <3>1, LeavingFinite, FS_AddElement
    <3>3. Token' = Token /\ Token \in Nat
      BY <2>1 DEF Token
    <3> QED  BY <2>1, <2>2, <2>4, <3>2, <3>3, LengthFacts, LeavingFinite DEF Counted
  <2> QED  BY <2>3, <2>4
<1>3. CASE PutLeave(s)
  <2>1. /\ UNCHANGED <<kind, rpc, chain, batch, list>>
        /\ count' = count + 1 /\ pc[s] = "leave" /\ pc' = [pc EXCEPT ![s] = "idle"]
    BY <1>3 DEF PutLeave, poolVars, nodeVars, recvVars
  <2>2. Leaving' = Leaving \ {s} /\ s \in Leaving
    BY <1>0, <2>1 DEF Leaving
  <2>3. Cardinality(Leaving') = Cardinality(Leaving) - 1
    BY <2>2, LeavingFinite, FS_RemoveElement
  <2>4. Token' = Token /\ Token \in Nat
    BY <2>1 DEF Token
  <2> QED  BY <2>1, <2>3, <2>4, LengthFacts, LeavingFinite DEF Counted
<1> QED  BY <1>1, <1>2, <1>3

(* The steps of the receiver. *)
LEMMA ReceiverCounts ==
  ASSUME CountInv,
         \/ GetEnter \/ GetHead \/ GetTake \/ GetTurn \/ GetLast
         \/ GetWalk \/ GetInsert \/ GetPop \/ Release
  PROVE  Counted'
<1> USE DEF CountInv
<1>0. kind' = kind /\ pc' = pc
  BY DEF GetEnter, GetHead, GetTake, GetTurn, GetLast, GetWalk, GetInsert, GetPop,
     Release, TakeFirst, LinkTaken, poolVars, sendVars
<1>1. CASE kind # "message"
  BY <1>0, <1>1 DEF Counted
<1>2. Leaving' = Leaving
  BY <1>0 DEF Leaving
<1>3. CASE kind = "message" /\ GetEnter
  <2>1. /\ UNCHANGED <<chain, batch, list>> /\ count' = count - 1
        /\ rpc = "idle" /\ rpc' = "take"
    BY <1>3 DEF GetEnter, nodeVars
  <2>2. Token = 0 /\ Token' = 1
    BY <2>1 DEF Token
  <2> QED  BY <1>0, <1>2, <1>3, <2>1, <2>2, LengthFacts, LeavingFinite DEF Counted
<1>4. CASE kind = "message" /\ GetTake
  <2>1. /\ UNCHANGED <<list, count>> /\ batch' = chain /\ chain' = <<>>
        /\ rpc = "take" /\ rpc' = "sort"
    BY <1>4 DEF GetTake
  <2>2. Token = 1 /\ Token' = 1
    BY <2>1 DEF Token
  <2>3. Len(batch) = 0 /\ Len(chain') = 0
    <3>1. batch = <<>>
      BY <2>1, BatchFacts DEF PlaceInv, Stages
    <3> QED  BY <2>1, <3>1
  <2> QED  BY <1>0, <1>2, <1>4, <2>1, <2>2, <2>3, LengthFacts, LeavingFinite DEF Counted
<1>5. CASE kind = "message" /\ (GetWalk \/ Release)
  <2>1. /\ UNCHANGED <<chain, batch, list, count>>
        /\ rpc' = rpc \/ (rpc = "use" /\ rpc' = "idle")
    BY <1>5 DEF GetWalk, Release, nodeVars
  <2>2. Token' = Token
    BY <2>1 DEF Token
  <2> QED  BY <1>0, <1>2, <1>5, <2>1, <2>2 DEF Counted
<1>6. CASE kind = "message" /\ GetInsert
  <2>1. /\ UNCHANGED <<chain, count, rpc>> /\ batch' = Oldest(batch)
        /\ list' = Inserted(list, at, taken) /\ taken # NULL /\ rpc = "sort"
    BY <1>6 DEF GetInsert, LinkTaken
  <2>2. /\ Len(batch') = Len(batch) - 1 /\ taken \in Node
        /\ taken \notin NodesOf(list)
    <3>1. /\ batch \in Seq(Node) /\ batch # <<>> /\ taken \in Node
          /\ taken = batch[Len(batch)]
      BY <2>1, TakenFacts
    <3>2. Len(Oldest(batch)) = Len(batch) - 1 /\ taken \in NodesOf(batch)
      BY <3>1, OldestFacts
    <3> QED  BY <2>1, <3>1, <3>2 DEF PlaceInv, Apart
  <2>3. Len(list') = Len(list) + 1
    <3>1. PICK k \in Nat :
            /\ k <= Len(list)
            /\ k = 0 => at = NULL
            /\ k # 0 => at = list[k] /\ at \in Node
      BY CursorFacts
    <3>2. k \in 0..Len(list) /\ list \in Seq(Node) /\ Distinct(list)
      BY <3>1, LengthFacts DEF PlaceInv, Apart
    <3> QED  BY <2>1, <2>2, <3>1, <3>2, InsertedFacts
  <2>4. Token' = Token
    BY <2>1 DEF Token
  <2> QED  BY <1>0, <1>2, <1>6, <2>1, <2>2, <2>3, <2>4, LengthFacts DEF Counted
<1>7. CASE kind = "message" /\ GetPop
  <2>1. /\ UNCHANGED <<chain, batch, count>> /\ list' = Tail(list)
        /\ rpc = "sort" /\ rpc' = "use" /\ head # NULL
    BY <1>7 DEF GetPop, TakeFirst
  <2>2. Len(list') = Len(list) - 1 /\ Len(list) >= 1
    BY <2>1, HeadFacts, TailFacts
  <2>3. Token = 1 /\ Token' = 0
    BY <2>1 DEF Token
  <2>4. count' + Cardinality(Leaving') + Token'
          = Len(chain') + Len(batch') + Len(list')
    <3>1. count + Cardinality(Leaving) + Token
            = Len(chain) + Len(batch) + Len(list)
      BY <1>7 DEF Counted
    <3>2. /\ count \in Int /\ Cardinality(Leaving) \in Nat /\ Len(chain) \in Nat
          /\ Len(batch) \in Nat /\ Len(list) \in Nat
      BY LengthFacts, LeavingFinite
    <3>3. /\ chain' = chain /\ batch' = batch /\ count' = count
          /\ Cardinality(Leaving') = Cardinality(Leaving)
      BY <1>2, <2>1
    <3>4. Len(list') = Len(list) - 1
      BY <2>2
    <3> QED  BY <2>3, <3>1, <3>2, <3>3, <3>4
  <2> QED  BY <2>1, <2>4 DEF Counted
<1>8. CASE kind = "message" /\ (GetHead \/ GetTurn \/ GetLast)
  BY <1>8 DEF GetHead, GetTurn, GetLast
<1> QED  BY <1>1, <1>3, <1>4, <1>5, <1>6, <1>7, <1>8

(* Whoever has got a token finds a message once the chain is in order,     *)
(* however senders push, count and are preempted in between.               *)
THEOREM TokenFindsMessageCorrect == Spec => []TokenFindsMessage
<1>1. ASSUME Init PROVE CountInv
  <2>1. PlaceInv  BY <1>1, InitPlaceInv
  <2>2. Leaving = {} /\ Token = 0
    BY <1>1 DEF Init, Leaving, Token
  <2>3. Counted
    BY <1>1, <2>2, FS_EmptySet DEF Init, Counted
  <2> QED  BY <2>1, <2>3 DEF CountInv
<1>2. ASSUME CountInv, [Next]_vars PROVE CountInv'
  <2>1. PlaceInv'  BY <1>2, NextPlaceInv DEF CountInv
  <2>2. CASE UNCHANGED vars
    BY <1>2, <2>1, <2>2 DEF vars, poolVars, nodeVars, sendVars, recvVars, CountInv,
       Counted, Leaving, Token
  <2>3. CASE Next
    BY <1>2, <2>1, <2>3, SendersCount, ReceiverCounts DEF Next, CountInv
  <2> QED  BY <1>2, <2>2, <2>3
<1>3. ASSUME CountInv PROVE TokenFindsMessage
  <2>1. CASE kind = "message" /\ rpc = "sort" /\ taken = NULL
    <3>1. batch = <<>>  BY <1>3, <2>1, BatchFacts DEF CountInv
    <3>2. Len(batch) = 0 /\ Len(batch) + Len(list) >= 1
      BY <1>3, <2>1, <3>1 DEF CountInv, Counted
    <3>3. list # <<>>
      BY <3>2
    <3> QED  BY <1>3, <3>3, ListFacts DEF CountInv, TokenFindsMessage
  <2> QED  BY <2>1 DEF TokenFindsMessage
<1> QED  BY <1>1, <1>2, <1>3, PTL DEF Spec
=============================================================================
