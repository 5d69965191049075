-------------------------- MODULE AtomicListProofs --------------------------
(***************************************************************************)
(* With exclusive access the lock-free list is exact and implements        *)
(* FreeList, for any number of contexts and nodes.                         *)
(*                                                                         *)
(* ListExact alone is not inductive: a pop installs a next pointer that it *)
(* loaded two steps before.  The invariant adds what a context that still  *)
(* has the reservation knows (Loaded), the shape of the chains about to be *)
(* pushed (Segments) and that no two places share a node (Apart).          *)
(***************************************************************************)
EXTENDS AtomicList, SequenceTheorems, TLAPS

(* What was loaded before a conditional store is still so, as long as the  *)
(* reservation lasts.                                                      *)
Loaded ==
  \A p \in Proc :
    /\ pc[p] = "popNext" => ref[p] \in Node
    /\ p \in reserved =>
         /\ pc[p] \in {"popNext", "popStore"} => top # NULL /\ ref[p] = top
         /\ pc[p] = "popStore" => succ[p] = next[top]
         /\ pc[p] = "pushStore" => next[seg[p][Len(seg[p])]] = top

Pushing(p) == pc[p] \in {"push", "pushStore"}

(* A chain to push is one held node or a batch of linked fresh ones. *)
Segments ==
  \A p \in Proc :
    /\ ~Pushing(p) => seg[p] = <<>>
    /\ Pushing(p) =>
         /\ Len(seg[p]) \in {1, Batch}
         /\ Distinct(seg[p])
         /\ \A i \in 1..(Len(seg[p]) - 1) : next[seg[p][i]] = seg[p][i + 1]
         /\ Len(seg[p]) = 1 => seg[p][1] \in held[p]

Apart ==
  /\ Distinct(list)
  /\ NodesOf(list) \cap heap = {}
  /\ \A p, q \in Proc : p # q => held[p] \cap held[q] = {}
  /\ \A p \in Proc : held[p] \cap (NodesOf(list) \cup heap) = {}
  /\ \A p, q \in Proc :
       Growing(q) =>
         /\ NodesOf(seg[q]) \cap (held[p] \cup NodesOf(list) \cup heap) = {}
         /\ p # q => NodesOf(seg[p]) \cap NodesOf(seg[q]) = {}

ListInv == ListTypeOK /\ ListExact /\ Loaded /\ Segments /\ Apart

(***************************************************************************)
(* Sequences of nodes.                                                     *)
(***************************************************************************)

(* What the tail of a chain is. *)
LEMMA TailFacts ==
  ASSUME NEW l \in Seq(Node), l # <<>>
  PROVE  /\ Tail(l) \in Seq(Node)
         /\ Len(l) \in Nat /\ Len(l) >= 1
         /\ Len(Tail(l)) = Len(l) - 1
         /\ \A i \in DOMAIN Tail(l) : i + 1 \in DOMAIN l /\ Tail(l)[i] = l[i + 1]
         /\ Head(l) = l[1] /\ l[1] \in Node
         /\ NodesOf(Tail(l)) \subseteq NodesOf(l)
         /\ Distinct(l) => Distinct(Tail(l)) /\ l[1] \notin NodesOf(Tail(l))
<1>1. /\ Tail(l) \in Seq(Node)
      /\ Len(Tail(l)) = Len(l) - 1
      /\ \A i \in 1..Len(Tail(l)) : Tail(l)[i] = l[i + 1]
  BY HeadTailProperties
<1>2. Len(l) \in Nat /\ Len(l) >= 1 /\ DOMAIN l = 1..Len(l)
      /\ DOMAIN Tail(l) = 1..Len(Tail(l))
  BY <1>1, EmptySeq, LenProperties
<1>3. \A i \in DOMAIN Tail(l) : i + 1 \in DOMAIN l /\ Tail(l)[i] = l[i + 1]
  BY <1>1, <1>2
<1>4. Head(l) = l[1] /\ l[1] \in Node
  BY <1>2, ElementOfSeq
<1>5. NodesOf(Tail(l)) \subseteq NodesOf(l)
  BY <1>3 DEF NodesOf
<1>6. Distinct(l) => Distinct(Tail(l)) /\ l[1] \notin NodesOf(Tail(l))
  <2>1. ASSUME Distinct(l), NEW i \in DOMAIN Tail(l), NEW j \in DOMAIN Tail(l),
               Tail(l)[i] = Tail(l)[j]
        PROVE  i = j
    BY <2>1, <1>2, <1>3 DEF Distinct
  <2>2. ASSUME Distinct(l), NEW i \in DOMAIN Tail(l), Tail(l)[i] = l[1]
        PROVE  FALSE
    BY <2>2, <1>2, <1>3 DEF Distinct
  <2> QED  BY <2>1, <2>2 DEF Distinct, NodesOf
<1> QED  BY <1>1, <1>2, <1>3, <1>4, <1>5, <1>6

(* What a chain pushed in front of a list makes of it. *)
LEMMA PushFacts ==
  ASSUME NEW s \in Seq(Node), NEW l \in Seq(Node), s # <<>>
  PROVE  /\ s \o l \in Seq(Node)
         /\ s \o l # <<>>
         /\ Len(s) \in Nat /\ Len(s) >= 1 /\ Len(l) \in Nat
         /\ DOMAIN s = 1..Len(s) /\ DOMAIN l = 1..Len(l)
         /\ Len(s \o l) = Len(s) + Len(l)
         /\ DOMAIN (s \o l) = 1..(Len(s) + Len(l))
         /\ \A i \in DOMAIN (s \o l) :
              (s \o l)[i] = IF i <= Len(s) THEN s[i] ELSE l[i - Len(s)]
         /\ NodesOf(s \o l) = NodesOf(s) \cup NodesOf(l)
         /\ (Distinct(s) /\ Distinct(l) /\ NodesOf(s) \cap NodesOf(l) = {})
              => Distinct(s \o l)
<1>1. /\ s \o l \in Seq(Node)
      /\ Len(s \o l) = Len(s) + Len(l)
      /\ \A i \in 1..(Len(s) + Len(l)) :
           (s \o l)[i] = IF i <= Len(s) THEN s[i] ELSE l[i - Len(s)]
  BY ConcatProperties
<1>2. /\ Len(s) \in Nat /\ Len(s) >= 1 /\ Len(l) \in Nat
      /\ DOMAIN s = 1..Len(s) /\ DOMAIN l = 1..Len(l)
      /\ DOMAIN (s \o l) = 1..(Len(s) + Len(l))
  BY <1>1, EmptySeq, LenProperties
<1>3. s \o l # <<>>
  BY <1>1, <1>2, EmptySeq
<1>4. NodesOf(s \o l) = NodesOf(s) \cup NodesOf(l)
  <2>1. ASSUME NEW i \in DOMAIN (s \o l)
        PROVE  (s \o l)[i] \in NodesOf(s) \cup NodesOf(l)
    <3>1. CASE i <= Len(s)  BY <3>1, <1>1, <1>2 DEF NodesOf
    <3>2. CASE ~(i <= Len(s))
      <4>1. i - Len(s) \in DOMAIN l  BY <3>2, <1>2
      <4> QED  BY <3>2, <4>1, <1>1, <1>2 DEF NodesOf
    <3> QED  BY <3>1, <3>2
  <2>2. ASSUME NEW i \in DOMAIN s PROVE s[i] \in NodesOf(s \o l)
    <3>1. i \in DOMAIN (s \o l) /\ (s \o l)[i] = s[i]
      BY <1>1, <1>2
    <3> QED  BY <3>1 DEF NodesOf
  <2>3. ASSUME NEW i \in DOMAIN l PROVE l[i] \in NodesOf(s \o l)
    <3>1. i + Len(s) \in DOMAIN (s \o l) /\ (s \o l)[i + Len(s)] = l[i]
      BY <1>1, <1>2
    <3> QED  BY <3>1 DEF NodesOf
  <2> QED  BY <2>1, <2>2, <2>3 DEF NodesOf
<1>5. ASSUME Distinct(s), Distinct(l), NodesOf(s) \cap NodesOf(l) = {},
             NEW i \in DOMAIN (s \o l), NEW j \in DOMAIN (s \o l),
             (s \o l)[i] = (s \o l)[j]
      PROVE  i = j
  <2>1. \A a \in DOMAIN s, b \in DOMAIN l : s[a] # l[b]
    BY <1>5 DEF NodesOf
  <2>2. /\ i \in 1..(Len(s) + Len(l)) /\ j \in 1..(Len(s) + Len(l))
        /\ i <= Len(s) => i \in DOMAIN s
        /\ j <= Len(s) => j \in DOMAIN s
        /\ ~(i <= Len(s)) => i - Len(s) \in DOMAIN l
        /\ ~(j <= Len(s)) => j - Len(s) \in DOMAIN l
    BY <1>2
  <2>3. CASE i <= Len(s) /\ j <= Len(s)
    BY <2>2, <2>3, <1>5, <1>1 DEF Distinct
  <2>4. CASE ~(i <= Len(s)) /\ ~(j <= Len(s))
    <3>1. l[i - Len(s)] = l[j - Len(s)]  BY <2>2, <2>4, <1>5, <1>1
    <3>2. i - Len(s) = j - Len(s)  BY <3>1, <2>2, <2>4, <1>5 DEF Distinct
    <3> QED  BY <3>2, <2>2, <1>2
  <2> QED  BY <2>1, <2>2, <2>3, <2>4, <1>5, <1>1
<1> QED
  <2>1. (Distinct(s) /\ Distinct(l) /\ NodesOf(s) \cap NodesOf(l) = {})
          => Distinct(s \o l)
    BY <1>5 DEF Distinct
  <2> QED  BY <1>1, <1>2, <1>3, <1>4, <2>1

(* A list has an element exactly when it is not empty; the top is a node   *)
(* of the list.                                                            *)
LEMMA TopFacts ==
  ASSUME ListTypeOK, ListExact
  PROVE  /\ top # NULL <=> list # <<>>
         /\ top # NULL => top \in Node /\ top = list[1]
                          /\ 1 \in DOMAIN list /\ top \in NodesOf(list)
<1>1. CASE list = <<>>  BY <1>1 DEF ListExact
<1>2. CASE list # <<>>
  <2>1. 1 \in DOMAIN list /\ list[1] \in Node
    BY <1>2, EmptySeq, LenProperties, ElementOfSeq DEF ListTypeOK
  <2> QED  BY <1>2, <2>1, ListAssumption DEF ListExact, NodesOf
<1> QED  BY <1>1, <1>2

(***************************************************************************)
(* Steps that leave the list, the places of the nodes and the chains alone.*)
(***************************************************************************)

(* What holds of the node pointers and the places is about these variables *)
(* only.                                                                   *)
LEMMA SamePlaces ==
  ASSUME ListInv, UNCHANGED <<top, heap, held, list, seg>>
  PROVE  Apart'
<1>1. list' = list /\ held' = held /\ heap' = heap /\ seg' = seg
  OBVIOUS
<1>2. /\ NodesOf(list)' = NodesOf(list) /\ (Distinct(list)' <=> Distinct(list))
      /\ \A q \in Proc : /\ NodesOf(seg[q])' = NodesOf(seg[q])
                          /\ Growing(q)' <=> Growing(q)
  BY <1>1 DEF NodesOf, Distinct, Growing
<1> QED  BY <1>1, <1>2 DEF ListInv, Apart

(* At power on nothing is linked or held. *)
LEMMA InitListInv == Init => ListInv
<1> SUFFICES ASSUME Init PROVE ListInv
  OBVIOUS
<1>1. ListTypeOK
  BY DEF Init, ListTypeOK, Ptr
<1>2. ListExact /\ Loaded
  BY DEF Init, ListExact, Loaded
<1>3. Segments /\ Apart
  BY DEF Init, Segments, Apart, Pushing, Growing, NodesOf, Distinct
<1> QED  BY <1>1, <1>2, <1>3 DEF ListInv

(* The load of a pop: the top is NULL or a node of the list. *)
LEMMA PopLoadKeeps ==
  ASSUME ListInv, NEW p \in Proc, PopLoad(p)
  PROVE  ListInv'
<1> USE DEF PopLoad, nodeVars
<1>1. top # NULL => top \in Node
  BY TopFacts DEF ListInv
<1>2. ListTypeOK'
  BY DEF ListInv, ListTypeOK
<1>3. ListExact' /\ Apart'
  BY SamePlaces DEF ListInv, ListExact
<1>4. Loaded'
  <2>1. /\ \A q \in Proc \ {p} : pc'[q] = pc[q] /\ ref'[q] = ref[q]
        /\ pc'[p] \in {"popNext", "cut", "idle"} /\ ref'[p] = top
        /\ pc'[p] = "popNext" => top # NULL
    BY DEF ListInv, ListTypeOK
  <2> QED  BY <1>1, <2>1 DEF ListInv, Loaded
<1>5. Segments'
  <2>1. \A q \in Proc : seg'[q] = seg[q] /\ (Pushing(q)' <=> Pushing(q))
    BY DEF ListInv, ListTypeOK, Pushing
  <2> QED  BY <2>1 DEF ListInv, Segments, Distinct
<1> QED  BY <1>2, <1>3, <1>4, <1>5 DEF ListInv

(* The load of the next pointer of a node of the list. *)
LEMMA PopNextKeeps ==
  ASSUME ListInv, NEW p \in Proc, PopNext(p)
  PROVE  ListInv'
<1> USE DEF PopNext, nodeVars, Preempts
<1>1. ref[p] \in Node
  BY DEF ListInv, Loaded
<1>2. ListTypeOK'
  BY <1>1 DEF ListInv, ListTypeOK
<1>3. ListExact' /\ Apart'
  BY SamePlaces DEF ListInv, ListExact
<1>4. Loaded'
  <2>1. /\ \A q \in Proc \ {p} : pc'[q] = pc[q]
        /\ pc'[p] = "popStore" /\ succ'[p] = next[ref[p]]
        /\ pc[p] = "popNext" /\ ref' = ref /\ top' = top /\ next' = next
        /\ p \in reserved' => p \in reserved
        /\ \A q \in Proc \ {p} : q \notin reserved'
    BY DEF ListInv, ListTypeOK
  <2> QED  BY <2>1 DEF ListInv, Loaded
<1>5. Segments'
  <2>1. \A q \in Proc : seg'[q] = seg[q] /\ (Pushing(q)' <=> Pushing(q))
    BY DEF ListInv, ListTypeOK, Pushing
  <2> QED  BY <2>1 DEF ListInv, Segments, Distinct
<1> QED  BY <1>2, <1>3, <1>4, <1>5 DEF ListInv

(* What the next pointers say of the list after its first node is popped. *)
LEMMA PoppedExact ==
  ASSUME ListTypeOK, ListExact, list # <<>>
  PROVE  /\ next[top] = IF Tail(list) = <<>> THEN NULL ELSE Tail(list)[1]
         /\ \A i \in DOMAIN Tail(list) :
              next[Tail(list)[i]] =
                IF i = Len(Tail(list)) THEN NULL ELSE Tail(list)[i + 1]
<1>1. list \in Seq(Node)
  BY DEF ListTypeOK
<1>2. /\ Tail(list) \in Seq(Node)
      /\ Len(list) \in Nat /\ Len(list) >= 1
      /\ Len(Tail(list)) = Len(list) - 1
      /\ \A i \in DOMAIN Tail(list) :
           i + 1 \in DOMAIN list /\ Tail(list)[i] = list[i + 1]
  BY <1>1, TailFacts
<1>3. /\ DOMAIN list = 1..Len(list)
      /\ DOMAIN Tail(list) = 1..(Len(list) - 1)
      /\ Tail(list) = <<>> <=> Len(list) = 1
  <2>1. DOMAIN list = 1..Len(list) /\ DOMAIN Tail(list) = 1..Len(Tail(list))
    BY <1>1, <1>2, LenProperties
  <2>2. Tail(list) = <<>> <=> Len(Tail(list)) = 0
    BY <1>2, EmptySeq
  <2> QED  BY <1>2, <2>1, <2>2
<1>4. top = list[1] /\ next[list[1]] = IF 1 = Len(list) THEN NULL ELSE list[2]
  BY <1>2, <1>3 DEF ListExact
<1>5. Len(list) # 1 => 1 \in DOMAIN Tail(list) /\ Tail(list)[1] = list[2]
  BY <1>2, <1>3
<1>6. ASSUME NEW i \in DOMAIN Tail(list)
      PROVE  next[Tail(list)[i]] =
               IF i = Len(Tail(list)) THEN NULL ELSE Tail(list)[i + 1]
  <2>1. next[list[i + 1]] = IF i + 1 = Len(list) THEN NULL ELSE list[i + 2]
    BY <1>2, <1>3 DEF ListExact
  <2>2. i \in Nat /\ (i = Len(Tail(list)) <=> i + 1 = Len(list))
    BY <1>2, <1>3
  <2>3. i + 1 # Len(list) => Tail(list)[i + 1] = list[i + 2]
    BY <1>2, <1>3
  <2> QED  BY <1>2, <2>1, <2>2, <2>3
<1> QED  BY <1>3, <1>4, <1>5, <1>6

(* The conditional store of a pop: either the top is still the node whose  *)
(* next pointer was loaded, or nothing is stored.                          *)
LEMMA PopStoreKeeps ==
  ASSUME ListInv, ~ValueCAS, NEW p \in Proc, PopStore(p)
  PROVE  ListInv'
<1>1. \A q \in Proc : /\ seg'[q] = seg[q] /\ (Pushing(q)' <=> Pushing(q))
                      /\ pc'[q] = "popNext" => pc[q] = "popNext"
  BY DEF PopStore, ListInv, ListTypeOK, Pushing
<1>2. Loaded'
  BY <1>1 DEF PopStore, ListInv, Loaded
<1>3. CASE p \notin reserved
  <2>1. UNCHANGED <<top, heap, held, list, seg, next, ref, succ>> /\ reserved' = {}
        /\ pc' = [pc EXCEPT ![p] = "pop"]
    BY <1>3 DEF PopStore, StoreSucceeds
  <2>2. ListTypeOK'
    BY <2>1 DEF ListInv, ListTypeOK
  <2>3. ListExact' /\ Apart'
    BY <2>1, SamePlaces DEF ListInv, ListExact
  <2>4. Segments'
    BY <2>1, <1>1 DEF ListInv, Segments, Distinct
  <2> QED  BY <1>2, <2>2, <2>3, <2>4 DEF ListInv
<1>4. CASE p \in reserved
  <2>1. /\ top' = succ[p] /\ held' = [held EXCEPT ![p] = @ \cup {ref[p]}]
        /\ list' = Tail(list) /\ pc' = [pc EXCEPT ![p] = "idle"]
        /\ reserved' = {} /\ UNCHANGED <<next, heap, ref, succ, seg>>
    BY <1>4 DEF PopStore, StoreSucceeds
  <2>2. top # NULL /\ ref[p] = top /\ succ[p] = next[top]
    BY <1>4 DEF ListInv, Loaded, PopStore
  <2>3. list # <<>> /\ top \in Node /\ top = list[1] /\ top \in NodesOf(list)
    BY <2>2, TopFacts DEF ListInv
  <2>4. list \in Seq(Node)
    BY DEF ListInv, ListTypeOK
  <2>5. /\ Tail(list) \in Seq(Node)
        /\ NodesOf(Tail(list)) \subseteq NodesOf(list)
        /\ Distinct(list) => Distinct(Tail(list)) /\ list[1] \notin NodesOf(Tail(list))
    BY <2>3, <2>4, TailFacts
  <2>6. ListTypeOK'
    BY <2>1, <2>2, <2>3, <2>5 DEF ListInv, ListTypeOK
  <2>7. ListExact'
    BY <2>1, <2>2, <2>3, PoppedExact DEF ListInv, ListExact
  <2>8. \A q \in Proc : held[q] \subseteq held'[q]
    BY <2>1 DEF ListInv, ListTypeOK
  <2>9. Segments'
    BY <2>1, <2>8, <1>1 DEF ListInv, Segments, Distinct
  <2>10. Apart'
    <3>1. /\ NodesOf(list)' = NodesOf(Tail(list))
          /\ Distinct(list)' <=> Distinct(Tail(list))
          /\ \A q \in Proc : /\ NodesOf(seg[q])' = NodesOf(seg[q])
                             /\ Growing(q)' <=> Growing(q)
      BY <2>1 DEF NodesOf, Distinct, Growing
    <3>2. \A q \in Proc : held'[q] = IF q = p THEN held[p] \cup {top} ELSE held[q]
      BY <2>1, <2>2 DEF ListInv, ListTypeOK
    <3>3. Apart
      BY DEF ListInv
    <3>4. /\ Distinct(list)' /\ NodesOf(list)' \subseteq NodesOf(list)
          /\ top \notin NodesOf(list)' /\ heap' = heap
      BY <2>1, <2>3, <2>5, <3>1, <3>3 DEF Apart
    <3>5. \A q \in Proc \ {p} : top \notin held[q] /\ held'[q] = held[q]
      BY <2>3, <3>2, <3>3 DEF Apart
    <3>6. \A q, r \in Proc : q # r => held'[q] \cap held'[r] = {}
      BY <3>2, <3>3, <3>5 DEF Apart
    <3>7. \A q \in Proc : held'[q] \cap (NodesOf(list)' \cup heap') = {}
      BY <2>3, <3>2, <3>3, <3>4 DEF Apart
    <3>8. \A q, r \in Proc :
            Growing(r)' =>
              /\ NodesOf(seg[r])' \cap (held'[q] \cup NodesOf(list)' \cup heap') = {}
              /\ q # r => NodesOf(seg[q])' \cap NodesOf(seg[r])' = {}
      BY <2>3, <3>1, <3>2, <3>3, <3>4 DEF Apart
    <3> QED  BY <3>3, <3>4, <3>6, <3>7, <3>8 DEF Apart
  <2> QED  BY <1>2, <2>6, <2>7, <2>9, <2>10 DEF ListInv
<1> QED  BY <1>3, <1>4

(***************************************************************************)
(* Chains about to be pushed.                                              *)
(***************************************************************************)

(* Where the nodes of a chain are. *)
LEMMA ChainFacts ==
  ASSUME ListInv, NEW p \in Proc
  PROVE  /\ seg[p] \in Seq(Node) /\ NodesOf(seg[p]) \subseteq Node
         /\ Len(seg[p]) \in Nat /\ DOMAIN seg[p] = 1..Len(seg[p])
         /\ Growing(p) => Pushing(p)
         /\ NodesOf(seg[p]) \cap (NodesOf(list) \cup heap) = {}
         /\ \A q \in Proc : q # p => NodesOf(seg[p]) \cap held[q] = {}
         /\ \A q \in Proc : q # p => NodesOf(seg[p]) \cap NodesOf(seg[q]) = {}
         /\ Pushing(p) =>
              /\ seg[p] # <<>> /\ Len(seg[p]) >= 1
              /\ seg[p][Len(seg[p])] \in NodesOf(seg[p])
              /\ ~Growing(p) => NodesOf(seg[p]) \subseteq held[p] /\ Len(seg[p]) = 1
<1>1. \A q \in Proc : /\ seg[q] \in Seq(Node)
                      /\ Len(seg[q]) \in Nat /\ DOMAIN seg[q] = 1..Len(seg[q])
                      /\ NodesOf(seg[q]) \subseteq Node
                      /\ seg[q] = <<>> <=> Len(seg[q]) = 0
  <2> TAKE q \in Proc
  <2>1. seg[q] \in Seq(Node)
    BY DEF ListInv, ListTypeOK
  <2>2. Len(seg[q]) \in Nat /\ DOMAIN seg[q] = 1..Len(seg[q])
    BY <2>1, LenProperties
  <2>3. NodesOf(seg[q]) \subseteq Node
    BY <2>1, <2>2, ElementOfSeq DEF NodesOf
  <2>4. seg[q] = <<>> <=> Len(seg[q]) = 0
    BY <2>1, EmptySeq
  <2> QED  BY <2>1, <2>2, <2>3, <2>4
<1>2. \A q \in Proc :
        /\ ~Pushing(q) => seg[q] = <<>> /\ NodesOf(seg[q]) = {} /\ ~Growing(q)
        /\ Pushing(q) =>
             /\ Len(seg[q]) >= 1 /\ seg[q] # <<>>
             /\ ~Growing(q) => NodesOf(seg[q]) \subseteq held[q] /\ Len(seg[q]) = 1
  <2> TAKE q \in Proc
  <2>1. CASE ~Pushing(q)
    <3>1. seg[q] = <<>>  BY <2>1 DEF ListInv, Segments
    <3> QED  BY <2>1, <3>1, <1>1 DEF NodesOf, Growing
  <2>2. CASE Pushing(q)
    <3>1. Len(seg[q]) \in {1, Batch} /\ (Len(seg[q]) = 1 => seg[q][1] \in held[q])
      BY <2>2 DEF ListInv, Segments
    <3>2. Len(seg[q]) >= 1 /\ (~Growing(q) => Len(seg[q]) = 1)
      BY <3>1, <1>1, ListAssumption DEF Growing
    <3>3. Len(seg[q]) = 1 => NodesOf(seg[q]) \subseteq held[q]
      BY <3>1, <1>1 DEF NodesOf
    <3> QED  BY <2>2, <3>2, <3>3, <1>1
  <2> QED  BY <2>1, <2>2
<1>3. Apart
  BY DEF ListInv
<1>4. NodesOf(seg[p]) \cap (NodesOf(list) \cup heap) = {}
  BY <1>2, <1>3 DEF Apart
<1>5. \A q \in Proc : q # p => NodesOf(seg[p]) \cap held[q] = {}
  BY <1>2, <1>3 DEF Apart
<1>6. \A q \in Proc : q # p => NodesOf(seg[p]) \cap NodesOf(seg[q]) = {}
  BY <1>2, <1>3 DEF Apart
<1>7. Pushing(p) => seg[p][Len(seg[p])] \in NodesOf(seg[p])
  BY <1>1, <1>2 DEF NodesOf
<1> QED  BY <1>1, <1>2, <1>4, <1>5, <1>6, <1>7

(* Writing next pointers outside the list and the chains leaves both as    *)
(* they are.                                                               *)
LEMMA WriteOutside ==
  ASSUME ListInv
  PROVE  /\ ((\A n \in NodesOf(list) : next'[n] = next[n]) /\ top' = top /\ list' = list)
              => ListExact'
         /\ NodesOf(list) \subseteq Node
         /\ \A q \in Proc :
              (Pushing(q) /\ (Growing(q) => \A n \in NodesOf(seg[q]) : next'[n] = next[n]))
                => \A i \in 1..(Len(seg[q]) - 1) :
                     next'[seg[q][i]] = seg[q][i + 1]
<1>0. \A i \in DOMAIN list : list[i] \in Node /\ list[i] \in NodesOf(list)
  BY LenProperties, ElementOfSeq DEF ListInv, ListTypeOK, NodesOf
<1>1. ASSUME \A n \in NodesOf(list) : next'[n] = next[n], top' = top, list' = list
      PROVE  ListExact'
  BY <1>1, <1>0 DEF ListInv, ListExact
<1>2. ASSUME NEW q \in Proc, Pushing(q),
             Growing(q) => \A n \in NodesOf(seg[q]) : next'[n] = next[n],
             NEW i \in 1..(Len(seg[q]) - 1)
      PROVE  next'[seg[q][i]] = seg[q][i + 1]
  <2>1. Growing(q) /\ i \in DOMAIN seg[q]
    BY ChainFacts DEF Growing
  <2>2. next'[seg[q][i]] = next[seg[q][i]]
    BY <1>2, <2>1 DEF NodesOf
  <2> QED  BY <1>2, <2>2 DEF ListInv, Segments
<1> QED  BY <1>0, <1>1, <1>2 DEF NodesOf

(***************************************************************************)
(* The steps of a push.                                                    *)
(***************************************************************************)

(* A way to cut a block is a chain of distinct nodes. *)
LEMMA ChainSeq ==
  ASSUME ListInv, NEW s \in Chains(heap)
  PROVE  /\ s \in Seq(Node) /\ Len(s) = Batch /\ DOMAIN s = 1..Batch /\ Distinct(s)
         /\ NodesOf(s) \subseteq heap /\ heap \subseteq Node
<1>1. s \in [1..Batch -> heap] /\ Distinct(s) /\ heap \subseteq Node
  BY DEF Chains, ListInv, ListTypeOK
<1>2. s \in [1..Batch -> Node]
  BY <1>1
<1>3. s \in Seq(Node) /\ Len(s) = Batch
  <2>1. s \in Seq(Node)
    BY <1>2, ListAssumption, SeqDef
  <2>2. 1..Len(s) = 1..Batch /\ Len(s) \in Nat
    BY <1>2, <2>1, LenProperties
  <2>3. Len(s) = Batch
    <3>1. Batch \in 1..Len(s)  BY <2>2, ListAssumption
    <3>2. Len(s) \in 1..Batch  BY <2>2, <3>1, ListAssumption
    <3> QED  BY <3>1, <3>2, <2>2, ListAssumption
  <2> QED  BY <2>1, <2>3
<1> QED  BY <1>1, <1>3 DEF NodesOf

(* A block of fresh memory becomes a chain of linked nodes. *)
LEMMA CutKeeps ==
  ASSUME ListInv, NEW p \in Proc, NEW s \in Chains(heap), Cut(p, s)
  PROVE  ListInv'
<1>1. /\ s \in Seq(Node) /\ Len(s) = Batch /\ DOMAIN s = 1..Batch /\ Distinct(s)
      /\ NodesOf(s) \subseteq heap /\ heap \subseteq Node
  BY ChainSeq
<1>2. /\ pc[p] = "cut" /\ seg' = [seg EXCEPT ![p] = s] /\ heap' = heap \ NodesOf(s)
      /\ pc' = [pc EXCEPT ![p] = "push"] /\ reserved' = reserved \cap {p}
      /\ UNCHANGED <<top, held, list, ref, succ>>
  BY DEF Cut, Preempts
<1>3. /\ \A i \in 1..(Batch - 1) : next'[s[i]] = s[i + 1]
      /\ \A n \in Node \ NodesOf(s) : next'[n] = next[n]
      /\ next' \in [Node -> Ptr]
  <2> DEFINE J(n) == CHOOSE i \in 1..(Batch - 1) : s[i] = n
  <2>1. next' = [n \in Node |->
          IF \E i \in 1..(Batch - 1) : s[i] = n THEN s[J(n) + 1] ELSE next[n]]
    BY DEF Cut
  <2>2. ASSUME NEW i \in 1..(Batch - 1)
        PROVE  /\ i \in 1..Batch /\ i + 1 \in 1..Batch
               /\ s[i] \in Node /\ s[i + 1] \in Node
    BY <1>1, ListAssumption DEF NodesOf
  <2>3. \A n \in Node : (\E i \in 1..(Batch - 1) : s[i] = n) =>
          J(n) \in 1..(Batch - 1) /\ s[J(n)] = n
    OBVIOUS
  <2>4. ASSUME NEW i \in 1..(Batch - 1) PROVE next'[s[i]] = s[i + 1]
    <3>1. J(s[i]) \in 1..(Batch - 1) /\ s[J(s[i])] = s[i] /\ s[i] \in Node
      BY <2>2, <2>3
    <3>2. J(s[i]) = i
      BY <3>1, <2>2, <1>1 DEF Distinct
    <3>3. next'[s[i]] = s[J(s[i]) + 1]
      BY <2>1, <3>1
    <3> QED  BY <3>2, <3>3
  <2>5. ASSUME NEW n \in Node \ NodesOf(s) PROVE next'[n] = next[n]
    BY <2>1, <2>2, <1>1 DEF NodesOf
  <2>6. ASSUME NEW n \in Node PROVE next'[n] \in Ptr
    <3>1. CASE \E i \in 1..(Batch - 1) : s[i] = n
      BY <3>1, <2>2, <2>4 DEF Ptr
    <3>2. CASE ~\E i \in 1..(Batch - 1) : s[i] = n
      BY <3>2, <2>1 DEF ListInv, ListTypeOK
    <3> QED  BY <3>1, <3>2
  <2> QED  BY <2>1, <2>4, <2>5, <2>6
<1>4. /\ Pushing(p)' /\ ~Pushing(p) /\ seg'[p] = s
      /\ \A q \in Proc \ {p} : seg'[q] = seg[q] /\ pc'[q] = pc[q]
                               /\ (Pushing(q)' <=> Pushing(q))
  BY <1>2 DEF ListInv, ListTypeOK, Pushing
<1>5. ListTypeOK'
  BY <1>1, <1>2, <1>3 DEF ListInv, ListTypeOK
<1>6. ListExact'
  BY <1>1, <1>2, <1>3, WriteOutside DEF ListInv, Apart
<1>7. Loaded'
  BY <1>2, <1>4 DEF ListInv, Loaded, Pushing
<1>8. Segments'
  <2>1. ASSUME NEW q \in Proc \ {p}, Pushing(q)
        PROVE  \A i \in 1..(Len(seg[q]) - 1) : next'[seg[q][i]] = seg[q][i + 1]
    <3>1. \A n \in NodesOf(seg[q]) : next'[n] = next[n]
      BY <1>1, <1>3, ChainFacts
    <3> QED  BY <2>1, <3>1, WriteOutside
  <2>2. Len(s) # 1
    BY <1>1, ListAssumption
  <2> QED  BY <2>1, <2>2, <1>1, <1>2, <1>3, <1>4 DEF ListInv, Segments, Distinct
<1>9. Apart'
  <2>1. /\ NodesOf(list)' = NodesOf(list) /\ (Distinct(list)' <=> Distinct(list))
        /\ NodesOf(seg[p])' = NodesOf(s)
        /\ \A q \in Proc \ {p} : NodesOf(seg[q])' = NodesOf(seg[q])
                                 /\ (Growing(q)' <=> Growing(q))
    BY <1>2, <1>4 DEF NodesOf, Distinct, Growing
  <2>2. \A q \in Proc : NodesOf(seg[q]) \cap NodesOf(s) = {}
    BY <1>1, ChainFacts
  <2> QED  BY <2>1, <2>2, <1>1, <1>2 DEF ListInv, Apart
<1> QED  BY <1>5, <1>6, <1>7, <1>8, <1>9 DEF ListInv

(* A node that the caller holds becomes a chain of one. *)
LEMMA FreeCallKeeps ==
  ASSUME ListInv, NEW p \in Proc, NEW n \in held[p], FreeCall(p, n)
  PROVE  ListInv'
<1>1. n \in Node /\ <<n>> \in Seq(Node)
  BY DEF ListInv, ListTypeOK
<1>2. /\ pc[p] = "idle" /\ seg' = [seg EXCEPT ![p] = <<n>>]
      /\ pc' = [pc EXCEPT ![p] = "push"] /\ reserved' = reserved \cap {p}
      /\ UNCHANGED <<top, next, heap, held, list, ref, succ>>
  BY DEF FreeCall, Preempts, nodeVars
<1>3. /\ Pushing(p)' /\ ~Pushing(p) /\ seg'[p] = <<n>>
      /\ \A q \in Proc \ {p} : seg'[q] = seg[q] /\ pc'[q] = pc[q]
                               /\ (Pushing(q)' <=> Pushing(q))
  BY <1>2 DEF ListInv, ListTypeOK, Pushing
<1>4. ListTypeOK'
  BY <1>1, <1>2 DEF ListInv, ListTypeOK
<1>5. ListExact'
  BY <1>2 DEF ListInv, ListExact
<1>6. Loaded'
  BY <1>2, <1>3 DEF ListInv, Loaded, Pushing
<1>7. Segments'
  <2>1. Len(<<n>>) = 1 /\ Distinct(<<n>>) /\ <<n>>[1] = n
    BY DEF Distinct
  <2> QED  BY <2>1, <1>2, <1>3 DEF ListInv, Segments, Distinct
<1>8. Apart'
  <2>1. /\ NodesOf(list)' = NodesOf(list) /\ (Distinct(list)' <=> Distinct(list))
        /\ \A q \in Proc \ {p} : NodesOf(seg[q])' = NodesOf(seg[q])
                                 /\ (Growing(q)' <=> Growing(q))
    BY <1>2, <1>3 DEF NodesOf, Distinct, Growing
  <2>2. ~Growing(p)' /\ NodesOf(seg[p])' = {n}
    <3>1. Len(<<n>>) = 1 /\ DOMAIN <<n>> = {1} /\ <<n>>[1] = n
      OBVIOUS
    <3> QED  BY <3>1, <1>3 DEF NodesOf, Growing
  <2>3. \A q \in Proc \ {p} : Growing(q) => n \notin NodesOf(seg[q])
    BY DEF ListInv, Apart
  <2> QED  BY <2>1, <2>2, <2>3, <1>2 DEF ListInv, Apart
<1> QED  BY <1>4, <1>5, <1>6, <1>7, <1>8 DEF ListInv

(* The user of a node writes over it. *)
LEMMA UseKeeps ==
  ASSUME ListInv, NEW p \in Proc, NEW n \in held[p], Use(p, n)
  PROVE  ListInv'
<1>1. /\ pc[p] = "idle" /\ next' = [next EXCEPT ![n] = Data]
      /\ reserved' = reserved \cap {p}
      /\ UNCHANGED <<top, heap, held, list, pc, ref, succ, seg>>
  BY DEF Use, Preempts, callVars
<1>2. \A m \in Node \ {n} : next'[m] = next[m]
  BY <1>1 DEF ListInv, ListTypeOK
<1>3. /\ \A m \in NodesOf(list) : next'[m] = next[m]
      /\ \A q \in Proc : Growing(q) => \A m \in NodesOf(seg[q]) : next'[m] = next[m]
  <2>1. n \notin NodesOf(list) /\ \A q \in Proc : Growing(q) => n \notin NodesOf(seg[q])
    BY DEF ListInv, Apart
  <2>2. NodesOf(list) \subseteq Node /\ \A q \in Proc : NodesOf(seg[q]) \subseteq Node
    BY WriteOutside, ChainFacts
  <2> QED  BY <1>2, <2>1, <2>2
<1>4. ListTypeOK'
  BY <1>1 DEF ListInv, ListTypeOK, Ptr
<1>5. ListExact'
  BY <1>1, <1>3, WriteOutside
<1>6. Apart'
  BY <1>1, SamePlaces
<1>7. Loaded'
  BY <1>1 DEF ListInv, Loaded
<1>8. Segments'
  <2>1. \A q \in Proc : Pushing(q) =>
          \A i \in 1..(Len(seg[q]) - 1) : next'[seg[q][i]] = seg[q][i + 1]
    BY <1>3, WriteOutside
  <2> QED  BY <2>1, <1>1 DEF ListInv, Segments, Distinct, Pushing
<1> QED  BY <1>4, <1>5, <1>6, <1>7, <1>8 DEF ListInv

(* The last node of the chain is made to point at the top. *)
LEMMA PushLoadKeeps ==
  ASSUME ListInv, NEW p \in Proc, PushLoad(p)
  PROVE  ListInv'
<1> DEFINE last == seg[p][Len(seg[p])]
<1>1. /\ pc[p] = "push" /\ ref' = [ref EXCEPT ![p] = top]
      /\ next' = [next EXCEPT ![last] = top] /\ reserved' = {p}
      /\ pc' = [pc EXCEPT ![p] = "pushStore"]
      /\ UNCHANGED <<top, heap, held, list, succ, seg>>
  BY DEF PushLoad
<1>2. /\ Pushing(p) /\ last \in NodesOf(seg[p]) /\ last \in Node
      /\ Len(seg[p]) \in Nat /\ DOMAIN seg[p] = 1..Len(seg[p]) /\ Len(seg[p]) >= 1
      /\ last \notin NodesOf(list) /\ NodesOf(list) \subseteq Node
      /\ \A q \in Proc \ {p} : last \notin NodesOf(seg[q]) /\ NodesOf(seg[q]) \subseteq Node
  <2>1. Pushing(p)  BY <1>1 DEF Pushing
  <2>2. last \in NodesOf(seg[p]) /\ NodesOf(seg[p]) \subseteq Node
    BY <2>1, ChainFacts
  <2>3. NodesOf(seg[p]) \cap (NodesOf(list) \cup heap) = {}
    BY ChainFacts
  <2>4. \A q \in Proc \ {p} : NodesOf(seg[p]) \cap NodesOf(seg[q]) = {}
                              /\ NodesOf(seg[q]) \subseteq Node
    BY ChainFacts
  <2>5. Len(seg[p]) \in Nat /\ DOMAIN seg[p] = 1..Len(seg[p]) /\ Len(seg[p]) >= 1
    BY <2>1, ChainFacts
  <2> QED  BY <2>1, <2>2, <2>3, <2>4, <2>5, WriteOutside
<1>3. next'[last] = top /\ \A m \in Node \ {last} : next'[m] = next[m]
  BY <1>1, <1>2 DEF ListInv, ListTypeOK
<1>4. ListTypeOK'
  <2>1. top \in Ptr
    BY DEF ListInv, ListTypeOK
  <2> QED  BY <2>1, <1>1, <1>2 DEF ListInv, ListTypeOK
<1>5. ListExact'
  BY <1>1, <1>2, <1>3, WriteOutside
<1>6. Apart'
  BY <1>1, SamePlaces
<1>7. /\ Pushing(p)' /\ pc'[p] = "pushStore"
      /\ \A q \in Proc \ {p} : pc'[q] = pc[q] /\ ref'[q] = ref[q]
                               /\ (Pushing(q)' <=> Pushing(q))
  BY <1>1 DEF ListInv, ListTypeOK, Pushing
<1>8. Loaded'
  BY <1>1, <1>3, <1>7 DEF ListInv, Loaded
<1>9. Segments'
  <2>1. \A q \in Proc \ {p} : Pushing(q) =>
          \A i \in 1..(Len(seg[q]) - 1) : next'[seg[q][i]] = seg[q][i + 1]
    BY <1>2, <1>3, WriteOutside
  <2>2. ASSUME NEW i \in 1..(Len(seg[p]) - 1)
        PROVE  next'[seg[p][i]] = seg[p][i + 1]
    <3>1. seg[p][i] # last /\ seg[p][i] \in Node /\ next[seg[p][i]] = seg[p][i + 1]
      BY <1>2, ChainFacts DEF ListInv, Segments, Distinct, NodesOf
    <3> QED  BY <3>1, <1>3
  <2> QED  BY <2>1, <2>2, <1>1, <1>2, <1>7 DEF ListInv, Segments, Distinct
<1> QED  BY <1>4, <1>5, <1>6, <1>8, <1>9 DEF ListInv

(* Indices into the second part of a concatenation. *)
LEMMA Shifted ==
  ASSUME NEW a \in Nat, NEW b \in Nat, NEW k \in 1..b
  PROVE  /\ a + k = a + b <=> k = b
         /\ a + k # a + b => (a + k) + 1 \in 1..(a + b)
         /\ ~((a + k) + 1 <= a) /\ ((a + k) + 1) - a = k + 1
OBVIOUS

(* A chain whose last node points at the top spells out the longer list. *)
LEMMA PushedExact ==
  ASSUME ListInv, NEW s \in Seq(Node), s # <<>>,
         \A i \in 1..(Len(s) - 1) : next[s[i]] = s[i + 1],
         next[s[Len(s)]] = top
  PROVE  /\ (s \o list)[1] = s[1]
         /\ \A i \in DOMAIN (s \o list) :
              next[(s \o list)[i]] =
                IF i = Len(s \o list) THEN NULL ELSE (s \o list)[i + 1]
<1> DEFINE L == s \o list
<1>1. list \in Seq(Node)
  BY DEF ListInv, ListTypeOK
<1>2. /\ Len(s) \in Nat /\ Len(s) >= 1 /\ Len(list) \in Nat
      /\ DOMAIN s = 1..Len(s) /\ DOMAIN list = 1..Len(list)
      /\ Len(L) = Len(s) + Len(list)
      /\ DOMAIN L = 1..(Len(s) + Len(list))
      /\ \A i \in DOMAIN L :
           L[i] = IF i <= Len(s) THEN s[i] ELSE list[i - Len(s)]
  BY <1>1, PushFacts DEF L
<1> HIDE DEF L
<1>3. list = <<>> <=> Len(list) = 0
  BY <1>1, EmptySeq
<1>4. /\ top = IF list = <<>> THEN NULL ELSE list[1]
      /\ \A i \in DOMAIN list :
           next[list[i]] = IF i = Len(list) THEN NULL ELSE list[i + 1]
  BY DEF ListInv, ListExact
<1>5. ASSUME NEW i \in DOMAIN L
      PROVE  next[L[i]] =
               IF i = Len(L) THEN NULL ELSE L[i + 1]
  <2>1. CASE i < Len(s)
    <3>1. /\ i \in 1..(Len(s) - 1) /\ L[i] = s[i]
          /\ i # Len(L) /\ L[i + 1] = s[i + 1]
      BY <2>1, <1>2
    <3> QED  BY <3>1
  <2>2. CASE i = Len(s)
    <3>1. L[i] = s[i] /\ next[s[i]] = top
      BY <2>2, <1>2
    <3>2. CASE list = <<>>
      BY <3>1, <3>2, <2>2, <1>2, <1>3, <1>4
    <3>3. CASE list # <<>>
      <4>1. i # Len(L) /\ L[i + 1] = list[1]
        BY <3>3, <2>2, <1>2, <1>3
      <4> QED  BY <3>1, <3>3, <4>1, <1>4
    <3> QED  BY <3>2, <3>3
  <2>3. CASE i > Len(s)
    <3>1. PICK k \in 1..Len(list) : i = Len(s) + k
      <4>1. i \in Nat /\ i - Len(s) \in 1..Len(list) /\ i = Len(s) + (i - Len(s))
        BY <2>3, <1>2
      <4> QED  BY <4>1
    <3>2. L[i] = list[k]
      <4>1. ~(i <= Len(s)) /\ i - Len(s) = k
        BY <3>1, <1>2
      <4> QED  BY <4>1, <1>2
    <3>3. /\ i = Len(L) <=> k = Len(list)
          /\ i # Len(L) => L[i + 1] = list[k + 1]
      <4>1. Len(s) \in Nat /\ Len(list) \in Nat /\ Len(L) = Len(s) + Len(list)
            /\ DOMAIN L = 1..(Len(s) + Len(list))
        BY <1>2
      <4>2. /\ i = Len(L) <=> k = Len(list)
            /\ i # Len(L) => i + 1 \in DOMAIN L
            /\ ~(i + 1 <= Len(s)) /\ (i + 1) - Len(s) = k + 1
        <5>1. /\ Len(s) + k = Len(s) + Len(list) <=> k = Len(list)
              /\ Len(s) + k # Len(s) + Len(list)
                   => (Len(s) + k) + 1 \in 1..(Len(s) + Len(list))
              /\ ~((Len(s) + k) + 1 <= Len(s)) /\ ((Len(s) + k) + 1) - Len(s) = k + 1
          BY ZenonT(40), <4>1, Shifted
        <5>2. i = Len(s) + k
          BY <3>1
        <5> QED  BY <4>1, <5>1, <5>2
      <4> QED  BY <4>2, <1>2
    <3>4. next[list[k]] = IF k = Len(list) THEN NULL ELSE list[k + 1]
      BY <3>1, <1>2, <1>4
    <3> QED  BY <3>2, <3>3, <3>4
  <2> QED  BY <2>1, <2>2, <2>3, <1>2
<1>6. L[1] = s[1]
  BY <1>2
<1> QED  BY <1>5, <1>6 DEF L

(* The conditional store of a push: either the top is still the one the    *)
(* last node points at, or nothing is stored.                              *)
LEMMA PushStoreKeeps ==
  ASSUME ListInv, ~ValueCAS, NEW p \in Proc, PushStore(p)
  PROVE  ListInv'
<1>1. pc[p] = "pushStore" /\ Pushing(p) /\ reserved' = {} /\ UNCHANGED <<next, heap, ref, succ>>
  BY DEF PushStore, Pushing
<1>2. CASE p \notin reserved
  <2>1. UNCHANGED <<top, held, list, seg>> /\ pc' = [pc EXCEPT ![p] = "push"]
    BY <1>2 DEF PushStore, StoreSucceeds
  <2>2. ListTypeOK'
    BY <1>1, <2>1 DEF ListInv, ListTypeOK
  <2>3. ListExact' /\ Apart'
    BY <1>1, <2>1, SamePlaces DEF ListInv, ListExact
  <2>4. Loaded'
    BY <1>1, <2>1 DEF ListInv, ListTypeOK, Loaded
  <2>5. \A q \in Proc : Pushing(q)' <=> Pushing(q)
    BY <1>1, <2>1 DEF ListInv, ListTypeOK, Pushing
  <2>6. Segments'
    BY <1>1, <2>1, <2>5 DEF ListInv, Segments, Distinct
  <2> QED  BY <2>2, <2>3, <2>4, <2>6 DEF ListInv
<1>3. CASE p \in reserved
  <2>1. /\ top' = seg[p][1] /\ list' = seg[p] \o list
        /\ held' = [held EXCEPT ![p] = @ \ NodesOf(seg[p])]
        /\ seg' = [seg EXCEPT ![p] = <<>>]
        /\ \E c \in {"pop", "idle"} : pc' = [pc EXCEPT ![p] = c]
    BY <1>3 DEF PushStore, StoreSucceeds
  <2>2. /\ seg[p] \in Seq(Node) /\ seg[p] # <<>> /\ Len(seg[p]) >= 1
        /\ Len(seg[p]) \in Nat /\ DOMAIN seg[p] = 1..Len(seg[p])
        /\ NodesOf(seg[p]) \cap (NodesOf(list) \cup heap) = {}
    BY <1>1, ChainFacts
  <2>3. /\ Distinct(seg[p]) /\ next[seg[p][Len(seg[p])]] = top
        /\ \A i \in 1..(Len(seg[p]) - 1) : next[seg[p][i]] = seg[p][i + 1]
    BY <1>1, <1>3 DEF ListInv, Segments, Loaded
  <2>4. list \in Seq(Node) /\ Distinct(list)
    BY DEF ListInv, ListTypeOK, Apart
  <2>5. /\ seg[p] \o list \in Seq(Node) /\ seg[p] \o list # <<>>
        /\ NodesOf(seg[p] \o list) = NodesOf(seg[p]) \cup NodesOf(list)
        /\ Distinct(seg[p] \o list)
    BY <2>2, <2>3, <2>4, PushFacts
  <2>6. seg[p][1] \in Node
    BY <2>2, ElementOfSeq
  <2>7. /\ \A q \in Proc \ {p} : pc'[q] = pc[q] /\ seg'[q] = seg[q] /\ held'[q] = held[q]
        /\ \A q \in Proc \ {p} : Pushing(q)' <=> Pushing(q)
        /\ pc'[p] \in {"pop", "idle"} /\ ~Pushing(p)'
        /\ seg'[p] = <<>> /\ held'[p] = held[p] \ NodesOf(seg[p])
    BY <2>1 DEF ListInv, ListTypeOK, Pushing
  <2>8. ListTypeOK'
    BY <1>1, <2>1, <2>5, <2>6 DEF ListInv, ListTypeOK, Ptr
  <2>9. ListExact'
    BY <1>1, <2>1, <2>2, <2>3, <2>5, PushedExact DEF ListExact
  <2>10. Loaded'
    BY <1>1, <2>7 DEF ListInv, Loaded
  <2>11. Segments'
    BY SMTT(30), <1>1, <2>7 DEF ListInv, Segments, Distinct
  <2>12. Apart'
    <3>0. NodesOf(seg[p])' = {} /\ ~Growing(p)'
      <4>1. Len(<<>>) = 0 /\ DOMAIN <<>> = {}
        OBVIOUS
      <4> QED  BY <4>1, <2>7 DEF NodesOf, Growing
    <3>1. /\ NodesOf(list)' = NodesOf(seg[p]) \cup NodesOf(list) /\ Distinct(list)'
          /\ NodesOf(seg[p])' = {} /\ ~Growing(p)' /\ heap' = heap
          /\ \A q \in Proc \ {p} : NodesOf(seg[q])' = NodesOf(seg[q])
                                   /\ (Growing(q)' <=> Growing(q))
      <4>1. NodesOf(list)' = NodesOf(seg[p] \o list)
            /\ (Distinct(list)' <=> Distinct(seg[p] \o list))
        BY <2>1 DEF NodesOf, Distinct
      <4>2. \A q \in Proc \ {p} : NodesOf(seg[q])' = NodesOf(seg[q])
                               /\ (Growing(q)' <=> Growing(q))
        BY <2>7 DEF NodesOf, Growing
      <4> QED  BY <4>1, <4>2, <3>0, <1>1, <2>5
    <3>2. \A q \in Proc \ {p} : /\ NodesOf(seg[p]) \cap held[q] = {}
                                /\ NodesOf(seg[p]) \cap NodesOf(seg[q]) = {}
      BY ChainFacts
    <3>3. Apart
      BY DEF ListInv
    <3>4. NodesOf(list)' \cap heap' = {}
      BY <2>2, <3>1, <3>3 DEF Apart
    <3>5. \A q, r \in Proc : q # r => held'[q] \cap held'[r] = {}
      BY <2>7, <3>3 DEF Apart
    <3>6. \A q \in Proc : held'[q] \cap (NodesOf(list)' \cup heap') = {}
      BY <2>7, <3>1, <3>2, <3>3 DEF Apart
    <3>7. \A q, r \in Proc :
            Growing(r)' =>
              /\ NodesOf(seg[r])' \cap (held'[q] \cup NodesOf(list)' \cup heap') = {}
              /\ q # r => NodesOf(seg[q])' \cap NodesOf(seg[r])' = {}
      BY <2>7, <3>1, <3>2, <3>3 DEF Apart
    <3> QED  BY <3>1, <3>4, <3>5, <3>6, <3>7 DEF Apart
  <2> QED  BY <2>8, <2>9, <2>10, <2>11, <2>12 DEF ListInv
<1> QED  BY <1>2, <1>3

(***************************************************************************)
(* The theorems, for the cores with exclusive access.                      *)
(***************************************************************************)

(* Every step keeps the invariant. *)
LEMMA NextKeeps ==
  ASSUME ListInv, ~ValueCAS, [Next]_vars
  PROVE  ListInv'
<1>1. CASE UNCHANGED vars
  <2>1. /\ UNCHANGED <<top, heap, held, list, seg>>
        /\ UNCHANGED <<next, pc, ref, succ, reserved>>
    BY <1>1 DEF vars, nodeVars, callVars
  <2>2. Apart'
    BY <2>1, SamePlaces
  <2>3. ListTypeOK' /\ ListExact' /\ Loaded'
    BY <2>1 DEF ListInv, ListTypeOK, ListExact, Loaded
  <2>4. Segments'
    BY <2>1 DEF ListInv, Segments, Distinct, Pushing
  <2> QED  BY <2>2, <2>3, <2>4 DEF ListInv
<1>2. ASSUME NEW p \in Proc, PopLoad(p) \/ PopNext(p) PROVE ListInv'
  BY <1>2, PopLoadKeeps, PopNextKeeps
<1>3. ASSUME NEW p \in Proc, PopStore(p) PROVE ListInv'
  BY <1>3, PopStoreKeeps
<1>4. ASSUME NEW p \in Proc, NEW s \in Chains(heap), Cut(p, s) PROVE ListInv'
  BY <1>4, CutKeeps
<1>5. ASSUME NEW p \in Proc, NEW n \in held[p], FreeCall(p, n) \/ Use(p, n)
      PROVE  ListInv'
  BY <1>5, FreeCallKeeps, UseKeeps
<1>6. ASSUME NEW p \in Proc, PushLoad(p) \/ PushStore(p) PROVE ListInv'
  BY <1>6, PushLoadKeeps, PushStoreKeeps
<1> QED  BY <1>1, <1>2, <1>3, <1>4, <1>5, <1>6 DEF Next

(* The invariant of every behaviour. *)
THEOREM ListInvariant ==
  ASSUME ~ValueCAS
  PROVE  Spec => []ListInv
<1>1. Init => ListInv
  BY InitListInv
<1>2. ListInv /\ [Next]_vars => ListInv'
  BY NextKeeps
<1> QED  BY <1>1, <1>2, PTL DEF Spec

(* However threads and interrupt handlers interleave their loads and       *)
(* conditional stores, the pointers spell out the list of the nodes pushed *)
(* and not popped (atomic_list_pop, atomic_list_push).                     *)
THEOREM ListCorrect ==
  ASSUME ~ValueCAS
  PROVE  Spec => []ListExact
<1>1. ListInv => ListExact
  BY DEF ListInv
<1> QED  BY <1>1, ListInvariant, PTL

(* At every moment a node is in one place: not made yet, in the list once, *)
(* held by one context or in one chain (g_slice_alloc, g_slice_free1).     *)
THEOREM OnePlaceCorrect ==
  ASSUME ~ValueCAS
  PROVE  Spec => []OnePlace
<1>1. ListInv => OnePlace
  <2> SUFFICES ASSUME ListInv PROVE OnePlace
    OBVIOUS
  <2>1. Apart
    BY DEF ListInv
  <2>2. \A n \in Fresh : \E q \in Proc : Growing(q) /\ n \in NodesOf(seg[q])
    BY DEF Fresh
  <2>3. \A p \in Proc : held[p] \cap Fresh = {}
    BY <2>1, <2>2 DEF Apart
  <2>4. NodesOf(list) \cap Fresh = {} /\ heap \cap Fresh = {}
    BY <2>1, <2>2 DEF Apart
  <2> QED  BY <2>1, <2>3, <2>4 DEF Apart, OnePlace
<1> QED  BY <1>1, ListInvariant, PTL

(* What each step does to the memory not made yet, as FreeList sees it. *)
LEMMA FreshFacts ==
  ASSUME ListInv, NEW p \in Proc,
         \A q \in Proc \ {p} : seg'[q] = seg[q]
  PROVE  /\ ~Growing(p) /\ ~Growing(p)' => Fresh' = Fresh
         /\ ~Growing(p) /\ Growing(p)' => Fresh' = Fresh \cup NodesOf(seg'[p])
         /\ Growing(p) /\ ~Growing(p)' => Fresh' = Fresh \ NodesOf(seg[p])
<1>1. \A q \in Proc \ {p} : /\ NodesOf(seg'[q]) = NodesOf(seg[q])
                            /\ Growing(q)' <=> Growing(q)
  BY DEF Growing
<1>2. \A q \in Proc \ {p} : NodesOf(seg[p]) \cap NodesOf(seg[q]) = {}
  BY ChainFacts
<1>3. \A n : n \in Fresh <=> \E q \in Proc : Growing(q) /\ n \in NodesOf(seg[q])
  BY DEF Fresh
<1>4. \A n : n \in Fresh' <=> \E q \in Proc : Growing(q)' /\ n \in NodesOf(seg'[q])
  BY DEF Fresh, NodesOf
<1> QED  BY ZenonT(40), <1>1, <1>2, <1>3, <1>4

(* The lock-free list implements the stack of free nodes of FreeList: a    *)
(* call takes effect at its conditional store.                             *)
THEOREM ListImplementsFreeList ==
  ASSUME ~ValueCAS
  PROVE  Spec => ImplementsFreeList
<1>1. Init => F!FreeListInit
  <2>1. Init => Fresh = {}
    BY DEF Init, Fresh, Growing
  <2> QED  BY <2>1 DEF Init, F!FreeListInit
<1>2. ASSUME ListInv, ListInv', [Next]_vars
      PROVE  [F!FreeListNext]_F!freeListVars
  <2>1. CASE UNCHANGED vars
    BY <2>1 DEF vars, nodeVars, callVars, F!freeListVars, Fresh, Growing, NodesOf
  <2>2. ASSUME NEW p \in Proc, PopLoad(p) \/ PopNext(p)
        PROVE  UNCHANGED F!freeListVars
    BY <2>2 DEF PopLoad, PopNext, nodeVars, F!freeListVars, Fresh, Growing, NodesOf
  <2>3. ASSUME NEW p \in Proc, PopStore(p)
        PROVE  [F!FreeListNext]_F!freeListVars
    <3>1. UNCHANGED (heap \cup Fresh)
      BY <2>3 DEF PopStore, Fresh, Growing, NodesOf
    <3>2. CASE p \notin reserved
      BY <2>3, <3>1, <3>2 DEF PopStore, StoreSucceeds, F!freeListVars
    <3>3. CASE p \in reserved
      <4>1. list' = Tail(list) /\ held' = [held EXCEPT ![p] = @ \cup {ref[p]}]
        BY <2>3, <3>3 DEF PopStore, StoreSucceeds
      <4>2. ref[p] = top /\ top # NULL
        BY <1>2, <2>3, <3>3 DEF ListInv, Loaded, PopStore
      <4>3. list # <<>> /\ top = Head(list)
        BY <1>2, <4>2, TopFacts, TailFacts DEF ListInv, ListTypeOK
      <4> QED  BY <3>1, <4>1, <4>2, <4>3 DEF F!FreeListNext, F!Alloc
    <3> QED  BY <3>2, <3>3
  <2>4. ASSUME NEW p \in Proc, NEW s \in Chains(heap), Cut(p, s)
        PROVE  UNCHANGED F!freeListVars
    <3>1. /\ seg' = [seg EXCEPT ![p] = s] /\ heap' = heap \ NodesOf(s)
          /\ UNCHANGED <<held, list>> /\ pc[p] = "cut"
      BY <2>4 DEF Cut
    <3>2. seg'[p] = s /\ \A q \in Proc \ {p} : seg'[q] = seg[q]
      BY <1>2, <3>1 DEF ListInv, ListTypeOK
    <3>3. NodesOf(s) \subseteq heap
      BY DEF Chains, NodesOf
    <3>4. ~Growing(p)
      BY <1>2, <3>1, ChainFacts DEF Pushing
    <3>5. Growing(p)'
      <4>1. s \in Seq(Node) /\ Len(s) = Batch
        BY <1>2, ChainSeq
      <4> QED  BY <3>2, <4>1, ListAssumption DEF Growing
    <3>6. Fresh' = Fresh \cup NodesOf(s)
      BY <1>2, <3>2, <3>4, <3>5, FreshFacts
    <3> QED  BY <3>1, <3>3, <3>6 DEF F!freeListVars
  <2>5. ASSUME NEW p \in Proc, NEW n \in held[p], FreeCall(p, n)
        PROVE  UNCHANGED F!freeListVars
    <3>1. /\ seg' = [seg EXCEPT ![p] = <<n>>] /\ pc[p] = "idle"
          /\ UNCHANGED <<held, list, heap>>
      BY <2>5 DEF FreeCall, nodeVars
    <3>2. seg'[p] = <<n>> /\ \A q \in Proc \ {p} : seg'[q] = seg[q]
      BY <1>2, <3>1 DEF ListInv, ListTypeOK
    <3>3. ~Growing(p) /\ ~Growing(p)'
      BY <1>2, <3>1, <3>2, ChainFacts DEF Pushing, Growing
    <3>4. Fresh' = Fresh
      BY <1>2, <3>2, <3>3, FreshFacts
    <3> QED  BY <3>1, <3>4 DEF F!freeListVars
  <2>6. ASSUME NEW p \in Proc, NEW n \in held[p], Use(p, n)
        PROVE  UNCHANGED F!freeListVars
    BY <2>6 DEF Use, callVars, F!freeListVars, Fresh, Growing, NodesOf
  <2>7. ASSUME NEW p \in Proc, PushLoad(p)
        PROVE  UNCHANGED F!freeListVars
    BY <2>7 DEF PushLoad, F!freeListVars, Fresh, Growing, NodesOf
  <2>8. ASSUME NEW p \in Proc, PushStore(p)
        PROVE  [F!FreeListNext]_F!freeListVars
    <3>1. CASE p \notin reserved
      BY <2>8, <3>1 DEF PushStore, StoreSucceeds, F!freeListVars, Fresh, Growing, NodesOf
    <3>2. CASE p \in reserved
      <4>1. /\ list' = seg[p] \o list /\ heap' = heap
            /\ held' = [held EXCEPT ![p] = @ \ NodesOf(seg[p])]
            /\ seg' = [seg EXCEPT ![p] = <<>>] /\ Pushing(p)
        BY <2>8, <3>2 DEF PushStore, StoreSucceeds, Pushing
      <4>2. seg'[p] = <<>> /\ \A q \in Proc \ {p} : seg'[q] = seg[q]
        BY <1>2, <4>1 DEF ListInv, ListTypeOK
      <4>3. ~Growing(p)'
        BY <4>2 DEF Growing
      <4>4. CASE ~Growing(p)
        <5>1. Len(seg[p]) = 1 /\ seg[p] \in Seq(Node) /\ DOMAIN seg[p] = 1..1
              /\ NodesOf(seg[p]) \subseteq held[p]
          BY <1>2, <4>1, <4>4, ChainFacts
        <5>2. seg[p] = <<seg[p][1]>> /\ NodesOf(seg[p]) = {seg[p][1]}
              /\ seg[p][1] \in Node
          BY <5>1, ElementOfSeq DEF NodesOf
        <5>3. Fresh' = Fresh
          BY <1>2, <4>2, <4>3, <4>4, FreshFacts
        <5>4. F!Free(p, seg[p][1])
          BY <4>1, <5>1, <5>2, <5>3 DEF F!Free
        <5> QED  BY <5>2, <5>4 DEF F!FreeListNext
      <4>5. CASE Growing(p)
        <5>1. /\ Len(seg[p]) = Batch /\ seg[p] \in Seq(Node)
              /\ DOMAIN seg[p] = 1..Batch /\ Distinct(seg[p])
          BY <1>2, <4>1, <4>5, ChainFacts DEF ListInv, Segments, Growing
        <5>2. Fresh' = Fresh \ NodesOf(seg[p]) /\ NodesOf(seg[p]) \subseteq Fresh
          BY <1>2, <4>2, <4>3, <4>5, FreshFacts DEF Fresh
        <5>3. NodesOf(seg[p]) \cap (heap \cup held[p]) = {}
          BY <1>2, <4>5 DEF ListInv, Apart
        <5>4. held' = held
          BY <1>2, <4>1, <5>3 DEF ListInv, ListTypeOK
        <5>5. heap' \cup Fresh' = (heap \cup Fresh) \ NodesOf(seg[p])
          BY <4>1, <5>2, <5>3
        <5>6. seg[p] \in F!Chains(heap \cup Fresh)
          <6>1. seg[p] \in [1..Batch -> heap \cup Fresh]
            <7>1. seg[p] \in [1..Batch -> Node]
              BY <5>1, LenProperties
            <7>2. \A i \in 1..Batch : seg[p][i] \in heap \cup Fresh
              BY <5>1, <5>2 DEF NodesOf
            <7> QED  BY <7>1, <7>2
          <6> QED  BY <6>1, <5>1 DEF F!Chains, F!Distinct, Distinct
        <5>7. F!Grow(seg[p])
          BY <4>1, <5>4, <5>5 DEF F!Grow, F!NodesOf, NodesOf
        <5> QED  BY <5>6, <5>7 DEF F!FreeListNext
      <4> QED  BY <4>4, <4>5
    <3> QED  BY <3>1, <3>2
  <2> QED
    BY <1>2, <2>1, <2>2, <2>3, <2>4, <2>5, <2>6, <2>7, <2>8 DEF Next
<1> QED
  BY <1>1, <1>2, ListInvariant, PTL DEF Spec, ImplementsFreeList, F!FreeListSpec
=============================================================================
