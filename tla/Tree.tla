-------------------------------- MODULE Tree --------------------------------
(***************************************************************************)
(* The trees of r3_tree.h and tree_*.c, which hold the objects of the      *)
(* device.  tree_insert_tree goes down to an empty place and takes it with *)
(* a compare-and-exchange, so that several threads may insert, look up and *)
(* replace at once; tree_insert, tree_remove, tree_merge, tree_balance and *)
(* tree_depth turn the tree over and run alone.                            *)
(*                                                                         *)
(* A tree is Nil or a node with its two subtrees.  The weights of a node   *)
(* (prev_depth, next_depth) are what the code last stored, not the size of *)
(* the subtrees: insertion leaves them alone.  Keys are words compared by  *)
(* the sign of their difference; they lie within half the range, where     *)
(* that is an order.                                                       *)
(***************************************************************************)
EXTENDS Integers, Sequences, FiniteSets

CONSTANTS
  TreeWord,     \* the values of a key
  Keys,         \* the keys in use
  Data,         \* the values each key may get
  Inserter,     \* the threads that insert atomically
  MaxWeight     \* bound: the weights a node may have

ASSUME TreeAssumption ==
  /\ TreeWord \in Nat \ {0} /\ Keys \subseteq 0 .. TreeWord - 1
  /\ MaxWeight \in Nat

VARIABLES
  tree,         \* the root
  inserting,    \* what an inserter inserts and the way it has gone down
  bent,         \* history: tree_insert has run since tree_depth
  members       \* history: the keys inserted and not removed, with their data

treeVars == <<tree, inserting, bent, members>>

Nil == [kind |-> "nil"]
Node(k, v) == [kind |-> "node", key |-> k, value |-> v, prev |-> Nil,
               next |-> Nil, prev_depth |-> 0, next_depth |-> 0]
NoInsert == [key |-> -1]

(* cmp: how the keys differ, as a signed word. *)
Compare(k, l) ==
  LET d == (k - l) % TreeWord IN IF 2 * d < TreeWord THEN d ELSE d - TreeWord
(* The side of a node a key belongs to. *)
Side(k, node) == IF Compare(k, node.key) < 0 THEN "prev" ELSE "next"
Other(side) == IF side = "prev" THEN "next" ELSE "prev"

Depth(n) == (n.next_depth + n.prev_depth + 1) % 65536
Balance(n) == n.next_depth - n.prev_depth

RotateRight(n) ==
  LET p == n.prev
      m == [n EXCEPT !.prev = p.next, !.prev_depth = p.next_depth] IN
  [p EXCEPT !.next = m, !.next_depth = Depth(m)]
RotateLeft(n) ==
  LET p == n.next
      m == [n EXCEPT !.next = p.prev, !.next_depth = p.prev_depth] IN
  [p EXCEPT !.prev = m, !.prev_depth = Depth(m)]
(* The root that goes down to a side, and its other child up. *)
Rotate(n, side) == IF side = "prev" THEN RotateLeft(n) ELSE RotateRight(n)

RECURSIVE InOrder(_)
(* tree_foreach. *)
InOrder(n) ==
  IF n = Nil THEN <<>>
  ELSE InOrder(n.prev) \o <<<<n.key, n.value>>>> \o InOrder(n.next)

RECURSIVE Lookup(_, _), Replace(_, _, _), Below(_, _), Put(_, _, _)
(* tree_lookup: the node with a key. *)
Lookup(n, k) ==
  IF n = Nil THEN Nil
  ELSE IF k = n.key THEN n ELSE Lookup(n[Side(k, n)], k)
(* tree_replace_data. *)
Replace(n, k, v) ==
  IF n = Nil THEN Nil
  ELSE IF k = n.key THEN [n EXCEPT !.value = v]
  ELSE [n EXCEPT ![Side(k, n)] = Replace(@, k, v)]
(* The subtree a path leads to, and a tree with another in its place. *)
Below(n, path) ==
  IF path = <<>> THEN n ELSE Below(n[Head(path)], Tail(path))
Put(n, path, e) ==
  IF path = <<>> THEN e ELSE [n EXCEPT ![Head(path)] = Put(@, Tail(path), e)]

(* tree_insert below a root with one child or none, where a key that goes  *)
(* under a leaf turns the three into a root with two children.             *)
Bend(parent, side, e) ==
  LET node == parent[side]
      bare == [parent EXCEPT ![side] = Nil] IN
  IF Side(e.key, node) = side
  THEN [node EXCEPT ![side] = e, ![Other(side)] = bare]
  ELSE [e EXCEPT ![side] = node, ![Other(side)] = bare]

RECURSIVE Insert(_, _)
Insert(n, e) ==
  IF n.key = e.key THEN [n EXCEPT !.value = e.value]
  ELSE LET side == Side(e.key, n)
           child == n[side] IN
       IF child = Nil THEN [n EXCEPT ![side] = e]
       ELSE IF /\ n[Other(side)] = Nil /\ child.key # e.key
               /\ child.prev = Nil /\ child.next = Nil
            THEN Bend(n, side, e)
            ELSE [n EXCEPT ![side] = Insert(child, e)]

RECURSIVE Upward(_, _), Sink(_)
(* tree_merge brings the last node of one tree, or the first of the other, *)
(* to its root.                                                            *)
Upward(n, side) ==
  IF n[side] = Nil THEN n ELSE Upward(Rotate(n, Other(side)), side)
Merge(t, u) ==
  IF t = Nil THEN u ELSE IF u = Nil THEN t
  ELSE IF t.next_depth < u.prev_depth
       THEN [Upward(t, "next") EXCEPT !.next = u, !.next_depth = Depth(u)]
       ELSE [Upward(u, "prev") EXCEPT !.prev = t, !.prev_depth = Depth(t)]

(* tree_remove turns a node down until it has one child at most, and links *)
(* that in its place: what the parent gets, and the weight it notes.       *)
Sink(n) ==
  IF n.next = Nil THEN [tree |-> n.prev, depth |-> n.prev_depth]
  ELSE IF n.prev = Nil THEN [tree |-> n.next, depth |-> n.next_depth]
  ELSE LET side == IF Balance(n) >= 0 THEN "prev" ELSE "next"
           pivot == Rotate(n, side)
           sunk == Sink(pivot[side]) IN
       [tree |-> IF side = "prev"
                 THEN [pivot EXCEPT !.prev = sunk.tree, !.prev_depth = sunk.depth]
                 ELSE [pivot EXCEPT !.next = sunk.tree, !.next_depth = sunk.depth],
        depth |-> Depth(pivot)]

RECURSIVE RemoveBelow(_, _)
RemoveBelow(n, k) ==
  LET side == Side(k, n)
      child == n[side] IN
  IF child.key # k THEN [n EXCEPT ![side] = RemoveBelow(child, k)]
  ELSE IF side = "prev"
       THEN [n EXCEPT !.prev = Sink(child).tree, !.prev_depth = Sink(child).depth]
       ELSE [n EXCEPT !.next = Sink(child).tree, !.next_depth = Sink(child).depth]
RemoveKey(n, k) ==
  IF n.key = k THEN Merge(n.prev, n.next) ELSE RemoveBelow(n, k)

RECURSIVE Weigh(_), Balanced(_)
(* tree_depth: every weight is the size of its subtree. *)
Weigh(n) ==
  IF n = Nil THEN Nil
  ELSE LET p == Weigh(n.prev)
           q == Weigh(n.next) IN
       [n EXCEPT !.prev = p, !.next = q,
                 !.prev_depth = IF p = Nil THEN 0 ELSE Depth(p),
                 !.next_depth = IF q = Nil THEN 0 ELSE Depth(q)]

(* tree_balance_ turns a node whose sides differ by more than one. *)
Turn(n) ==
  IF Balance(n) < -1
  THEN RotateRight(IF Balance(n.prev) > 0
                   THEN [n EXCEPT !.prev = RotateLeft(@)] ELSE n)
  ELSE IF Balance(n) > 1
  THEN RotateLeft(IF Balance(n.next) < 0
                  THEN [n EXCEPT !.next = RotateRight(@)] ELSE n)
  ELSE n

(* tree_balance: the tree it leaves and the weight it returns, which for a *)
(* leaf is 1 whatever the leaf's own weights are.                          *)
Balanced(n) ==
  IF n.prev = Nil /\ n.next = Nil THEN [tree |-> n, depth |-> 1]
  ELSE LET a == IF n.prev = Nil THEN RotateLeft(n) ELSE n
           left == Balanced(a.prev)
           b == [a EXCEPT !.prev = left.tree, !.prev_depth = left.depth]
           c == IF b.next = Nil THEN RotateRight(b) ELSE b
           right == Balanced(c.next)
           d == [c EXCEPT !.next = right.tree, !.next_depth = right.depth]
       IN [tree |-> Turn(d), depth |-> Depth(Turn(d))]

-----------------------------------------------------------------------------
TreeInit ==
  /\ tree = Nil /\ bent = FALSE /\ members = <<>>
  /\ inserting = [i \in Inserter |-> NoInsert]

Alone == \A i \in Inserter : inserting[i] = NoInsert
With(k, v) == [l \in DOMAIN members \cup {k} |-> IF l = k THEN v ELSE members[l]]

(* _object_init makes the first node the root without an atomic operation: *)
(* one thread does it.                                                     *)
FirstNode(k, v) ==
  /\ tree = Nil /\ Alone
  /\ tree' = Node(k, v) /\ members' = With(k, v)
  /\ UNCHANGED <<inserting, bent>>

(* tree_insert_tree starts at the root ... *)
InsertStart(i, k, v) ==
  /\ tree # Nil /\ inserting[i] = NoInsert
  /\ inserting' = [inserting EXCEPT ![i] =
                     [key |-> k, value |-> v, path |-> <<>>, empty |-> FALSE]]
  /\ UNCHANGED <<tree, bent, members>>

(* ... reads a place: a node sends it further, or has the key and gets the *)
(* value in exchange; an empty place it has seen ...                       *)
InsertDown(i) ==
  /\ inserting[i] # NoInsert /\ ~inserting[i].empty
  /\ LET elem == inserting[i]
         node == Below(tree, elem.path) IN
     IF node = Nil
     THEN /\ inserting' = [inserting EXCEPT ![i].empty = TRUE]
          /\ UNCHANGED <<tree, bent, members>>
     ELSE IF node.key = elem.key
     THEN /\ tree' = Put(tree, elem.path, [node EXCEPT !.value = elem.value])
          /\ members' = With(elem.key, elem.value)
          /\ inserting' = [inserting EXCEPT ![i] = NoInsert] /\ UNCHANGED bent
     ELSE /\ inserting' = [inserting EXCEPT ![i].path =
                             Append(@, Side(elem.key, node))]
          /\ UNCHANGED <<tree, bent, members>>

SlipTakes(i) == TRUE
(* Whether the place is still empty. *)
Takes(i) == Below(tree, inserting[i].path) = Nil

(* ... and takes if nobody has been faster, or goes on from there. *)
InsertTake(i) ==
  /\ inserting[i] # NoInsert /\ inserting[i].empty
  /\ IF Takes(i)
     THEN /\ tree' = Put(tree, inserting[i].path,
                         Node(inserting[i].key, inserting[i].value))
          /\ members' = With(inserting[i].key, inserting[i].value)
          /\ inserting' = [inserting EXCEPT ![i] = NoInsert] /\ UNCHANGED bent
     ELSE /\ inserting' = [inserting EXCEPT ![i].empty = FALSE]
          /\ UNCHANGED <<tree, bent, members>>

(* tree_replace_data of an object that is there. *)
ReplaceData(k, v) ==
  /\ Lookup(tree, k) # Nil
  /\ tree' = Replace(tree, k, v) /\ members' = With(k, v)
  /\ UNCHANGED <<inserting, bent>>

(* tree_insert, into a tree that is not empty: into an empty one it would  *)
(* insert nothing.                                                         *)
TreeInsert(k, v) ==
  /\ tree # Nil /\ Alone
  /\ tree' = Insert(tree, Node(k, v)) /\ members' = With(k, v)
  /\ bent' = TRUE
  /\ UNCHANGED inserting

(* Weights add up as nodes sink and trees merge. *)
RECURSIVE Light(_)
Light(n) ==
  IF n = Nil THEN TRUE
  ELSE Depth(n) <= MaxWeight /\ Light(n.prev) /\ Light(n.next)

TreeRemove(k) ==
  /\ Alone /\ Lookup(tree, k) # Nil
  /\ tree' = RemoveKey(tree, k) /\ Light(tree')
  /\ members' = [l \in DOMAIN members \ {k} |-> members[l]]
  /\ UNCHANGED <<inserting, bent>>

TreeDepth ==
  /\ Alone /\ tree # Nil
  /\ tree' = Weigh(tree) /\ bent' = FALSE
  /\ UNCHANGED <<inserting, members>>

(* tree_balance.  A leaf that tree_insert has bent keeps weights of        *)
(* children it no longer has, and a balance that met it would turn a node  *)
(* about a child that is not there: tree_depth comes first then.           *)
TreeBalance ==
  /\ Alone /\ tree # Nil /\ ~bent
  /\ tree' = Balanced(tree).tree /\ Light(tree')
  /\ UNCHANGED <<inserting, bent, members>>

TreeNext ==
  \/ \E k \in Keys : \E v \in Data[k] :
       \/ FirstNode(k, v) \/ ReplaceData(k, v) \/ TreeInsert(k, v)
       \/ \E i \in Inserter : InsertStart(i, k, v)
  \/ \E i \in Inserter : InsertDown(i) \/ InsertTake(i)
  \/ \E k \in Keys : TreeRemove(k)
  \/ TreeDepth \/ TreeBalance

TreeSpec == TreeInit /\ [][TreeNext]_treeVars

-----------------------------------------------------------------------------
(* However insertions interleave and however the tree is turned over, it   *)
(* holds the nodes inserted and not removed and no others, in order of     *)
(* their keys, and each where a lookup finds it.                           *)
TreeHolds ==
  LET nodes == InOrder(tree) IN
  /\ {nodes[i] : i \in DOMAIN nodes} = {<<k, members[k]>> : k \in DOMAIN members}
  /\ \A i \in 1 .. Len(nodes) - 1 : Compare(nodes[i][1], nodes[i + 1][1]) < 0
  /\ \A k \in DOMAIN members : Lookup(tree, k) # Nil
=============================================================================
