-------------------------------- MODULE Heap --------------------------------
(***************************************************************************)
(* The heap of malloc.c: blocks with a header of one word, one after       *)
(* another from heap_base to last_block.  aligned_alloc takes the end of   *)
(* the heap with a compare-and-exchange and writes the header afterwards;  *)
(* free only sets a bit, and r3_mem_garbage, a service, joins free blocks  *)
(* a few at a time and gives the last one back.                            *)
(*                                                                         *)
(* An address is a number of words from heap_base.  Allocation is that of  *)
(* malloc and calloc, with the alignment of a pointer, which leaves no     *)
(* padding.  The threads that allocate preempt the collection anywhere: it *)
(* may find a block that has no header yet, and it compares last_block and *)
(* stores it without an atomic operation.  What it reads of such a block   *)
(* is whatever the memory holds; from such a race on only the callers are  *)
(* followed.                                                               *)
(***************************************************************************)
EXTENDS Integers, FiniteSets

CONSTANTS
  Caller,       \* the threads and services that allocate
  Request,      \* the sizes they ask for, in words
  HeapWords     \* bound: words of the heap

ASSUME HeapAssumption == Request \subseteq Nat \ {0} /\ HeapWords \in Nat

VARIABLES
  header,            \* the headers in memory, by address
  last_block,        \* the end of the heap
  first_free_block,  \* where the collection is
  claimed,           \* the block a caller has taken but not written a header to
  merging,           \* the collection's block and the joins it may still do,
                     \* none once it has found it to be the last
  live,              \* history: the blocks in use and their sizes
  raced              \* history: the collection has read an unwritten header, or
                     \* given back what was no longer the last block

heapVars ==
  <<header, last_block, first_free_block, claimed, merging, live, raced>>

NoBlock == [at |-> -1, size |-> 0]
NotMerging == [at |-> -1, count |-> 0]

HeapInit ==
  /\ header = <<>> /\ last_block = 0 /\ first_free_block = 0
  /\ claimed = [c \in Caller |-> NoBlock] /\ merging = NotMerging
  /\ live = <<>> /\ raced = FALSE

(* Everything in a map but what is in a set. *)
Without(map, gone) == [a \in DOMAIN map \ gone |-> map[a]]
Store(map, a, value) ==
  [b \in DOMAIN map \cup {a} |-> IF b = a THEN value ELSE map[b]]

(* aligned_alloc moves last_block: the size asked for and a header. *)
Claim(c, words) ==
  /\ claimed[c] = NoBlock /\ last_block + words + 1 <= HeapWords
  /\ last_block' = last_block + words + 1
  /\ claimed' = [claimed EXCEPT ![c] = [at |-> last_block, size |-> words + 1]]
  /\ UNCHANGED <<header, first_free_block, merging, live, raced>>

(* It writes the header and returns the words after it. *)
WriteHeader(c) ==
  /\ claimed[c] # NoBlock
  /\ header' = Store(header, claimed[c].at,
                     [size |-> claimed[c].size, free |-> FALSE])
  /\ live' = Store(live, claimed[c].at, claimed[c].size)
  /\ claimed' = [claimed EXCEPT ![c] = NoBlock]
  /\ UNCHANGED <<last_block, first_free_block, merging, raced>>

(* free, at any time. *)
Free(a) ==
  /\ a \in DOMAIN live
  /\ header' = [header EXCEPT ![a].free = TRUE]
  /\ live' = Without(live, {a})
  /\ UNCHANGED <<last_block, first_free_block, claimed, merging, raced>>

(* The collection looks at one block: it starts again at the end of the    *)
(* heap, passes a block in use and goes on to join a free one.             *)
GarbageStart ==
  /\ merging = NotMerging
  /\ IF first_free_block >= last_block
     THEN first_free_block' = 0 /\ UNCHANGED <<merging, raced>>
     ELSE IF first_free_block \notin DOMAIN header
     THEN raced' = TRUE /\ UNCHANGED <<first_free_block, merging>>
     ELSE IF header[first_free_block].free
     THEN /\ merging' = [at |-> first_free_block, count |-> 5]
          /\ UNCHANGED <<first_free_block, raced>>
     ELSE /\ first_free_block' = first_free_block
                                   + header[first_free_block].size
          /\ UNCHANGED <<merging, raced>>
  /\ UNCHANGED <<header, last_block, claimed, live>>

SlipBusy(a) == FALSE
(* Whether the collection may not join a block. *)
Busy(a) == ~header[a].free

(* Where the block it joins to ends. *)
NextBlock == merging.at + header[merging.at].size

(* A turn of its loop: the last block is to be given back, a block in use  *)
(* ends the loop, a free one is joined.                                    *)
GarbageJoin ==
  /\ merging # NotMerging /\ merging.count > 0
  /\ IF NextBlock = last_block
     THEN /\ merging' = [merging EXCEPT !.count = 0]
          /\ UNCHANGED <<header, first_free_block, raced>>
     ELSE IF NextBlock \notin DOMAIN header
     THEN raced' = TRUE /\ UNCHANGED <<header, first_free_block, merging>>
     ELSE IF Busy(NextBlock)
     THEN /\ first_free_block' = NextBlock + header[NextBlock].size
          /\ merging' = NotMerging
          /\ UNCHANGED <<header, raced>>
     ELSE /\ header' = Without([header EXCEPT ![merging.at].size =
                                  @ + header[NextBlock].size], {NextBlock})
          /\ merging' = IF merging.count = 1 THEN NotMerging
                        ELSE [merging EXCEPT !.count = @ - 1]
          /\ UNCHANGED <<first_free_block, raced>>
  /\ UNCHANGED <<last_block, claimed, live>>

(* The store that gives the block back, whatever last_block is by then. *)
GarbageGive ==
  /\ merging # NotMerging /\ merging.count = 0
  /\ last_block' = merging.at /\ first_free_block' = 0
  /\ header' = Without(header, {merging.at})
  /\ raced' = (last_block # NextBlock)
  /\ merging' = NotMerging
  /\ UNCHANGED <<claimed, live>>

HeapNext ==
  \/ \E c \in Caller : WriteHeader(c) \/ \E words \in Request : Claim(c, words)
  \/ \E a \in DOMAIN live : Free(a)
  \/ ~raced /\ (GarbageStart \/ GarbageJoin \/ GarbageGive)

HeapSpec == HeapInit /\ [][HeapNext]_heapVars

-----------------------------------------------------------------------------
(* The blocks with a header and those that wait for theirs. *)
InFlight == {claimed[c] : c \in Caller} \ {NoBlock}
Starts == DOMAIN header \cup {b.at : b \in InFlight}
SizeAt(a) == IF a \in DOMAIN header THEN header[a].size
             ELSE (CHOOSE b \in InFlight : b.at = a).size

(* Until the collection has raced with an allocation, the blocks tile the  *)
(* heap: each ends where another starts or where the heap ends and none    *)
(* starts within another, so that the collection, which goes by the sizes  *)
(* alone, only ever reads headers; no block is given to two callers; and a *)
(* block in use keeps its header and its words until it is freed, whatever *)
(* is allocated, freed and joined around it.                               *)
HeapTiled ==
  ~raced =>
  /\ last_block > 0 => 0 \in Starts
  /\ \A a \in Starts :
       /\ a + SizeAt(a) \in Starts \cup {last_block}
       /\ (a .. a + SizeAt(a) - 1) \cap Starts = {a}
  /\ first_free_block \in Starts \cup {last_block}
  /\ \A c \in Caller :
       claimed[c] # NoBlock =>
         /\ claimed[c].at \notin DOMAIN header
         /\ \A d \in Caller \ {c} : claimed[d].at # claimed[c].at
  /\ \A a \in DOMAIN live :
       a \in DOMAIN header /\ header[a] = [size |-> live[a], free |-> FALSE]

(* What malloc returns is the caller's alone until it is freed: the words  *)
(* of two blocks in use are apart.  They are not, once the collection has  *)
(* given back a block that an allocation has followed.                     *)
BlocksApart ==
  \A a, b \in DOMAIN live :
    a # b => (a .. a + live[a] - 1) \cap (b .. b + live[b] - 1) = {}
=============================================================================
