-------------------------------- MODULE Heap --------------------------------
(***************************************************************************)
(* malloc.c: one chain of all blocks in order of address, one chain of the *)
(* free blocks with the last one freed in front, both doubly linked and    *)
(* closed by a head node.  Addresses and sizes are in units of the 16      *)
(* bytes of an arena header.  The functions are operators from one memory  *)
(* to the next, so that a caller can put several into one step.            *)
(***************************************************************************)
EXTENDS Integers, FiniteSets, FiniteSetsExt

CONSTANTS Units,        \* units of memory below RAMTOP
          ChunkUnits    \* _KLIBC_MALLOC_CHUNK_SIZE

HeaderBytes == 16       \* sizeof(struct arena_header)
HeadNode == -1              \* &__malloc_head
Null == -2

ASSUME HeapAssumption == Units \in Nat \ {0} /\ ChunkUnits \in Nat \ {0}

Addresses == 0 .. Units - 1
Nodes == Addresses \cup {HeadNode}

\* A header.  A unit that holds none is NoHeader: what the units in the middle of a block
\* still hold of earlier headers is never looked at.
NoHeader == [type |-> "none", size |-> 0, next |-> HeadNode, prev |-> HeadNode,
             nextFree |-> HeadNode, prevFree |-> HeadNode]
Headers == [type : {"used", "free", "head", "none"}, size : 0 .. Units,
            next : Nodes, prev : Nodes, nextFree : Nodes, prevFree : Nodes]

EmptyMemory == [a \in Nodes |-> IF a = HeadNode THEN [NoHeader EXCEPT !.type = "head"] ELSE NoHeader]

\* A used block's payload covers the links of the free chain.
Used(h) == [h EXCEPT !.type = "used", !.nextFree = HeadNode, !.prevFree = HeadNode]

RemoveFromMainChain(m, a) ==
  [m EXCEPT ![m[a].prev].next = m[a].next, ![m[a].next].prev = m[a].prev]

RemoveFromFreeChain(m, a) ==
  [m EXCEPT ![m[a].prevFree].nextFree = m[a].nextFree, ![m[a].nextFree].prevFree = m[a].prevFree]

RemoveFromChains(m, a) == [RemoveFromMainChain(RemoveFromFreeChain(m, a), a) EXCEPT ![a] = NoHeader]

-----------------------------------------------------------------------------
\* __malloc_from_block: the rest stays in the free chain in the place of the whole.
SplitMutant(m, b, n) ==
  LET rest == b + n
  IN [m EXCEPT ![rest] = [m[b] EXCEPT !.size = @ - n, !.prev = b],
               ![m[b].prevFree].nextFree = rest,
               ![m[b].nextFree].prevFree = rest,
               ![b] = [Used(m[b]) EXCEPT !.size = n, !.next = rest]]
Split(m, b, n) ==
  LET rest == b + n
  IN [m EXCEPT ![rest] = [m[b] EXCEPT !.size = @ - n, !.prev = b],
               ![m[b].next].prev = rest,
               ![m[b].prevFree].nextFree = rest,
               ![m[b].nextFree].prevFree = rest,
               ![b] = [Used(m[b]) EXCEPT !.size = n, !.next = rest]]

MallocFromBlock(m, b, n) ==
  IF m[b].size >= n + 2 THEN Split(m, b, n)
  ELSE [RemoveFromFreeChain(m, b) EXCEPT ![b] = Used(@)]

-----------------------------------------------------------------------------
\* __free_block: into the block before it, or to the front of the free chain ...
JoinPrevious(m, a) ==
  [m EXCEPT ![m[a].prev].size = @ + m[a].size, ![m[a].prev].next = m[a].next,
            ![m[a].next].prev = m[a].prev, ![a] = NoHeader]

PushFree(m, a) ==
  [m EXCEPT ![a].type = "free", ![a].nextFree = m[HeadNode].nextFree, ![a].prevFree = HeadNode,
            ![HeadNode].nextFree = a, ![m[HeadNode].nextFree].prevFree = a]

\* ... and then with the block after it.
JoinNextMutant(m, a) == m
JoinNext(m, a) ==
  LET next == m[a].next
  IN IF m[next].type = "free" /\ a + m[a].size = next
     THEN RemoveFromChains([m EXCEPT ![a].size = @ + m[next].size], next)
     ELSE m

FreeBlock(m, a) ==
  LET before == m[a].prev
      joins == m[before].type = "free" /\ before + m[before].size = a
  IN JoinNext(IF joins THEN JoinPrevious(m, a) ELSE PushFree(m, a), IF joins THEN before ELSE a)

-----------------------------------------------------------------------------
\* malloc_add: the search for the predecessor goes backwards from the end of the chain.
Predecessor(m, a) ==
  LET back[b \in Nodes] == IF m[b].type = "head" \/ b < a THEN b ELSE back[m[b].prev]
  IN back[m[HeadNode].prev]

RoundDown(n) == n - (n % ChunkUnits)

MallocAdd(m, a, n) ==
  LET before == Predecessor(m, a)
  IN FreeBlock([m EXCEPT ![a] = [NoHeader EXCEPT !.type = "free", !.size = RoundDown(n),
                                  !.next = m[before].next, !.prev = before],
                         ![before].next = a, ![m[before].next].prev = a], a)

\* malloc: header and rounding, then the first block of the free chain that is long enough;
\* _sbrk has nothing to add.
UnitsFor(bytes) == (bytes + 2 * HeaderBytes - 1) \div HeaderBytes

FirstFit(m, n) ==
  LET scan[b \in Nodes] == IF m[b].type = "head" \/ m[b].size >= n THEN b ELSE scan[m[b].nextFree]
  IN scan[m[HeadNode].nextFree]

\* The memory after malloc, and the block handed out.
Malloc(m, bytes) ==
  LET n == UnitsFor(bytes)
      b == FirstFit(m, n)
  IN IF bytes = 0 \/ b = HeadNode THEN [heap |-> m, block |-> Null]
     ELSE [heap |-> MallocFromBlock(m, b, n), block |-> b]

Free(m, b) == IF b = Null THEN m ELSE FreeBlock(m, b)

-----------------------------------------------------------------------------
Blocks(m) == {a \in Addresses : m[a].type \in {"used", "free"}}
FreeBlocks(m) == {a \in Addresses : m[a].type = "free"}
UsedBlocks(m) == {a \in Addresses : m[a].type = "used"}
BlockUnits(m, a) == a .. a + m[a].size - 1

\* The chain of all blocks is the blocks in order of address, forwards and backwards.
MainChainSorted(m) ==
  \A a \in Blocks(m) \cup {HeadNode} :
    LET after == {b \in Blocks(m) : b > a}
    IN /\ m[a].next = IF after = {} THEN HeadNode ELSE Min(after)
       /\ m[m[a].next].prev = a

\* The free chain visits every free block once and comes back.
FreeChainExact(m) ==
  LET free == FreeBlocks(m)
  IN /\ \A a \in free \cup {HeadNode} : m[a].nextFree \in free \cup {HeadNode} /\ m[m[a].nextFree].prevFree = a
     /\ \A part \in SUBSET free :
          (\A a \in part \cup {HeadNode} : m[a].nextFree \in part \cup {HeadNode}) => part = free

\* The blocks tile the memory given to the heap: nothing overlaps and nothing is lost.
Tiles(m, given) ==
  /\ UNION {BlockUnits(m, a) : a \in Blocks(m)} = given
  /\ \A a, b \in Blocks(m) : a < b => a + m[a].size <= b

\* No two free blocks touch.
Merged(m) == \A a, b \in FreeBlocks(m) : a + m[a].size # b
=============================================================================
