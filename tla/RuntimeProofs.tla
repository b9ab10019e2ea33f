---------------------------- MODULE RuntimeProofs ----------------------------
(***************************************************************************)
(* Proofs about Syscalls: the chains of malloc.c and the memory they       *)
(* share out, the owners of the blocks, the promise of Allocator, and the  *)
(* reads of rafile.c.                                                      *)
(*                                                                         *)
(* HeapInv says of a memory what its two chains have to do with the blocks *)
(* that lie in it.  Every function of malloc.c is shown to keep it, by way *)
(* of what the function does to the headers, field by field; RuntimeInv    *)
(* adds the types and the owners.                                          *)
(***************************************************************************)
EXTENDS Syscalls, SequenceTheorems, WellFoundedInduction, TLAPS

(***************************************************************************)
(* The heap.  Every address that holds a header is a block; the blocks lie *)
(* in order and cover the memory the heap was given; the chains list them, *)
(* and the free chain is one round through every free block.               *)
(***************************************************************************)
Chained(m) == Blocks(m) \cup {HeadNode}
ChainedFree(m) == FreeBlocks(m) \cup {HeadNode}

Kinds(m) ==
  /\ m \in [Nodes -> Headers]
  /\ \A a \in Nodes : m[a].type = "head" <=> a = HeadNode
  /\ m[HeadNode].size = 0

\* Blocks have a length, do not overlap, and cover what was given.
Covering(m) ==
  /\ \A a \in Blocks(m) : m[a].size > 0 /\ BlockUnits(m, a) \subseteq Given
  /\ \A a, b \in Blocks(m) : a < b => a + m[a].size <= b
  /\ \A u \in Given : \E a \in Blocks(m) : u \in BlockUnits(m, a)

\* The chain of all blocks: forwards and backwards, and nothing is left out between two.
MainChain(m) ==
  /\ \A a \in Chained(m) : /\ m[a].next \in Chained(m) /\ m[m[a].next].prev = a
                           /\ m[a].prev \in Chained(m) /\ m[m[a].prev].next = a
  /\ \A a \in Chained(m) : m[a].next # HeadNode => a < m[a].next
  /\ \A a \in Chained(m), b \in Blocks(m) : a < b => m[a].next # HeadNode /\ m[a].next <= b

\* The free chain: forwards and backwards, and no shorter round.
Links(m) ==
  \A a \in ChainedFree(m) : /\ m[a].nextFree \in ChainedFree(m) /\ m[m[a].nextFree].prevFree = a
                            /\ m[a].prevFree \in ChainedFree(m) /\ m[m[a].prevFree].nextFree = a
Round(m, part) == \A a \in part \cup {HeadNode} : m[a].nextFree \in part \cup {HeadNode}
OneRound(m) == \A part \in SUBSET FreeBlocks(m) : Round(m, part) => part = FreeBlocks(m)

Chains(m) == Kinds(m) /\ Covering(m) /\ MainChain(m) /\ Links(m) /\ OneRound(m)
HeapInv(m) == Chains(m) /\ Merged(m)
LEMMA GivenUnits == Given \subseteq Addresses /\ \A u \in Given : u >= End /\ u < Units
<1>1. Units \in Nat /\ ChunkUnits \in Nat /\ ChunkUnits > 0 /\ End \in Nat /\ End >= 1 /\ Units - End \in Nat
  BY HeapAssumption, SyscallsAssumption
<1>2. (Units - End) % ChunkUnits \in Nat
  BY <1>1
<1> QED
  BY <1>1, <1>2 DEF Given, Addresses, RoundDown

\* A free block is not its own neighbour.
LEMMA LinksApart ==
  ASSUME NEW m, Chains(m), NEW b \in FreeBlocks(m)
  PROVE  m[b].nextFree # b /\ m[b].prevFree # b /\ b # HeadNode
<1>1. b # HeadNode
  BY DEF FreeBlocks, Addresses, HeadNode
<1>2. SUFFICES ASSUME m[b].nextFree = b PROVE FALSE
  BY <1>1 DEF Chains, Links, ChainedFree
<1>3. Round(m, FreeBlocks(m) \ {b})
  BY <1>1, <1>2 DEF Round, Chains, Links, ChainedFree
<1>4. FreeBlocks(m) \ {b} = FreeBlocks(m)
  BY <1>3, Zenon DEF Chains, OneRound
<1> QED
  BY <1>4

\* What a free block and its rest have to do with the other blocks.
LEMMA SplitPlaces ==
  ASSUME NEW m, Chains(m), NEW b \in FreeBlocks(m), NEW n \in Nat, n > 0, m[b].size >= n + 2
  PROVE  /\ b \in Addresses /\ b + n \in Addresses /\ b + n \notin Blocks(m) /\ b + n # HeadNode
         /\ m[b].next # b /\ m[b].next # b + n
         /\ m[b].nextFree # b + n /\ m[b].prevFree # b + n
         /\ {m[b].next, m[b].nextFree, m[b].prevFree} \subseteq Nodes
         /\ m[b].size \in Nat /\ m[b].size - n \in 0 .. Units /\ n \in 0 .. Units
<1>1. b \in Blocks(m) /\ b \in Addresses /\ b \in Int
  BY DEF FreeBlocks, Blocks, Addresses
<1>2. m[b] \in Headers
  BY <1>1 DEF Chains, Kinds, Nodes
<1>3. m[b].size \in 0 .. Units
  BY <1>2 DEF Headers
<1>4. BlockUnits(m, b) \subseteq Given
  BY <1>1 DEF Chains, Covering
<1>5. b + n \in BlockUnits(m, b)
  BY <1>1, <1>3 DEF BlockUnits
<1>6. b + n \in Addresses
  BY <1>4, <1>5, GivenUnits
<1>7. b + n # HeadNode
  BY <1>6 DEF Addresses, HeadNode
<1>8. b + n \notin Blocks(m)
  BY <1>1, <1>3 DEF Chains, Covering
<1>9. m[b].next \in Chained(m) /\ m[b].next # b
  BY <1>1, HeapAssumption DEF Chains, MainChain, Chained, Addresses, HeadNode, Blocks
<1>10. m[b].nextFree \in ChainedFree(m) /\ m[b].prevFree \in ChainedFree(m)
  BY DEF Chains, Links, ChainedFree
<1>11. ChainedFree(m) \subseteq Chained(m)
  BY DEF ChainedFree, Chained, FreeBlocks, Blocks
<1>12. Chained(m) \subseteq Nodes
  BY DEF Chained, Blocks, Nodes
<1>13. b + n \notin Chained(m)
  BY <1>7, <1>8 DEF Chained
<1>14. m[b].next \in Nodes /\ m[b].nextFree \in Nodes /\ m[b].prevFree \in Nodes
  BY <1>9, <1>10, <1>11, <1>12
<1>15. m[b].next # b + n /\ m[b].nextFree # b + n /\ m[b].prevFree # b + n
  BY <1>9, <1>10, <1>11, <1>13
<1>16. m[b].size \in Nat /\ m[b].size - n \in 0 .. Units /\ n \in 0 .. Units
  BY <1>3, HeapAssumption
<1> QED
  BY <1>1, <1>6, <1>7, <1>8, <1>9, <1>14, <1>15, <1>16, Zenon

LEMMA FiveUpdates ==
  ASSUME NEW m, NEW a, NEW b, NEW c, NEW d, NEW e, NEW r, NEW u
  PROVE  [m EXCEPT ![a] = r, ![b].prev = a, ![c].nextFree = a, ![d].prevFree = a,
                   ![e] = u]
         = [[[[[m EXCEPT ![a] = r] EXCEPT ![b].prev = a] EXCEPT ![c].nextFree = a]
               EXCEPT ![d].prevFree = a] EXCEPT ![e] = u]
OBVIOUS

\* What splitting a block does, field by field.
IsSplit(m, s, b, n, rest) ==
  /\ s[b].type = "used" /\ s[b].size = n /\ s[b].next = rest /\ s[b].prev = m[b].prev
  /\ s[rest].type = "free" /\ s[rest].size = m[b].size - n
  /\ s[rest].next = m[b].next /\ s[rest].prev = b
  /\ s[rest].nextFree = m[b].nextFree /\ s[rest].prevFree = m[b].prevFree
  /\ \A c \in Nodes \ {b, rest} :
       /\ s[c].type = m[c].type /\ s[c].size = m[c].size /\ s[c].next = m[c].next
       /\ s[c].prev = IF c = m[b].next THEN rest ELSE m[c].prev
       /\ s[c].nextFree = IF c = m[b].prevFree THEN rest ELSE m[c].nextFree
       /\ s[c].prevFree = IF c = m[b].nextFree THEN rest ELSE m[c].prevFree

LEMMA SplitEffect ==
  ASSUME NEW m, Chains(m), NEW b \in FreeBlocks(m), NEW n \in Nat, n > 0, m[b].size >= n + 2
  PROVE  Split(m, b, n) \in [Nodes -> Headers] /\ IsSplit(m, Split(m, b, n), b, n, b + n)
<1> SUFFICES ASSUME NEW s, s = Split(m, b, n), NEW rest, rest = b + n
             PROVE  s \in [Nodes -> Headers] /\ IsSplit(m, s, b, n, rest)
  OBVIOUS
<1> DEFINE next == m[b].next
           after == m[b].nextFree
           before == m[b].prevFree
           r == [m[b] EXCEPT !.size = @ - n, !.prev = b]
           u == [Used(m[b]) EXCEPT !.size = n, !.next = rest]
           m1 == [m EXCEPT ![rest] = r]
           m2 == [m1 EXCEPT ![next].prev = rest]
           m3 == [m2 EXCEPT ![before].nextFree = rest]
           m4 == [m3 EXCEPT ![after].prevFree = rest]
           m5 == [m4 EXCEPT ![b] = u]
<1>1. /\ b \in Addresses /\ rest \in Addresses /\ rest \notin Blocks(m) /\ rest # HeadNode
      /\ next # b /\ next # rest /\ after # rest /\ before # rest
      /\ {next, after, before} \subseteq Nodes
      /\ m[b].size \in Nat /\ m[b].size - n \in 0 .. Units /\ n \in 0 .. Units
  BY SplitPlaces
<1>2. after # b /\ before # b /\ b # HeadNode
  BY LinksApart
<1>3. m \in [Nodes -> Headers] /\ rest # b /\ rest \in Nodes /\ b \in Nodes
  BY <1>1 DEF Chains, Kinds, Nodes, Addresses
<1>4. s = m5
  BY FiveUpdates DEF Split
<1>5. r \in Headers /\ u \in Headers
  <2>1. m[b] \in Headers /\ HeadNode \in Nodes
    BY <1>3 DEF Nodes
  <2>2. r \in Headers
    BY <2>1, <1>1, <1>3 DEF Headers
  <2>3. u \in Headers
    BY <2>1, <1>1, <1>3 DEF Headers, Used
  <2> QED
    BY <2>2, <2>3
<1>6a. next \in Nodes /\ before \in Nodes /\ after \in Nodes /\ rest \in Nodes
  BY <1>1, <1>3
<1> HIDE DEF r, u, next, after, before
<1>6. m1 \in [Nodes -> Headers]
  BY <1>3, <1>5 DEF m1
<1> HIDE DEF m1
<1>7. /\ m2 \in [Nodes -> Headers]
      /\ \A c \in Nodes : /\ m2[c].type = m1[c].type /\ m2[c].size = m1[c].size /\ m2[c].next = m1[c].next
                          /\ m2[c].nextFree = m1[c].nextFree /\ m2[c].prevFree = m1[c].prevFree
                          /\ m2[c].prev = IF c = next THEN rest ELSE m1[c].prev
  BY <1>6a, <1>6 DEF Headers
<1>70. m2 \in [Nodes -> Headers]
  BY <1>7
<1> HIDE DEF m2
<1>8. /\ m3 \in [Nodes -> Headers]
      /\ \A c \in Nodes : /\ m3[c].type = m2[c].type /\ m3[c].size = m2[c].size /\ m3[c].next = m2[c].next
                          /\ m3[c].prev = m2[c].prev /\ m3[c].prevFree = m2[c].prevFree
                          /\ m3[c].nextFree = IF c = before THEN rest ELSE m2[c].nextFree
  BY <1>6a, <1>70 DEF Headers, m3
<1>80. m3 \in [Nodes -> Headers]
  BY <1>8
<1> HIDE DEF m3
<1>9. /\ m4 \in [Nodes -> Headers]
      /\ \A c \in Nodes : /\ m4[c].type = m3[c].type /\ m4[c].size = m3[c].size /\ m4[c].next = m3[c].next
                          /\ m4[c].prev = m3[c].prev /\ m4[c].nextFree = m3[c].nextFree
                          /\ m4[c].prevFree = IF c = after THEN rest ELSE m3[c].prevFree
  BY <1>6a, <1>80 DEF Headers, m4
<1> HIDE DEF m4
<1>12. s \in [Nodes -> Headers]
  BY <1>3, <1>4, <1>5, <1>9
<1>13. s[b] = u /\ \A c \in Nodes : c # b => s[c] = m4[c]
  BY <1>3, <1>4, <1>9
<1>14. /\ u.type = "used" /\ u.size = n /\ u.next = rest /\ u.prev = m[b].prev
  BY <1>3 DEF u, Used, Headers
<1>15. \A c \in Nodes : /\ m4[c].type = m1[c].type /\ m4[c].size = m1[c].size /\ m4[c].next = m1[c].next
                        /\ m4[c].prev = IF c = next THEN rest ELSE m1[c].prev
                        /\ m4[c].nextFree = IF c = before THEN rest ELSE m1[c].nextFree
                        /\ m4[c].prevFree = IF c = after THEN rest ELSE m1[c].prevFree
  BY <1>7, <1>8, <1>9
<1>16. m1[rest] = r /\ \A c \in Nodes : c # rest => m1[c] = m[c]
  BY <1>3 DEF m1
<1>17. /\ r.type = m[b].type /\ r.size = m[b].size - n /\ r.next = m[b].next /\ r.prev = b
       /\ r.nextFree = m[b].nextFree /\ r.prevFree = m[b].prevFree
  BY <1>3 DEF r, Headers
<1>18. m[b].type = "free"
  BY DEF FreeBlocks
<1> QED
  BY <1>1, <1>2, <1>3, <1>12, <1>13, <1>14, <1>15, <1>16, <1>17, <1>18 DEF next, before, after, IsSplit
LEMMA BlockTypes ==
  ASSUME NEW m, Kinds(m)
  PROVE  \A a \in Blocks(m) : a \in Int /\ a >= 0 /\ a < Units /\ m[a].size \in Int /\ a # HeadNode /\ a \in Nodes
<1> SUFFICES ASSUME NEW a \in Blocks(m) PROVE a \in Int /\ a >= 0 /\ a < Units /\ m[a].size \in Int /\ a # HeadNode /\ a \in Nodes
  OBVIOUS
<1>1. a \in Addresses /\ a \in Nodes
  BY DEF Blocks, Nodes
<1>2. m[a] \in Headers
  BY <1>1 DEF Kinds
<1> QED
  BY <1>1, <1>2, HeapAssumption DEF Headers, Addresses, HeadNode

LEMMA SplitKeeps ==
  ASSUME NEW m, Chains(m), NEW b \in FreeBlocks(m), NEW n \in Nat, n > 0, m[b].size >= n + 2,
         NEW s, s = Split(m, b, n)
  PROVE  /\ Chains(s) /\ (Merged(m) => Merged(s))
         /\ UsedBlocks(s) = UsedBlocks(m) \cup {b} /\ s[b].size = n
         /\ \A a \in UsedBlocks(m) : s[a].size = m[a].size
<1> DEFINE rest == b + n
<1>1. s \in [Nodes -> Headers] /\ IsSplit(m, s, b, n, rest)
  BY SplitEffect
<1>2. /\ b \in Addresses /\ rest \in Addresses /\ rest \notin Blocks(m) /\ rest # HeadNode
      /\ m[b].next # b /\ m[b].next # rest /\ m[b].nextFree # rest /\ m[b].prevFree # rest
  BY SplitPlaces
<1>3. m[b].nextFree # b /\ m[b].prevFree # b /\ b # HeadNode
  BY LinksApart
<1>4. b \in Blocks(m) /\ b \in Int /\ m[b].size \in Int /\ rest \in Int /\ rest # b
  BY <1>2, BlockTypes DEF FreeBlocks, Blocks, Chains, Addresses
<1>50. rest = b + n
  OBVIOUS
<1> HIDE DEF rest
<1>5. Blocks(s) = Blocks(m) \cup {rest}
  BY <1>1, <1>2, <1>4 DEF Blocks, IsSplit, Nodes
<1>6. FreeBlocks(s) = (FreeBlocks(m) \ {b}) \cup {rest}
  BY <1>1, <1>2, <1>4 DEF FreeBlocks, IsSplit, Nodes, Blocks
<1>7. UsedBlocks(s) = UsedBlocks(m) \cup {b}
  BY <1>1, <1>2, <1>4 DEF UsedBlocks, IsSplit, Nodes, Blocks
<1>8. Kinds(s)
  BY <1>1, <1>2, <1>3 DEF Kinds, IsSplit, Nodes, Chains
<1>9. \A a \in Blocks(m) : a # b => a # rest /\ a \in Nodes /\ s[a].size = m[a].size
  BY <1>1, <1>2 DEF IsSplit, Nodes, Blocks
<1>10. s[b].size = n /\ s[rest].size = m[b].size - n
  BY <1>1 DEF IsSplit
<1>11. \A a \in Blocks(m) : a \in Int /\ m[a].size \in Int
  BY BlockTypes DEF Chains
<1>12. Covering(s)
  <2>1. BlockUnits(s, b) \cup BlockUnits(s, rest) = BlockUnits(m, b)
    BY <1>10, <1>4, <1>50 DEF BlockUnits
  <2>2. \A a \in Blocks(m) \ {b} : BlockUnits(s, a) = BlockUnits(m, a)
    BY <1>9 DEF BlockUnits
  <2>3. \A a \in Blocks(s) : s[a].size > 0 /\ BlockUnits(s, a) \subseteq Given
    BY <2>1, <2>2, <1>4, <1>5, <1>9, <1>10 DEF Chains, Covering
  <2>4. \A a, c \in Blocks(m) : a < c => a + m[a].size <= c
    BY DEF Chains, Covering
  <2>5. \A a, c \in Blocks(s) : a < c => a + s[a].size <= c
    BY <2>4, <1>4, <1>5, <1>9, <1>10, <1>11, <1>50
  <2>6. \A u \in Given : \E a \in Blocks(m) : u \in BlockUnits(m, a)
    BY DEF Chains, Covering
  <2>7. \A u \in Given : \E a \in Blocks(s) : u \in BlockUnits(s, a)
    BY <2>1, <2>2, <2>6, <1>4, <1>5
  <2> QED
    BY <2>3, <2>5, <2>7 DEF Covering
<1>13. MainChain(s)
  <2>1. /\ \A a \in Chained(m) : /\ m[a].next \in Chained(m) /\ m[m[a].next].prev = a
                                 /\ m[a].prev \in Chained(m) /\ m[m[a].prev].next = a
        /\ \A a \in Chained(m) : m[a].next # HeadNode => a < m[a].next
        /\ \A a \in Chained(m), c \in Blocks(m) :
             a < c => m[a].next # HeadNode /\ a < m[a].next /\ m[a].next <= c
    BY DEF Chains, MainChain
  <2>2. Chained(s) = Chained(m) \cup {rest} /\ b \in Chained(m) /\ rest \notin Chained(m)
    BY <1>2, <1>4, <1>5 DEF Chained
  <2>3. \A a \in Chained(m) \ {b} : /\ s[a].next = m[a].next
                                   /\ s[a].prev = IF a = m[b].next THEN rest ELSE m[a].prev
    <3>1. Chained(m) \subseteq Nodes
      BY DEF Chained, Blocks, Nodes
    <3> QED
      BY <1>1, <2>2, <3>1 DEF IsSplit
  <2>4. /\ s[b].next = rest /\ s[b].prev = m[b].prev /\ s[rest].next = m[b].next /\ s[rest].prev = b
    BY <1>1 DEF IsSplit
  <2>5. \A a \in Chained(s) : /\ s[a].next \in Chained(s) /\ s[s[a].next].prev = a
                              /\ s[a].prev \in Chained(s) /\ s[s[a].prev].next = a
    <3>0. \A a \in Chained(m) : /\ m[a].next \in Chained(m) /\ m[m[a].next].prev = a
                                 /\ m[a].prev \in Chained(m) /\ m[m[a].prev].next = a
      BY <2>1
    <3> SUFFICES ASSUME NEW a \in Chained(s)
                 PROVE  /\ s[a].next \in Chained(s) /\ s[s[a].next].prev = a
                        /\ s[a].prev \in Chained(s) /\ s[s[a].prev].next = a
      OBVIOUS
    <3>1. CASE a = rest
      BY <3>0, <3>1, <2>2, <2>3, <2>4, <1>2
    <3>2. CASE a # rest
      <4>1. a \in Chained(m)
        BY <3>2, <2>2
      <4>2. s[a].next \in Chained(s) /\ s[s[a].next].prev = a
        BY <4>1, <3>0, <2>2, <2>3, <2>4, <1>2
      <4>3. s[a].prev \in Chained(s) /\ s[s[a].prev].next = a
        BY <4>1, <3>0, <2>2, <2>3, <2>4, <1>2
      <4> QED
        BY <4>2, <4>3
    <3> QED
      BY <3>1, <3>2
  <2>6. \A a \in Chained(m) : a \in Int
    BY <1>11 DEF Chained, HeadNode
  <2>7. \A a \in Chained(s), c \in Blocks(s) :
             a < c => s[a].next # HeadNode /\ a < s[a].next /\ s[a].next <= c
    <3>1. \A a \in Chained(m) \ {b}, c \in Blocks(m) : a < c => s[a].next # HeadNode /\ a < s[a].next /\ s[a].next <= c
      BY <2>1, <2>3
    <3>2. b < rest /\ s[b].next = rest
      BY <2>4, <1>4, <1>50
    <3>3. \A c \in Blocks(m) : b < c => rest < c /\ m[b].next # HeadNode /\ rest < m[b].next /\ m[b].next <= c
      <4>1. \A c \in Blocks(m) : b < c => b + m[b].size <= c
        BY <1>4 DEF Chains, Covering
      <4> QED
        <5> SUFFICES ASSUME NEW c \in Blocks(m), b < c
                     PROVE  rest < c /\ m[b].next # HeadNode /\ rest < m[b].next /\ m[b].next <= c
          OBVIOUS
        <5>1. m[b].next # HeadNode /\ b < m[b].next /\ m[b].next <= c
          BY <2>1, <2>2
        <5>2. m[b].next \in Blocks(m)
          BY <5>1, <2>1, <2>2 DEF Chained
        <5>3. b + m[b].size <= m[b].next /\ b + m[b].size <= c
          BY <4>1, <5>1, <5>2
        <5>4. c \in Int /\ m[b].next \in Int
          BY <5>2, <1>11
        <5>5. rest < b + m[b].size /\ b + m[b].size \in Int
          BY <1>4, <1>50
        <5> QED
          BY <5>1, <5>3, <5>4, <5>5, <1>4
    <3>4. \A c \in Blocks(m) : c < rest => c <= b
      BY <3>3, <1>4, <1>11
    <3>5. \A a \in Chained(m) \ {b} : a < rest => a < b
      BY <3>4, <2>6, <1>4, <1>2 DEF Chained, HeadNode, Addresses
    <3>6. \A a \in Chained(m) \ {b} : a < rest => s[a].next # HeadNode /\ a < s[a].next /\ s[a].next <= rest
      <4> SUFFICES ASSUME NEW a \in Chained(m) \ {b}, a < rest
                   PROVE  s[a].next # HeadNode /\ a < s[a].next /\ s[a].next <= rest
        OBVIOUS
      <4>1. s[a].next # HeadNode /\ a < s[a].next /\ s[a].next <= b
        BY <3>1, <3>5, <1>4
      <4>2. s[a].next \in Int
        BY <2>1, <2>3, <2>6
      <4> QED
        BY <4>1, <4>2, <3>2, <1>4
    <3>7. \A c \in Blocks(s) : b < c => s[b].next # HeadNode /\ b < s[b].next /\ s[b].next <= c
      <4>1. \A c \in Blocks(m) : b < c => rest < c
        BY <3>3
      <4>2. rest # HeadNode /\ rest <= rest /\ \A c \in Blocks(s) : c \in Int
        BY <1>2, <1>4, <1>5, <1>11
      <4>3. ASSUME NEW c \in Blocks(s), b < c PROVE rest <= c
        <5>1. CASE c = rest
          BY <4>2, <5>1
        <5>2. CASE c # rest
          <6>1. c \in Blocks(m) /\ c \in Int /\ rest \in Int
            BY <5>2, <4>2, <1>4, <1>5
          <6>2. rest < c
            BY <6>1, <4>1, <4>3
          <6> QED
            BY <6>1, <6>2
        <5> QED
          BY <5>1, <5>2
      <4> QED
        BY <3>2, <4>2, <4>3
    <3>8. \A c \in Blocks(s) : rest < c => s[rest].next # HeadNode /\ rest < s[rest].next /\ s[rest].next <= c
      BY <3>2, <3>3, <2>4, <1>4, <1>5, <1>11
    <3> QED
      BY <3>1, <3>6, <3>7, <3>8, <2>2, <1>5
  <2>8. \A a \in Chained(s) : s[a].next # HeadNode => a < s[a].next
    <3>1. \A a \in Chained(m) \ {b} : s[a].next # HeadNode => a < s[a].next
      BY <2>1, <2>3
    <3>2. b < rest
      BY <1>4, <1>50
    <3>3. m[b].next # HeadNode => rest < m[b].next
      <4> SUFFICES ASSUME m[b].next # HeadNode PROVE rest < m[b].next
        OBVIOUS
      <4>1. m[b].next \in Blocks(m) /\ b < m[b].next
        BY <2>1, <2>2 DEF Chained
      <4>2. b + m[b].size <= m[b].next
        BY <4>1, <1>4 DEF Chains, Covering
      <4> QED
        BY <4>1, <4>2, <1>4, <1>11, <1>50
    <3> QED
      BY <3>1, <3>2, <3>3, <2>2, <2>4
  <2> QED
    BY <2>5, <2>7, <2>8 DEF MainChain
<1>14. Links(s) /\ OneRound(s)
  <2>1. \A a \in ChainedFree(m) : /\ m[a].nextFree \in ChainedFree(m) /\ m[m[a].nextFree].prevFree = a
                                  /\ m[a].prevFree \in ChainedFree(m) /\ m[m[a].prevFree].nextFree = a
    BY DEF Chains, Links
  <2>2. /\ ChainedFree(s) = (ChainedFree(m) \ {b}) \cup {rest} /\ b \in ChainedFree(m) /\ rest \notin ChainedFree(m)
        /\ HeadNode \in ChainedFree(m)
    BY <1>2, <1>3, <1>6 DEF ChainedFree, FreeBlocks, Blocks
  <2>3. \A a \in ChainedFree(m) \ {b} :
          /\ s[a].nextFree = IF a = m[b].prevFree THEN rest ELSE m[a].nextFree
          /\ s[a].prevFree = IF a = m[b].nextFree THEN rest ELSE m[a].prevFree
    <3>1. ChainedFree(m) \subseteq Nodes
      BY DEF ChainedFree, FreeBlocks, Nodes
    <3> QED
      BY <1>1, <2>2, <3>1 DEF IsSplit
  <2>4. s[rest].nextFree = m[b].nextFree /\ s[rest].prevFree = m[b].prevFree
    BY <1>1 DEF IsSplit
  <2>5. Links(s)
    <3> SUFFICES ASSUME NEW a \in ChainedFree(s)
                 PROVE  /\ s[a].nextFree \in ChainedFree(s) /\ s[s[a].nextFree].prevFree = a
                        /\ s[a].prevFree \in ChainedFree(s) /\ s[s[a].prevFree].nextFree = a
      BY DEF Links
    <3>1. CASE a = rest
      BY <3>1, <2>1, <2>2, <2>3, <2>4, <1>3
    <3>2. CASE a # rest
      <4>1. a \in ChainedFree(m) \ {b}
        BY <3>2, <2>2
      <4>2. s[a].nextFree \in ChainedFree(s) /\ s[s[a].nextFree].prevFree = a
        BY <4>1, <2>1, <2>2, <2>3, <2>4
      <4>3. s[a].prevFree \in ChainedFree(s) /\ s[s[a].prevFree].nextFree = a
        BY <4>1, <2>1, <2>2, <2>3, <2>4
      <4> QED
        BY <4>2, <4>3
    <3> QED
      BY <3>1, <3>2
  <2>6. ASSUME NEW part \in SUBSET FreeBlocks(s), Round(s, part)
        PROVE  part = FreeBlocks(s)
    <3> DEFINE old == (part \ {rest}) \cup (IF rest \in part THEN {b} ELSE {})
    <3>1. rest \notin FreeBlocks(m)
      BY <1>2 DEF FreeBlocks, Blocks
    <3>2. old \subseteq FreeBlocks(m)
      BY <1>6
    <3>3. Round(m, old)
      <4> SUFFICES ASSUME NEW a \in old \cup {HeadNode} PROVE m[a].nextFree \in old \cup {HeadNode}
        BY DEF Round
      <4>0. a \in ChainedFree(m)
        BY <3>2 DEF ChainedFree
      <4>1. CASE a = b
        <5>1. s[rest].nextFree \in part \cup {HeadNode}
          BY <2>6, <4>1, <3>1, <1>2, <1>3, <1>6 DEF Round
        <5> QED
          BY <5>1, <2>4, <4>1, <1>2
      <4>2. CASE a # b
        <5>1. s[a].nextFree \in part \cup {HeadNode}
          BY <2>6, <4>2 DEF Round
        <5>2. s[a].nextFree = IF a = m[b].prevFree THEN rest ELSE m[a].nextFree
          BY <2>3, <4>0, <4>2
        <5>3. m[a].nextFree # rest /\ (a = m[b].prevFree => m[a].nextFree = b)
          BY <2>1, <2>2, <4>0
        <5> QED
          BY <5>1, <5>2, <5>3, <1>2
      <4> QED
        BY <4>1, <4>2
    <3>4. old = FreeBlocks(m)
      BY <3>2, <3>3 DEF Chains, OneRound
    <3> QED
      BY <3>1, <3>4, <1>6, <1>4
  <2> QED
    BY <2>5, <2>6 DEF OneRound
<1>15. ASSUME Merged(m) PROVE Merged(s)
  <2>1. \A a, c \in FreeBlocks(m) : a + m[a].size # c
    BY <1>15 DEF Merged
  <2>2. \A a \in FreeBlocks(m) : a \in Blocks(m)
    BY DEF FreeBlocks, Blocks
  <2>3. \A a, c \in Blocks(m) : a < c => a + m[a].size <= c
    BY DEF Chains, Covering
  <2>4. \A a \in Blocks(m) : m[a].size > 0
    BY DEF Chains, Covering
  <2>5. \A a \in FreeBlocks(m) \ {b} : a + m[a].size # rest
    BY <2>2, <2>3, <2>4, <1>4, <1>11, <1>50
  <2>6. \A a \in FreeBlocks(m) : rest + s[rest].size # a
    BY <2>1, <1>10, <1>4, <1>50
  <2>7. s[rest].size > 0
    BY <1>10, <1>4
  <2> QED
    BY <2>1, <2>2, <2>5, <2>6, <2>7, <1>4, <1>6, <1>9, <1>10 DEF Merged
<1> QED
  BY <1>7, <1>8, <1>9, <1>10, <1>12, <1>13, <1>14, <1>15 DEF Chains, UsedBlocks, Blocks, FreeBlocks
LEMMA ChainNodes ==
  ASSUME NEW m, Chains(m)
  PROVE  /\ Chained(m) \subseteq Nodes /\ ChainedFree(m) \subseteq Chained(m) /\ HeadNode \in ChainedFree(m)
         /\ \A a \in Chained(m) : m[a].next \in Chained(m) /\ m[a].prev \in Chained(m)
         /\ \A a \in ChainedFree(m) : m[a].nextFree \in ChainedFree(m) /\ m[a].prevFree \in ChainedFree(m)
         /\ m \in [Nodes -> Headers]
<1>1. Chained(m) \subseteq Nodes
  BY DEF Chained, Blocks, Nodes
<1>2. ChainedFree(m) \subseteq Chained(m)
  BY DEF ChainedFree, Chained, FreeBlocks, Blocks
<1>3. HeadNode \in ChainedFree(m)
  BY DEF ChainedFree
<1>4. \A a \in Chained(m) : m[a].next \in Chained(m) /\ m[a].prev \in Chained(m)
  BY DEF Chains, MainChain
<1>5. \A a \in ChainedFree(m) : m[a].nextFree \in ChainedFree(m) /\ m[a].prevFree \in ChainedFree(m)
  BY DEF Chains, Links
<1>6. m \in [Nodes -> Headers]
  BY DEF Chains, Kinds
<1> QED
  BY <1>1, <1>2, <1>3, <1>4, <1>5, <1>6, Zenon

\* A block is not its own neighbour, and its neighbours are on either side.
LEMMA Apart ==
  ASSUME NEW m, Chains(m), NEW b \in Blocks(m)
  PROVE  m[b].next # b /\ m[b].prev # b /\ b # HeadNode
<1>1. b # HeadNode /\ b \in Chained(m)
  BY DEF Blocks, Addresses, HeadNode, Chained
<1>2. b \in Int
  BY BlockTypes DEF Chains
<1>3. m[b].next # b
  BY <1>1, <1>2 DEF Chains, MainChain
<1>4. m[b].prev # b
  BY <1>1, <1>3 DEF Chains, MainChain
<1> QED
  BY <1>1, <1>3, <1>4
\* Taking a block out of the free chain.
Unlinked(m, s, b) ==
  \A c \in Nodes \ {b} :
    /\ s[c].nextFree = IF c = m[b].prevFree THEN m[b].nextFree ELSE m[c].nextFree
    /\ s[c].prevFree = IF c = m[b].nextFree THEN m[b].prevFree ELSE m[c].prevFree

LEMMA UnlinkKeeps ==
  ASSUME NEW m, Chains(m), NEW b \in FreeBlocks(m),
         NEW s, Unlinked(m, s, b), FreeBlocks(s) = FreeBlocks(m) \ {b}
  PROVE  Links(s) /\ OneRound(s)
<1>1. \A a \in ChainedFree(m) : /\ m[a].nextFree \in ChainedFree(m) /\ m[m[a].nextFree].prevFree = a
                                /\ m[a].prevFree \in ChainedFree(m) /\ m[m[a].prevFree].nextFree = a
  BY DEF Chains, Links
<1>2. m[b].nextFree # b /\ m[b].prevFree # b /\ b # HeadNode
  BY LinksApart
<1>3. ChainedFree(s) = ChainedFree(m) \ {b} /\ b \in ChainedFree(m) /\ HeadNode \in ChainedFree(m)
  BY <1>2 DEF ChainedFree
<1>4. \A a \in ChainedFree(m) \ {b} :
          /\ s[a].nextFree = IF a = m[b].prevFree THEN m[b].nextFree ELSE m[a].nextFree
          /\ s[a].prevFree = IF a = m[b].nextFree THEN m[b].prevFree ELSE m[a].prevFree
  <2>1. ChainedFree(m) \subseteq Nodes
    BY DEF ChainedFree, FreeBlocks, Nodes
  <2> QED
    BY <2>1 DEF Unlinked
<1>5. Links(s)
  <2> SUFFICES ASSUME NEW a \in ChainedFree(s)
               PROVE  /\ s[a].nextFree \in ChainedFree(s) /\ s[s[a].nextFree].prevFree = a
                      /\ s[a].prevFree \in ChainedFree(s) /\ s[s[a].prevFree].nextFree = a
    BY DEF Links
  <2>1. a \in ChainedFree(m) \ {b}
    BY <1>3
  <2>2. s[a].nextFree \in ChainedFree(s) /\ s[s[a].nextFree].prevFree = a
    BY <2>1, <1>1, <1>2, <1>3, <1>4
  <2>3. s[a].prevFree \in ChainedFree(s) /\ s[s[a].prevFree].nextFree = a
    BY <2>1, <1>1, <1>2, <1>3, <1>4
  <2> QED
    BY <2>2, <2>3
<1>6. ASSUME NEW part \in SUBSET FreeBlocks(s), Round(s, part)
      PROVE  part = FreeBlocks(s)
  <2> DEFINE old == IF m[b].prevFree \in part \cup {HeadNode} THEN part \cup {b} ELSE part
  <2>1. old \subseteq FreeBlocks(m)
    OBVIOUS
  <2>2. Round(m, old)
    <3> SUFFICES ASSUME NEW a \in old \cup {HeadNode} PROVE m[a].nextFree \in old \cup {HeadNode}
      BY DEF Round
    <3>0. a \in ChainedFree(m)
      BY <2>1 DEF ChainedFree
    <3>1. CASE a = b
      <4>1. m[b].prevFree \in part \cup {HeadNode}
        BY <3>1, <1>2, <1>6
      <4>2. s[m[b].prevFree].nextFree \in part \cup {HeadNode}
        BY <4>1, <1>6 DEF Round
      <4>3. s[m[b].prevFree].nextFree = m[b].nextFree
        BY <1>1, <1>2, <1>3, <1>4
      <4> QED
        BY <3>1, <4>2, <4>3
    <3>2. CASE a # b
      <4>1. a \in part \cup {HeadNode}
        BY <3>2
      <4>2. s[a].nextFree \in part \cup {HeadNode}
        BY <4>1, <1>6 DEF Round
      <4>3. a # m[b].prevFree => s[a].nextFree = m[a].nextFree
        BY <3>0, <3>2, <1>4
      <4>4. a = m[b].prevFree => m[a].nextFree = b
        BY <1>1, <1>3
      <4> QED
        BY <4>1, <4>2, <4>3, <4>4
    <3> QED
      BY <3>1, <3>2
  <2>3. old = FreeBlocks(m)
    BY <2>1, <2>2 DEF Chains, OneRound
  <2> QED
    BY <2>3
<1> QED
  BY <1>5, <1>6 DEF OneRound

LEMMA UsedHeader ==
  ASSUME NEW h \in Headers
  PROVE  /\ Used(h) \in Headers
         /\ Used(h).type = "used" /\ Used(h).size = h.size /\ Used(h).next = h.next /\ Used(h).prev = h.prev
BY DEF Used, Headers, Nodes

\* The chain of all blocks is the same when its fields are.
LEMMA MainChainStays ==
  ASSUME NEW m, MainChain(m), NEW s, Blocks(s) = Blocks(m),
         \A a \in Chained(m) : s[a].next = m[a].next /\ s[a].prev = m[a].prev
  PROVE  MainChain(s)
<1>1. Chained(s) = Chained(m)
  BY DEF Chained
<1>2. \A a \in Chained(s) : /\ s[a].next \in Chained(s) /\ s[s[a].next].prev = a
                            /\ s[a].prev \in Chained(s) /\ s[s[a].prev].next = a
  BY <1>1 DEF MainChain
<1>3. \A a \in Chained(s) : s[a].next # HeadNode => a < s[a].next
  BY <1>1 DEF MainChain
<1>4. \A a \in Chained(s), b \in Blocks(s) : a < b => s[a].next # HeadNode /\ s[a].next <= b
  BY <1>1 DEF MainChain
<1> QED
  BY <1>2, <1>3, <1>4, Zenon DEF MainChain

\* Handing out a whole block.
LEMMA TakeKeeps ==
  ASSUME NEW m, Chains(m), NEW b \in FreeBlocks(m), NEW n, ~ (m[b].size >= n + 2),
         NEW s, s = MallocFromBlock(m, b, n)
  PROVE  /\ Chains(s) /\ (Merged(m) => Merged(s))
         /\ UsedBlocks(s) = UsedBlocks(m) \cup {b}
         /\ \A a \in Blocks(m) : s[a].size = m[a].size
<1> DEFINE after == m[b].nextFree
           before == m[b].prevFree
           m1 == [m EXCEPT ![before].nextFree = after]
           m2 == [m1 EXCEPT ![after].prevFree = before]
<1>1. b \in ChainedFree(m) /\ b \in Blocks(m)
  BY DEF ChainedFree, FreeBlocks, Blocks
<1>2. b \in Nodes /\ after \in Nodes /\ before \in Nodes /\ m \in [Nodes -> Headers]
  BY <1>1, ChainNodes
<1>3. s = [m2 EXCEPT ![b] = Used(@)]
  <2>1. s = [RemoveFromFreeChain(m, b) EXCEPT ![b] = Used(@)]
    BY DEF MallocFromBlock
  <2> QED
    BY <2>1, Zenon DEF RemoveFromFreeChain
<1> HIDE DEF after, before
<1>4. m1 \in [Nodes -> Headers]
  BY <1>2 DEF Headers
<1>5. \A c \in Nodes : /\ m1[c].type = m[c].type /\ m1[c].size = m[c].size /\ m1[c].next = m[c].next
                       /\ m1[c].prev = m[c].prev /\ m1[c].prevFree = m[c].prevFree
                       /\ m1[c].nextFree = IF c = before THEN after ELSE m[c].nextFree
  BY <1>2 DEF Headers
<1> HIDE DEF m1
<1>6. m2 \in [Nodes -> Headers]
  BY <1>2, <1>4 DEF Headers
<1>7. \A c \in Nodes : /\ m2[c].type = m1[c].type /\ m2[c].size = m1[c].size /\ m2[c].next = m1[c].next
                       /\ m2[c].prev = m1[c].prev /\ m2[c].nextFree = m1[c].nextFree
                       /\ m2[c].prevFree = IF c = after THEN before ELSE m1[c].prevFree
  BY <1>2, <1>4 DEF Headers
<1> HIDE DEF m2
<1>8. s \in [Nodes -> Headers]
  <2>1. Used(m2[b]) \in Headers
    BY <1>2, <1>6, UsedHeader
  <2> QED
    BY <1>2, <1>3, <1>6, <2>1
<1>9. /\ s[b] = Used(m2[b]) /\ \A c \in Nodes : c # b => s[c] = m2[c]
  BY <1>2, <1>3, <1>6
<1>10. s[b].type = "used" /\ s[b].size = m2[b].size /\ s[b].next = m2[b].next /\ s[b].prev = m2[b].prev
  <2>1. m2[b] \in Headers
    BY <1>2, <1>6
  <2> QED
    BY <2>1, <1>9, UsedHeader
<1>11. /\ \A c \in Nodes : s[c].size = m[c].size /\ s[c].next = m[c].next /\ s[c].prev = m[c].prev
       /\ \A c \in Nodes : c # b => s[c].type = m[c].type
  BY <1>2, <1>5, <1>7, <1>9, <1>10
<1>12. Unlinked(m, s, b)
  BY <1>5, <1>7, <1>9 DEF Unlinked, after, before
<1>13. m[b].type = "free"
  BY DEF FreeBlocks
<1>14. Blocks(s) = Blocks(m)
  BY <1>1, <1>2, <1>10, <1>11 DEF Blocks, Nodes
<1>15. FreeBlocks(s) = FreeBlocks(m) \ {b}
  BY <1>10, <1>11 DEF FreeBlocks, Nodes
<1>16. UsedBlocks(s) = UsedBlocks(m) \cup {b}
  BY <1>1, <1>10, <1>11 DEF UsedBlocks, Nodes, Blocks
<1>17. Kinds(s)
  <2>1. b # HeadNode
    BY LinksApart
  <2> QED
    BY <2>1, <1>2, <1>8, <1>10, <1>11 DEF Kinds, Chains, Nodes
<1>18. \A a \in Chained(m) : s[a].size = m[a].size /\ s[a].next = m[a].next /\ s[a].prev = m[a].prev
  BY <1>11, ChainNodes
<1>19. Covering(s)
  <2>1. \A a \in Blocks(m) : BlockUnits(s, a) = BlockUnits(m, a) /\ s[a].size = m[a].size
    BY <1>18 DEF BlockUnits, Chained
  <2> QED
    BY <2>1, <1>14 DEF Chains, Covering
<1>20. MainChain(s)
  BY <1>14, <1>18, MainChainStays DEF Chains
<1>21. Links(s) /\ OneRound(s)
  BY <1>12, <1>15, UnlinkKeeps
<1>22. Merged(m) => Merged(s)
  <2>1. \A a \in FreeBlocks(m) : s[a].size = m[a].size
    BY <1>11 DEF FreeBlocks, Nodes
  <2> QED
    BY <2>1, <1>15 DEF Merged
<1> QED
  BY <1>16, <1>17, <1>18, <1>19, <1>20, <1>21, <1>22 DEF Chains, Chained
\* A block swallows the one that follows it.
Absorbed(m, s, a, b) ==
  /\ s[a].size = m[a].size + m[b].size
  /\ s[b].type = "none"
  /\ \A c \in Nodes \ {b} :
       /\ s[c].type = m[c].type
       /\ s[c].size = IF c = a THEN m[a].size + m[b].size ELSE m[c].size
       /\ s[c].next = IF c = a THEN m[b].next ELSE m[c].next
       /\ s[c].prev = IF c = m[b].next THEN a ELSE m[c].prev

\* Blocks that touch are neighbours in the chain.
LEMMA Touching ==
  ASSUME NEW m, Chains(m), NEW a \in Blocks(m), NEW b \in Blocks(m), a + m[a].size = b
  PROVE  m[a].next = b /\ m[b].prev = a /\ a < b
<1>1. a \in Int /\ b \in Int /\ m[a].size \in Int /\ m[a].size > 0 /\ a \in Chained(m)
  BY BlockTypes DEF Chains, Covering, Chained
<1>2. a < b
  BY <1>1
<1>3. m[a].next # HeadNode /\ m[a].next <= b /\ a < m[a].next /\ m[a].next \in Chained(m)
  BY <1>1, <1>2 DEF Chains, MainChain
<1>4. m[a].next \in Blocks(m)
  BY <1>3 DEF Chained
<1>5. a + m[a].size <= m[a].next
  BY <1>3, <1>4 DEF Chains, Covering
<1>6. m[a].next \in Int
  BY <1>4, BlockTypes DEF Chains
<1>7. m[a].next = b
  BY <1>1, <1>3, <1>5, <1>6
<1> QED
  BY <1>1, <1>2, <1>7 DEF Chains, MainChain

LEMMA AbsorbKeeps ==
  ASSUME NEW m, Chains(m), NEW a \in Blocks(m), NEW b \in Blocks(m), a + m[a].size = b,
         NEW s \in [Nodes -> Headers], Absorbed(m, s, a, b)
  PROVE  Kinds(s) /\ Covering(s) /\ MainChain(s) /\ Blocks(s) = Blocks(m) \ {b}
<1>1. m[a].next = b /\ m[b].prev = a /\ a < b
  BY Touching
<1>2. a \in Int /\ b \in Int /\ m[a].size \in Int /\ m[b].size \in Int /\ m[a].size > 0 /\ m[b].size > 0
  BY BlockTypes DEF Chains, Covering
<1>3. \A c \in Blocks(m) : c \in Int /\ c \in Nodes /\ m[c].size \in Int /\ c # HeadNode
  BY BlockTypes DEF Chains
<1>4. a # b /\ a # HeadNode /\ b # HeadNode /\ m[b].next # b
  BY <1>1, <1>2, <1>3, Apart
<1>5. Blocks(s) = Blocks(m) \ {b}
  BY <1>3 DEF Absorbed, Blocks, Nodes
<1>6. Kinds(s)
  <2>1. \A c \in Nodes : s[c].type = "head" <=> c = HeadNode
    BY <1>3, <1>4 DEF Absorbed, Chains, Kinds
  <2>2. s[HeadNode].size = 0
    BY <1>4 DEF Absorbed, Chains, Kinds, Nodes
  <2> QED
    BY <2>1, <2>2 DEF Kinds
<1>7. Covering(s)
  <2>0. s[a].size = m[a].size + m[b].size /\ \A c \in Blocks(m) \ {a, b} : s[c].size = m[c].size
    BY <1>3 DEF Absorbed
  <2>1. BlockUnits(s, a) = BlockUnits(m, a) \cup BlockUnits(m, b)
    BY <2>0, <1>2 DEF BlockUnits
  <2>2. \A c \in Blocks(m) \ {a, b} : BlockUnits(s, c) = BlockUnits(m, c)
    BY <2>0 DEF BlockUnits
  <2>3. \A c \in Blocks(s) : s[c].size > 0 /\ BlockUnits(s, c) \subseteq Given
    BY <2>0, <2>1, <2>2, <1>2, <1>5 DEF Chains, Covering
  <2>4. \A c, d \in Blocks(m) : c < d => c + m[c].size <= d
    BY DEF Chains, Covering
  <2>5. \A c, d \in Blocks(s) : c < d => c + s[c].size <= d
    <3> SUFFICES ASSUME NEW c \in Blocks(s), NEW d \in Blocks(s), c < d PROVE c + s[c].size <= d
      OBVIOUS
    <3>1. CASE c = a
      <4>1. b <= d
        BY <3>1, <2>4, <1>5
      <4>2. b < d /\ d \in Blocks(m) /\ d \in Int
        BY <4>1, <1>2, <1>3, <1>5
      <4>3. b + m[b].size <= d
        BY <4>2, <2>4
      <4> QED
        BY <3>1, <4>2, <4>3, <2>0, <1>2
    <3>2. CASE c # a
      BY <3>2, <2>0, <2>4, <1>5
    <3> QED
      BY <3>1, <3>2
  <2>6. \A u \in Given : \E c \in Blocks(m) : u \in BlockUnits(m, c)
    BY DEF Chains, Covering
  <2>7. \A u \in Given : \E c \in Blocks(s) : u \in BlockUnits(s, c)
    BY <2>1, <2>2, <2>6, <1>4, <1>5
  <2> QED
    BY <2>3, <2>5, <2>7 DEF Covering
<1>8. MainChain(s)
  <2>1. /\ \A c \in Chained(m) : /\ m[c].next \in Chained(m) /\ m[m[c].next].prev = c
                                 /\ m[c].prev \in Chained(m) /\ m[m[c].prev].next = c
        /\ \A c \in Chained(m) : m[c].next # HeadNode => c < m[c].next
        /\ \A c \in Chained(m), d \in Blocks(m) : c < d => m[c].next # HeadNode /\ m[c].next <= d
    BY DEF Chains, MainChain
  <2>2. /\ Chained(s) = Chained(m) \ {b} /\ a \in Chained(m) /\ b \in Chained(m) /\ HeadNode \in Chained(m)
        /\ m[a].next = b /\ m[b].prev = a /\ a # b /\ b # HeadNode /\ m[b].next # b
    BY <1>1, <1>4, <1>5 DEF Chained
  <2>3. \A c \in Chained(m) \ {b} : /\ s[c].next = IF c = a THEN m[b].next ELSE m[c].next
                                   /\ s[c].prev = IF c = m[b].next THEN a ELSE m[c].prev
    <3>1. Chained(m) \subseteq Nodes
      BY DEF Chained, Blocks, Nodes
    <3> QED
      BY <3>1 DEF Absorbed
  <2>4. ASSUME NEW c \in Chained(s)
        PROVE  /\ s[c].next \in Chained(s) /\ s[s[c].next].prev = c
               /\ s[c].prev \in Chained(s) /\ s[s[c].prev].next = c
    <3>1. c \in Chained(m) \ {b}
      BY <2>2
    <3>2. s[c].next \in Chained(s) /\ s[s[c].next].prev = c
      BY <3>1, <2>1, <2>2, <2>3
    <3>3. s[c].prev \in Chained(s) /\ s[s[c].prev].next = c
      BY <3>1, <2>1, <2>2, <2>3
    <3> QED
      BY <3>2, <3>3
  <2>5. \A c \in Chained(m) : c \in Int
    BY <1>3 DEF Chained, HeadNode
  <2>6. ASSUME NEW c \in Chained(s), s[c].next # HeadNode
        PROVE  c < s[c].next
    <3>1. CASE c = a
      <4>1. b < m[b].next /\ s[a].next = m[b].next /\ m[b].next \in Int
        BY <3>1, <2>1, <2>2, <2>3, <2>5, <2>6
      <4> QED
        BY <3>1, <4>1, <1>1, <1>2
    <3>2. CASE c # a
      BY <3>2, <2>1, <2>2, <2>3, <2>6
    <3> QED
      BY <3>1, <3>2
  <2>7. ASSUME NEW c \in Chained(s), NEW d \in Blocks(s), c < d
        PROVE  s[c].next # HeadNode /\ s[c].next <= d
    <3>1. CASE c = a
      <4>1. b <= d
        BY <3>1, <2>1, <2>2, <2>7, <1>5
      <4>2. b < d /\ d \in Blocks(m)
        BY <4>1, <1>2, <1>3, <1>5
      <4>3. m[b].next # HeadNode /\ m[b].next <= d
        BY <4>2, <2>1, <2>2
      <4> QED
        BY <3>1, <4>3, <2>2, <2>3
    <3>2. CASE c # a
      BY <3>2, <2>1, <2>2, <2>3, <2>7, <1>5
    <3> QED
      BY <3>1, <3>2
  <2> QED
    BY <2>4, <2>6, <2>7 DEF MainChain
<1> QED
  BY <1>5, <1>6, <1>7, <1>8
SameLinks(m, s, c) == s[c].nextFree = m[c].nextFree /\ s[c].prevFree = m[c].prevFree

LEMMA FreeChainStays ==
  ASSUME NEW m, Links(m), OneRound(m), NEW s, FreeBlocks(s) = FreeBlocks(m),
         \A c \in ChainedFree(m) : SameLinks(m, s, c)
  PROVE  Links(s) /\ OneRound(s)
<1>1. ChainedFree(s) = ChainedFree(m)
  BY DEF ChainedFree
<1>2. \A c \in ChainedFree(m) : s[c].nextFree = m[c].nextFree /\ s[c].prevFree = m[c].prevFree
  BY DEF SameLinks
<1>3. Links(s)
  BY <1>1, <1>2 DEF Links
<1>4. ASSUME NEW part \in SUBSET FreeBlocks(s), Round(s, part)
      PROVE  part = FreeBlocks(s)
  <2>1. Round(m, part)
    BY <1>2, <1>4 DEF Round, ChainedFree
  <2> QED
    BY <2>1 DEF OneRound
<1> QED
  BY <1>3, <1>4 DEF OneRound

\* The block before swallows the one that is freed.
LEMMA JoinPreviousEffect ==
  ASSUME NEW m, Chains(m), NEW b \in Blocks(m), NEW a \in Blocks(m), a = m[b].prev, a + m[a].size = b
  PROVE  /\ JoinPrevious(m, b) \in [Nodes -> Headers]
         /\ Absorbed(m, JoinPrevious(m, b), a, b)
         /\ \A c \in Nodes \ {b} : SameLinks(m, JoinPrevious(m, b), c)
<1> SUFFICES ASSUME NEW s, s = JoinPrevious(m, b)
             PROVE  /\ s \in [Nodes -> Headers] /\ Absorbed(m, s, a, b)
                    /\ \A c \in Nodes \ {b} : SameLinks(m, s, c)
  OBVIOUS
<1> DEFINE next == m[b].next
           whole == m[a].size + m[b].size
           m1 == [m EXCEPT ![a].size = whole]
           m2 == [m1 EXCEPT ![a].next = next]
           m3 == [m2 EXCEPT ![next].prev = a]
<1>1. a \in Nodes /\ b \in Nodes /\ next \in Nodes /\ m \in [Nodes -> Headers] /\ NoHeader \in Headers
  <2>1. NoHeader \in Headers
    BY HeapAssumption DEF NoHeader, Headers, Nodes
  <2>2. a \in Chained(m) /\ b \in Chained(m)
    BY DEF Chained
  <2> QED
    BY <2>1, <2>2, ChainNodes
<1>2. whole \in 0 .. Units
  <2>1. /\ a \in Int /\ b \in Int /\ m[a].size \in Int /\ m[b].size \in Int /\ a >= 0
        /\ m[a].size > 0 /\ m[b].size > 0
    BY BlockTypes DEF Chains, Covering
  <2>2. b + m[b].size - 1 \in BlockUnits(m, b)
    BY <2>1 DEF BlockUnits
  <2>3. BlockUnits(m, b) \subseteq Given
    BY DEF Chains, Covering
  <2>4. b + m[b].size - 1 < Units
    BY <2>2, <2>3, GivenUnits
  <2> QED
    BY <2>1, <2>4, HeapAssumption
<1>3. a # b /\ next # b
  BY Apart
<1>4. s = [m3 EXCEPT ![b] = NoHeader]
  BY DEF JoinPrevious
<1> HIDE DEF whole, next
<1>5. m1 \in [Nodes -> Headers]
  BY <1>1, <1>2 DEF Headers
<1>6. \A c \in Nodes : /\ m1[c].type = m[c].type /\ m1[c].next = m[c].next /\ m1[c].prev = m[c].prev
                       /\ m1[c].nextFree = m[c].nextFree /\ m1[c].prevFree = m[c].prevFree
                       /\ m1[c].size = IF c = a THEN whole ELSE m[c].size
  BY <1>1, <1>2 DEF Headers
<1> HIDE DEF m1
<1>7. m2 \in [Nodes -> Headers]
  BY <1>1, <1>5 DEF Headers
<1>8. \A c \in Nodes : /\ m2[c].type = m1[c].type /\ m2[c].size = m1[c].size /\ m2[c].prev = m1[c].prev
                       /\ m2[c].nextFree = m1[c].nextFree /\ m2[c].prevFree = m1[c].prevFree
                       /\ m2[c].next = IF c = a THEN next ELSE m1[c].next
  BY <1>1, <1>5 DEF Headers
<1> HIDE DEF m2
<1>9. m3 \in [Nodes -> Headers]
  BY <1>1, <1>7 DEF Headers
<1>10. \A c \in Nodes : /\ m3[c].type = m2[c].type /\ m3[c].size = m2[c].size /\ m3[c].next = m2[c].next
                        /\ m3[c].nextFree = m2[c].nextFree /\ m3[c].prevFree = m2[c].prevFree
                        /\ m3[c].prev = IF c = next THEN a ELSE m2[c].prev
  BY <1>1, <1>7 DEF Headers
<1> HIDE DEF m3
<1>11. s \in [Nodes -> Headers] /\ s[b] = NoHeader /\ \A c \in Nodes : c # b => s[c] = m3[c]
  BY <1>1, <1>4, <1>9
<1>12. s[b].type = "none"
  BY <1>11 DEF NoHeader
<1> QED
  BY <1>1, <1>3, <1>6, <1>8, <1>10, <1>11, <1>12 DEF Absorbed, SameLinks, whole, next

\* A block becomes the first of the free chain.
Pushed(m, s, a) ==
  /\ s[a].type = "free" /\ s[a].nextFree = m[HeadNode].nextFree /\ s[a].prevFree = HeadNode
  /\ s[HeadNode].nextFree = a /\ s[m[HeadNode].nextFree].prevFree = a
  /\ \A c \in Nodes : s[c].size = m[c].size /\ s[c].next = m[c].next /\ s[c].prev = m[c].prev
  /\ \A c \in Nodes \ {a} :
       /\ s[c].type = m[c].type
       /\ c # HeadNode => s[c].nextFree = m[c].nextFree
       /\ c # m[HeadNode].nextFree => s[c].prevFree = m[c].prevFree

LEMMA PushFreeEffect ==
  ASSUME NEW m, Chains(m), NEW a \in UsedBlocks(m)
  PROVE  PushFree(m, a) \in [Nodes -> Headers] /\ Pushed(m, PushFree(m, a), a)
<1> SUFFICES ASSUME NEW s, s = PushFree(m, a)
             PROVE  s \in [Nodes -> Headers] /\ Pushed(m, s, a)
  OBVIOUS
<1> DEFINE first == m[HeadNode].nextFree
           m1 == [m EXCEPT ![a].type = "free"]
           m2 == [m1 EXCEPT ![a].nextFree = first]
           m3 == [m2 EXCEPT ![a].prevFree = HeadNode]
           m4 == [m3 EXCEPT ![HeadNode].nextFree = a]
<1>1. /\ a \in Nodes /\ HeadNode \in Nodes /\ first \in Nodes /\ first \in ChainedFree(m) /\ a # HeadNode
      /\ m \in [Nodes -> Headers]
  <2>1. a \in Nodes /\ HeadNode \in Nodes /\ a # HeadNode
    BY DEF UsedBlocks, Nodes, Addresses, HeadNode
  <2>2. first \in ChainedFree(m) /\ first \in Nodes /\ m \in [Nodes -> Headers]
    BY ChainNodes
  <2> QED
    BY <2>1, <2>2
<1>2. first # a
  BY <1>1 DEF ChainedFree, UsedBlocks, FreeBlocks
<1>3. s = [m4 EXCEPT ![first].prevFree = a]
  BY DEF PushFree
<1> HIDE DEF first
<1>4. m1 \in [Nodes -> Headers]
  BY <1>1 DEF Headers
<1>5. \A c \in Nodes : /\ m1[c].size = m[c].size /\ m1[c].next = m[c].next /\ m1[c].prev = m[c].prev
                       /\ m1[c].nextFree = m[c].nextFree /\ m1[c].prevFree = m[c].prevFree
                       /\ m1[c].type = IF c = a THEN "free" ELSE m[c].type
  BY <1>1 DEF Headers
<1> HIDE DEF m1
<1>6. m2 \in [Nodes -> Headers]
  BY <1>1, <1>4 DEF Headers
<1>7. \A c \in Nodes : /\ m2[c].type = m1[c].type /\ m2[c].size = m1[c].size /\ m2[c].prev = m1[c].prev
                       /\ m2[c].next = m1[c].next /\ m2[c].prevFree = m1[c].prevFree
                       /\ m2[c].nextFree = IF c = a THEN first ELSE m1[c].nextFree
  BY <1>1, <1>4 DEF Headers
<1> HIDE DEF m2
<1>8. m3 \in [Nodes -> Headers]
  BY <1>1, <1>6 DEF Headers
<1>9. \A c \in Nodes : /\ m3[c].type = m2[c].type /\ m3[c].size = m2[c].size /\ m3[c].prev = m2[c].prev
                       /\ m3[c].next = m2[c].next /\ m3[c].nextFree = m2[c].nextFree
                       /\ m3[c].prevFree = IF c = a THEN HeadNode ELSE m2[c].prevFree
  BY <1>1, <1>6 DEF Headers
<1> HIDE DEF m3
<1>10. m4 \in [Nodes -> Headers]
  BY <1>1, <1>8 DEF Headers
<1>11. \A c \in Nodes : /\ m4[c].type = m3[c].type /\ m4[c].size = m3[c].size /\ m4[c].prev = m3[c].prev
                        /\ m4[c].next = m3[c].next /\ m4[c].prevFree = m3[c].prevFree
                        /\ m4[c].nextFree = IF c = HeadNode THEN a ELSE m3[c].nextFree
  BY <1>1, <1>8 DEF Headers
<1> HIDE DEF m4
<1>12. s \in [Nodes -> Headers]
  BY <1>1, <1>3, <1>10 DEF Headers
<1>13. \A c \in Nodes : /\ s[c].type = m4[c].type /\ s[c].size = m4[c].size /\ s[c].prev = m4[c].prev
                        /\ s[c].next = m4[c].next /\ s[c].nextFree = m4[c].nextFree
                        /\ s[c].prevFree = IF c = first THEN a ELSE m4[c].prevFree
  BY <1>1, <1>3, <1>10 DEF Headers
<1> QED
  BY <1>1, <1>2, <1>5, <1>7, <1>9, <1>11, <1>12, <1>13 DEF Pushed, first

\* A block swallows the free one after it.
LEMMA JoinNextEffect ==
  ASSUME NEW m, Chains(m), NEW a \in Blocks(m), NEW b \in FreeBlocks(m), b = m[a].next, a + m[a].size = b
  PROVE  /\ JoinNext(m, a) \in [Nodes -> Headers]
         /\ Absorbed(m, JoinNext(m, a), a, b)
         /\ Unlinked(m, JoinNext(m, a), b)
<1> SUFFICES ASSUME NEW s, s = JoinNext(m, a)
             PROVE  /\ s \in [Nodes -> Headers] /\ Absorbed(m, s, a, b) /\ Unlinked(m, s, b)
  OBVIOUS
<1> DEFINE next == m[b].next
           prev == m[b].prev
           after == m[b].nextFree
           before == m[b].prevFree
           whole == m[a].size + m[b].size
           m1 == [m EXCEPT ![a].size = whole]
           m2 == [m1 EXCEPT ![before].nextFree = after]
           m3 == [m2 EXCEPT ![after].prevFree = before]
           m4 == [m3 EXCEPT ![prev].next = next]
           m5 == [m4 EXCEPT ![next].prev = prev]
<1>0. b \in Blocks(m)
  BY DEF FreeBlocks, Blocks
<1>1. /\ a \in Nodes /\ b \in Nodes /\ next \in Nodes /\ prev \in Nodes /\ after \in Nodes /\ before \in Nodes
      /\ m \in [Nodes -> Headers] /\ NoHeader \in Headers
  <2>1. NoHeader \in Headers
    BY HeapAssumption DEF NoHeader, Headers, Nodes
  <2>2. a \in Chained(m) /\ b \in Chained(m) /\ b \in ChainedFree(m)
    BY <1>0 DEF Chained, ChainedFree
  <2> QED
    BY <2>1, <2>2, ChainNodes
<1>2. whole \in 0 .. Units
  <2>1. /\ a \in Int /\ b \in Int /\ m[a].size \in Int /\ m[b].size \in Int /\ a >= 0
        /\ m[a].size > 0 /\ m[b].size > 0
    BY <1>0, BlockTypes DEF Chains, Covering
  <2>2. b + m[b].size - 1 \in BlockUnits(m, b)
    BY <2>1 DEF BlockUnits
  <2>3. BlockUnits(m, b) \subseteq Given
    BY <1>0 DEF Chains, Covering
  <2>4. b + m[b].size - 1 < Units
    BY <2>2, <2>3, GivenUnits
  <2> QED
    BY <2>1, <2>4, HeapAssumption
<1>3. a # b /\ next # b /\ prev = a
  BY <1>0, Apart, Touching
<1>31. before # b /\ after # b
  BY LinksApart
<1>32. m[b].type = "free"
  BY DEF FreeBlocks
<1>33. s = RemoveFromChains([m EXCEPT ![a].size = whole], b)
  BY <1>32 DEF JoinNext
<1> HIDE DEF whole
<1>34. s = RemoveFromChains(m1, b)
  BY <1>33
<1>35. m1[b] = m[b]
  BY <1>1, <1>3
<1>36. RemoveFromFreeChain(m1, b) = m3
  BY <1>35 DEF RemoveFromFreeChain
<1>5. m1 \in [Nodes -> Headers]
  BY <1>1, <1>2 DEF Headers
<1>6. \A c \in Nodes : /\ m1[c].type = m[c].type /\ m1[c].next = m[c].next /\ m1[c].prev = m[c].prev
                       /\ m1[c].nextFree = m[c].nextFree /\ m1[c].prevFree = m[c].prevFree
                       /\ m1[c].size = IF c = a THEN whole ELSE m[c].size
  BY <1>1, <1>2 DEF Headers
<1> HIDE DEF m1, next, prev, after, before
<1>7. m2 \in [Nodes -> Headers]
  BY <1>1, <1>5 DEF Headers
<1>8. \A c \in Nodes : /\ m2[c].type = m1[c].type /\ m2[c].size = m1[c].size /\ m2[c].prev = m1[c].prev
                       /\ m2[c].next = m1[c].next /\ m2[c].prevFree = m1[c].prevFree
                       /\ m2[c].nextFree = IF c = before THEN after ELSE m1[c].nextFree
  BY <1>1, <1>5 DEF Headers
<1> HIDE DEF m2
<1>9. m3 \in [Nodes -> Headers]
  BY <1>1, <1>7 DEF Headers
<1>10. \A c \in Nodes : /\ m3[c].type = m2[c].type /\ m3[c].size = m2[c].size /\ m3[c].next = m2[c].next
                        /\ m3[c].prev = m2[c].prev /\ m3[c].nextFree = m2[c].nextFree
                        /\ m3[c].prevFree = IF c = after THEN before ELSE m2[c].prevFree
  BY <1>1, <1>7 DEF Headers
<1> HIDE DEF m3
<1>37. m3[b].next = next /\ m3[b].prev = prev
  BY <1>1, <1>6, <1>8, <1>10 DEF next, prev
<1>38. RemoveFromMainChain(m3, b) = m5
  BY <1>37 DEF RemoveFromMainChain
<1>39. s = [m5 EXCEPT ![b] = NoHeader]
  BY <1>34, <1>36, <1>38, Zenon DEF RemoveFromChains
<1>11. m4 \in [Nodes -> Headers]
  BY <1>1, <1>9 DEF Headers
<1>12. \A c \in Nodes : /\ m4[c].type = m3[c].type /\ m4[c].size = m3[c].size /\ m4[c].nextFree = m3[c].nextFree
                        /\ m4[c].prev = m3[c].prev /\ m4[c].prevFree = m3[c].prevFree
                        /\ m4[c].next = IF c = prev THEN next ELSE m3[c].next
  BY <1>1, <1>9 DEF Headers
<1> HIDE DEF m4
<1>13. m5 \in [Nodes -> Headers]
  BY <1>1, <1>11 DEF Headers
<1>14. \A c \in Nodes : /\ m5[c].type = m4[c].type /\ m5[c].size = m4[c].size /\ m5[c].nextFree = m4[c].nextFree
                        /\ m5[c].next = m4[c].next /\ m5[c].prevFree = m4[c].prevFree
                        /\ m5[c].prev = IF c = next THEN prev ELSE m4[c].prev
  BY <1>1, <1>11 DEF Headers
<1> HIDE DEF m5
<1>15. s \in [Nodes -> Headers] /\ s[b] = NoHeader /\ \A c \in Nodes : c # b => s[c] = m5[c]
  BY <1>1, <1>39, <1>13
<1>16. s[b].type = "none"
  BY <1>15 DEF NoHeader
<1>17. Absorbed(m, s, a, b)
  BY <1>1, <1>3, <1>6, <1>8, <1>10, <1>12, <1>14, <1>15, <1>16 DEF Absorbed, whole, next
<1>18. Unlinked(m, s, b)
  BY <1>6, <1>8, <1>10, <1>12, <1>14, <1>15 DEF Unlinked, before, after
<1> QED
  BY <1>15, <1>17, <1>18
LEMMA PushKeeps ==
  ASSUME NEW m, Chains(m), NEW a \in UsedBlocks(m), NEW s, s = PushFree(m, a)
  PROVE  /\ Chains(s) /\ Blocks(s) = Blocks(m)
         /\ FreeBlocks(s) = FreeBlocks(m) \cup {a} /\ UsedBlocks(s) = UsedBlocks(m) \ {a}
         /\ \A c \in Blocks(m) : s[c].size = m[c].size
<1> DEFINE first == m[HeadNode].nextFree
<1>1. s \in [Nodes -> Headers] /\ Pushed(m, s, a)
  BY PushFreeEffect
<1>2. a \in Nodes /\ a \in Addresses /\ a # HeadNode /\ a \in Blocks(m) /\ a \notin FreeBlocks(m) /\ m[a].type = "used"
  BY DEF UsedBlocks, Blocks, FreeBlocks, Nodes, Addresses, HeadNode
<1>3. Chained(m) \subseteq Nodes /\ ChainedFree(m) \subseteq Nodes
  BY ChainNodes
<1>4. s[a].type = "free" /\ \A c \in Nodes \ {a} : s[c].type = m[c].type
  BY <1>1 DEF Pushed
<1>5. \A c \in Nodes : s[c].size = m[c].size /\ s[c].next = m[c].next /\ s[c].prev = m[c].prev
  BY <1>1 DEF Pushed
<1>6. Blocks(s) = Blocks(m)
  BY <1>2, <1>4 DEF Blocks, Nodes
<1>7. FreeBlocks(s) = FreeBlocks(m) \cup {a} /\ UsedBlocks(s) = UsedBlocks(m) \ {a}
  BY <1>2, <1>4 DEF FreeBlocks, UsedBlocks, Nodes
<1>8. \A c \in Chained(m) : s[c].size = m[c].size /\ s[c].next = m[c].next /\ s[c].prev = m[c].prev
  BY <1>3, <1>5
<1>9. Kinds(s)
  <2>1. \A c \in Nodes : s[c].type = "head" <=> c = HeadNode
    BY <1>2, <1>4 DEF Chains, Kinds
  <2>2. s[HeadNode].size = 0
    BY <1>5 DEF Chains, Kinds, Nodes
  <2> QED
    BY <1>1, <2>1, <2>2 DEF Kinds
<1>10. Covering(s)
  <2>1. \A c \in Blocks(m) : BlockUnits(s, c) = BlockUnits(m, c) /\ s[c].size = m[c].size
    BY <1>8 DEF BlockUnits, Chained
  <2> QED
    BY <2>1, <1>6 DEF Chains, Covering
<1>11. MainChain(s)
  BY <1>6, <1>8, MainChainStays DEF Chains
<1>12. \A c \in ChainedFree(m) : /\ m[c].nextFree \in ChainedFree(m) /\ m[m[c].nextFree].prevFree = c
                                 /\ m[c].prevFree \in ChainedFree(m) /\ m[m[c].prevFree].nextFree = c
  BY DEF Chains, Links
<1>13. ChainedFree(s) = ChainedFree(m) \cup {a} /\ a \notin ChainedFree(m) /\ HeadNode \in ChainedFree(m)
  BY <1>2, <1>7 DEF ChainedFree
<1>14. /\ s[a].nextFree = first /\ s[a].prevFree = HeadNode
       /\ s[HeadNode].nextFree = a /\ s[first].prevFree = a
       /\ \A c \in ChainedFree(m) : /\ c # HeadNode => s[c].nextFree = m[c].nextFree
                                    /\ c # first => s[c].prevFree = m[c].prevFree
  BY <1>1, <1>3, <1>13 DEF Pushed
<1>15. Links(s)
  <2> SUFFICES ASSUME NEW c \in ChainedFree(s)
               PROVE  /\ s[c].nextFree \in ChainedFree(s) /\ s[s[c].nextFree].prevFree = c
                      /\ s[c].prevFree \in ChainedFree(s) /\ s[s[c].prevFree].nextFree = c
    BY DEF Links
  <2>1. CASE c = a
    BY <2>1, <1>12, <1>13, <1>14
  <2>2. CASE c # a
    <3>1. c \in ChainedFree(m)
      BY <2>2, <1>13
    <3>2. s[c].nextFree \in ChainedFree(s) /\ s[s[c].nextFree].prevFree = c
      BY <3>1, <1>12, <1>13, <1>14
    <3>3. s[c].prevFree \in ChainedFree(s) /\ s[s[c].prevFree].nextFree = c
      BY <3>1, <1>12, <1>13, <1>14
    <3> QED
      BY <3>2, <3>3
  <2> QED
    BY <2>1, <2>2
<1>16. ASSUME NEW part \in SUBSET FreeBlocks(s), Round(s, part)
       PROVE  part = FreeBlocks(s)
  <2> DEFINE old == part \ {a}
  <2>1. old \subseteq FreeBlocks(m)
    BY <1>7
  <2>2. a \in part
    BY <1>16, <1>2, <1>14 DEF Round
  <2>3. Round(m, old)
    <3> SUFFICES ASSUME NEW c \in old \cup {HeadNode} PROVE m[c].nextFree \in old \cup {HeadNode}
      BY DEF Round
    <3>1. c \in ChainedFree(m) /\ m[c].nextFree \in ChainedFree(m)
      BY <2>1, <1>12 DEF ChainedFree
    <3>2. CASE c = HeadNode
      <4>1. s[a].nextFree \in part \cup {HeadNode}
        BY <2>2, <1>16 DEF Round
      <4> QED
        BY <3>1, <3>2, <4>1, <1>13, <1>14
    <3>3. CASE c # HeadNode
      <4>1. s[c].nextFree \in part \cup {HeadNode}
        BY <3>3, <1>16 DEF Round
      <4> QED
        BY <3>1, <3>3, <4>1, <1>13, <1>14
    <3> QED
      BY <3>2, <3>3
  <2>4. old = FreeBlocks(m)
    BY <2>1, <2>3 DEF Chains, OneRound
  <2> QED
    BY <2>2, <2>4, <1>7
<1> QED
  BY <1>6, <1>7, <1>8, <1>9, <1>10, <1>11, <1>15, <1>16 DEF Chains, OneRound, Chained

LEMMA JoinPreviousKeeps ==
  ASSUME NEW m, Chains(m), NEW b \in UsedBlocks(m), NEW a \in FreeBlocks(m), a = m[b].prev, a + m[a].size = b,
         NEW s, s = JoinPrevious(m, b)
  PROVE  /\ Chains(s) /\ Blocks(s) = Blocks(m) \ {b}
         /\ FreeBlocks(s) = FreeBlocks(m) /\ UsedBlocks(s) = UsedBlocks(m) \ {b}
         /\ s[a].size = m[a].size + m[b].size
         /\ \A c \in Blocks(m) \ {a, b} : s[c].size = m[c].size
<1>1. a \in Blocks(m) /\ b \in Blocks(m) /\ b \notin FreeBlocks(m)
  BY DEF Blocks, FreeBlocks, UsedBlocks
<1>2. /\ s \in [Nodes -> Headers] /\ Absorbed(m, s, a, b)
      /\ \A c \in Nodes \ {b} : SameLinks(m, s, c)
  BY <1>1, JoinPreviousEffect
<1>3. Kinds(s) /\ Covering(s) /\ MainChain(s) /\ Blocks(s) = Blocks(m) \ {b}
  BY <1>1, <1>2, AbsorbKeeps
<1>4. FreeBlocks(s) = FreeBlocks(m) /\ UsedBlocks(s) = UsedBlocks(m) \ {b}
  BY <1>1, <1>2 DEF Absorbed, FreeBlocks, UsedBlocks, Nodes
<1>5. \A c \in ChainedFree(m) : c \in Nodes \ {b}
  <2>1. b \notin ChainedFree(m)
    BY <1>1, Apart DEF ChainedFree
  <2> QED
    BY <2>1, ChainNodes
<1>6. Links(s) /\ OneRound(s)
  BY <1>2, <1>4, <1>5, FreeChainStays DEF Chains
<1>7. s[a].size = m[a].size + m[b].size /\ \A c \in Blocks(m) \ {a, b} : s[c].size = m[c].size
  BY <1>2 DEF Absorbed, Blocks, Nodes
<1> QED
  BY <1>3, <1>4, <1>6, <1>7 DEF Chains

LEMMA JoinNextKeeps ==
  ASSUME NEW m, Chains(m), NEW a \in FreeBlocks(m), NEW b \in FreeBlocks(m), b = m[a].next, a + m[a].size = b,
         NEW s, s = JoinNext(m, a)
  PROVE  /\ Chains(s) /\ Blocks(s) = Blocks(m) \ {b}
         /\ FreeBlocks(s) = FreeBlocks(m) \ {b} /\ UsedBlocks(s) = UsedBlocks(m)
         /\ s[a].size = m[a].size + m[b].size
         /\ \A c \in Blocks(m) \ {a, b} : s[c].size = m[c].size
<1>1. a \in Blocks(m) /\ b \in Blocks(m) /\ b \notin UsedBlocks(m)
  BY DEF Blocks, FreeBlocks, UsedBlocks
<1>2. s \in [Nodes -> Headers] /\ Absorbed(m, s, a, b) /\ Unlinked(m, s, b)
  BY <1>1, JoinNextEffect
<1>3. Kinds(s) /\ Covering(s) /\ MainChain(s) /\ Blocks(s) = Blocks(m) \ {b}
  BY <1>1, <1>2, AbsorbKeeps
<1>4. FreeBlocks(s) = FreeBlocks(m) \ {b} /\ UsedBlocks(s) = UsedBlocks(m)
  BY <1>1, <1>2 DEF Absorbed, FreeBlocks, UsedBlocks, Nodes
<1>6. Links(s) /\ OneRound(s)
  BY <1>2, <1>4, UnlinkKeeps
<1>7. s[a].size = m[a].size + m[b].size /\ \A c \in Blocks(m) \ {a, b} : s[c].size = m[c].size
  BY <1>2 DEF Absorbed, Blocks, Nodes
<1> QED
  BY <1>3, <1>4, <1>6, <1>7 DEF Chains
\* The block free() is called for, joined with the free one before it or on its own: only
\* it can touch the free block that follows.
MergedBut(m, a) == \A c, d \in FreeBlocks(m) : c + m[c].size = d => c = a

LEMMA FirstHalf ==
  ASSUME NEW m, HeapInv(m), NEW a \in UsedBlocks(m),
         NEW before, before = m[a].prev,
         NEW joins, joins <=> (m[before].type = "free" /\ before + m[before].size = a),
         NEW s, s = (IF joins THEN JoinPrevious(m, a) ELSE PushFree(m, a)),
         NEW p, p = (IF joins THEN before ELSE a)
  PROVE  /\ Chains(s) /\ p \in FreeBlocks(s) /\ MergedBut(s, p)
         /\ UsedBlocks(s) = UsedBlocks(m) \ {a}
         /\ \A c \in UsedBlocks(m) \ {a} : s[c].size = m[c].size
<1>1. a \in Blocks(m) /\ a \in Chained(m) /\ Chains(m) /\ Merged(m) /\ a \notin FreeBlocks(m)
  BY DEF UsedBlocks, Blocks, Chained, HeapInv, FreeBlocks
<1>2. \A c \in FreeBlocks(m) : c \in Blocks(m)
  BY DEF FreeBlocks, Blocks
<1>3. \A c \in UsedBlocks(m) : c \in Blocks(m) /\ c \notin FreeBlocks(m)
  BY DEF FreeBlocks, UsedBlocks, Blocks
<1>4. \A c, d \in FreeBlocks(m) : c + m[c].size # d
  BY <1>1 DEF Merged
<1>5. CASE joins
  <2>1. before \in FreeBlocks(m)
    <3>1. before \in Nodes /\ m[before].type = "free"
      BY <1>1, <1>5, ChainNodes
    <3>2. before # HeadNode
      BY <3>1, <1>1 DEF Chains, Kinds
    <3> QED
      BY <3>1, <3>2 DEF FreeBlocks, Nodes
  <2>2. before + m[before].size = a /\ s = JoinPrevious(m, a) /\ p = before
    BY <1>5
  <2>3. /\ Chains(s) /\ Blocks(s) = Blocks(m) \ {a}
        /\ FreeBlocks(s) = FreeBlocks(m) /\ UsedBlocks(s) = UsedBlocks(m) \ {a}
        /\ \A c \in Blocks(m) \ {before, a} : s[c].size = m[c].size
    BY <1>1, <2>1, <2>2, JoinPreviousKeeps
  <2>4. MergedBut(s, p)
    BY <1>2, <1>3, <1>1, <1>4, <2>2, <2>3 DEF MergedBut
  <2>5. \A c \in UsedBlocks(m) \ {a} : s[c].size = m[c].size
    BY <1>3, <2>1, <2>3
  <2> QED
    BY <2>1, <2>2, <2>3, <2>4, <2>5
<1>6. CASE ~joins
  <2>1. s = PushFree(m, a) /\ p = a
    BY <1>6
  <2>2. /\ Chains(s) /\ Blocks(s) = Blocks(m)
        /\ FreeBlocks(s) = FreeBlocks(m) \cup {a} /\ UsedBlocks(s) = UsedBlocks(m) \ {a}
        /\ \A c \in Blocks(m) : s[c].size = m[c].size
    BY <1>1, <2>1, PushKeeps
  <2>3. ASSUME NEW c \in FreeBlocks(m), c + m[c].size = a PROVE FALSE
    <3>1. m[a].prev = c
      BY <1>1, <1>2, <2>3, Touching
    <3> QED
      BY <3>1, <2>3, <1>6 DEF FreeBlocks
  <2>4. MergedBut(s, p)
    <3> SUFFICES ASSUME NEW c \in FreeBlocks(s), NEW d \in FreeBlocks(s), c + s[c].size = d, c # a PROVE FALSE
      BY <2>1 DEF MergedBut
    <3>1. c \in FreeBlocks(m) /\ s[c].size = m[c].size
      BY <1>2, <2>2
    <3> QED
      BY <3>1, <2>2, <2>3, <1>4
  <2> QED
    BY <2>1, <2>2, <2>4, <1>3
<1> QED
  BY <1>5, <1>6

LEMMA SecondHalf ==
  ASSUME NEW m, Chains(m), NEW p \in FreeBlocks(m), MergedBut(m, p), NEW s, s = JoinNext(m, p)
  PROVE  /\ HeapInv(s) /\ UsedBlocks(s) = UsedBlocks(m)
         /\ \A c \in UsedBlocks(m) : s[c].size = m[c].size
<1> DEFINE next == m[p].next
<1>1. p \in Blocks(m) /\ p \in Chained(m)
  BY DEF FreeBlocks, Blocks, Chained
<1>2. \A c \in FreeBlocks(m) : c \in Blocks(m)
  BY DEF FreeBlocks, Blocks
<1>3. \A c \in UsedBlocks(m) : c \in Blocks(m) /\ c \notin FreeBlocks(m)
  BY DEF FreeBlocks, UsedBlocks, Blocks
<1>4. next \in Nodes
  BY <1>1, ChainNodes
<1>5. CASE m[next].type = "free" /\ p + m[p].size = next
  <2>1. next # HeadNode
    BY <1>5, <1>4 DEF Chains, Kinds
  <2>2. next \in FreeBlocks(m)
    BY <2>1, <1>4, <1>5 DEF FreeBlocks, Nodes
  <2>3. /\ Chains(s) /\ Blocks(s) = Blocks(m) \ {next}
        /\ FreeBlocks(s) = FreeBlocks(m) \ {next} /\ UsedBlocks(s) = UsedBlocks(m)
        /\ s[p].size = m[p].size + m[next].size
        /\ \A c \in Blocks(m) \ {p, next} : s[c].size = m[c].size
    BY <1>5, <2>2, JoinNextKeeps
  <2>4. Merged(s)
    <3> SUFFICES ASSUME NEW c \in FreeBlocks(s), NEW d \in FreeBlocks(s), c + s[c].size = d PROVE FALSE
      BY DEF Merged
    <3>1. c \in FreeBlocks(m) /\ d \in FreeBlocks(m) /\ c # next /\ d # next
      BY <2>3
    <3>2. CASE c = p
      <4>1. p \in Int /\ m[p].size \in Int /\ m[next].size \in Int
        BY <1>1, <1>2, <2>2, BlockTypes DEF Chains
      <4>2. next + m[next].size = d
        BY <4>1, <3>2, <2>3, <1>5
      <4>3. next # p
        BY <1>1, Apart
      <4> QED
        BY <4>2, <4>3, <3>1, <2>2 DEF MergedBut
    <3>3. CASE c # p
      BY <3>1, <3>3, <1>2, <2>3 DEF MergedBut
    <3> QED
      BY <3>2, <3>3
  <2>5. \A c \in UsedBlocks(m) : s[c].size = m[c].size
    BY <1>3, <2>2, <2>3
  <2> QED
    BY <2>3, <2>4, <2>5 DEF HeapInv
<1>6. CASE ~(m[next].type = "free" /\ p + m[p].size = next)
  <2>1. s = m
    BY <1>6, Zenon DEF JoinNext
  <2>2. Merged(m)
    <3> SUFFICES ASSUME NEW c \in FreeBlocks(m), NEW d \in FreeBlocks(m), c + m[c].size = d PROVE FALSE
      BY DEF Merged
    <3>1. c = p
      BY DEF MergedBut
    <3>2. m[c].next = d
      BY <1>2, Touching
    <3> QED
      BY <3>1, <3>2, <1>6 DEF FreeBlocks
  <2> QED
    BY <2>1, <2>2 DEF HeapInv
<1> QED
  BY <1>5, <1>6

\* free() gives back the block and leaves the others as they are.
LEMMA FreeBlockKeeps ==
  ASSUME NEW m, HeapInv(m), NEW a \in UsedBlocks(m)
  PROVE  /\ HeapInv(FreeBlock(m, a))
         /\ UsedBlocks(FreeBlock(m, a)) = UsedBlocks(m) \ {a}
         /\ \A c \in UsedBlocks(m) \ {a} : FreeBlock(m, a)[c].size = m[c].size
<1> DEFINE before == m[a].prev
           joins == m[before].type = "free" /\ before + m[before].size = a
           s == IF joins THEN JoinPrevious(m, a) ELSE PushFree(m, a)
           p == IF joins THEN before ELSE a
<1>1. FreeBlock(m, a) = JoinNext(s, p)
  BY Zenon DEF FreeBlock
<1>2. /\ Chains(s) /\ p \in FreeBlocks(s) /\ MergedBut(s, p)
      /\ UsedBlocks(s) = UsedBlocks(m) \ {a}
      /\ \A c \in UsedBlocks(m) \ {a} : s[c].size = m[c].size
  <2>1. PICK b : b = before
    OBVIOUS
  <2>2. PICK j : j = joins
    OBVIOUS
  <2>3. j <=> (m[b].type = "free" /\ b + m[b].size = a)
    BY <2>1, <2>2
  <2>4. s = (IF j THEN JoinPrevious(m, a) ELSE PushFree(m, a)) /\ p = (IF j THEN b ELSE a) /\ b = m[a].prev
    BY <2>1, <2>2, Zenon
  <2> HIDE DEF s, p, joins, before
  <2> QED
    BY <2>3, <2>4, FirstHalf
<1> HIDE DEF s, p
<1>3. /\ HeapInv(JoinNext(s, p)) /\ UsedBlocks(JoinNext(s, p)) = UsedBlocks(s)
      /\ \A c \in UsedBlocks(s) : JoinNext(s, p)[c].size = s[c].size
  BY <1>2, SecondHalf
<1> QED
  BY <1>1, <1>2, <1>3
(***************************************************************************)
(* malloc()'s search.                                                      *)
(***************************************************************************)
\* A walk that stops somewhere, or goes round for ever, has a function that says where it
\* stops.
LEMMA WalkExists ==
  ASSUME NEW S, NEW stops \in SUBSET S, NEW next \in [S -> S]
  PROVE  \E f : f = [b \in S |-> IF b \in stops THEN b ELSE f[next[b]]]
<1> DEFINE Onward(X) == \A d \in X : d \notin stops => next[d] \in X
           Reached(b) == {c \in S : \A X \in SUBSET S : b \in X /\ Onward(X) => c \in X}
           StopsAt(b) == {c \in Reached(b) : c \in stops}
           f == [b \in S |-> CHOOSE c : c \in StopsAt(b)]
<1>1. ASSUME NEW b \in S PROVE b \in Reached(b) /\ Onward(Reached(b))
  <2>1. b \in Reached(b)
    OBVIOUS
  <2>2. ASSUME NEW d \in Reached(b), d \notin stops PROVE next[d] \in Reached(b)
    <3>1. d \in S /\ next[d] \in S
      OBVIOUS
    <3>2. ASSUME NEW X \in SUBSET S, b \in X, Onward(X) PROVE next[d] \in X
      <4>1. d \in X
        BY <3>2
      <4> QED
        BY <4>1, <3>2, <2>2
    <3> QED
      BY <3>1, <3>2
  <2> QED
    BY <2>1, <2>2
<1>2. ASSUME NEW b \in S PROVE f[b] = IF b \in stops THEN b ELSE f[next[b]]
  <2>1. CASE b \in stops
    <3>1. Onward({b})
      BY <2>1
    <3>2. Reached(b) = {b}
      <4>1. {b} \in SUBSET S /\ b \in {b}
        OBVIOUS
      <4>2. \A c \in Reached(b) : c \in {b}
        BY <3>1, <4>1
      <4> QED
        BY <4>2, <1>1
    <3>3. StopsAt(b) = {b}
      BY <3>2, <2>1
    <3> QED
      BY <3>3, <2>1
  <2>2. CASE b \notin stops
    <3> DEFINE n == next[b]
    <3>1. n \in S
      OBVIOUS
    <3>2. Reached(n) \subseteq Reached(b)
      BY <1>1, <2>2
    <3>3. Onward({b} \cup Reached(n))
      BY <1>1, <3>1
    <3>4. Reached(b) \subseteq {b} \cup Reached(n)
      <4>1. {b} \cup Reached(n) \in SUBSET S
        OBVIOUS
      <4> QED
        BY <4>1, <3>3
    <3>5. StopsAt(b) = StopsAt(n)
      BY <3>2, <3>4, <2>2
    <3> HIDE DEF StopsAt
    <3>6. f[b] = f[n]
      BY <3>1, <3>5
    <3> QED
      BY <3>6, <2>2
  <2> QED
    BY <2>1, <2>2
<1> HIDE DEF f
<1>3. f = [b \in S |-> IF b \in stops THEN b ELSE f[next[b]]]
  <2>1. f = [b \in S |-> f[b]]
    BY DEF f
  <2> HIDE DEF f
  <2>2. [b \in S |-> f[b]] = [b \in S |-> IF b \in stops THEN b ELSE f[next[b]]]
    BY <1>2
  <2> QED
    BY <2>1, <2>2
<1> QED
  BY <1>3

LEMMA FirstFitWalk ==
  ASSUME NEW m, m \in [Nodes -> Headers], NEW n
  PROVE  \E scan : /\ \A b \in Nodes : scan[b] = IF m[b].type = "head" \/ m[b].size >= n THEN b ELSE scan[m[b].nextFree]
                   /\ FirstFit(m, n) = scan[m[HeadNode].nextFree]
<1> DEFINE stops == {b \in Nodes : m[b].type = "head" \/ m[b].size >= n}
           next == [b \in Nodes |-> m[b].nextFree]
           scan == CHOOSE f : f = [b \in Nodes |-> IF m[b].type = "head" \/ m[b].size >= n THEN b ELSE f[m[b].nextFree]]
<1>1. next \in [Nodes -> Nodes]
  BY DEF Headers
<1>2. PICK f : f = [b \in Nodes |-> IF b \in stops THEN b ELSE f[next[b]]]
  <2> HIDE DEF stops, next
  <2>1. stops \in SUBSET Nodes
    BY DEF stops
  <2> QED
    BY <1>1, <2>1, WalkExists
<1>3. f = [b \in Nodes |-> IF m[b].type = "head" \/ m[b].size >= n THEN b ELSE f[m[b].nextFree]]
  BY <1>2
<1>4. scan = [b \in Nodes |-> IF m[b].type = "head" \/ m[b].size >= n THEN b ELSE scan[m[b].nextFree]]
  BY <1>3, Zenon
<1>5. FirstFit(m, n) = scan[m[HeadNode].nextFree]
  BY Zenon DEF FirstFit
<1> HIDE DEF scan
<1>6. \A b \in Nodes : scan[b] = IF m[b].type = "head" \/ m[b].size >= n THEN b ELSE scan[m[b].nextFree]
  BY <1>4, Zenon
<1> QED
  BY <1>5, <1>6

\* The search finds a free block that is long enough, or there is none.
LEMMA FirstFitFinds ==
  ASSUME NEW m, Chains(m), NEW n \in Nat, n > 0, NEW b, b = FirstFit(m, n)
  PROVE  \/ b \in FreeBlocks(m) /\ m[b].size >= n
         \/ b = HeadNode /\ \A c \in FreeBlocks(m) : m[c].size < n
<1>1. PICK scan : /\ \A c \in Nodes : scan[c] = IF m[c].type = "head" \/ m[c].size >= n THEN c ELSE scan[m[c].nextFree]
                  /\ FirstFit(m, n) = scan[m[HeadNode].nextFree]
  BY FirstFitWalk, ChainNodes
<1> DEFINE first == m[HeadNode].nextFree
<1>2. /\ ChainedFree(m) = FreeBlocks(m) \cup {HeadNode} /\ HeadNode \in ChainedFree(m) /\ HeadNode \notin FreeBlocks(m)
      /\ ChainedFree(m) \subseteq Nodes
      /\ \A c \in ChainedFree(m) : /\ m[c].nextFree \in ChainedFree(m) /\ m[c].prevFree \in ChainedFree(m)
                                   /\ m[m[c].prevFree].nextFree = c
  BY ChainNodes DEF ChainedFree, FreeBlocks, Addresses, HeadNode, Chains, Links
<1>3. m[HeadNode].type = "head" /\ \A c \in FreeBlocks(m) : m[c].type # "head" /\ m[c].size \in Int
  BY <1>2, BlockTypes DEF Chains, Kinds, FreeBlocks, Blocks
<1>4. /\ scan[HeadNode] = HeadNode
      /\ \A c \in FreeBlocks(m) : /\ m[c].size >= n => scan[c] = c
                                  /\ m[c].size < n => scan[c] = scan[m[c].nextFree]
  BY <1>1, <1>2, <1>3
<1> DEFINE good == {c \in FreeBlocks(m) : m[c].size >= n} \cup {HeadNode}
           bad == {c \in FreeBlocks(m) : scan[c] \notin good}
           none == {c \in FreeBlocks(m) : scan[c] = HeadNode}
<1>5. b = scan[first] /\ first \in ChainedFree(m)
  BY <1>1, <1>2
<1>6. scan[first] \in good
  <2> SUFFICES ASSUME scan[first] \notin good PROVE FALSE
    OBVIOUS
  <2>1. first \in bad
    BY <1>2, <1>4, <1>5
  <2>2. \A c \in bad : m[c].nextFree \in bad
    BY <1>2, <1>3, <1>4
  <2>3. Round(m, bad)
    BY <2>1, <2>2 DEF Round
  <2>4. bad = FreeBlocks(m)
    BY <2>3 DEF Chains, OneRound
  <2>5. m[m[HeadNode].prevFree].nextFree = HeadNode /\ m[HeadNode].prevFree \in ChainedFree(m)
    BY <1>2
  <2>6. CASE m[HeadNode].prevFree = HeadNode
    BY <2>1, <2>5, <2>6, <1>2
  <2>7. CASE m[HeadNode].prevFree \in FreeBlocks(m)
    BY <2>2, <2>4, <2>5, <2>7, <1>2
  <2> QED
    BY <2>5, <2>6, <2>7, <1>2
<1>7. CASE scan[first] = HeadNode
  <2>1. \A c \in FreeBlocks(m) : scan[c] = HeadNode => m[c].size < n
    BY <1>2, <1>3, <1>4
  <2>2. Round(m, none)
    <3>1. first \in none \cup {HeadNode}
      BY <1>2, <1>5, <1>7
    <3>2. ASSUME NEW c \in none PROVE m[c].nextFree \in none \cup {HeadNode}
      BY <2>1, <1>2, <1>4
    <3> QED
      BY <3>1, <3>2 DEF Round
  <2>3. none = FreeBlocks(m)
    BY <2>2 DEF Chains, OneRound
  <2> QED
    BY <2>1, <2>3, <1>5, <1>7
<1>8. CASE scan[first] # HeadNode
  BY <1>5, <1>6, <1>8
<1> QED
  BY <1>7, <1>8

\* What malloc takes out of a free block is one used block of the length asked for or a unit
\* more, whether or not the block was split.
LEMMA MallocFromBlockKeeps ==
  ASSUME NEW m, HeapInv(m), NEW n \in Nat, n > 0, NEW b \in FreeBlocks(m), m[b].size >= n,
         NEW s, s = MallocFromBlock(m, b, n)
  PROVE  /\ HeapInv(s) /\ UsedBlocks(s) = UsedBlocks(m) \cup {b} /\ s[b].size \in {n, n + 1}
         /\ \A a \in UsedBlocks(m) : s[a].size = m[a].size
<1>1. Chains(m) /\ Merged(m)
  BY DEF HeapInv
<1>2. CASE m[b].size >= n + 2
  <2>1. s = Split(m, b, n)
    BY <1>2 DEF MallocFromBlock
  <2> QED
    BY <1>1, <1>2, <2>1, SplitKeeps DEF HeapInv
<1>3. CASE ~ (m[b].size >= n + 2)
  <2>2. /\ Chains(s) /\ Merged(s) /\ UsedBlocks(s) = UsedBlocks(m) \cup {b}
        /\ \A a \in Blocks(m) : s[a].size = m[a].size
    BY <1>1, <1>3, TakeKeeps
  <2>3. b \in Blocks(m) /\ UsedBlocks(m) \subseteq Blocks(m)
    BY DEF FreeBlocks, UsedBlocks, Blocks
  <2>4. m[b].size \in Int
    BY <1>1, <2>3, BlockTypes DEF Chains
  <2> QED
    BY <1>3, <2>2, <2>3, <2>4 DEF HeapInv
<1> QED
  BY <1>2, <1>3

LEMMA UnitsForTypes ==
  /\ \A bytes \in Nat : UnitsFor(bytes) \in Nat
  /\ \A bytes \in Nat : bytes > 0 => UnitsFor(bytes) > 0
BY DEF UnitsFor, HeaderBytes

\* malloc() hands out a free block of the length asked for or a unit more, and keeps the heap
\* in order; where it hands out nothing, no free block is long enough and nothing has changed.
LEMMA MallocKeeps ==
  ASSUME NEW m, HeapInv(m), NEW bytes \in Nat, NEW got, got = Malloc(m, bytes)
  PROVE  /\ HeapInv(got.heap)
         /\ \/ /\ got.block = Null /\ got.heap = m
               /\ bytes = 0 \/ \A c \in FreeBlocks(m) : m[c].size < UnitsFor(bytes)
            \/ /\ bytes > 0 /\ got.block # Null /\ got.block \in FreeBlocks(m)
               /\ UsedBlocks(got.heap) = UsedBlocks(m) \cup {got.block}
               /\ got.heap[got.block].size \in {UnitsFor(bytes), UnitsFor(bytes) + 1}
               /\ \A a \in UsedBlocks(m) : got.heap[a].size = m[a].size
<1> DEFINE n == UnitsFor(bytes)
           b == FirstFit(m, n)
<1>1. got = IF bytes = 0 \/ b = HeadNode THEN [heap |-> m, block |-> Null]
            ELSE [heap |-> MallocFromBlock(m, b, n), block |-> b]
  BY DEF Malloc
<1>2. Chains(m)
  BY DEF HeapInv
<1>5. n = UnitsFor(bytes)
  OBVIOUS
<1> HIDE DEF b, n
<1>3. CASE bytes = 0
  BY <1>1, <1>3
<1>4. CASE bytes > 0
  <2>1. n \in Nat /\ n > 0
    BY <1>4, <1>5, UnitsForTypes
  <2>2. \/ b \in FreeBlocks(m) /\ m[b].size >= n
        \/ b = HeadNode /\ \A c \in FreeBlocks(m) : m[c].size < n
    BY <1>2, <2>1, FirstFitFinds DEF b
  <2>3. CASE b = HeadNode /\ \A c \in FreeBlocks(m) : m[c].size < n
    BY <1>1, <1>5, <2>3
  <2>4. CASE b \in FreeBlocks(m) /\ m[b].size >= n
    <3>1. b # HeadNode /\ b # Null
      BY <2>4 DEF FreeBlocks, Addresses, HeadNode, Null
    <3>2. got.heap = MallocFromBlock(m, b, n) /\ got.block = b
      BY <1>1, <1>4, <3>1
    <3> QED
      BY <3>1, <3>2, <1>4, <1>5, <2>1, <2>4, MallocFromBlockKeeps
  <2> QED
    BY <2>2, <2>3, <2>4
<1> QED
  BY <1>3, <1>4

(***************************************************************************)
(* _premain: the memory above the program becomes one free block.          *)
(***************************************************************************)
\* What is left of the memory above the program when it is rounded down to whole chunks.
LEMMA GivenIsLong == RoundDown(Units - End) \in Nat /\ RoundDown(Units - End) > 0 /\ RoundDown(Units - End) <= Units - End
<1> DEFINE n == Units - End
           c == ChunkUnits
<1>1. n \in Nat /\ c \in Nat /\ c > 0 /\ n >= c
  BY HeapAssumption, SyscallsAssumption
<1> HIDE DEF n, c
<1>2. n % c \in 0 .. c - 1
  BY <1>1
<1>3. n - (n % c) \in Nat /\ n - (n % c) > 0 /\ n - (n % c) <= n
  BY <1>1, <1>2
<1> QED
  BY <1>3 DEF RoundDown, n, c

LEMMA EmptyTypes ==
  /\ EmptyMemory \in [Nodes -> Headers]
  /\ HeadNode \in Nodes /\ EmptyMemory[HeadNode].type = "head" /\ EmptyMemory[HeadNode].size = 0
  /\ \A a \in Nodes : /\ a # HeadNode => EmptyMemory[a].type = "none" /\ EmptyMemory[a].size = 0
                      /\ EmptyMemory[a].next = HeadNode /\ EmptyMemory[a].prev = HeadNode
                      /\ EmptyMemory[a].nextFree = HeadNode /\ EmptyMemory[a].prevFree = HeadNode
  /\ End \in Addresses /\ End \in Nodes /\ End # HeadNode
<1>1. 0 \in 0 .. Units
  BY HeapAssumption
<1>2. HeadNode \in Nodes
  BY DEF Nodes
<1>3. End \in Addresses /\ End \in Nodes /\ End # HeadNode
  BY HeapAssumption, SyscallsAssumption DEF Addresses, Nodes, HeadNode
<1>4. NoHeader \in Headers
  BY <1>1, <1>2 DEF NoHeader, Headers
<1>5. [NoHeader EXCEPT !.type = "head"] \in Headers
  BY <1>1, <1>2 DEF NoHeader, Headers
<1>6. EmptyMemory \in [Nodes -> Headers]
  BY <1>4, <1>5 DEF EmptyMemory
<1> QED
  BY <1>2, <1>3, <1>6 DEF EmptyMemory, NoHeader

\* In an empty chain the search stops where it begins, at the head node.
LEMMA EmptyPredecessor == Predecessor(EmptyMemory, End) = HeadNode
<1> DEFINE m == EmptyMemory
           stops == {b \in Nodes : m[b].type = "head" \/ b < End}
           prev == [b \in Nodes |-> m[b].prev]
           back == CHOOSE f : f = [b \in Nodes |-> IF m[b].type = "head" \/ b < End THEN b ELSE f[m[b].prev]]
<1> HIDE DEF m
<1>1. m \in [Nodes -> Headers] /\ HeadNode \in Nodes /\ m[HeadNode].type = "head" /\ m[HeadNode].prev = HeadNode
  BY EmptyTypes DEF m
<1>2. prev \in [Nodes -> Nodes]
  BY <1>1 DEF Headers
<1>3. PICK f : f = [b \in Nodes |-> IF b \in stops THEN b ELSE f[prev[b]]]
  <2> HIDE DEF stops, prev
  <2>1. stops \in SUBSET Nodes
    BY DEF stops
  <2> QED
    BY <1>2, <2>1, WalkExists
<1>4. f = [b \in Nodes |-> IF m[b].type = "head" \/ b < End THEN b ELSE f[m[b].prev]]
  BY <1>3
<1>5. back = [b \in Nodes |-> IF m[b].type = "head" \/ b < End THEN b ELSE back[m[b].prev]]
  BY <1>4, Zenon
<1>6. Predecessor(m, End) = back[m[HeadNode].prev]
  BY Zenon DEF Predecessor
<1> HIDE DEF back
<1>7. back[HeadNode] = HeadNode
  BY <1>1, <1>5, Zenon
<1> QED
  BY <1>1, <1>6, <1>7 DEF m

\* What a header says.
Reads(h, type, size, next, prev, nextFree, prevFree) ==
  /\ h.type = type /\ h.size = size /\ h.next = next /\ h.prev = prev
  /\ h.nextFree = nextFree /\ h.prevFree = prevFree

\* A heap of one free block.
IsLoneBlock(m, a, n) ==
  /\ m \in [Nodes -> Headers]
  /\ Reads(m[a], "free", n, HeadNode, HeadNode, HeadNode, HeadNode)
  /\ Reads(m[HeadNode], "head", 0, a, a, a, a)
  /\ \A c \in Nodes : c # a /\ c # HeadNode => m[c].type = "none"

LEMMA LoneBlockSound ==
  ASSUME NEW m, NEW n, n = RoundDown(Units - End), IsLoneBlock(m, End, n)
  PROVE  HeapInv(m) /\ UsedBlocks(m) = {}
<1>1. /\ End \in Addresses /\ End \in Nodes /\ HeadNode \in Nodes /\ HeadNode = -1
      /\ HeadNode \notin Addresses /\ Nodes = Addresses \cup {HeadNode} /\ End \in Int
  BY EmptyTypes DEF Addresses, HeadNode, Nodes
<1>2. /\ \A a \in Nodes : /\ a = End => m[a].type = "free"
                          /\ a = HeadNode => m[a].type = "head"
                          /\ a # End /\ a # HeadNode => m[a].type = "none"
      /\ m[End].size = n /\ m[End].next = HeadNode /\ m[End].prev = HeadNode
      /\ m[End].nextFree = HeadNode /\ m[End].prevFree = HeadNode
      /\ m[HeadNode].size = 0 /\ m[HeadNode].next = End /\ m[HeadNode].prev = End
      /\ m[HeadNode].nextFree = End /\ m[HeadNode].prevFree = End
  BY <1>1 DEF IsLoneBlock, Reads
<1>3. Blocks(m) = {End} /\ FreeBlocks(m) = {End} /\ UsedBlocks(m) = {}
  <2>1. \A a \in Addresses : a \in Nodes /\ a # HeadNode
    BY <1>1
  <2>2. \A a \in Addresses : (a = End => m[a].type = "free") /\ (a # End => m[a].type = "none")
    BY <2>1, <1>2
  <2>3. FreeBlocks(m) = {End}
    BY <2>2, <1>1 DEF FreeBlocks
  <2>4. UsedBlocks(m) = {}
    BY <2>2 DEF UsedBlocks
  <2>5. Blocks(m) = {End}
    BY <2>2, <1>1 DEF Blocks
  <2> QED
    BY <2>3, <2>4, <2>5
<1>4. Chained(m) = {End, HeadNode} /\ ChainedFree(m) = {End, HeadNode}
  BY <1>3 DEF Chained, ChainedFree
<1>5. Kinds(m)
  BY <1>1, <1>2 DEF Kinds, IsLoneBlock
<1>6. Covering(m)
  <2>1. BlockUnits(m, End) = Given
    BY <1>2 DEF BlockUnits, Given
  <2>2. m[End].size \in Int /\ m[End].size > 0
    BY <1>2, GivenIsLong
  <2> QED
    BY <2>1, <2>2, <1>1, <1>2, <1>3 DEF Covering
<1>7. MainChain(m)
  BY <1>1, <1>2, <1>3, <1>4 DEF MainChain, Addresses
<1>8. Links(m)
  BY <1>2, <1>4 DEF Links
<1>9. OneRound(m)
  BY <1>1, <1>2, <1>3 DEF OneRound, Round
<1>10. Merged(m)
  <2>1. n \in Int /\ n > 0
    BY GivenIsLong
  <2> QED
    BY <2>1, <1>1, <1>2, <1>3 DEF Merged
<1> QED
  BY <1>3, <1>5, <1>6, <1>7, <1>8, <1>9, <1>10 DEF HeapInv, Chains

\* The new block is linked in after the head node ...
FirstLinked(n) ==
  [EmptyMemory EXCEPT ![End] = [NoHeader EXCEPT !.type = "free", !.size = n,
                                  !.next = EmptyMemory[HeadNode].next, !.prev = HeadNode],
                      ![HeadNode].next = End, ![EmptyMemory[HeadNode].next].prev = End]

LEMMA FirstBlockLinked ==
  ASSUME NEW n \in 0 .. Units, NEW a, a = End, NEW s, s = FirstLinked(n)
  PROVE  /\ s \in [Nodes -> Headers]
         /\ Reads(s[a], "free", n, HeadNode, HeadNode, HeadNode, HeadNode)
         /\ Reads(s[HeadNode], "head", 0, a, a, HeadNode, HeadNode)
         /\ \A c \in Nodes : c # a /\ c # HeadNode => s[c].type = "none"
<1> DEFINE m == EmptyMemory
           r == [NoHeader EXCEPT !.type = "free", !.size = n, !.next = HeadNode, !.prev = HeadNode]
           m1 == [m EXCEPT ![a] = r]
           m2 == [m1 EXCEPT ![HeadNode].next = a]
           m3 == [m2 EXCEPT ![HeadNode].prev = a]
<1>1. /\ a \in Nodes /\ HeadNode \in Nodes /\ a # HeadNode /\ m \in [Nodes -> Headers]
      /\ m[HeadNode].next = HeadNode
      /\ Reads(m[HeadNode], "head", 0, HeadNode, HeadNode, HeadNode, HeadNode)
      /\ \A c \in Nodes : c # HeadNode => m[c].type = "none"
  BY EmptyTypes DEF EmptyMemory, NoHeader, Reads
<1>2. /\ r.type = "free" /\ r.size = n /\ r.next = HeadNode /\ r.prev = HeadNode
      /\ r.nextFree = HeadNode /\ r.prevFree = HeadNode /\ r \in Headers
  <2>1. HeadNode \in Nodes
    BY DEF Nodes
  <2> QED
    BY <2>1 DEF NoHeader, Headers
<1>3. s = m3
  BY <1>1 DEF FirstLinked
<1> HIDE DEF m, r
<1>4. m1 \in [Nodes -> Headers] /\ m1[a] = r /\ \A c \in Nodes : c # a => m1[c] = m[c]
  BY <1>1, <1>2
<1> HIDE DEF m1
<1>5. m2 \in [Nodes -> Headers]
  BY <1>1, <1>4 DEF Headers
<1>6. /\ Reads(m2[HeadNode], "head", 0, a, HeadNode, HeadNode, HeadNode)
      /\ \A c \in Nodes : c # HeadNode => m2[c] = m1[c]
  BY <1>1, <1>4 DEF Headers, Reads
<1> HIDE DEF m2
<1>7. m3 \in [Nodes -> Headers]
  BY <1>1, <1>5 DEF Headers
<1>8. /\ Reads(m3[HeadNode], "head", 0, a, a, HeadNode, HeadNode)
      /\ \A c \in Nodes : c # HeadNode => m3[c] = m2[c]
  BY <1>1, <1>5, <1>6 DEF Headers, Reads
<1> HIDE DEF m3
<1>10. m3[a] = r
  BY <1>1, <1>4, <1>6, <1>8
<1>11. \A c \in Nodes : c # a /\ c # HeadNode => m3[c].type = "none"
  BY <1>1, <1>4, <1>6, <1>8
<1> QED
  BY <1>2, <1>3, <1>7, <1>8, <1>10, <1>11 DEF Reads

\* ... and pushed on the empty free chain.
LEMMA FirstBlockPushed ==
  ASSUME NEW m, m \in [Nodes -> Headers], NEW a, a = End, NEW n,
         Reads(m[a], "free", n, HeadNode, HeadNode, HeadNode, HeadNode),
         Reads(m[HeadNode], "head", 0, a, a, HeadNode, HeadNode),
         \A c \in Nodes : c # a /\ c # HeadNode => m[c].type = "none",
         NEW s, s = PushFree(m, a)
  PROVE  IsLoneBlock(s, a, n)
<1> DEFINE m1 == [m EXCEPT ![a].type = "free"]
           m2 == [m1 EXCEPT ![a].nextFree = HeadNode]
           m3 == [m2 EXCEPT ![a].prevFree = HeadNode]
           m4 == [m3 EXCEPT ![HeadNode].nextFree = a]
           m5 == [m4 EXCEPT ![HeadNode].prevFree = a]
<1>1. a \in Nodes /\ HeadNode \in Nodes /\ a # HeadNode
  BY EmptyTypes
<1>2. s = m5
  <2>1. m[HeadNode].nextFree = HeadNode
    BY DEF Reads
  <2> QED
    BY <2>1 DEF PushFree
<1>3. m1 \in [Nodes -> Headers] /\ m1 = m
  BY <1>1 DEF Headers, Reads
<1> HIDE DEF m1
<1>4. m2 \in [Nodes -> Headers] /\ m2 = m
  BY <1>1, <1>3 DEF Headers, Reads
<1> HIDE DEF m2
<1>5. m3 \in [Nodes -> Headers] /\ m3 = m
  BY <1>1, <1>4 DEF Headers, Reads
<1> HIDE DEF m3
<1>6. m4 \in [Nodes -> Headers]
  BY <1>1, <1>5 DEF Headers
<1>7. /\ Reads(m4[HeadNode], "head", 0, a, a, a, HeadNode)
      /\ \A c \in Nodes : c # HeadNode => m4[c] = m[c]
  BY <1>1, <1>5 DEF Headers, Reads
<1> HIDE DEF m4
<1>9. m5 \in [Nodes -> Headers]
  BY <1>1, <1>6 DEF Headers
<1>10. /\ Reads(m5[HeadNode], "head", 0, a, a, a, a)
       /\ \A c \in Nodes : c # HeadNode => m5[c] = m4[c]
  BY <1>1, <1>6, <1>7 DEF Headers, Reads
<1> HIDE DEF m5
<1> QED
  <2>1. m5[a] = m[a]
    BY <1>1, <1>7, <1>10
  <2>2. \A c \in Nodes : c # a /\ c # HeadNode => m5[c].type = "none"
    BY <1>7, <1>10
  <2>3. IsLoneBlock(m5, a, n)
    BY <2>1, <2>2, <1>9, <1>10 DEF IsLoneBlock
  <2> QED
    BY <2>3, <1>2

\* The heap _premain builds.
LEMMA InitialHeap ==
  ASSUME NEW h, h = MallocAdd(EmptyMemory, End, Units - End)
  PROVE  HeapInv(h) /\ UsedBlocks(h) = {}
<1> DEFINE n == RoundDown(Units - End)
           m == FirstLinked(n)
           s == PushFree(m, End)
<1>1. n \in 0 .. Units
  BY GivenIsLong, HeapAssumption, SyscallsAssumption
<1>2. h = FreeBlock(m, End)
  BY EmptyPredecessor DEF MallocAdd, FirstLinked
<1> HIDE DEF n
<1>3. /\ m \in [Nodes -> Headers]
      /\ Reads(m[End], "free", n, HeadNode, HeadNode, HeadNode, HeadNode)
      /\ Reads(m[HeadNode], "head", 0, End, End, HeadNode, HeadNode)
      /\ \A c \in Nodes : c # End /\ c # HeadNode => m[c].type = "none"
  BY <1>1, FirstBlockLinked
<1> HIDE DEF m
<1>4. IsLoneBlock(s, End, n)
  BY <1>3, FirstBlockPushed
<1>5. ~ (m[m[End].prev].type = "free" /\ m[End].prev + m[m[End].prev].size = End)
  BY <1>3 DEF Reads
<1>6. h = JoinNext(s, End)
  BY <1>2, <1>5, Zenon DEF FreeBlock
<1> HIDE DEF s
<1>7. s[s[End].next].type # "free"
  BY <1>4 DEF IsLoneBlock, Reads
<1>8. h = s
  BY <1>6, <1>7 DEF JoinNext
<1> QED
  BY <1>4, <1>8, LoneBlockSound DEF n

(***************************************************************************)
(* What the invariant says of the chains and of the memory.                *)
(***************************************************************************)
LEMMA LeastIs ==
  ASSUME NEW S, NEW x \in S, \A y \in S : y \in Int /\ x <= y
  PROVE  Min(S) = x
<1>1. \A z \in S : (\A y \in S : z <= y) => z = x
  OBVIOUS
<1> QED
  BY <1>1 DEF Min

LEMMA HeapInvSound ==
  ASSUME NEW m, HeapInv(m)
  PROVE  /\ m \in [Nodes -> Headers]
         /\ MainChainSorted(m) /\ FreeChainExact(m) /\ Tiles(m, Given) /\ Merged(m)
<1>1. Chains(m) /\ Merged(m)
  BY DEF HeapInv
<1>2. m \in [Nodes -> Headers]
  BY <1>1 DEF Chains, Kinds
<1>3. MainChainSorted(m)
  <2> SUFFICES ASSUME NEW a \in Blocks(m) \cup {HeadNode}, NEW after, after = {b \in Blocks(m) : b > a}
               PROVE  /\ m[a].next = IF after = {} THEN HeadNode ELSE Min(after)
                      /\ m[m[a].next].prev = a
    BY DEF MainChainSorted
  <2>1. /\ \A b \in Blocks(m) : b \in Int /\ b >= 0
        /\ a \in Int /\ a \in Chained(m) /\ HeadNode \notin Blocks(m)
    BY <1>1, BlockTypes DEF Chains, HeadNode, Chained
  <2>2. /\ m[a].next \in Chained(m) /\ m[m[a].next].prev = a
        /\ m[a].next # HeadNode => a < m[a].next
        /\ \A b \in Blocks(m) : a < b => m[a].next # HeadNode /\ m[a].next <= b
    BY <1>1, <2>1 DEF Chains, MainChain
  <2>3. CASE m[a].next = HeadNode
    BY <2>1, <2>2, <2>3
  <2>4. CASE m[a].next # HeadNode
    <3>1. m[a].next \in after /\ \A b \in after : b \in Int /\ m[a].next <= b
      BY <2>1, <2>2, <2>4 DEF Chained
    <3>2. Min(after) = m[a].next
      BY <3>1, LeastIs
    <3> QED
      BY <2>2, <3>1, <3>2
  <2> QED
    BY <2>3, <2>4
<1>4. FreeChainExact(m)
  <2>1. \A a \in FreeBlocks(m) \cup {HeadNode} :
          m[a].nextFree \in FreeBlocks(m) \cup {HeadNode} /\ m[m[a].nextFree].prevFree = a
    BY <1>1 DEF Chains, Links, ChainedFree
  <2>2. \A part \in SUBSET FreeBlocks(m) :
          (\A a \in part \cup {HeadNode} : m[a].nextFree \in part \cup {HeadNode}) => part = FreeBlocks(m)
    BY <1>1 DEF Chains, OneRound, Round
  <2> QED
    BY <2>1, <2>2, Zenon DEF FreeChainExact
<1>5. Tiles(m, Given)
  <2>1. UNION {BlockUnits(m, a) : a \in Blocks(m)} = Given
    BY <1>1 DEF Chains, Covering
  <2> QED
    BY <2>1, <1>1 DEF Tiles, Chains, Covering
<1> QED
  BY <1>1, <1>2, <1>3, <1>4, <1>5

(***************************************************************************)
(* Types of the descriptors and of what the program keeps.                 *)
(***************************************************************************)
LEMMA LeastEntry ==
  ASSUME NEW S \in SUBSET Nat, S # {}
  PROVE  Min(S) \in S
<1>1. PICK x \in S : \A y \in S : <<y, x>> \notin OpToRel(<, Nat)
  BY WFMin, NatLessThanWellFounded, Zenon
<1>2. \A y \in S : ~ (y < x)
  BY <1>1, Zenon DEF OpToRel
<1>3. \A y \in S : y \in Int /\ x <= y
  BY <1>2
<1> QED
  BY <1>3, LeastIs

RAFiles == [sector : Nat, ptr : Nat, buffer : Nat \cup {NoSector}]

LEMMA SectorsOf ==
  ASSUME NEW n \in Nat
  PROVE  n % SectorSize \in 0 .. SectorSize - 1 /\ n \div SectorSize \in Nat
BY RaFileAssumption

LEMMA FilledBuffer ==
  ASSUME NEW old \in Nat \cup {NoSector}, NEW sector \in Nat, NEW bad
  PROVE  FileReadInto(old, sector, bad) \in Nat \cup {NoSector}
BY DEF FileReadInto

LEMMA ReadTypes ==
  ASSUME NEW f \in RAFiles, NEW bytes \in Nat, NEW bad
  PROVE  RARead(f, bytes, bad).file \in RAFiles
<1> DEFINE blockoffset == f.ptr % SectorSize
           l == IF bytes > SectorSize THEN SectorSize ELSE bytes
           drained == IF blockoffset = 0 THEN 0 ELSE l - blockoffset
           left == bytes - drained
           whole == left \div SectorSize
           tail == left % SectorSize
           last == f.sector + whole
           buffer == IF tail = 0 THEN f.buffer ELSE FileReadInto(f.buffer, last, bad)
           file == [sector |-> IF tail = 0 THEN last ELSE last + 1, ptr |-> f.ptr + bytes, buffer |-> buffer]
<1>1. f.sector \in Nat /\ f.ptr \in Nat /\ f.buffer \in Nat \cup {NoSector}
  BY DEF RAFiles
<1>2. blockoffset \in Nat
  BY <1>1, SectorsOf
<1> HIDE DEF blockoffset
<1>3. l \in Nat /\ l <= bytes
  BY RaFileAssumption
<1> HIDE DEF l
<1>4. left \in Nat
  BY <1>2, <1>3
<1> HIDE DEF left
<1>5. whole \in Nat /\ tail \in Nat
  BY <1>4, SectorsOf
<1> HIDE DEF whole, tail
<1>6. last \in Nat
  BY <1>1, <1>5
<1> HIDE DEF last
<1>7. buffer \in Nat \cup {NoSector}
  BY <1>1, <1>6, FilledBuffer
<1> HIDE DEF buffer
<1>8. file \in RAFiles
  BY <1>1, <1>6, <1>7 DEF RAFiles
<1>9. RARead(f, bytes, bad).file = file
  BY DEF RARead, file, buffer, last, whole, tail, left, drained, l, blockoffset
<1> QED
  BY <1>8, <1>9

LEMMA SeekTypes ==
  ASSUME NEW f \in RAFiles, NEW offset \in Nat, NEW bad
  PROVE  RASeek(f, offset, bad).file \in RAFiles
<1> DEFINE sector == offset \div SectorSize
<1>1. f.sector \in Nat /\ f.ptr \in Nat /\ f.buffer \in Nat \cup {NoSector}
  BY DEF RAFiles
<1>2. sector \in Nat
  BY SectorsOf
<1>3. RASeek(f, offset, bad).file = IF ~ FileSeekOk(bad) THEN [f EXCEPT !.ptr = offset]
        ELSE IF offset % SectorSize = 0 THEN [f EXCEPT !.sector = sector, !.ptr = offset]
        ELSE [sector |-> sector + 1, ptr |-> offset, buffer |-> FileReadInto(f.buffer, sector, bad)]
  BY DEF RASeek
<1> HIDE DEF sector
<1>4. [f EXCEPT !.sector = sector, !.ptr = offset] \in RAFiles /\ [f EXCEPT !.ptr = offset] \in RAFiles
  BY <1>1, <1>2 DEF RAFiles
<1>5. FileReadInto(f.buffer, sector, bad) \in Nat \cup {NoSector}
  BY <1>1, <1>2, FilledBuffer
<1>6. [sector |-> sector + 1, ptr |-> offset, buffer |-> FileReadInto(f.buffer, sector, bad)] \in RAFiles
  BY <1>1, <1>2, <1>5 DEF RAFiles
<1> QED
  BY <1>3, <1>4, <1>6

(***************************************************************************)
(* The inductive invariant.                                                *)
(***************************************************************************)
RuntimeInv == TypeOK /\ HeapInv(heap) /\ OneOwner

\* What malloc has handed out is a new block, owned by nobody.
LEMMA Handed ==
  ASSUME RuntimeInv, NEW bytes \in Nat, NEW got, got = Malloc(heap, bytes), got.block # Null
  PROVE  /\ HeapInv(got.heap) /\ got.heap \in [Nodes -> Headers] /\ got.block \in Addresses
         /\ got.block \notin UsedBlocks(heap) /\ UsedBlocks(got.heap) = UsedBlocks(heap) \cup {got.block}
<1>1. HeapInv(heap)
  BY DEF RuntimeInv
<1> DEFINE n == UnitsFor(bytes)
<1>2. HeapInv(got.heap) /\ got.block \in FreeBlocks(heap) /\ UsedBlocks(got.heap) = UsedBlocks(heap) \cup {got.block}
  BY <1>1, MallocKeeps
<1> QED
  BY <1>2, HeapInvSound DEF FreeBlocks, UsedBlocks

LEMMA NotHanded ==
  ASSUME RuntimeInv, NEW bytes \in Nat, NEW got, got = Malloc(heap, bytes), got.block = Null
  PROVE  got.heap = heap
BY MallocKeeps DEF RuntimeInv

\* A block that is given back belongs to nobody any more.
LEMMA GivenBack ==
  ASSUME NEW m, HeapInv(m), NEW b \in UsedBlocks(m), NEW s, s = Free(m, b)
  PROVE  HeapInv(s) /\ s \in [Nodes -> Headers] /\ UsedBlocks(s) = UsedBlocks(m) \ {b}
<1>1. b # Null
  BY DEF UsedBlocks, Addresses, Null
<1>2. s = FreeBlock(m, b)
  BY <1>1 DEF Free
<1> QED
  BY <1>2, FreeBlockKeeps, HeapInvSound

\* The programs' numbers, and the entries of files that are open.
LEMMA ProgramTypes ==
  ASSUME RuntimeInv
  PROVE  /\ program.requests \subseteq Nat /\ program.reads \subseteq Nat /\ program.seeks \subseteq Nat
         /\ RAFileBytes \in Nat
         /\ \A fd \in held : fd \in Descriptors /\ Files[fd] \in UsedBlocks(heap)
         /\ mine \subseteq UsedBlocks(heap)
         /\ EmptyEntries \subseteq Descriptors \ held
         /\ EmptyEntries # {} => Min(EmptyEntries) \in EmptyEntries
<1>1. program \in [requests : SUBSET Nat, reads : SUBSET (Nat \ {0}), seeks : SUBSET Nat]
  BY SyscallsAssumption DEF RuntimeInv, TypeOK
<1>2. /\ \A fd \in held : fd \in Descriptors /\ Files[fd] \in UsedBlocks(heap)
      /\ mine \subseteq UsedBlocks(heap)
  BY DEF RuntimeInv, TypeOK, OneOwner
<1>3. EmptyEntries \subseteq Descriptors \ held
  <2>1. Null \notin UsedBlocks(heap)
    BY DEF UsedBlocks, Addresses, Null
  <2> QED
    BY <2>1, <1>2 DEF EmptyEntries
<1>4. EmptyEntries \in SUBSET Nat
  BY SyscallsAssumption DEF EmptyEntries, Descriptors
<1>5. EmptyEntries # {} => Min(EmptyEntries) \in EmptyEntries
  BY <1>4, LeastEntry
<1> QED
  BY <1>1, <1>2, <1>3, <1>5, SyscallsAssumption

LEMMA RuntimeStarts == Init => RuntimeInv
<1> SUFFICES ASSUME Init PROVE RuntimeInv
  OBVIOUS
<1>1. HeapInv(heap) /\ UsedBlocks(heap) = {}
  BY InitialHeap DEF Init
<1>2. heap \in [Nodes -> Headers]
  BY <1>1, HeapInvSound
<1>3. OneOwner
  BY <1>1 DEF OneOwner, Init
<1>4. Opened \in RAFiles
  BY DEF Opened, RAFiles
<1>5. TypeOK
  <2>1. Files \in [Descriptors -> Addresses \cup {Null}] /\ raFiles \in [Descriptors -> RAFiles]
    BY <1>4 DEF Init
  <2>2. faults \in 0 .. MaxFaults
    BY SyscallsAssumption DEF Init
  <2>4. misread = FALSE /\ answer = << >>
    BY Zenon DEF Init
  <2>3. program \in Programs /\ mine = {} /\ held = {} /\ suspect = {}
    BY DEF Init
  <2> QED
    BY <1>2, <2>1, <2>2, <2>3, <2>4 DEF TypeOK, RAFiles
<1> QED
  BY <1>1, <1>3, <1>5 DEF RuntimeInv

LEMMA AllocateKeeps ==
  ASSUME RuntimeInv, NEW bytes \in program.requests, Allocate(bytes)
  PROVE  RuntimeInv'
<1> DEFINE got == Malloc(heap, bytes)
<1>1. bytes \in Nat
  BY ProgramTypes
<1>2. TypeOK /\ OneOwner /\ HeapInv(heap)
  BY DEF RuntimeInv
<1>3. /\ bytes > 0 => answer' = <<UnitsFor(bytes), got.block>>
      /\ bytes = 0 => UNCHANGED answer
      /\ heap' = got.heap
      /\ mine' = IF got.block = Null THEN mine ELSE mine \cup {got.block}
      /\ UNCHANGED <<program, Files, raFiles, held, suspect, misread, faults>>
  BY Zenon DEF Allocate, fileVars
<1> HIDE DEF got
<1>4. UnitsFor(bytes) \in Nat
  BY <1>1, UnitsForTypes
<1>5. CASE got.block = Null
  <2>1. heap' = heap /\ mine' = mine
    BY <1>1, <1>3, <1>5, NotHanded DEF got
  <2>2. answer' = << >> \/ answer' \in Nat \X (Addresses \cup {Null})
    BY <1>1, <1>2, <1>3, <1>4, <1>5 DEF TypeOK
  <2>3. TypeOK'
    BY <1>2, <1>3, <2>1, <2>2 DEF TypeOK, Descriptors
  <2>4. OneOwner'
    BY <1>2, <1>3, <2>1 DEF OneOwner
  <2> QED
    BY <1>2, <2>1, <2>3, <2>4 DEF RuntimeInv
<1>6. CASE got.block # Null
  <2>1. /\ HeapInv(heap') /\ heap' \in [Nodes -> Headers] /\ got.block \in Addresses
        /\ got.block \notin UsedBlocks(heap) /\ UsedBlocks(heap') = UsedBlocks(heap) \cup {got.block}
    BY <1>1, <1>3, <1>6, Handed DEF got
  <2>2. answer' = << >> \/ answer' \in Nat \X (Addresses \cup {Null})
    BY <1>1, <1>2, <1>3, <1>4, <2>1 DEF TypeOK
  <2>3. TypeOK'
    BY <1>2, <1>3, <1>6, <2>1, <2>2 DEF TypeOK, Descriptors
  <2>4. OneOwner'
    BY <1>2, <1>3, <1>6, <2>1, ProgramTypes DEF OneOwner
  <2> QED
    BY <2>1, <2>3, <2>4 DEF RuntimeInv
<1> QED
  BY <1>5, <1>6

LEMMA DeallocateKeeps ==
  ASSUME RuntimeInv, NEW b \in mine, Deallocate(b)
  PROVE  RuntimeInv'
<1>1. TypeOK /\ OneOwner /\ HeapInv(heap) /\ b \in UsedBlocks(heap)
  BY ProgramTypes DEF RuntimeInv
<1>2. /\ heap' = Free(heap, b) /\ mine' = mine \ {b} /\ answer' = << >>
      /\ UNCHANGED <<program, Files, raFiles, held, suspect, misread, faults>>
  BY DEF Deallocate, fileVars
<1>3. HeapInv(heap') /\ heap' \in [Nodes -> Headers] /\ UsedBlocks(heap') = UsedBlocks(heap) \ {b}
  BY <1>1, <1>2, GivenBack
<1>4. TypeOK'
  BY <1>1, <1>2, <1>3 DEF TypeOK, Descriptors
<1>5. OneOwner'
  BY <1>1, <1>2, <1>3 DEF OneOwner
<1> QED
  BY <1>3, <1>4, <1>5 DEF RuntimeInv

LEMMA CloseKeeps ==
  ASSUME RuntimeInv, NEW fd \in held, Close(fd)
  PROVE  RuntimeInv'
<1>1. TypeOK /\ OneOwner /\ HeapInv(heap) /\ Files[fd] \in UsedBlocks(heap)
  BY ProgramTypes DEF RuntimeInv
<1>2. /\ heap' = Free(heap, Files[fd]) /\ answer' = << >>
      /\ held' = held \ {fd} /\ suspect' = suspect \ {fd}
      /\ UNCHANGED <<program, Files, raFiles, mine, faults, misread>>
  BY DEF Close
<1>3. HeapInv(heap') /\ heap' \in [Nodes -> Headers] /\ UsedBlocks(heap') = UsedBlocks(heap) \ {Files[fd]}
  BY <1>1, <1>2, GivenBack
<1>4. TypeOK'
  BY <1>1, <1>2, <1>3 DEF TypeOK, Descriptors
<1>5. OneOwner'
  BY <1>1, <1>2, <1>3 DEF OneOwner
<1> QED
  BY <1>3, <1>4, <1>5 DEF RuntimeInv

LEMMA OpenSucceedsKeeps ==
  ASSUME RuntimeInv, OpenSucceeds
  PROVE  RuntimeInv'
<1> DEFINE got == Malloc(heap, RAFileBytes)
           fd == Min(EmptyEntries)
<1>1. TypeOK /\ OneOwner /\ HeapInv(heap)
  BY DEF RuntimeInv
<1>2. /\ EmptyEntries # {} /\ got.block # Null /\ heap' = got.heap
      /\ answer' = <<UnitsFor(RAFileBytes), got.block>>
      /\ Files' = [Files EXCEPT ![fd] = got.block] /\ raFiles' = [raFiles EXCEPT ![fd] = Opened]
      /\ held' = held \cup {fd}
      /\ UNCHANGED <<program, mine, suspect, faults, misread>>
  BY DEF OpenSucceeds
<1>3. /\ HeapInv(heap') /\ heap' \in [Nodes -> Headers] /\ got.block \in Addresses
      /\ got.block \notin UsedBlocks(heap) /\ UsedBlocks(heap') = UsedBlocks(heap) \cup {got.block}
  BY <1>2, ProgramTypes, Handed
<1>4. fd \in Descriptors /\ fd \notin held
  BY <1>2, ProgramTypes
<1>5. UnitsFor(RAFileBytes) \in Nat
  BY ProgramTypes, UnitsForTypes
<1> HIDE DEF got, fd
<1>6. TypeOK'
  <2>1. Opened \in RAFiles
    BY DEF Opened, RAFiles
  <2>2. raFiles' \in [Descriptors -> RAFiles] /\ Files' \in [Descriptors -> Addresses \cup {Null}]
    BY <2>1, <1>1, <1>2, <1>3, <1>4 DEF TypeOK, RAFiles
  <2>3. held' \subseteq Descriptors /\ suspect' \subseteq held'
    BY <1>1, <1>2, <1>4 DEF TypeOK
  <2>4. answer' \in Nat \X (Addresses \cup {Null})
    BY <1>2, <1>3, <1>5
  <2>5. program' = program /\ mine' = mine /\ faults' = faults /\ misread' = misread
    BY <1>2
  <2> QED
    BY <1>1, <1>3, <2>2, <2>3, <2>4, <2>5 DEF TypeOK, RAFiles, Descriptors
<1>7. OneOwner'
  <2>1. Files'[fd] = got.block /\ \A other \in held : Files'[other] = Files[other] /\ Files[other] \in UsedBlocks(heap)
    BY <1>1, <1>2, <1>4, ProgramTypes DEF TypeOK
  <2>2. mine \subseteq UsedBlocks(heap)
    BY ProgramTypes
  <2> QED
    BY <1>1, <1>2, <1>3, <2>1, <2>2 DEF OneOwner
<1> QED
  BY <1>3, <1>6, <1>7 DEF RuntimeInv

\* A failed open gives its block back; what is left in the table is not an open file's.
LEMMA OpenFailsKeeps ==
  ASSUME RuntimeInv, OpenFails
  PROVE  RuntimeInv'
<1> DEFINE got == Malloc(heap, RAFileBytes)
           fd == Min(EmptyEntries)
<1>1. TypeOK /\ OneOwner /\ HeapInv(heap)
  BY DEF RuntimeInv
<1>2. /\ EmptyEntries # {} /\ got.block # Null /\ faults < MaxFaults
      /\ heap' = Free(got.heap, got.block)
      /\ Files' = [Files EXCEPT ![fd] = got.block] /\ faults' = faults + 1
      /\ UNCHANGED <<program, mine, raFiles, held, suspect, misread, answer>>
  BY DEF OpenFails
<1>3. /\ HeapInv(got.heap) /\ got.block \in Addresses
      /\ got.block \notin UsedBlocks(heap) /\ UsedBlocks(got.heap) = UsedBlocks(heap) \cup {got.block}
  BY <1>2, ProgramTypes, Handed
<1>4. fd \in Descriptors /\ fd \notin held
  BY <1>2, ProgramTypes
<1> HIDE DEF got, fd
<1>5. HeapInv(heap') /\ heap' \in [Nodes -> Headers] /\ UsedBlocks(heap') = UsedBlocks(heap)
  <2>1. got.block \in UsedBlocks(got.heap)
    BY <1>3
  <2>2. HeapInv(heap') /\ heap' \in [Nodes -> Headers] /\ UsedBlocks(heap') = UsedBlocks(got.heap) \ {got.block}
    BY <1>2, <1>3, <2>1, GivenBack
  <2> QED
    BY <1>3, <2>2
<1>6. TypeOK'
  <2>1. Files' \in [Descriptors -> Addresses \cup {Null}]
    BY <1>1, <1>2, <1>3, <1>4 DEF TypeOK
  <2>2. faults' \in 0 .. MaxFaults
    BY <1>1, <1>2, SyscallsAssumption DEF TypeOK
  <2>3. program' = program /\ mine' = mine /\ raFiles' = raFiles /\ held' = held /\ suspect' = suspect
        /\ misread' = misread /\ answer' = answer
    BY <1>2
  <2> QED
    BY <1>1, <1>5, <2>1, <2>2, <2>3 DEF TypeOK, Descriptors
<1>7. OneOwner'
  <2>1. \A other \in held : Files'[other] = Files[other]
    BY <1>1, <1>2, <1>4 DEF TypeOK
  <2> QED
    BY <1>1, <1>2, <1>5, <2>1 DEF OneOwner
<1> QED
  BY <1>5, <1>6, <1>7 DEF RuntimeInv

\* Reads and seeks are none of the heap's business.
LEMMA ReadKeeps ==
  ASSUME RuntimeInv, NEW fd \in held, NEW bytes \in program.reads, NEW bad \in Failing, Read(fd, bytes, bad)
  PROVE  RuntimeInv'
<1> DEFINE done == RARead(raFiles[fd], bytes, bad)
<1>1. TypeOK /\ OneOwner /\ HeapInv(heap) /\ fd \in Descriptors /\ bytes \in Nat
  BY ProgramTypes DEF RuntimeInv
<1>2. /\ raFiles' = [raFiles EXCEPT ![fd] = done.file]
      /\ suspect' = IF done.ok THEN suspect ELSE suspect \cup {fd}
      /\ faults' = IF bad = {} THEN faults ELSE faults + 1
      /\ UNCHANGED <<program, heap, answer, Files, mine, held>>
  BY DEF Read, heapVars
<1>3. misread' \in BOOLEAN
  BY DEF Read
<1>4. raFiles[fd] \in RAFiles
  BY <1>1 DEF TypeOK, RAFiles
<1>5. done.file \in RAFiles
  BY <1>1, <1>4, ReadTypes
<1> HIDE DEF done
<1>6. TypeOK'
  <2>1. raFiles' \in [Descriptors -> RAFiles]
    BY <1>1, <1>2, <1>5 DEF TypeOK, RAFiles
  <2>2. faults' \in 0 .. MaxFaults
    <3>1. bad # {} => faults < MaxFaults
      BY DEF Failing
    <3> QED
      BY <3>1, <1>1, <1>2, SyscallsAssumption DEF TypeOK
  <2>3. suspect' \subseteq held'
    BY <1>1, <1>2 DEF TypeOK
  <2>4. program' = program /\ heap' = heap /\ answer' = answer /\ Files' = Files /\ mine' = mine /\ held' = held
    BY <1>2
  <2> QED
    BY <1>1, <1>3, <2>1, <2>2, <2>3, <2>4 DEF TypeOK, RAFiles, Descriptors
<1>7. OneOwner'
  BY <1>1, <1>2 DEF OneOwner
<1> QED
  BY <1>1, <1>2, <1>6, <1>7 DEF RuntimeInv

LEMMA SeekKeeps ==
  ASSUME RuntimeInv, NEW fd \in held, NEW offset \in Nat, NEW bad \in Failing, Seek(fd, offset, bad)
  PROVE  RuntimeInv'
<1> DEFINE done == RASeek(raFiles[fd], offset, bad)
<1>1. TypeOK /\ OneOwner /\ HeapInv(heap) /\ fd \in Descriptors
  BY ProgramTypes DEF RuntimeInv
<1>2. /\ raFiles' = [raFiles EXCEPT ![fd] = done.file]
      /\ suspect' = IF done.ok THEN suspect ELSE suspect \cup {fd}
      /\ faults' = IF bad = {} THEN faults ELSE faults + 1
      /\ UNCHANGED <<program, heap, answer, Files, mine, held, misread>>
  BY DEF Seek, heapVars
<1>4. raFiles[fd] \in RAFiles
  BY <1>1 DEF TypeOK, RAFiles
<1>5. done.file \in RAFiles
  BY <1>4, SeekTypes
<1> HIDE DEF done
<1>6. TypeOK'
  <2>1. raFiles' \in [Descriptors -> RAFiles]
    BY <1>1, <1>2, <1>5 DEF TypeOK, RAFiles
  <2>2. faults' \in 0 .. MaxFaults
    <3>1. bad # {} => faults < MaxFaults
      BY DEF Failing
    <3> QED
      BY <3>1, <1>1, <1>2, SyscallsAssumption DEF TypeOK
  <2>3. suspect' \subseteq held'
    BY <1>1, <1>2 DEF TypeOK
  <2>4. program' = program /\ heap' = heap /\ answer' = answer /\ Files' = Files /\ mine' = mine /\ held' = held
        /\ misread' = misread
    BY <1>2
  <2> QED
    BY <1>1, <2>1, <2>2, <2>3, <2>4 DEF TypeOK, RAFiles, Descriptors
<1>7. OneOwner'
  BY <1>1, <1>2 DEF OneOwner
<1> QED
  BY <1>1, <1>2, <1>6, <1>7 DEF RuntimeInv

LEMMA RuntimeUnchanged == RuntimeInv /\ UNCHANGED vars => RuntimeInv'
<1> SUFFICES ASSUME RuntimeInv, UNCHANGED vars PROVE RuntimeInv'
  OBVIOUS
<1>1. program' = program /\ heap' = heap /\ Files' = Files /\ raFiles' = raFiles /\ mine' = mine /\ held' = held
      /\ suspect' = suspect /\ faults' = faults /\ misread' = misread /\ answer' = answer
  BY DEF vars
<1>2. TypeOK' = TypeOK /\ OneOwner' = OneOwner
  BY <1>1 DEF TypeOK, OneOwner, Descriptors
<1> QED
  BY <1>1, <1>2 DEF RuntimeInv

LEMMA RuntimeStep == RuntimeInv /\ [Next]_vars => RuntimeInv'
<1> SUFFICES ASSUME RuntimeInv, [Next]_vars PROVE RuntimeInv'
  OBVIOUS
<1>1. CASE UNCHANGED vars
  BY <1>1, RuntimeUnchanged
<1>2. ASSUME NEW bytes \in program.requests, Allocate(bytes) PROVE RuntimeInv'
  BY <1>2, AllocateKeeps
<1>3. ASSUME NEW b \in mine, Deallocate(b) PROVE RuntimeInv'
  BY <1>3, DeallocateKeeps
<1>4. CASE OpenFull
  BY <1>4, RuntimeUnchanged DEF OpenFull
<1>5. CASE OpenNoMemory
  <2>1. UnitsFor(RAFileBytes) \in Nat
    BY ProgramTypes, UnitsForTypes
  <2>2. answer' \in Nat \X (Addresses \cup {Null})
    BY <1>5, <2>1 DEF OpenNoMemory
  <2>3. program' = program /\ heap' = heap /\ Files' = Files /\ raFiles' = raFiles /\ mine' = mine /\ held' = held
        /\ suspect' = suspect /\ faults' = faults /\ misread' = misread
    BY <1>5 DEF OpenNoMemory, fileVars
  <2>4. TypeOK'
    BY <2>2, <2>3 DEF RuntimeInv, TypeOK, Descriptors
  <2>5. OneOwner'
    BY <2>3 DEF RuntimeInv, OneOwner
  <2> QED
    BY <2>3, <2>4, <2>5 DEF RuntimeInv
<1>6. CASE OpenSucceeds
  BY <1>6, OpenSucceedsKeeps
<1>7. CASE OpenFails
  BY <1>7, OpenFailsKeeps
<1>8. ASSUME NEW fd \in held, Close(fd) PROVE RuntimeInv'
  BY <1>8, CloseKeeps
<1>9. ASSUME NEW fd \in held, NEW bad \in Failing, NEW bytes \in program.reads, Read(fd, bytes, bad)
      PROVE  RuntimeInv'
  BY <1>9, ReadKeeps
<1>10. ASSUME NEW fd \in held, NEW bad \in Failing, NEW offset \in program.seeks,
              SeekSet(fd, offset, bad) \/ SeekCur(fd, offset, bad)
       PROVE  RuntimeInv'
  <2>1. offset \in Nat /\ raFiles[fd].ptr \in Nat
    BY ProgramTypes DEF RuntimeInv, TypeOK
  <2>2. raFiles[fd].ptr + offset \in Nat
    BY <2>1
  <2> QED
    BY <1>10, <2>1, <2>2, SeekKeeps DEF SeekSet, SeekCur
<1> QED
  BY <1>1, <1>2, <1>3, <1>4, <1>5, <1>6, <1>7, <1>8, <1>9, <1>10 DEF Next

\* malloc.c, syscalls.c and rafile.c under any sequence of calls: both chains list exactly what
\* they should, no memory is lost and no two free blocks lie side by side.
THEOREM HeapAlwaysSound == Spec => []HeapSound
<1>1. RuntimeInv => HeapSound
  BY HeapInvSound DEF RuntimeInv, HeapSound, ChainsInStep, NothingLost
<1> QED
  BY <1>1, RuntimeStarts, RuntimeStep, PTL DEF Spec

\* Every block in use has one owner.
THEOREM OneOwnerAlways == Spec => []OneOwner
<1>1. RuntimeInv => OneOwner
  BY DEF RuntimeInv
<1> QED
  BY <1>1, RuntimeStarts, RuntimeStep, PTL DEF Spec

(***************************************************************************)
(* What malloc() and free() promise.                                       *)
(***************************************************************************)
\* A block that is handed out lies in the memory of the heap, on no other used block.
LEMMA HandedFits ==
  ASSUME NEW m, HeapInv(m), NEW s, HeapInv(s), NEW a \in Addresses, a \notin UsedBlocks(m),
         UsedBlocks(s) = UsedBlocks(m) \cup {a}, \A c \in UsedBlocks(m) : s[c].size = m[c].size
  PROVE  /\ BlockUnits(s, a) \subseteq Given
         /\ \A c \in UsedBlocks(m), u \in BlockUnits(s, a) : u \notin BlockUnits(m, c)
<1>1. Kinds(s) /\ Covering(s)
  BY DEF HeapInv, Chains
<1>2. UsedBlocks(s) \subseteq Blocks(s) /\ a \in Blocks(s)
  BY DEF UsedBlocks, Blocks
<1>3. BlockUnits(s, a) \subseteq Given
  BY <1>1, <1>2 DEF Covering
<1>4. ASSUME NEW c \in UsedBlocks(m), NEW u \in BlockUnits(s, a), u \in BlockUnits(m, c) PROVE FALSE
  <2>1. c \in Blocks(s) /\ c # a /\ s[c].size = m[c].size
    BY <1>2
  <2>2. c \in Int /\ a \in Int /\ s[c].size \in Int /\ s[a].size \in Int
    BY <1>1, <1>2, <2>1, BlockTypes
  <2>3. u \in a .. a + s[a].size - 1 /\ u \in c .. c + s[c].size - 1
    BY <1>4, <2>1 DEF BlockUnits
  <2>4. (a < c => a + s[a].size <= c) /\ (c < a => c + s[c].size <= a)
    BY <1>1, <1>2, <2>1 DEF Covering
  <2> QED
    BY <2>1, <2>2, <2>3, <2>4
<1> QED
  BY <1>3, <1>4

\* Where no free block is long enough no stretch of free units is: a free stretch lies in one
\* block, because free blocks that touch have been merged.
LEMMA NoRoom ==
  ASSUME NEW m, HeapInv(m), NEW n \in Nat, n > 0, \A c \in FreeBlocks(m) : m[c].size < n, NEW a \in Given
  PROVE  \E u \in a .. a + n - 1 : u \notin Given \/ \E c \in UsedBlocks(m) : u \in BlockUnits(m, c)
<1> SUFFICES ASSUME \A u \in a .. a + n - 1 : u \in Given /\ \A c \in UsedBlocks(m) : u \notin BlockUnits(m, c)
             PROVE  FALSE
  OBVIOUS
<1>1. Kinds(m) /\ Covering(m) /\ Merged(m)
  BY DEF HeapInv, Chains
<1>2. a \in Int
  BY GivenUnits DEF Addresses
<1>3. \A c \in Blocks(m) : c \in Int /\ m[c].size \in Int
  BY <1>1, BlockTypes
<1>4. Blocks(m) = FreeBlocks(m) \cup UsedBlocks(m)
  BY DEF Blocks, FreeBlocks, UsedBlocks
<1>5. \A u \in a .. a + n - 1 : \E c \in FreeBlocks(m) : u \in BlockUnits(m, c)
  BY <1>1, <1>4 DEF Covering
<1>6. PICK c \in FreeBlocks(m) : a \in BlockUnits(m, c)
  BY <1>2, <1>5
<1> DEFINE e == c + m[c].size
<1>7. c \in Int /\ m[c].size \in Int /\ c <= a /\ a < e /\ m[c].size < n /\ c \in Blocks(m)
  BY <1>3, <1>4, <1>6 DEF BlockUnits
<1>8. e \in a .. a + n - 1
  BY <1>2, <1>7
<1>9. PICK d \in FreeBlocks(m) : e \in BlockUnits(m, d)
  BY <1>5, <1>8
<1>10. d \in Int /\ m[d].size \in Int /\ d <= e /\ e < d + m[d].size /\ d \in Blocks(m)
  BY <1>3, <1>4, <1>7, <1>9 DEF BlockUnits
<1>11. (c < d => c + m[c].size <= d) /\ (d < c => d + m[d].size <= c)
  BY <1>1, <1>7, <1>10 DEF Covering
<1>12. e = d
  BY <1>2, <1>7, <1>10, <1>11
<1> QED
  BY <1>1, <1>12 DEF Merged

\* The abstract view of a heap.
Allotted(m) == [a \in UsedBlocks(m) |-> m[a].size]

LEMMA FreeKeepsSizes ==
  ASSUME NEW m, HeapInv(m), NEW b \in UsedBlocks(m), NEW s, s = Free(m, b)
  PROVE  /\ HeapInv(s) /\ UsedBlocks(s) = UsedBlocks(m) \ {b}
         /\ \A c \in UsedBlocks(m) \ {b} : s[c].size = m[c].size
<1>1. b # Null
  BY DEF UsedBlocks, Addresses, Null
<1>2. s = FreeBlock(m, b)
  BY <1>1 DEF Free
<1> QED
  BY <1>2, FreeBlockKeeps

\* The two answers of malloc().
SameSizes(m, s) == \A a \in UsedBlocks(m) : s[a].size = m[a].size

LEMMA MallocGrants ==
  ASSUME NEW m, HeapInv(m), NEW bytes \in Nat, NEW got, got = Malloc(m, bytes), got.block # Null
  PROVE  /\ HeapInv(got.heap) /\ bytes > 0 /\ got.block \in FreeBlocks(m)
         /\ UsedBlocks(got.heap) = UsedBlocks(m) \cup {got.block}
         /\ got.heap[got.block].size \in {UnitsFor(bytes), UnitsFor(bytes) + 1}
         /\ SameSizes(m, got.heap)
BY MallocKeeps DEF SameSizes

LEMMA MallocRefuses ==
  ASSUME NEW m, HeapInv(m), NEW bytes \in Nat, bytes > 0, NEW got, got = Malloc(m, bytes), got.block = Null
  PROVE  \A c \in FreeBlocks(m) : m[c].size < UnitsFor(bytes)
BY MallocKeeps

LEMMA ReleaseImplemented ==
  ASSUME RuntimeInv, NEW b \in UsedBlocks(heap), heap' = Free(heap, b), answer' = << >>
  PROVE  Promised!Release(b)
<1>1. HeapInv(heap)
  BY DEF RuntimeInv
<1>2. /\ UsedBlocks(heap') = UsedBlocks(heap) \ {b}
      /\ \A c \in UsedBlocks(heap) \ {b} : heap'[c].size = heap[c].size
  BY <1>1, FreeKeepsSizes
<1>3. Allotted(heap') = [c \in DOMAIN Allotted(heap) \ {b} |-> Allotted(heap)[c]]
  BY <1>2 DEF Allotted
<1> QED
  BY <1>3 DEF Promised!Release, Allotted

LEMMA GrantImplemented ==
  ASSUME RuntimeInv, NEW bytes \in Nat, NEW got, got = Malloc(heap, bytes), got.block # Null,
         heap' = got.heap, answer' = <<UnitsFor(bytes), got.block>>
  PROVE  got.block \in Given /\ Promised!Grant(UnitsFor(bytes), got.block)
<1> DEFINE n == UnitsFor(bytes)
           a == got.block
           k == heap'[a].size
<1>1. HeapInv(heap)
  BY DEF RuntimeInv
<1>2. /\ HeapInv(heap') /\ bytes > 0 /\ a \in FreeBlocks(heap)
      /\ UsedBlocks(heap') = UsedBlocks(heap) \cup {a} /\ k \in {n, n + 1}
      /\ \A c \in UsedBlocks(heap) : heap'[c].size = heap[c].size
  <2>1. HeapInv(got.heap) /\ bytes > 0 /\ got.block \in FreeBlocks(heap)
    BY <1>1, MallocGrants, Zenon
  <2>2. got.heap[got.block].size \in {UnitsFor(bytes), UnitsFor(bytes) + 1}
    BY <1>1, MallocGrants, Zenon
  <2>3. UsedBlocks(got.heap) = UsedBlocks(heap) \cup {got.block}
    BY <1>1, MallocGrants, Zenon
  <2>4. SameSizes(heap, got.heap)
    BY <1>1, MallocGrants, Zenon
  <2> QED
    BY <2>1, <2>2, <2>3, <2>4 DEF SameSizes
<1>3. n \in Nat /\ n > 0
  BY <1>2, UnitsForTypes
<1>4. a \in Addresses /\ a \notin UsedBlocks(heap)
  BY <1>2 DEF FreeBlocks, UsedBlocks
<1>5. answer' = <<n, a>>
  OBVIOUS
<1> HIDE DEF n, a
<1>6. /\ BlockUnits(heap', a) \subseteq Given
      /\ \A c \in UsedBlocks(heap), u \in BlockUnits(heap', a) : u \notin BlockUnits(heap, c)
  BY <1>1, <1>2, <1>4, HandedFits
<1>7. Allotted(heap') = [b \in DOMAIN Allotted(heap) \cup {a} |-> IF b = a THEN k ELSE Allotted(heap)[b]]
  BY <1>2, <1>4 DEF Allotted
<1>8. BlockUnits(heap', a) = Promised!Span(a, k)
  BY DEF BlockUnits, Promised!Span
<1>9. Promised!Taken = UNION {BlockUnits(heap, c) : c \in UsedBlocks(heap)}
  BY DEF BlockUnits, Promised!Span, Promised!Taken
<1>10. Promised!Fits(a, k)
  BY <1>6, <1>8, <1>9 DEF Promised!Fits
<1>11. a \in Given
  <2>1. a \in BlockUnits(heap', a)
    BY <1>2, <1>3, <1>4 DEF BlockUnits, Addresses
  <2> QED
    BY <2>1, <1>6
<1>12. Promised!Grant(n, a)
  BY <1>2, <1>5, <1>7, <1>10 DEF Promised!Grant, Allotted
<1> QED
  BY <1>11, <1>12 DEF n, a

LEMMA RefuseImplemented ==
  ASSUME RuntimeInv, NEW bytes \in Nat, bytes > 0, NEW got, got = Malloc(heap, bytes), got.block = Null,
         heap' = heap, answer' = <<UnitsFor(bytes), Null>>
  PROVE  Promised!Refuse(UnitsFor(bytes))
<1> DEFINE n == UnitsFor(bytes)
<1>1. HeapInv(heap)
  BY DEF RuntimeInv
<1>2. n \in Nat /\ n > 0 /\ \A c \in FreeBlocks(heap) : heap[c].size < n
  <2>1. n \in Nat /\ n > 0
    BY UnitsForTypes
  <2>2. \A c \in FreeBlocks(heap) : heap[c].size < n
    BY <1>1, MallocRefuses, Zenon
  <2> QED
    BY <2>1, <2>2
<1>3. answer' = <<n, Null>>
  OBVIOUS
<1> HIDE DEF n
<1>4. \A a \in Given : \E u \in a .. a + n - 1 : u \notin Given \/ \E c \in UsedBlocks(heap) : u \in BlockUnits(heap, c)
  BY <1>1, <1>2, NoRoom
<1>5. Promised!Taken = UNION {BlockUnits(heap, c) : c \in UsedBlocks(heap)}
  BY DEF BlockUnits, Promised!Span, Promised!Taken
<1>6. \A a \in Given : ~ Promised!Fits(a, n)
  BY <1>4, <1>5 DEF Promised!Fits, Promised!Span
<1>7. Promised!Refuse(n)
  BY <1>3, <1>6 DEF Promised!Refuse
<1> QED
  BY <1>7 DEF n

LEMMA PromisedStarts == Init => Promised!AllocatorInit
<1> SUFFICES ASSUME Init PROVE Promised!AllocatorInit
  OBVIOUS
<1>1. UsedBlocks(heap) = {} /\ answer = << >>
  BY InitialHeap DEF Init
<1> QED
  BY <1>1 DEF Promised!AllocatorInit

\* A failed open takes a block and gives it back: its client sees nothing.
LEMMA OpenFailsHidden ==
  ASSUME RuntimeInv, OpenFails
  PROVE  Allotted(heap') = Allotted(heap) /\ answer' = answer
<1> DEFINE got == Malloc(heap, RAFileBytes)
<1>1. HeapInv(heap) /\ RAFileBytes \in Nat
  BY ProgramTypes DEF RuntimeInv
<1>2. got.block # Null /\ heap' = Free(got.heap, got.block) /\ answer' = answer
  BY DEF OpenFails
<1>4. /\ HeapInv(got.heap) /\ got.block \in FreeBlocks(heap)
      /\ UsedBlocks(got.heap) = UsedBlocks(heap) \cup {got.block}
      /\ \A c \in UsedBlocks(heap) : got.heap[c].size = heap[c].size
  BY <1>1, <1>2, MallocKeeps
<1> HIDE DEF got
<1>5. got.block \notin UsedBlocks(heap)
  BY <1>4 DEF FreeBlocks, UsedBlocks
<1>6. /\ UsedBlocks(heap') = UsedBlocks(got.heap) \ {got.block}
      /\ \A c \in UsedBlocks(got.heap) \ {got.block} : heap'[c].size = got.heap[c].size
  BY <1>2, <1>4, FreeKeepsSizes
<1>7. UsedBlocks(heap') = UsedBlocks(heap) /\ \A c \in UsedBlocks(heap) : heap'[c].size = heap[c].size
  BY <1>4, <1>5, <1>6
<1> QED
  BY <1>2, <1>7 DEF Allotted

RequestSizes == {UnitsFor(bytes) : bytes \in {RAFileBytes} \cup UNION {p.requests : p \in Programs}}

LEMMA PromisedStep ==
  RuntimeInv /\ [Next]_vars => [Promised!AllocatorNext]_<<Allotted(heap), answer>>
<1> SUFFICES ASSUME RuntimeInv, [Next]_vars
             PROVE  Promised!AllocatorNext \/ (Allotted(heap)' = Allotted(heap) /\ answer' = answer)
  OBVIOUS
<1> DEFINE Stays == Allotted(heap') = Allotted(heap) /\ answer' = answer
<1>1. ASSUME UNCHANGED heapVars PROVE Stays
  BY <1>1 DEF heapVars
<1>2. ASSUME NEW bytes \in Nat, UnitsFor(bytes) \in RequestSizes, NEW got, got = Malloc(heap, bytes),
             bytes > 0, heap' = got.heap, answer' = <<UnitsFor(bytes), got.block>>
      PROVE  Promised!AllocatorNext
  <2>1. CASE got.block = Null
    <3>1. heap' = heap
      BY <1>2, <2>1, NotHanded
    <3>2. Promised!Refuse(UnitsFor(bytes))
      BY <1>2, <2>1, <3>1, RefuseImplemented
    <3> QED
      BY <1>2, <3>2 DEF Promised!AllocatorNext, RequestSizes
  <2>2. CASE got.block # Null
    <3>1. got.block \in Given /\ Promised!Grant(UnitsFor(bytes), got.block)
      BY <1>2, <2>2, GrantImplemented
    <3> QED
      BY <1>2, <3>1 DEF Promised!AllocatorNext, RequestSizes
  <2> QED
    BY <2>1, <2>2
<1>3. /\ program.requests \subseteq UNION {p.requests : p \in Programs}
      /\ UnitsFor(RAFileBytes) \in RequestSizes /\ RAFileBytes \in Nat /\ RAFileBytes > 0
  <2>1. program \in Programs
    BY DEF RuntimeInv, TypeOK
  <2>2. RAFileBytes \in Nat /\ RAFileBytes > 0
    BY SyscallsAssumption
  <2>3. UnitsFor(RAFileBytes) \in RequestSizes
    BY Zenon DEF RequestSizes
  <2> QED
    BY <2>1, <2>2, <2>3
<1>4. ASSUME NEW bytes \in program.requests, Allocate(bytes) PROVE Promised!AllocatorNext \/ Stays
  <2> DEFINE got == Malloc(heap, bytes)
  <2>1. /\ bytes > 0 => answer' = <<UnitsFor(bytes), got.block>>
        /\ bytes = 0 => UNCHANGED answer
        /\ heap' = got.heap
    BY <1>4, Zenon DEF Allocate
  <2>2. bytes \in Nat
    BY ProgramTypes
  <2>3. UnitsFor(bytes) \in RequestSizes
    BY <1>3 DEF RequestSizes
  <2>4. CASE bytes > 0
    BY <1>2, <2>1, <2>2, <2>3, <2>4
  <2>5. CASE bytes = 0
    <3>1. got.heap = heap
      BY <2>5 DEF Malloc
    <3> QED
      BY <2>1, <2>5, <3>1 DEF Stays
  <2> QED
    BY <2>2, <2>4, <2>5
<1>5. ASSUME NEW b \in UsedBlocks(heap), heap' = Free(heap, b), answer' = << >> PROVE Promised!AllocatorNext
  <2>1. Promised!Release(b)
    BY <1>5, ReleaseImplemented
  <2> QED
    BY <2>1 DEF Promised!AllocatorNext
<1>6. ASSUME NEW b \in mine, Deallocate(b) PROVE Promised!AllocatorNext
  BY <1>5, <1>6, ProgramTypes DEF Deallocate
<1>7. ASSUME NEW fd \in held, Close(fd) PROVE Promised!AllocatorNext
  BY <1>5, <1>7, ProgramTypes DEF Close
<1>8. CASE OpenFull \/ UNCHANGED vars
  BY <1>1, <1>8 DEF OpenFull, vars, heapVars
<1>9. CASE OpenNoMemory
  <2>1. Malloc(heap, RAFileBytes).heap = heap /\ heap' = heap
        /\ answer' = <<UnitsFor(RAFileBytes), Malloc(heap, RAFileBytes).block>>
    BY <1>9, <1>3, NotHanded DEF OpenNoMemory
  <2> QED
    BY <1>2, <1>3, <2>1
<1>10. CASE OpenSucceeds
  <2>1. heap' = Malloc(heap, RAFileBytes).heap
        /\ answer' = <<UnitsFor(RAFileBytes), Malloc(heap, RAFileBytes).block>>
    BY <1>10 DEF OpenSucceeds
  <2> QED
    BY <1>2, <1>3, <2>1
<1>11. CASE OpenFails
  BY <1>11, OpenFailsHidden
<1>12. ASSUME NEW fd \in held, NEW bad \in Failing, NEW bytes \in program.reads, Read(fd, bytes, bad) PROVE Stays
  BY <1>1, <1>12 DEF Read
<1>13. ASSUME NEW fd \in held, NEW bad \in Failing, NEW offset \in program.seeks,
              SeekSet(fd, offset, bad) \/ SeekCur(fd, offset, bad)
       PROVE  Stays
  BY <1>1, <1>13 DEF SeekSet, SeekCur, Seek
<1> QED
  BY <1>4, <1>6, <1>7, <1>8, <1>9, <1>10, <1>11, <1>12, <1>13 DEF Next

\* malloc.c, under any sequence of the library's calls, keeps malloc's promise.
THEOREM AllocatorImplemented == Spec => ImplementsAllocator
<1>1. RuntimeInv /\ [Next]_vars => [Promised!AllocatorNext]_<<Allotted(heap), answer>>
  BY PromisedStep
<1> QED
  BY <1>1, PromisedStarts, RuntimeStarts, RuntimeStep, PTL
  DEF Spec, ImplementsAllocator, Promised!AllocatorSpec, Allotted

(***************************************************************************)
(* rafile.c: positions, sectors and the bytes between.                     *)
(***************************************************************************)
LEMMA SectorNat == SectorSize \in Nat /\ SectorSize > 0
BY RaFileAssumption

LEMMA Times ==
  ASSUME NEW a \in Int, NEW b \in Int, NEW s \in Nat, a <= b
  PROVE  a * s <= b * s /\ a * s \in Int /\ b * s \in Int
<1>1. (b - a) * s >= 0
  OBVIOUS
<1>2. (b - a) * s = b * s - a * s
  OBVIOUS
<1> QED
  BY <1>1, <1>2

LEMMA WholeAndRest ==
  ASSUME NEW n \in Nat, NEW s \in Nat, s > 0
  PROVE  n = (n \div s) * s + (n % s) /\ n \div s \in Nat /\ n % s \in 0 .. s - 1
OBVIOUS

LEMMA WholeAndRestOf ==
  ASSUME NEW n \in Nat, NEW s \in Nat, s > 0, NEW q \in Nat, NEW r \in 0 .. s - 1, n = q * s + r
  PROVE  n \div s = q /\ n % s = r
<1> DEFINE d == n \div s
           e == n % s
<1>1. n = d * s + e /\ d \in Nat /\ e \in 0 .. s - 1
  BY WholeAndRest
<1> HIDE DEF d, e
<1>2. d = q
  <2>1. CASE d < q
    <3>1. (d + 1) * s <= q * s
      BY <1>1, <2>1, Times
    <3>2. (d + 1) * s = d * s + s
      BY <1>1
    <3>3. d * s \in Int /\ q * s \in Int
      BY <1>1
    <3> QED
      BY <1>1, <3>1, <3>2, <3>3
  <2>2. CASE q < d
    <3>1. (q + 1) * s <= d * s
      BY <1>1, <2>2, Times
    <3>2. (q + 1) * s = q * s + s
      BY <1>1
    <3>3. d * s \in Int /\ q * s \in Int
      BY <1>1
    <3> QED
      BY <1>1, <3>1, <3>2, <3>3
  <2> QED
    BY <1>1, <2>1, <2>2
<1>3. q * s \in Int
  OBVIOUS
<1> QED
  BY <1>1, <1>2, <1>3 DEF d, e

\* A stretch of a file: n bytes from a position on, each represented by its position.
IsStretch(d, from, n) == d \in Seq(Int) /\ Len(d) = n /\ \A i \in 1 .. n : d[i] = from + i - 1

\* The file will go on where its position says, and what the position has behind it in its
\* sector lies in the buffer.
InStep(f) ==
  /\ f.ptr % SectorSize = 0 => f.sector = f.ptr \div SectorSize
  /\ f.ptr % SectorSize # 0 => f.sector = f.ptr \div SectorSize + 1 /\ f.buffer = f.ptr \div SectorSize

LEMMA Stretches ==
  ASSUME NEW n \in Nat, NEW from \in Int, NEW d, d = [i \in 1 .. n |-> from + i - 1]
  PROVE  IsStretch(d, from, n)
<1>1. d \in [1 .. n -> Int]
  OBVIOUS
<1>2. d \in Seq(Int)
  BY <1>1, SeqDef
<1>3. Len(d) = n
  BY <1>1, <1>2, LenProperties
<1> QED
  BY <1>2, <1>3 DEF IsStretch

LEMMA StretchesJoin ==
  ASSUME NEW c, NEW d, NEW from \in Int, NEW m \in Nat, NEW n \in Nat,
         IsStretch(c, from, m), IsStretch(d, from + m, n)
  PROVE  IsStretch(c \o d, from, m + n)
<1>1. c \in Seq(Int) /\ d \in Seq(Int) /\ Len(c) = m /\ Len(d) = n
  BY DEF IsStretch
<1>2. /\ c \o d \in Seq(Int) /\ Len(c \o d) = m + n
      /\ \A i \in 1 .. m + n : (c \o d)[i] = IF i <= m THEN c[i] ELSE d[i - m]
  BY <1>1, ConcatProperties
<1>3. ASSUME NEW i \in 1 .. m + n PROVE (c \o d)[i] = from + i - 1
  <2>1. CASE i <= m
    BY <1>2, <2>1 DEF IsStretch
  <2>2. CASE ~ (i <= m)
    <3>1. i - m \in 1 .. n
      BY <2>2
    <3>2. d[i - m] = from + m + (i - m) - 1
      BY <3>1 DEF IsStretch
    <3> QED
      BY <1>2, <2>2, <3>2
  <2> QED
    BY <2>1, <2>2, Zenon
<1> QED
  BY <1>2, <1>3 DEF IsStretch

LEMMA BufferedBytes ==
  ASSUME NEW sector \in Nat, NEW from \in Nat, NEW to \in Nat, from <= to
  PROVE  IsStretch(BytesOf(sector, from, to), sector * SectorSize + from, to - from)
<1> DEFINE n == to - from
           p == sector * SectorSize + from
<1>1. n \in Nat /\ p \in Int /\ sector # NoSector
  BY SectorNat DEF NoSector
<1>2. (IF to > from THEN to - from ELSE 0) = n
  OBVIOUS
<1>3. BytesOf(sector, from, to) = [i \in 1 .. n |-> p + i - 1]
  BY <1>1, <1>2 DEF BytesOf
<1> HIDE DEF n, p
<1>4. IsStretch(BytesOf(sector, from, to), p, n)
  BY <1>1, <1>3, Stretches
<1> QED
  BY <1>4 DEF n, p

LEMMA DirectBytes ==
  ASSUME NEW first \in Nat, NEW count \in Nat, NEW bad, \A s \in first .. first + count - 1 : FileReadOk(s, bad)
  PROVE  IsStretch(SectorsDirect(first, count, bad), first * SectorSize, count * SectorSize)
<1> DEFINE n == count * SectorSize
           p == first * SectorSize
<1>1. n \in Nat /\ p \in Int
  BY SectorNat
<1>2. ASSUME NEW i \in 1 .. n PROVE FileReadOk(first + (i - 1) \div SectorSize, bad)
  <2> DEFINE q == (i - 1) \div SectorSize
             r == (i - 1) % SectorSize
  <2>1. i - 1 \in Nat /\ i - 1 < n
    BY <1>1
  <2>2. i - 1 = q * SectorSize + r /\ q \in Nat /\ r \in 0 .. SectorSize - 1
    BY <2>1, SectorNat, WholeAndRest
  <2> HIDE DEF q, r
  <2>3. q < count
    <3> SUFFICES ASSUME count <= q PROVE FALSE
      BY <2>2
    <3>1. count * SectorSize <= q * SectorSize /\ q * SectorSize \in Int
      BY <2>2, SectorNat, Times
    <3> QED
      BY <2>1, <2>2, <3>1, SectorNat
  <2>4. first + q \in first .. first + count - 1
    BY <2>2, <2>3
  <2> QED
    BY <2>4 DEF q
<1>3. SectorsDirect(first, count, bad) = [i \in 1 .. n |-> p + i - 1]
  <2>1. SectorsDirect(first, count, bad) =
          [i \in 1 .. n |-> IF FileReadOk(first + (i - 1) \div SectorSize, bad) THEN p + i - 1 ELSE NoByte]
    BY DEF SectorsDirect
  <2> HIDE DEF n, p
  <2> QED
    BY <1>2, <2>1
<1> HIDE DEF n, p
<1>4. IsStretch(SectorsDirect(first, count, bad), p, n)
  BY <1>1, <1>3, Stretches
<1> QED
  BY <1>4 DEF n, p

LEMMA NoBytes == \A from \in Int : IsStretch(<< >>, from, 0)
BY EmptySeq DEF IsStretch

LEMMA SectorsWhole ==
  ASSUME NEW n \in Nat
  PROVE  /\ n = (n \div SectorSize) * SectorSize + (n % SectorSize)
         /\ n \div SectorSize \in Nat /\ n % SectorSize \in 0 .. SectorSize - 1
         /\ (n \div SectorSize) * SectorSize \in Nat
<1> DEFINE s == SectorSize
<1>1. s \in Nat /\ s > 0
  BY SectorNat
<1> HIDE DEF s
<1>2. n = (n \div s) * s + (n % s) /\ n \div s \in Nat /\ n % s \in 0 .. s - 1
  BY <1>1
<1>3. (n \div s) * s \in Nat
  BY <1>1, <1>2
<1> QED
  BY <1>2, <1>3 DEF s

\* A read of a sector or more, with no sector failing, delivers the bytes of the file from the
\* position on and leaves the file in step.
LEMMA ReadInStep ==
  ASSUME NEW f \in RAFiles, InStep(f), NEW bytes \in Nat, bytes >= SectorSize, NEW bad,
         NEW done, done = RARead(f, bytes, bad), done.ok
  PROVE  InStep(done.file) /\ IsStretch(done.data, f.ptr, bytes)
<1> DEFINE q == f.ptr \div SectorSize
           blockoffset == f.ptr % SectorSize
           l == IF bytes > SectorSize THEN SectorSize ELSE bytes
           drained == IF blockoffset = 0 THEN 0 ELSE l - blockoffset
           left == bytes - drained
           whole == left \div SectorSize
           tail == left % SectorSize
           last == f.sector + whole
           buffer == IF tail = 0 THEN f.buffer ELSE FileReadInto(f.buffer, last, bad)
           file == [sector |-> IF tail = 0 THEN last ELSE last + 1, ptr |-> f.ptr + bytes, buffer |-> buffer]
           head == IF blockoffset = 0 THEN << >> ELSE BytesOf(f.buffer, blockoffset, l)
           middle == SectorsDirect(f.sector, whole, bad)
           end == BytesOf(buffer, 0, tail)
<1>1. /\ done.file = file /\ done.data = head \o middle \o end
      /\ \A s \in f.sector .. (IF tail = 0 THEN last - 1 ELSE last) : FileReadOk(s, bad)
  BY DEF RARead
<1>2. f.sector \in Nat /\ f.ptr \in Nat /\ f.buffer \in Nat \cup {NoSector}
  BY DEF RAFiles
<1>3. f.ptr = q * SectorSize + blockoffset /\ q \in Nat /\ blockoffset \in 0 .. SectorSize - 1 /\ q * SectorSize \in Nat
  BY <1>2, SectorNat, SectorsWhole
<1>4. /\ blockoffset = 0 => f.sector = q
      /\ blockoffset # 0 => f.sector = q + 1 /\ f.buffer = q
  BY DEF InStep
<1>5. l = SectorSize
  BY SectorNat
<1> HIDE DEF q, blockoffset, l
<1>6. drained \in Nat /\ left \in Nat /\ f.ptr + drained = f.sector * SectorSize
  <2>1. (q + 1) * SectorSize = q * SectorSize + SectorSize
    BY <1>3, SectorNat
  <2> QED
    BY <1>2, <1>3, <1>4, <1>5, <2>1, SectorNat
<1>7. IsStretch(head, f.ptr, drained)
  <2>1. CASE blockoffset = 0
    BY <2>1, <1>2, NoBytes
  <2>2. CASE blockoffset # 0
    <3>1. IsStretch(BytesOf(q, blockoffset, l), q * SectorSize + blockoffset, l - blockoffset)
      BY <1>3, <1>5, SectorNat, BufferedBytes
    <3> QED
      BY <2>2, <3>1, <1>3, <1>4
  <2> QED
    BY <2>1, <2>2
<1> HIDE DEF drained, head
<1>8. left = whole * SectorSize + tail /\ whole \in Nat /\ tail \in 0 .. SectorSize - 1 /\ whole * SectorSize \in Nat
  BY <1>6, SectorNat, SectorsWhole
<1>9. f.ptr + bytes = f.sector * SectorSize + left /\ bytes = drained + left /\ f.sector * SectorSize \in Nat
  <2>1. f.sector * SectorSize \in Nat
    BY <1>2, SectorNat
  <2>2. bytes = drained + left
    BY <1>6
  <2> QED
    BY <1>2, <1>6, <2>1, <2>2
<1> HIDE DEF left, whole, tail
<1>10. last * SectorSize = f.sector * SectorSize + whole * SectorSize /\ last \in Nat /\ last * SectorSize \in Nat
  BY <1>2, <1>8, SectorNat
<1>11. f.ptr + bytes = last * SectorSize + tail
  BY <1>8, <1>9, <1>10
<1>12. (f.ptr + bytes) \div SectorSize = last /\ (f.ptr + bytes) % SectorSize = tail
  <2> DEFINE total == f.ptr + bytes
  <2>1. total \in Nat /\ total = last * SectorSize + tail
    BY <1>2, <1>11
  <2> HIDE DEF total, last
  <2>2. total \div SectorSize = last /\ total % SectorSize = tail
    BY <2>1, <1>8, <1>10, SectorNat, WholeAndRestOf
  <2> QED
    BY <2>2 DEF total
<1>13. IsStretch(middle, f.sector * SectorSize, whole * SectorSize)
  <2>1. \A s \in f.sector .. f.sector + whole - 1 : FileReadOk(s, bad)
    BY <1>1, <1>2, <1>8 DEF last
  <2> QED
    BY <2>1, <1>2, <1>8, DirectBytes
<1>14. tail # 0 => buffer = last
  <2> SUFFICES ASSUME tail # 0 PROVE buffer = last
    OBVIOUS
  <2>1. last \in f.sector .. last
    BY <1>2, <1>8, <1>10
  <2>2. FileReadOk(last, bad)
    BY <1>1, <2>1
  <2> QED
    BY <2>2 DEF FileReadInto
<1>15. IsStretch(end, last * SectorSize, tail)
  <2>1. CASE tail = 0
    <3>1. end = [i \in 1 .. 0 |-> IF buffer = NoSector THEN NoByte ELSE buffer * SectorSize + 0 + i - 1]
      BY <2>1 DEF BytesOf
    <3>2. end = << >>
      BY <3>1
    <3> QED
      BY <3>2, <2>1, <1>10, NoBytes
  <2>2. CASE tail # 0
    <3> HIDE DEF last, buffer
    <3>1. tail \in Nat /\ 0 <= tail /\ last \in Nat
      BY <1>8, <1>10
    <3>2. IsStretch(BytesOf(last, 0, tail), last * SectorSize + 0, tail - 0)
      BY <3>1, BufferedBytes
    <3>3. last * SectorSize + 0 = last * SectorSize /\ tail - 0 = tail
      BY <1>10, <3>1
    <3> QED
      BY <2>2, <3>2, <3>3, <1>14
  <2> QED
    BY <2>1, <2>2
<1> HIDE DEF last, buffer, middle, end
<1>16. IsStretch(head \o middle, f.ptr, drained + whole * SectorSize)
  BY <1>2, <1>6, <1>7, <1>8, <1>13, StretchesJoin
<1>17. IsStretch(head \o middle \o end, f.ptr, drained + whole * SectorSize + tail)
  <2>1. f.ptr + (drained + whole * SectorSize) = last * SectorSize
    BY <1>2, <1>6, <1>8, <1>9, <1>10
  <2>2. drained + whole * SectorSize \in Nat /\ tail \in Nat /\ f.ptr \in Int
    BY <1>2, <1>6, <1>8
  <2> QED
    BY <1>15, <1>16, <2>1, <2>2, StretchesJoin
<1>18. drained + whole * SectorSize + tail = bytes
  BY <1>6, <1>8, <1>9
<1>19. InStep(file)
  BY <1>12, <1>14 DEF InStep
<1> QED
  BY <1>1, <1>17, <1>18, <1>19

LEMMA SeekInStep ==
  ASSUME NEW f \in RAFiles, NEW offset \in Nat, NEW bad, NEW done, done = RASeek(f, offset, bad), done.ok
  PROVE  InStep(done.file)
<1> DEFINE sector == offset \div SectorSize
<1>0. FileSeekOk(bad)
  BY DEF RASeek
<1>1. CASE offset % SectorSize = 0
  <2>1. done.file = [f EXCEPT !.sector = sector, !.ptr = offset]
    BY <1>0, <1>1 DEF RASeek
  <2>2. done.file.sector = sector /\ done.file.ptr = offset
    BY <2>1 DEF RAFiles
  <2> QED
    BY <1>1, <2>2 DEF InStep
<1>2. CASE offset % SectorSize # 0
  <2>1. /\ done.file = [sector |-> sector + 1, ptr |-> offset, buffer |-> FileReadInto(f.buffer, sector, bad)]
        /\ FileReadOk(sector, bad)
    BY <1>0, <1>2 DEF RASeek
  <2>2. done.file.sector = sector + 1 /\ done.file.ptr = offset /\ done.file.buffer = sector
    BY <2>1 DEF FileReadInto
  <2> QED
    BY <1>2, <2>2 DEF InStep
<1> QED
  BY <1>1, <1>2

(***************************************************************************)
(* read() on descriptors no failed call has left out of step.              *)
(***************************************************************************)
\* The C library and junixio.c read a sector or more at a time.
WholeSectors == \A p \in Programs : \A n \in p.reads : n >= SectorSize

FilesInStep == (\A fd \in held \ suspect : InStep(raFiles[fd])) /\ ReadsExact

LEMMA OpenedInStep == InStep(Opened)
<1> DEFINE s == SectorSize
<1>1. s \in Nat /\ s > 0
  BY SectorNat
<1> HIDE DEF s
<1>2. 0 \div s = 0 /\ 0 % s = 0
  <2>1. 0 = 0 * s + 0 /\ 0 \in 0 .. s - 1
    BY <1>1
  <2> QED
    BY <1>1, <2>1, WholeAndRestOf
<1> QED
  BY <1>2 DEF InStep, Opened, s

LEMMA ReadExact ==
  ASSUME RuntimeInv, FilesInStep, WholeSectors,
         NEW fd \in held, NEW bytes \in program.reads, NEW bad \in Failing, Read(fd, bytes, bad)
  PROVE  FilesInStep'
<1> DEFINE f == raFiles[fd]
           done == RARead(f, bytes, bad)
           wrong == \E i \in 1 .. bytes : i \notin DOMAIN done.data \/ done.data[i] # f.ptr + i - 1
<1>1. /\ raFiles' = [raFiles EXCEPT ![fd] = done.file]
      /\ suspect' = IF done.ok THEN suspect ELSE suspect \cup {fd}
      /\ held' = held
  BY DEF Read
<1>2. misread' = (misread \/ (done.ok /\ fd \notin suspect /\ wrong))
  BY Zenon DEF Read
<1>3. program \in Programs /\ raFiles \in [Descriptors -> RAFiles] /\ fd \in Descriptors /\ f \in RAFiles
  BY DEF RuntimeInv, TypeOK, RAFiles
<1>4. bytes \in Nat /\ bytes >= SectorSize
  BY <1>3, ProgramTypes DEF WholeSectors
<1>5. ASSUME fd \notin suspect, done.ok PROVE InStep(done.file) /\ ~ wrong
  <2>1. InStep(f)
    BY <1>5 DEF FilesInStep
  <2>2. InStep(done.file) /\ IsStretch(done.data, f.ptr, bytes)
    BY <1>3, <1>4, <1>5, <2>1, ReadInStep
  <2>3. DOMAIN done.data = 1 .. bytes /\ \A i \in 1 .. bytes : done.data[i] = f.ptr + i - 1
    BY <2>2, LenProperties DEF IsStretch
  <2> QED
    BY <2>2, <2>3
<1> HIDE DEF done, wrong
<1>6. ReadsExact'
  BY <1>2, <1>5, Zenon DEF FilesInStep, ReadsExact
<1>7. ASSUME NEW other \in held' \ suspect' PROVE InStep(raFiles'[other])
  <2>1. other \in held \ suspect /\ other \in Descriptors
    BY <1>1 DEF RuntimeInv, TypeOK
  <2>2. CASE other = fd
    <3>1. done.ok /\ fd \notin suspect
      BY <1>1, <1>7, <2>2
    <3> QED
      BY <1>1, <1>3, <1>5, <2>2, <3>1
  <2>3. CASE other # fd
    BY <1>1, <1>3, <2>1, <2>3 DEF FilesInStep
  <2> QED
    BY <2>2, <2>3
<1> QED
  BY <1>6, <1>7 DEF FilesInStep

LEMMA SeekExact ==
  ASSUME RuntimeInv, FilesInStep, NEW fd \in held, NEW offset \in Nat, NEW bad \in Failing, Seek(fd, offset, bad)
  PROVE  FilesInStep'
<1> DEFINE f == raFiles[fd]
           done == RASeek(f, offset, bad)
<1>1. /\ raFiles' = [raFiles EXCEPT ![fd] = done.file]
      /\ suspect' = IF done.ok THEN suspect ELSE suspect \cup {fd}
      /\ held' = held /\ misread' = misread
  BY DEF Seek
<1>2. raFiles \in [Descriptors -> RAFiles] /\ fd \in Descriptors /\ f \in RAFiles
  BY DEF RuntimeInv, TypeOK, RAFiles
<1>3. done.ok => InStep(done.file)
  BY <1>2, SeekInStep
<1> HIDE DEF done
<1>4. ReadsExact'
  BY <1>1, Zenon DEF FilesInStep, ReadsExact
<1>5. ASSUME NEW other \in held' \ suspect' PROVE InStep(raFiles'[other])
  <2>1. other \in held \ suspect /\ other \in Descriptors
    BY <1>1 DEF RuntimeInv, TypeOK
  <2>2. CASE other = fd
    BY <1>1, <1>2, <1>3, <1>5, <2>2
  <2>3. CASE other # fd
    BY <1>1, <1>2, <2>1, <2>3 DEF FilesInStep
  <2> QED
    BY <2>2, <2>3
<1> QED
  BY <1>4, <1>5 DEF FilesInStep

\* Descriptors that are in step stay so where nothing is read, sought or opened.
LEMMA ElsewhereExact ==
  ASSUME FilesInStep, raFiles' = raFiles, misread' = misread, held' \ suspect' \subseteq held \ suspect
  PROVE  FilesInStep'
<1>1. ReadsExact'
  BY Zenon DEF FilesInStep, ReadsExact
<1>2. \A fd \in held' \ suspect' : InStep(raFiles'[fd])
  BY DEF FilesInStep
<1> QED
  BY <1>1, <1>2 DEF FilesInStep

LEMMA OpenExact ==
  ASSUME RuntimeInv, FilesInStep, OpenSucceeds
  PROVE  FilesInStep'
<1> DEFINE fd == Min(EmptyEntries)
<1>1. /\ raFiles' = [raFiles EXCEPT ![fd] = Opened] /\ held' = held \cup {fd}
      /\ suspect' = suspect /\ misread' = misread /\ EmptyEntries # {}
  BY DEF OpenSucceeds
<1>2. fd \in Descriptors
  BY <1>1, ProgramTypes
<1> HIDE DEF fd
<1>3. ReadsExact'
  BY <1>1, Zenon DEF FilesInStep, ReadsExact
<1>4. raFiles \in [Descriptors -> RAFiles] /\ held \subseteq Descriptors
  BY DEF RuntimeInv, TypeOK, RAFiles
<1>5. ASSUME NEW other \in held' \ suspect' PROVE InStep(raFiles'[other])
  <2>1. CASE other = fd
    BY <1>1, <1>2, <1>4, <2>1, OpenedInStep
  <2>2. CASE other # fd
    BY <1>1, <1>2, <1>4, <2>2 DEF FilesInStep
  <2> QED
    BY <2>1, <2>2
<1> QED
  BY <1>3, <1>5 DEF FilesInStep

LEMMA FilesStep == WholeSectors /\ RuntimeInv /\ FilesInStep /\ [Next]_vars => FilesInStep'
<1> SUFFICES ASSUME WholeSectors, RuntimeInv, FilesInStep, [Next]_vars PROVE FilesInStep'
  OBVIOUS
<1>1. CASE UNCHANGED vars \/ OpenFull
  BY <1>1, ElsewhereExact DEF vars, OpenFull
<1>2. ASSUME NEW bytes \in program.requests, Allocate(bytes) PROVE FilesInStep'
  <2>1. UNCHANGED fileVars
    BY <1>2 DEF Allocate
  <2> QED
    BY <2>1, ElsewhereExact DEF fileVars
<1>3. ASSUME NEW b \in mine, Deallocate(b) PROVE FilesInStep'
  BY <1>3, ElsewhereExact DEF Deallocate, fileVars
<1>4. CASE OpenNoMemory
  BY <1>4, ElsewhereExact DEF OpenNoMemory, fileVars
<1>5. CASE OpenSucceeds
  BY <1>5, OpenExact
<1>6. CASE OpenFails
  BY <1>6, ElsewhereExact DEF OpenFails
<1>7. ASSUME NEW fd \in held, Close(fd) PROVE FilesInStep'
  <2>1. raFiles' = raFiles /\ misread' = misread /\ held' = held \ {fd} /\ suspect' = suspect \ {fd}
    BY <1>7 DEF Close
  <2> QED
    BY <2>1, ElsewhereExact
<1>8. ASSUME NEW fd \in held, NEW bad \in Failing, NEW bytes \in program.reads, Read(fd, bytes, bad)
      PROVE  FilesInStep'
  BY <1>8, ReadExact
<1>9. ASSUME NEW fd \in held, NEW bad \in Failing, NEW offset \in program.seeks,
             SeekSet(fd, offset, bad) \/ SeekCur(fd, offset, bad)
      PROVE  FilesInStep'
  <2>1. offset \in Nat /\ raFiles[fd].ptr \in Nat
    BY ProgramTypes DEF RuntimeInv, TypeOK
  <2>2. raFiles[fd].ptr + offset \in Nat
    BY <2>1
  <2> QED
    BY <1>9, <2>1, <2>2, SeekExact DEF SeekSet, SeekCur
<1> QED
  BY <1>1, <1>2, <1>3, <1>4, <1>5, <1>6, <1>7, <1>8, <1>9 DEF Next

\* rafile.c, for programs that read a sector or more at a time, after any sequence of opens,
\* reads, seeks and failures: what is reported read is the file's bytes at the position.
THEOREM ReadsAlwaysExact ==
  ASSUME WholeSectors
  PROVE  Spec => []ReadsExact
<1>1. Init => FilesInStep
  BY Zenon DEF Init, FilesInStep, ReadsExact
<1>2. FilesInStep => ReadsExact
  BY DEF FilesInStep
<1>3. RuntimeInv /\ FilesInStep /\ [Next]_vars => FilesInStep'
  BY FilesStep
<1> QED
  BY <1>1, <1>2, <1>3, RuntimeStarts, RuntimeStep, PTL DEF Spec
=============================================================================
