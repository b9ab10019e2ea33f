----------------------------- MODULE AtomicMemory -----------------------------
(***************************************************************************)
(* What the memory system promises the CPU: a byte-addressed big-endian      *)
(* memory on which the accesses take effect one at a time, each between its  *)
(* request and its reply.                                                  *)
(***************************************************************************)
EXTENDS Naturals

CONSTANTS
  Line, Byte,
  Access,      \* the accesses: records with op, addr and word
  Initial      \* the initial contents

VARIABLES
  store,       \* [Line -> [0..7 -> Byte]]
  request,     \* the access under way, or NoRequest
  reply        \* the last word read

vars == <<store, request, reply>>

NoRequest == [op |-> "none"]

\* The word at an address, and a line after an access that writes size bytes,
\* which are the last ones of the word.
WordAt(contents, a) == [b \in 0..3 |-> contents[a.line][a.byte + b]]

Written(contents, a, size, w) ==
  [contents EXCEPT ![a.line] = [i \in 0..7 |->
     IF i \in a.byte .. a.byte + size - 1 THEN w[i - a.byte + 4 - size] ELSE @[i]]]

Init == store = Initial /\ request = NoRequest /\ reply \in [0..3 -> Byte]

Ask(x) ==
  request = NoRequest /\ request' = x /\ UNCHANGED <<store, reply>>

Read ==
  /\ request # NoRequest /\ request.op = "read"
  /\ reply' = WordAt(store, request.addr)
  /\ request' = NoRequest /\ UNCHANGED store

Write(op, size) ==
  /\ request # NoRequest /\ request.op = op
  /\ store' = Written(store, request.addr, size, request.word)
  /\ request' = NoRequest /\ UNCHANGED reply

Perform == Read \/ Write("write", 4) \/ Write("writeh", 2) \/ Write("writeb", 1)

Next == (\E x \in Access : Ask(x)) \/ Perform

Spec == Init /\ [][Next]_vars
=============================================================================
