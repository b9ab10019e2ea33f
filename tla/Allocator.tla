----------------------------- MODULE Allocator -----------------------------
(***************************************************************************)
(* What malloc() and free() promise a client: blocks of the arena that do  *)
(* not overlap, a refusal only when no stretch of free units is long       *)
(* enough.  Units are the 16 bytes of an arena header; a block's units     *)
(* include its header.  A block may be one unit longer than asked for,     *)
(* when the rest would be too short to stand alone.                        *)
(***************************************************************************)
EXTENDS Integers

CONSTANTS Arena,    \* the units of memory under management
          Sizes,    \* the lengths, in units, that clients ask for
          Refused   \* the answer to a request that cannot be met

VARIABLES used,     \* the allocated blocks: address -> length
          answer    \* the last request and what it was given, << >> after a release

Span(a, n) == a .. a + n - 1

Taken == UNION {Span(a, used[a]) : a \in DOMAIN used}

Fits(a, n) == Span(a, n) \subseteq Arena \ Taken

AllocatorInit == used = << >> /\ answer = << >>

\* A block for n units is handed out ...
Grant(n, a) == /\ answer' = <<n, a>>
               /\ \E k \in {n, n + 1} :
                    /\ used' = [b \in DOMAIN used \cup {a} |-> IF b = a THEN k ELSE used[b]]
                    /\ Fits(a, k)

\* ... and refused only if there is no room for it.
Refuse(n) == /\ answer' = <<n, Refused>>
             /\ UNCHANGED used
             /\ \A a \in Arena : ~ Fits(a, n)

Release(a) == /\ answer' = << >>
              /\ used' = [b \in DOMAIN used \ {a} |-> used[b]]

AllocatorNext == \/ \E n \in Sizes : Refuse(n) \/ \E a \in Arena : Grant(n, a)
                 \/ \E a \in DOMAIN used : Release(a)

AllocatorSpec == AllocatorInit /\ [][AllocatorNext]_<<used, answer>>
=============================================================================
