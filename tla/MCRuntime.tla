----------------------------- MODULE MCRuntime -----------------------------
(***************************************************************************)
(* Instances of Syscalls: ten units of heap, files of a few sectors of     *)
(* four bytes.                                                             *)
(***************************************************************************)
EXTENDS Syscalls

\* Sizes of none, one, two to four units with the header, and more than the heap has together.
Allocating == [requests |-> {0, 1, 40, 120}, reads |-> {}, seeks |-> {}]

\* A sector or more at a time, as the C library and junixio.c read, from any place.
Reading == [requests |-> {40}, reads |-> {5, 8}, seeks |-> {0, 3}]

\* Less than a sector at a time.
ReadingBytes == [requests |-> {}, reads |-> {1, 3, 4}, seeks |-> {0, 3}]

CarefulPrograms == {Allocating, Reading}
BytewisePrograms == {ReadingBytes}
=============================================================================
