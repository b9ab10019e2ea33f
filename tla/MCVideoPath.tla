----------------------------- MODULE MCVideoPath -----------------------------
(***************************************************************************)
(* Small instances of VideoPath: a picture of a few short lines, bursts and    *)
(* pixels of the real length, a shorter ring.                                *)
(***************************************************************************)
EXTENDS VideoPath

L(b, c) == [bank |-> b, row |-> 0, col |-> c]
At(b, c) == [line |-> L(b, c), byte |-> 0]
None == [none |-> TRUE]
MCWords == {[b \in 0..3 |-> 0]}
MCBuffers == {L(0, 0)}
TwoBuffers == {L(0, 0), L(0, 4)}
MCSprite == L(2, 5)
\* One line in the bank of the first burst of a frame; the bursts go round the banks.
MCAddrs == {At(0, 0)}

\* A display while the CPU works, and one with a sprite whose framebuffer is switched.
Built == {[sprite |-> FALSE, load |-> "memory"], [sprite |-> TRUE, load |-> "register"]}
Working == {[sprite |-> FALSE, load |-> "memory"]}

\* The pictures that are shown word for word meet the hypothesis of the theorem on NoUnderrun; those of
\* VideoService are shorter than the ring.
ASSUME PictureTimely == HSize >= Depth => DisplayTimely
=============================================================================
