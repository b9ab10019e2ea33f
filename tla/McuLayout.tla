----------------------------- MODULE McuLayout -----------------------------
(***************************************************************************)
(* How a picture is divided: components into blocks, blocks into MCUs and  *)
(* rows of interleaved MCUs.  Blocks have DCTSIZE = 2 rows and columns.    *)
(*                                                                         *)
(* The parameters of a file are a record with width, height and comps, the *)
(* sampling factors h and v and the table number tbl of each component.    *)
(***************************************************************************)
EXTENDS Integers, Sequences, FiniteSets, FiniteSetsExt

DCTSIZE == 2
CeilDiv(a, b) == (a + b - 1) \div b
RoundUp(a, b) == CeilDiv(a, b) * b
\* What is left for the last of the units that n is divided into.
LastPart(n, unit) == IF n % unit = 0 THEN unit ELSE n % unit

MaxH(info) == FoldSet(LAMBDA c, m : IF info.comps[c].h > m THEN info.comps[c].h ELSE m, 1, DOMAIN info.comps)
MaxV(info) == FoldSet(LAMBDA c, m : IF info.comps[c].v > m THEN info.comps[c].v ELSE m, 1, DOMAIN info.comps)

width_in_blocks(info, c) == CeilDiv(info.width * info.comps[c].h, MaxH(info) * DCTSIZE)
height_in_blocks(info, c) == CeilDiv(info.height * info.comps[c].v, MaxV(info) * DCTSIZE)
total_iMCU_rows(info) == CeilDiv(info.height, MaxV(info) * DCTSIZE)

(* Arrays of blocks, rows and columns counted from 0; a component's array is
   padded to whole MCUs. *)
Place(rows, cols) == (0 .. rows - 1) \X (0 .. cols - 1)
PaddedPlaces(info, c) ==
  Place(RoundUp(height_in_blocks(info, c), info.comps[c].v), RoundUp(width_in_blocks(info, c), info.comps[c].h))

=============================================================================
