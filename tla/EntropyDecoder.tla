--------------------------- MODULE EntropyDecoder --------------------------
(***************************************************************************)
(* The Huffman entropy decoders of the JPEG library, sequential (jdhuff.c) *)
(* and progressive (jdphuff.c), with the restart markers (jdmarker.c).     *)
(*                                                                         *)
(* A decoder `d' carries its scan, the bytes the source has ready (src),   *)
(* its bit buffer and the blocks of the MCU it works on.  An operation     *)
(* that finds too few bytes sets `suspended': what it did to d is then     *)
(* dropped by the caller, except where the code has already made it        *)
(* permanent.  An operation that yields a number leaves it in `value'.     *)
(***************************************************************************)
EXTENDS EntropyEncoder

CONSTANTS BIT_BUF_SIZE,     \* 32: bits of the decoder's bit buffer
          SOF0              \* the smallest valid marker code
ASSUME SOF0 \in 1 .. RST0

MIN_GET_BITS == BIT_BUF_SIZE - (ByteBits - 1)

\* The rest of an operation, unless there were too few bytes.
Then(d, Rest(_)) == IF d.suspended THEN d ELSE Rest(d)

-----------------------------------------------------------------------------
(* Markers.                                                                *)

\* The first marker of a source: where it ends, and before it the bytes that can be given up
\* already.  A run of FF bytes not yet ended keeps its FFs; a stuffed pair is given up whole.
RECURSIVE NextMarker(_, _)
NextMarker(src, synced) ==
  LET ff == SelectInSubSeq(src, synced + 1, Len(src), LAMBDA b : b = FF)
      after == SelectInSubSeq(src, ff + 1, Len(src), LAMBDA b : b # FF)
  IN IF ff = 0 THEN [found |-> FALSE, at |-> Len(src)]
     ELSE IF after = 0 THEN [found |-> FALSE, at |-> ff - 1]
     ELSE IF src[after] = 0 THEN NextMarker(src, after)
     ELSE [found |-> TRUE, at |-> after]

Synced(d, next) ==
  [d EXCEPT !.unread_marker = IF next.found THEN d.src[next.at] ELSE @,
            !.suspended = ~next.found,
            !.src = SubSeq(@, next.at + 1, Len(@))]
next_marker(d) == Synced(d, NextMarker(d.src, 0))

\* What to do about a marker that is not the one expected.
RecoveryAction(marker, desired) ==
  LET Rst(n) == RST0 + (n % 8)
  IN CASE marker < SOF0 -> 2
       [] marker \notin RST0 .. RST0 + 7 /\ marker >= SOF0 -> 3
       [] marker \in {Rst(desired + 1), Rst(desired + 2)} -> 3
       [] marker \in {Rst(desired - 1), Rst(desired - 2)} -> 2
       [] OTHER -> 1

\* 1: give up the marker and go on after it; 2: look for another; 3: leave it to be met again.
RECURSIVE jpeg_resync_to_restart(_, _)
jpeg_resync_to_restart(d, desired) ==
  LET act == RecoveryAction(d.unread_marker, desired)
  IN CASE act = 1 -> [d EXCEPT !.unread_marker = 0]
       [] act = 2 -> Then(next_marker(d), LAMBDA x : jpeg_resync_to_restart(x, desired))
       [] act = 3 -> d

ExpectedMarker(d) ==
  IF d.unread_marker = RST0 + d.next_restart_num THEN [d EXCEPT !.unread_marker = 0]
  ELSE jpeg_resync_to_restart(d, d.next_restart_num)

read_restart_marker(d) ==
  LET Met(x) == Then(ExpectedMarker(x), LAMBDA y : [y EXCEPT !.next_restart_num = (@ + 1) % 8])
  IN Then(IF d.unread_marker = 0 THEN next_marker(d) ELSE d, Met)

-----------------------------------------------------------------------------
(* Bits.                                                                   *)

\* Whole bytes are loaded until the buffer is full, a marker is met or the source has no more.
RECURSIVE LoadBytes(_)
LoadBytes(d) ==
  LET after == SelectInSubSeq(d.src, 2, Len(d.src), LAMBDA b : b # FF)
      Loaded(n, byte) == [d EXCEPT !.bits = @ \o BitString(byte, ByteBits),
                                   !.src = SubSeq(@, n + 1, Len(@))]
  IN IF Len(d.bits) >= MIN_GET_BITS THEN d
     ELSE IF d.src = << >> THEN [d EXCEPT !.suspended = TRUE]
     ELSE IF d.src[1] # FF THEN LoadBytes(Loaded(1, d.src[1]))
     ELSE IF after = 0 THEN [d EXCEPT !.suspended = TRUE]
     ELSE IF d.src[after] = 0 THEN LoadBytes(Loaded(after, FF))
     ELSE [d EXCEPT !.unread_marker = d.src[after], !.src = SubSeq(@, after + 1, Len(@))]

\* Past the end of the data zero bits are made up.
MadeUp(d, nbits) ==
  IF d.unread_marker = 0 \/ nbits <= Len(d.bits) THEN d
  ELSE [d EXCEPT !.insufficient_data = TRUE,
                 !.bits = @ \o [i \in 1 .. MIN_GET_BITS - Len(@) |-> 0]]
jpeg_fill_bit_buffer(d, nbits) ==
  MadeUp(IF d.unread_marker = 0 THEN LoadBytes(d) ELSE d, nbits)

CHECK_BIT_BUFFER(d, nbits) == IF Len(d.bits) < nbits THEN jpeg_fill_bit_buffer(d, nbits) ELSE d
DROP_BITS(d, nbits) == [d EXCEPT !.bits = SubSeq(@, nbits + 1, Len(@))]
PEEK_BITS(d, nbits) == BitsValue(SubSeq(d.bits, 1, nbits))
GET_BITS(d, nbits) ==
  Then(CHECK_BIT_BUFFER(d, nbits),
       LAMBDA x : [DROP_BITS(x, nbits) EXCEPT !.value = PEEK_BITS(x, nbits)])

\* One more bit until the code, in `value', is no larger than the largest of its length.
RECURSIVE LongerCode(_, _, _)
LongerCode(d, tbl, l) ==
  IF l > MaxCodeLength THEN [d EXCEPT !.value = 0]
  ELSE IF d.value <= tbl.maxcode[l] THEN [d EXCEPT !.value = tbl.huffval[@ + tbl.valoffset[l]]]
  ELSE Then(GET_BITS(d, 1), LAMBDA x : LongerCode([x EXCEPT !.value = 2 * d.value + @], tbl, l + 1))

jpeg_huff_decode(d, tbl, min_bits) ==
  Then(GET_BITS(d, min_bits), LAMBDA x : LongerCode(x, tbl, min_bits))

\* A short code is looked up, a longer one, or one near the end of the data, is not.
LookedUp(d, tbl) ==
  LET found == tbl.look[PEEK_BITS(d, HUFF_LOOKAHEAD)]
  IN IF Len(d.bits) < HUFF_LOOKAHEAD THEN jpeg_huff_decode(d, tbl, 1)
     ELSE IF found = << >> THEN jpeg_huff_decode(d, tbl, HUFF_LOOKAHEAD + 1)
     ELSE [DROP_BITS(d, found[1]) EXCEPT !.value = found[2]]
HUFF_DECODE(d, tbl) ==
  Then(IF Len(d.bits) < HUFF_LOOKAHEAD THEN jpeg_fill_bit_buffer(d, 0) ELSE d,
       LAMBDA x : LookedUp(x, tbl))

HUFF_EXTEND(x, s) == IF s > 0 /\ x < 2^(s - 1) THEN x - 2^s + 1 ELSE x
\* A coefficient of s bits, none read for s = 0.
Extended(d, s) == Then(GET_BITS(d, s), LAMBDA x : [x EXCEPT !.value = HUFF_EXTEND(@, s)])

-----------------------------------------------------------------------------
(* Passes and restarts, alike in the two decoders but for the run of ended *)
(* blocks.                                                                 *)

StartDecoderPass(scan, interval, tables, needed, dc_only) ==
  [scan |-> scan, dc_only |-> dc_only, suspended |-> FALSE, value |-> 0,
   mcu |-> << >>, newnz_pos |-> {},
   error |-> \E t \in needed : ~LegalTree(tables[t]) \/ ~LegalSymbols(t, tables[t]),
   derived |-> [t \in needed |-> jpeg_make_d_derived_tbl(tables[t])],
   src |-> << >>, bits |-> << >>, unread_marker |-> 0, next_restart_num |-> 0,
   insufficient_data |-> FALSE, last_dc_val |-> [c \in ToSet(scan.comps) |-> 0],
   EOBRUN |-> 0, interval |-> interval, restarts_to_go |-> interval]

\* dc_only: an image at one eighth of its size needs no AC coefficients.
start_pass_huff_decoder(scan, interval, tables, dc_only) ==
  StartDecoderPass(scan, interval, tables,
                   TablesOf(scan, DcTable) \cup TablesOf(scan, AcTable), dc_only)

process_restart(d) ==
  Then(read_restart_marker([d EXCEPT !.bits = << >>]),
       LAMBDA x : [x EXCEPT !.last_dc_val = [c \in DOMAIN @ |-> 0],
                            !.restarts_to_go = d.interval,
                            !.insufficient_data = @ /\ x.unread_marker # 0])

\* jdphuff.c: the run of ended blocks is over too.
process_restart_phuff(d) == Then(process_restart(d), LAMBDA x : [x EXCEPT !.EOBRUN = 0])

CountDown(d) == IF d.interval = 0 THEN d ELSE [d EXCEPT !.restarts_to_go = @ - 1]

\* An MCU is decoded by `Blocks' unless the data ran out.  If that suspends, only what the
\* restart did and what was stored in the blocks remains.
Finished(begun, done) == IF done.suspended THEN [begun EXCEPT !.suspended = TRUE, !.mcu = done.mcu]
                         ELSE CountDown(done)
DecodeMcu(d, Restart(_), Blocks(_), always) ==
  Then(IF d.interval > 0 /\ d.restarts_to_go = 0 THEN Restart(d) ELSE d,
       LAMBDA x : IF x.insufficient_data /\ ~always THEN CountDown(x) ELSE Finished(x, Blocks(x)))

-----------------------------------------------------------------------------
(* Sequential scans.                                                       *)

\* Indices past the end of a block stand for its last coefficient.
Natural(k) == IF k < DCTSIZE2 THEN k ELSE DCTSIZE2 - 1
RunOf(symbol) == symbol \div SizeRange
SizeOf(symbol) == symbol % SizeRange

RECURSIVE DecodeAc(_, _, _)
DecodeAc(d, c, k) ==
  LET Stored(x, at) == IF d.dc_only THEN x ELSE [x EXCEPT !.mcu[c][Natural(at)] = x.value]
      Symbol(x) ==
        IF SizeOf(x.value) # 0
        THEN Then(Extended(x, SizeOf(x.value)),
                  LAMBDA y : DecodeAc(Stored(y, k + RunOf(x.value)), c, k + RunOf(x.value) + 1))
        ELSE IF RunOf(x.value) = RunMax THEN DecodeAc(x, c, k + RunMax + 1)
        ELSE x
  IN IF k >= DCTSIZE2 THEN d ELSE Then(HUFF_DECODE(d, d.derived[AcTable(c)]), Symbol)

\* The difference of a DC coefficient, made its value.
DecodeDc(d, c) ==
  LET Diff(x) == Then(Extended(x, x.value),
                      LAMBDA y : [y EXCEPT !.last_dc_val[c] = @ + y.value,
                                           !.value = @ + y.last_dc_val[c]])
  IN Then(HUFF_DECODE(d, d.derived[DcTable(c)]), Diff)

DecodeBlock(d, c) ==
  Then(d, LAMBDA x : Then(DecodeDc(x, c),
                          LAMBDA y : DecodeAc([y EXCEPT !.mcu[c][0] = y.value], c, 1)))

decode_mcu(d) == DecodeMcu(d, process_restart, LAMBDA x : FoldLeft(DecodeBlock, x, x.scan.comps), FALSE)

-----------------------------------------------------------------------------
(* Progressive scans.                                                      *)

BadProgression(scan) ==
  \/ IsDCBand(scan) /\ scan.Se # 0
  \/ ~IsDCBand(scan) /\ (scan.Ss > scan.Se \/ scan.Se >= DCTSIZE2 \/ Len(scan.comps) # 1)
  \/ scan.Ah # 0 /\ scan.Al # scan.Ah - 1

start_pass_phuff_decoder(scan, interval, tables) ==
  LET needed == IF ~IsDCBand(scan) THEN TablesOf(scan, AcTable)
                ELSE IF scan.Ah = 0 THEN TablesOf(scan, DcTable) ELSE {}
  IN [StartDecoderPass(scan, interval, tables, needed, FALSE) EXCEPT !.error = @ \/ BadProgression(scan)]

decode_mcu_DC_first(d) ==
  LET One(x, c) == Then(x, LAMBDA y : Then(DecodeDc(y, c),
                                           LAMBDA z : [z EXCEPT !.mcu[c][0] = z.value * 2^d.scan.Al]))
  IN DecodeMcu(d, process_restart_phuff, LAMBDA x : FoldLeft(One, x, x.scan.comps), FALSE)

\* An end-of-band symbol of r: how many blocks end, this one included.
EobRun(d, r) == Then(GET_BITS(d, r), LAMBDA x : [x EXCEPT !.EOBRUN = 2^r + x.value])

RECURSIVE DecodeBand(_, _, _)
DecodeBand(d, c, k) ==
  LET Stored(x, at) == [x EXCEPT !.mcu[c][Natural(at)] = x.value * 2^d.scan.Al]
      Symbol(x) ==
        IF SizeOf(x.value) # 0
        THEN Then(Extended(x, SizeOf(x.value)),
                  LAMBDA y : DecodeBand(Stored(y, k + RunOf(x.value)), c, k + RunOf(x.value) + 1))
        ELSE IF RunOf(x.value) = RunMax THEN DecodeBand(x, c, k + RunMax + 1)
        ELSE Then(EobRun(x, RunOf(x.value)), LAMBDA y : [y EXCEPT !.EOBRUN = @ - 1])
  IN IF k > d.scan.Se THEN d ELSE Then(HUFF_DECODE(d, d.derived[AcTable(c)]), Symbol)

decode_mcu_AC_first(d) ==
  DecodeMcu(d, process_restart_phuff,
            LAMBDA x : IF x.EOBRUN > 0 THEN [x EXCEPT !.EOBRUN = @ - 1]
                       ELSE DecodeBand(x, x.scan.comps[1], x.scan.Ss), FALSE)

\* The next bit of a DC coefficient is or-ed in: doing it again does no harm.
SetBit(v, p1) == IF (v \div p1) % 2 = 0 THEN v + p1 ELSE v

decode_mcu_DC_refine(d) ==
  LET Bit(x, c) == IF x.value = 0 THEN x ELSE [x EXCEPT !.mcu[c][0] = SetBit(@, 2^d.scan.Al)]
      One(x, c) == Then(x, LAMBDA y : Then(GET_BITS(y, 1), LAMBDA z : Bit(z, c)))
  IN DecodeMcu(d, process_restart_phuff, LAMBDA x : FoldLeft(One, x, x.scan.comps), TRUE)

\* A correction bit of one moves a coefficient away from zero, unless an earlier attempt has.
CorrectedBy(coef, bit, p1) == IF bit = 0 \/ (coef \div p1) % 2 # 0 THEN coef
                              ELSE IF coef >= 0 THEN coef + p1 ELSE coef - p1
Corrected(d, c, k) ==
  Then(GET_BITS(d, 1), LAMBDA x : [x EXCEPT !.mcu[c][k] = CorrectedBy(@, x.value, 2^d.scan.Al)])

\* Over the coefficients known already and r zeros; `value' is where that ends.
RECURSIVE Advance(_, _, _, _)
Advance(d, c, k, r) ==
  IF k <= d.scan.Se /\ d.mcu[c][k] # 0
  THEN Then(Corrected(d, c, k), LAMBDA x : Advance(x, c, k + 1, r))
  ELSE IF k <= d.scan.Se /\ r > 0 THEN Advance(d, c, k + 1, r - 1)
  ELSE [d EXCEPT !.value = k]

\* The rest of a block that has ended has only correction bits.
BlockEnded(d, c, k) == Then(Advance(d, c, k, DCTSIZE2), LAMBDA x : [x EXCEPT !.EOBRUN = @ - 1])

\* A coefficient is made nonzero: its position is kept, to undo that if the data does not suffice.
NewlyNonzero(d, c, coef) ==
  [d EXCEPT !.mcu[c][Natural(d.value)] = coef, !.newnz_pos = @ \cup {Natural(d.value)}]

RECURSIVE RefineBand(_, _, _)
RefineBand(d, c, k) ==
  LET Coef(x) == IF x.value = 1 THEN 2^d.scan.Al ELSE -(2^d.scan.Al)
      Symbol(x) ==
        IF SizeOf(x.value) # 0
        THEN Then(GET_BITS(x, 1),
                  LAMBDA y : Then(Advance(y, c, k, RunOf(x.value)),
                                  LAMBDA z : RefineBand(NewlyNonzero(z, c, Coef(y)), c, z.value + 1)))
        ELSE IF RunOf(x.value) = RunMax
        THEN Then(Advance(x, c, k, RunMax), LAMBDA y : RefineBand(y, c, y.value + 1))
        ELSE Then(EobRun(x, RunOf(x.value)), LAMBDA y : BlockEnded(y, c, k))
  IN IF k > d.scan.Se THEN d ELSE Then(HUFF_DECODE(d, d.derived[AcTable(c)]), Symbol)

\* Mutant: coefficients made nonzero stay so when the data did not suffice.
AcRefineNotUndone(d) ==
  DecodeMcu(d, process_restart_phuff,
            LAMBDA x : IF x.EOBRUN > 0 THEN BlockEnded(x, x.scan.comps[1], x.scan.Ss)
                       ELSE RefineBand(x, x.scan.comps[1], x.scan.Ss), FALSE)

decode_mcu_AC_refine(d) ==
  LET Undone(x) == [x EXCEPT !.mcu = [c \in DOMAIN @ |->
                                        [k \in DOMAIN @[c] |-> IF k \in x.newnz_pos THEN 0 ELSE @[c][k]]]]
      Band(x) == IF x.EOBRUN > 0 THEN BlockEnded(x, x.scan.comps[1], x.scan.Ss)
                 ELSE RefineBand(x, x.scan.comps[1], x.scan.Ss)
      Checked(x) == IF x.suspended THEN Undone(x) ELSE x
  IN DecodeMcu(d, process_restart_phuff, LAMBDA x : Checked(Band([x EXCEPT !.newnz_pos = {}])), FALSE)

decode_mcu_phuff(d) ==
  CASE d.scan.Ah = 0 /\ IsDCBand(d.scan) -> decode_mcu_DC_first(d)
    [] d.scan.Ah = 0 /\ ~IsDCBand(d.scan) -> decode_mcu_AC_first(d)
    [] d.scan.Ah # 0 /\ IsDCBand(d.scan) -> decode_mcu_DC_refine(d)
    [] OTHER -> decode_mcu_AC_refine(d)

=============================================================================
