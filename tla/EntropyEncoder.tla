--------------------------- MODULE EntropyEncoder --------------------------
(***************************************************************************)
(* The Huffman entropy encoders of the JPEG library: sequential (jchuff.c, *)
(* which can suspend when the destination is full) and progressive         *)
(* (jcphuff.c, which cannot).  Each codes a scan twice: once to count the  *)
(* symbols, once to write them with the tables made from the counts.       *)
(* First the tables: made from counts (jchuff.c), and the codes they stand *)
(* for in encoder and decoder (jchuff.c, jdhuff.c).  A table is what a DHT *)
(* marker carries: how many codes there are of each length, and the        *)
(* symbols in that order.  A code is a sequence of bits.                   *)
(*                                                                         *)
(* A block is a function of the zigzag index, its DC coefficient at 0.  A  *)
(* scan is a record [progressive, comps, Ss, Se, Ah, Al]; an encoder `e'   *)
(* carries the scan it works on.  Widths are constants: a byte, the number *)
(* of coefficients, and a symbol's two halves, run and size.               *)
(***************************************************************************)
EXTENDS Integers, SequencesExt, FiniteSetsExt

CONSTANTS NumSymbols,       \* 256: symbols are 0 .. NumSymbols - 1
          MaxCodeLength,    \* 16
          HUFF_LOOKAHEAD    \* bits the decoder looks up at once

HuffmanAssumption == /\ NumSymbols \in Nat \ {0} /\ MaxCodeLength \in Nat \ {0}
                     /\ NumSymbols < 2^MaxCodeLength
                     /\ HUFF_LOOKAHEAD \in 1 .. MaxCodeLength
ASSUME HuffmanAssumption

Symbols == 0 .. NumSymbols - 1
Lengths == 1 .. MaxCodeLength

\* The n low bits of v, the highest first, and the number that bits stand for.
BitString(v, n) == [i \in 1 .. n |-> (v \div 2^(n - i)) % 2]
BitsValue(bits) == FoldLeft(LAMBDA acc, b : 2 * acc + b, 0, bits)

-----------------------------------------------------------------------------
(* jpeg_gen_optimal_table.  Symbol NumSymbols is a pseudo-symbol that is   *)
(* given the code of all ones, which no symbol may have.                   *)
Pseudo == NumSymbols

\* The least frequent symbol still in the procedure, of several the largest.
Rarest(freq, but) ==
  LET live == {s \in DOMAIN freq : freq[s] > 0 /\ s # but}
  IN Max({s \in live : \A t \in live : freq[s] <= freq[t]})

RECURSIVE MergeBranches(_)
MergeBranches(t) ==
  IF Cardinality({s \in DOMAIN t.freq : t.freq[s] > 0}) = 1 THEN t.codesize
  ELSE LET c1 == Rarest(t.freq, -1)
           c2 == Rarest(t.freq, c1)
           both == t.branch[c1] \cup t.branch[c2]
       IN MergeBranches([freq |-> [t.freq EXCEPT ![c1] = @ + t.freq[c2], ![c2] = 0],
                         codesize |-> [s \in DOMAIN t.codesize |->
                                         t.codesize[s] + (IF s \in both THEN 1 ELSE 0)],
                         branch |-> [t.branch EXCEPT ![c1] = both]])

\* Codes longer than allowed: two go, one becomes shorter, and a shorter code becomes a prefix.
RECURSIVE LimitLength(_, _)
LimitLength(bits, i) ==
  IF i = MaxCodeLength THEN bits
  ELSE IF bits[i] = 0 THEN LimitLength(bits, i - 1)
  ELSE LET j == Max({l \in 1 .. i - 2 : bits[l] > 0})
           moved == [l \in DOMAIN bits |-> bits[l] + (CASE l = i -> -2 [] l = j -> -1 [] OTHER -> 0)
                                                   + (IF l = i - 1 THEN 1 ELSE 0)
                                                   + (IF l = j + 1 THEN 2 ELSE 0)]
       IN LimitLength(moved, i)

jpeg_gen_optimal_table(counts) ==
  LET all == [s \in 0 .. Pseudo |-> IF s = Pseudo THEN 1 ELSE counts[s]]
      codesize == MergeBranches([freq |-> all, codesize |-> [s \in 0 .. Pseudo |-> 0],
                                 branch |-> [s \in 0 .. Pseudo |-> {s}]])
      pure == [l \in 1 .. NumSymbols + MaxCodeLength |->
                 Cardinality({s \in 0 .. Pseudo : codesize[s] = l})]
      bits == LimitLength(pure, NumSymbols + MaxCodeLength)
      longest == Max({0} \cup {l \in Lengths : bits[l] > 0})
      coded == {s \in Symbols : codesize[s] > 0}
  IN [bits |-> [l \in Lengths |-> IF l = longest THEN bits[l] - 1 ELSE bits[l]],
      huffval |-> SetToSortSeq(coded, LAMBDA s, t : \/ codesize[s] < codesize[t]
                                                    \/ codesize[s] = codesize[t] /\ s < t)]

-----------------------------------------------------------------------------
(* The codes of a table, shortest first, each the number after the one     *)
(* before it: figures C.1 and C.2, the same in encoder and decoder.        *)
HuffSizes(bits) == FlattenSeq([l \in Lengths |-> [i \in 1 .. bits[l] |-> l]])

HuffCodes(sizes) ==
  LET code[p \in 1 .. Len(sizes)] ==
        IF p = 1 THEN 0 ELSE (code[p - 1] + 1) * 2^(sizes[p] - sizes[p - 1])
  IN [p \in DOMAIN sizes |-> code[p]]

\* The checks made on a table: no code is all ones, since the last of its length plus one
\* still fits; and, in the encoder only, no symbol is listed twice.
LegalTree(htbl) == LET sizes == HuffSizes(htbl.bits)
                       codes == HuffCodes(sizes)
                   IN \A p \in DOMAIN sizes : codes[p] + 1 < 2^sizes[p]
LegalCodes(htbl) == LegalTree(htbl) /\ IsInjective(htbl.huffval)

jpeg_make_c_derived_tbl(htbl) ==
  LET sizes == HuffSizes(htbl.bits)
      codes == HuffCodes(sizes)
  IN [s \in ToSet(htbl.huffval) |->
             LET p == CHOOSE p \in DOMAIN htbl.huffval : htbl.huffval[p] = s
             IN BitString(codes[p], sizes[p])]

\* Decoding by length: the largest code of each, what to add to a code for its place in
\* huffval; and for every string of HUFF_LOOKAHEAD bits the short code it begins with.
jpeg_make_d_derived_tbl(htbl) ==
  LET sizes == HuffSizes(htbl.bits)
      codes == HuffCodes(sizes)
      Of(l) == {p \in DOMAIN sizes : sizes[p] = l}
      Begins(look) == {p \in DOMAIN sizes : /\ sizes[p] <= HUFF_LOOKAHEAD
                                            /\ look \div 2^(HUFF_LOOKAHEAD - sizes[p]) = codes[p]}
  IN [maxcode |-> [l \in Lengths |-> IF Of(l) = {} THEN -1 ELSE codes[Max(Of(l))]],
           valoffset |-> [l \in Lengths |-> IF Of(l) = {} THEN 0
                                            ELSE Min(Of(l)) - codes[Min(Of(l))]],
           look |-> [look \in 0 .. 2^HUFF_LOOKAHEAD - 1 |->
                       IF Begins(look) = {} THEN << >>
                       ELSE LET p == CHOOSE p \in Begins(look) : TRUE
                            IN <<sizes[p], htbl.huffval[p]>>],
           huffval |-> htbl.huffval]

-----------------------------------------------------------------------------
(* The encoders.                                                           *)
CONSTANTS ByteBits,         \* 8
          DCTSIZE2,         \* 64: coefficients of a block
          RunMax,           \* 15: the longest run a symbol holds
          SizeRange,        \* 16: a symbol is run * SizeRange + size
          MAX_COEF_BITS,    \* 10: bits of an AC coefficient
          MAX_CORR_BITS,    \* 1000: room for correction bits
          RST0,             \* the first of eight restart marker codes
          dc_tbl_no, ac_tbl_no   \* the tables of each component

EncoderAssumption == /\ NumSymbols = (RunMax + 1) * SizeRange
                     /\ MAX_CORR_BITS >= DCTSIZE2
ASSUME EncoderAssumption

FF == 2^ByteBits - 1
ZRL == RunMax * SizeRange
Bits(n) == CHOOSE b \in 0 .. 31 : 2^b > n /\ (b = 0 \/ 2^(b - 1) <= n)   \* while (n) nbits++
Abs(n) == IF n < 0 THEN -n ELSE n

\* Shift right by Al: the DC coefficient keeps its sign bit, an AC one is rounded to zero.
PointTransform(v, Al, isDC) == IF isDC \/ v >= 0 THEN v \div 2^Al ELSE -((-v) \div 2^Al)

\* The low bits that follow a size: the value, or the complement of its magnitude.
Magnitude(v) == BitString((IF v < 0 THEN v - 1 ELSE v) % 2^Bits(Abs(v)), Bits(Abs(v)))

-----------------------------------------------------------------------------
DcTable(c) == <<"dc", dc_tbl_no[c]>>
AcTable(c) == <<"ac", ac_tbl_no[c]>>

\* A pass starts: empty bit buffer, predictions 0, counters 0 or tables derived.
\* A DC table holds sizes, no runs.
LegalSymbols(t, htbl) == t[1] = "dc" => \A i \in DOMAIN htbl.huffval : htbl.huffval[i] < SizeRange

TablesOf(scan, Table(_)) == {Table(c) : c \in ToSet(scan.comps)}

StartPass(scan, interval, tables, needed, gather) ==
  [scan |-> scan, gather |-> gather,
   error |-> ~gather /\ \E t \in needed : ~LegalCodes(tables[t]) \/ ~LegalSymbols(t, tables[t]),
   put_buffer |-> << >>, output |-> << >>,
   last_dc_val |-> [c \in ToSet(scan.comps) |-> 0],
   EOBRUN |-> 0, BE |-> << >>,
   interval |-> interval, restarts_to_go |-> interval, next_restart_num |-> 0,
   codes |-> IF gather THEN << >> ELSE [t \in needed |-> jpeg_make_c_derived_tbl(tables[t])],
   counts |-> [t \in needed |-> [s \in Symbols |-> 0]]]

start_pass_huff(scan, interval, tables, gather) ==
  StartPass(scan, interval, tables, TablesOf(scan, DcTable) \cup TablesOf(scan, AcTable), gather)

\* Bits go out a byte at a time, a zero byte after a byte of ones.
emit_bits(e, bits) ==
  LET all == e.put_buffer \o bits
      n == Len(all) \div ByteBits
      Byte(i) == BitsValue(SubSeq(all, ByteBits * (i - 1) + 1, ByteBits * i))
  IN [e EXCEPT !.put_buffer = SubSeq(all, ByteBits * n + 1, Len(all)),
               !.output = @ \o FlattenSeq([i \in 1 .. n |-> IF Byte(i) = FF THEN <<FF, 0>>
                                                            ELSE <<Byte(i)>>])]

\* Fill the partial byte with ones and forget the bits left over.
flush_bits(e) == [emit_bits(e, [i \in 1 .. ByteBits - 1 |-> 1]) EXCEPT !.put_buffer = << >>]

\* In jcphuff.c the same, but only when there is something to write.
emit_bits_phuff(e, bits) == IF e.gather THEN e ELSE emit_bits(e, bits)
flush_bits_phuff(e) == IF e.gather THEN e ELSE flush_bits(e)

\* A table is named by its class and number.
emit_symbol(e, tbl, symbol) ==
  IF e.gather THEN [e EXCEPT !.counts[tbl][symbol] = @ + 1]
  ELSE IF symbol \notin DOMAIN e.codes[tbl] THEN [e EXCEPT !.error = TRUE]
  ELSE emit_bits(e, e.codes[tbl][symbol])

\* What a block is coded as: symbols, each with the bits that follow it.
Item(tbl, symbol, bits) == [tbl |-> tbl, symbol |-> symbol, bits |-> bits]
DcItem(tbl, diff) == Item(tbl, Bits(Abs(diff)), Magnitude(diff))

\* The nonzero coefficients of a band, each after the zeros before it.
AcItems(tbl, value, Ss, Se) ==
  LET nonzero == SetToSortSeq({k \in Ss .. Se : value[k] # 0}, <)
      Run(i) == nonzero[i] - (IF i = 1 THEN Ss ELSE nonzero[i - 1] + 1)
      Zrls(i) == [j \in 1 .. Run(i) \div (RunMax + 1) |-> Item(tbl, ZRL, << >>)]
      Coef(i) == Item(tbl, (Run(i) % (RunMax + 1)) * SizeRange + Bits(Abs(value[nonzero[i]])),
                      Magnitude(value[nonzero[i]]))
  IN FlattenSeq([i \in DOMAIN nonzero |-> Append(Zrls(i), Coef(i))])

TooBig(value, Ss, Se) == \E k \in Ss .. Se : Bits(Abs(value[k])) > MAX_COEF_BITS

BlockItems(c, block, last_dc_val) ==
  <<DcItem(DcTable(c), block[0] - last_dc_val)>>
  \o AcItems(AcTable(c), block, 1, DCTSIZE2 - 1)
  \o (IF block[DCTSIZE2 - 1] = 0 THEN <<Item(AcTable(c), 0, << >>)>> ELSE << >>)

\* A difference may be twice as large as a coefficient.
OutOfRange(e, c, block) == \/ Bits(Abs(block[0] - e.last_dc_val[c])) > MAX_COEF_BITS + 1
                           \/ TooBig(block, 1, DCTSIZE2 - 1)

encode_one_block(e, c, block) ==
  IF OutOfRange(e, c, block) THEN [e EXCEPT !.error = TRUE]
  ELSE FoldLeft(LAMBDA x, item : emit_bits(emit_symbol(x, item.tbl, item.symbol), item.bits),
                e, BlockItems(c, block, e.last_dc_val[c]))

\* The counting pass: the symbols that the coding pass will need, and no others.
htest_one_block(e, c, block) ==
  IF OutOfRange(e, c, block) THEN [e EXCEPT !.error = TRUE]
  ELSE FoldLeft(LAMBDA x, item : emit_symbol(x, item.tbl, item.symbol),
                e, BlockItems(c, block, e.last_dc_val[c]))

emit_restart(e) ==
  LET flushed == flush_bits(e)
  IN [flushed EXCEPT !.output = @ \o <<FF, RST0 + e.next_restart_num>>,
                     !.last_dc_val = [c \in DOMAIN @ |-> 0]]

CountRestart(e) ==
  IF e.interval = 0 THEN e
  ELSE IF e.restarts_to_go = 0
       THEN [e EXCEPT !.restarts_to_go = e.interval - 1, !.next_restart_num = (@ + 1) % 8]
       ELSE [e EXCEPT !.restarts_to_go = @ - 1]

RestartDue(e) == e.interval > 0 /\ e.restarts_to_go = 0

\* An MCU holds one block of each component of the scan, in the order of the scan.
EncodeBlocks(e, OneBlock(_, _, _), mcu) ==
  FoldLeft(LAMBDA x, c : [OneBlock(x, c, mcu[c]) EXCEPT !.last_dc_val[c] = mcu[c][0]],
           e, e.scan.comps)

encode_mcu_gather(e, mcu) ==
  LET begun == IF RestartDue(e) THEN [e EXCEPT !.last_dc_val = [c \in DOMAIN @ |-> 0]] ELSE e
      done == CountRestart(EncodeBlocks(begun, htest_one_block, mcu))
  IN [done EXCEPT !.next_restart_num = e.next_restart_num]

\* The working state becomes permanent once the MCU is complete.  The destination's buffer
\* is full as soon as its last byte is written: if it cannot be emptied then, nothing changes.
encode_mcu_huff(e, mcu, free_in_buffer) ==
  LET begun == IF RestartDue(e) THEN emit_restart(e) ELSE e
      done == CountRestart(EncodeBlocks(begun, encode_one_block, mcu))
  IN IF Len(done.output) - Len(e.output) < free_in_buffer THEN done ELSE e

finish_pass_huff(e) == flush_bits(e)

\* Tables are made once each from the counts; a table not used keeps what it held.
finish_pass_gather(e, tables) ==
  [t \in DOMAIN tables |-> IF t \in DOMAIN e.counts THEN jpeg_gen_optimal_table(e.counts[t]) ELSE tables[t]]

-----------------------------------------------------------------------------
(* Progressive scans.                                                      *)

IsDCBand(scan) == scan.Ss = 0

start_pass_phuff(scan, interval, tables, gather) ==
  LET needed == IF ~IsDCBand(scan) THEN TablesOf(scan, AcTable)
                ELSE IF scan.Ah = 0 THEN TablesOf(scan, DcTable) ELSE {}
  IN StartPass(scan, interval, tables, needed, gather)

emit_buffered_bits(e, bits) == IF e.gather THEN e ELSE emit_bits_phuff(e, bits)

\* A pending run of blocks that have ended, and the correction bits it kept waiting.
EmitEobrun(e, nbits) ==
  LET symbol == emit_symbol(e, AcTable(e.scan.comps[1]), nbits * SizeRange)
      run == emit_bits_phuff(symbol, BitString(e.EOBRUN % 2^nbits, nbits))
  IN [emit_buffered_bits(run, e.BE) EXCEPT !.EOBRUN = 0, !.BE = << >>]
emit_eobrun(e) == IF e.EOBRUN = 0 THEN e
                  ELSE IF e.EOBRUN >= 2^RunMax THEN [e EXCEPT !.error = TRUE]
                  ELSE EmitEobrun(e, Bits(e.EOBRUN) - 1)

emit_restart_phuff(e) ==
  LET flushed == flush_bits_phuff(emit_eobrun(e))
      marked == IF e.gather THEN flushed
                ELSE [flushed EXCEPT !.output = @ \o <<FF, RST0 + e.next_restart_num>>]
  IN IF IsDCBand(e.scan) THEN [marked EXCEPT !.last_dc_val = [c \in DOMAIN @ |-> 0]]
     ELSE [marked EXCEPT !.EOBRUN = 0, !.BE = << >>]

encode_mcu_DC_first(e, mcu) ==
  FoldLeft(LAMBDA x, c :
             LET value == PointTransform(mcu[c][0], e.scan.Al, TRUE)
                 item == DcItem(DcTable(c), value - x.last_dc_val[c])
                 coded == emit_bits_phuff(emit_symbol(x, item.tbl, item.symbol), item.bits)
             IN [coded EXCEPT !.last_dc_val[c] = value,
                              !.error = @ \/ item.symbol > MAX_COEF_BITS + 1],
           e, e.scan.comps)

\* The run of ended blocks is forced out before its counter overflows.
MaxEOBRUN == 2^RunMax - 1   \* 0x7FFF

BlockEnds(e, limit) == IF e.EOBRUN = MaxEOBRUN \/ Len(e.BE) > limit THEN emit_eobrun(e) ELSE e

EmitItems(e, items) ==
  FoldLeft(LAMBDA x, i : emit_bits_phuff(emit_symbol(x, i.tbl, i.symbol), i.bits),
           IF items = << >> THEN e ELSE emit_eobrun(e), items)

AcFirst(e, c, value) ==
  LET coded == EmitItems(e, AcItems(AcTable(c), value, e.scan.Ss, e.scan.Se))
  IN IF TooBig(value, e.scan.Ss, e.scan.Se) THEN [e EXCEPT !.error = TRUE]
     ELSE IF value[e.scan.Se] # 0 THEN coded
     ELSE BlockEnds([coded EXCEPT !.EOBRUN = @ + 1], MAX_CORR_BITS)
encode_mcu_AC_first(e, mcu) ==
  LET c == e.scan.comps[1]
  IN AcFirst(e, c, [k \in e.scan.Ss .. e.scan.Se |-> PointTransform(mcu[c][k], e.scan.Al, FALSE)])

encode_mcu_DC_refine(e, mcu) ==
  FoldLeft(LAMBDA x, c : emit_bits_phuff(x, <<PointTransform(mcu[c][0], e.scan.Al, TRUE) % 2>>),
           e, e.scan.comps)

\* Coefficients that are new in this scan get a symbol, those known before a correction bit,
\* which follows the next symbol written or waits with the run of ended blocks.
\* x: the encoder, the zeros so far, the correction bits of this block not yet written, and
\* of the block the shifted absolute values, the negative coefficients and the last new one.
WithSymbol(x, symbol, bits) ==
  LET out == emit_symbol(emit_eobrun(x.e), AcTable(x.e.scan.comps[1]), symbol)
      signed == IF bits = << >> THEN out ELSE emit_bits_phuff(out, bits)
  IN [x EXCEPT !.e = emit_buffered_bits(signed, x.BR), !.BR = << >>]

RefineZrls(x, k) ==
  IF k > x.EOB THEN x
  ELSE FoldLeft(LAMBDA y, i : [WithSymbol(y, ZRL, << >>) EXCEPT !.r = @ - (RunMax + 1)],
                x, [i \in 1 .. x.r \div (RunMax + 1) |-> i])

RefineNonzero(x, k) ==
  IF x.absvalues[k] > 1 THEN [x EXCEPT !.BR = Append(@, x.absvalues[k] % 2)]
  ELSE [WithSymbol(x, x.r * SizeRange + 1, <<IF k \in x.negative THEN 0 ELSE 1>>) EXCEPT !.r = 0]

RefineCoef(x, k) == IF x.absvalues[k] = 0 THEN [x EXCEPT !.r = @ + 1]
                    ELSE RefineNonzero(RefineZrls(x, k), k)

\* Waiting bits are forced out when another block's might not fit.
RefineEnds(x) ==
  IF x.r = 0 /\ x.BR = << >> THEN x.e
  ELSE BlockEnds([x.e EXCEPT !.EOBRUN = @ + 1, !.BE = @ \o x.BR,
                             !.error = @ \/ Len(x.e.BE) + Len(x.BR) > MAX_CORR_BITS],
                 MAX_CORR_BITS - DCTSIZE2 + 1)

encode_mcu_AC_refine(e, mcu) ==
  LET c == e.scan.comps[1]
      absvalues == [k \in e.scan.Ss .. e.scan.Se |-> Abs(mcu[c][k]) \div 2^e.scan.Al]
  IN RefineEnds(FoldLeft(RefineCoef,
                  [e |-> e, r |-> 0, BR |-> << >>, absvalues |-> absvalues,
                   negative |-> {k \in e.scan.Ss .. e.scan.Se : mcu[c][k] < 0},
                   EOB |-> Max({0} \cup {k \in DOMAIN absvalues : absvalues[k] = 1})],
                  [i \in 1 .. e.scan.Se - e.scan.Ss + 1 |-> e.scan.Ss + i - 1]))

CodeBand(e, mcu) == CASE e.scan.Ah = 0 /\ IsDCBand(e.scan) -> encode_mcu_DC_first(e, mcu)
                      [] e.scan.Ah = 0 /\ ~IsDCBand(e.scan) -> encode_mcu_AC_first(e, mcu)
                      [] e.scan.Ah # 0 /\ IsDCBand(e.scan) -> encode_mcu_DC_refine(e, mcu)
                      [] OTHER -> encode_mcu_AC_refine(e, mcu)
encode_mcu_phuff(e, mcu) ==
  CountRestart(CodeBand(IF RestartDue(e) THEN emit_restart_phuff(e) ELSE e, mcu))

finish_pass_phuff(e) == flush_bits_phuff(emit_eobrun(e))

\* The last run is counted too; a refinement of DC coefficients needs no table.
finish_pass_gather_phuff(e, tables) ==
  LET counted == emit_eobrun(e)
  IN [t \in DOMAIN tables |-> IF t \in DOMAIN e.counts THEN jpeg_gen_optimal_table(counted.counts[t])
                              ELSE tables[t]]

=============================================================================
