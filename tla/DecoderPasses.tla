---------------------------- MODULE DecoderPasses ---------------------------
(***************************************************************************)
(* How the decoder takes a file through its passes: the input controller   *)
(* (jdinput.c), the coefficient controller (jdcoefct.c), the parts of the  *)
(* master control and of the inverse DCT's manager that concern them, and  *)
(* the calls of an application that reads rows of MCUs (jdapistd.c,        *)
(* jdapimin.c) or the coefficients (jdtrans.c).                            *)
(*                                                                         *)
(* Input and output advance each at its own pace: in buffered-image mode   *)
(* the application may show any scan, read ahead, and start again.  Data   *)
(* arrive when they arrive; a call that finds too little is suspended and  *)
(* repeated.  The loops "consume input until enough is there" are repeated *)
(* ConsumeInput steps, which an application may also take by itself.       *)
(***************************************************************************)
EXTENDS EncoderPasses

CONSTANT QuantTables      \* the tables a file may define, one after the other, in its slot

VARIABLE deco             \* the decompressor
decoderVars == <<deco>>

AbsValue(v) == IF v < 0 THEN -v ELSE v
(* A coefficient of which the lowest al bits are not known. *)
Approximation(k, v, al) ==
  IF k = 0 \/ v >= 0 THEN (v \div 2^al) * 2^al ELSE -((-v \div 2^al) * 2^al)

(* decode_mcu: what a scan adds to a block.  Zero coefficients are not stored,
   and a refinement is meant for a coefficient known to just Ah bits. *)
DecodedCoef(k, old, v, scan) ==
  IF scan.Ah # 0 THEN IF old = Approximation(k, v, scan.Ah) THEN Approximation(k, v, scan.Al) ELSE 77
  ELSE IF k > 0 /\ Approximation(k, v, scan.Al) = 0 THEN old
  ELSE Approximation(k, v, scan.Al)
DecodedBlock(old, sent, scan) ==
  [k \in Zigzag |-> IF scan.Ss <= k /\ k <= scan.Se THEN DecodedCoef(k, old[k], sent[k], scan) ELSE old[k]]

---------------------------------------------------------------------------
(* per_scan_setup of jdinput.c *)
MCUs_per_row(d) ==
  IF Len(d.cur.comps) = 1 THEN width_in_blocks(d.job.info, d.cur.comps[1])
  ELSE CeilDiv(d.job.info.width, MaxH(d.job.info) * DCTSIZE)
MCU_width(d, c) == IF Len(d.cur.comps) = 1 THEN 1 ELSE d.job.info.comps[c].h
MCU_height(d, c) == IF Len(d.cur.comps) = 1 THEN 1 ELSE d.job.info.comps[c].v
last_col_width(d, c) == IF Len(d.cur.comps) = 1 THEN 1 ELSE LastPart(width_in_blocks(d.job.info, c), d.job.info.comps[c].h)
last_row_height(d, c) == LastPart(height_in_blocks(d.job.info, c), d.job.info.comps[c].v)
Membership(d) ==
  FlattenSeq([i \in DOMAIN d.cur.comps |->
    LET c == d.cur.comps[i]
    IN  [b \in 1 .. MCU_width(d, c) * MCU_height(d, c) |-> <<c, (b - 1) \div MCU_width(d, c), (b - 1) % MCU_width(d, c)>>]])
LastRow(d) == total_iMCU_rows(d.job.info) - 1

RowsOfMcus(d) ==
  IF Len(d.cur.comps) > 1 THEN 1
  ELSE IF d.input_iMCU_row < LastRow(d) THEN d.job.info.comps[d.cur.comps[1]].v ELSE last_row_height(d, d.cur.comps[1])
Position(d) == d.MCU_vert_offset * MCUs_per_row(d) + d.MCU_ctr
McusToRead(d) == RowsOfMcus(d) * MCUs_per_row(d) - Position(d)

---------------------------------------------------------------------------
(* The input side. *)
latch_quant_tables(d) ==
  [d EXCEPT !.quant_table = [c \in DOMAIN @ |-> IF c \in ScanComps(d.cur) /\ @[c] = 0 THEN d.slot ELSE @[c]]]
\* start_pass of the progressive decoder notes how precisely it will know the coefficients
NoteBits(d) ==
  [d EXCEPT !.coef_bits = [c \in DOMAIN @ |-> [k \in Zigzag |->
     IF c \in ScanComps(d.cur) /\ d.cur.Ss <= k /\ k <= d.cur.Se THEN d.cur.Al ELSE @[c][k]]]]
start_input_row(d, row) == [d EXCEPT !.input_iMCU_row = row, !.MCU_ctr = 0, !.MCU_vert_offset = 0]
start_input_pass(d) == [start_input_row(NoteBits(latch_quant_tables(d)), 0) EXCEPT !.consume_input = "consume_data", !.read = 0]
finish_input_pass(d) == [d EXCEPT !.consume_input = "consume_markers"]

(* consume_markers, when the next SOS or EOI has arrived.  A scan brings along
   new tables when the file redefines them. *)
ReachedSos(d) ==
  [d EXCEPT !.input_scan_number = @ + 1, !.cur = d.file[d.input_scan_number + 1].scan,
            !.slot = IF d.job.redefine THEN 1 + (d.input_scan_number % Len(QuantTables)) ELSE 1]
ReachedEoi(d) ==
  [d EXCEPT !.eoi_reached = TRUE,
            !.output_scan_number = IF @ > d.input_scan_number THEN d.input_scan_number ELSE @]
IsMultiple(d) == Len(d.cur.comps) < Len(d.job.info.comps) \/ d.progressive
FirstSos(d) == [ReachedSos(d) EXCEPT !.inheaders = FALSE, !.has_multiple_scans = IsMultiple(ReachedSos(d))]
consume_markers(d) ==
  IF d.input_scan_number = Len(d.file) THEN ReachedEoi(d)
  ELSE IF d.inheaders THEN FirstSos(d)
  ELSE start_input_pass(ReachedSos(d))

(* The blocks of the next n MCUs with their places in the whole image. *)
SentBlocks(d, n) ==
  FlattenSeq([i \in 1 .. n |->
    LET at == Position(d) + i - 1
        places == Membership(d)
    IN  [b \in DOMAIN places |->
          LET c == places[b][1]
          IN  [c |-> c, sent |-> d.file[d.input_scan_number].mcus[d.read + i][b],
               place |-> <<d.input_iMCU_row * d.job.info.comps[c].v + places[b][2] + at \div MCUs_per_row(d),
                           (at % MCUs_per_row(d)) * MCU_width(d, c) + places[b][3]>>,
               useful |-> /\ \/ d.input_iMCU_row < LastRow(d)
                             \/ at \div MCUs_per_row(d) + places[b][2] < last_row_height(d, c)
                          /\ places[b][3] < IF at % MCUs_per_row(d) < MCUs_per_row(d) - 1 THEN MCU_width(d, c) ELSE last_col_width(d, c)]]])
\* n MCUs read: on to the next row or the end of the scan, or suspended at a place to go on from
Advanced(d, n) ==
  IF n < McusToRead(d)
  THEN [d EXCEPT !.read = @ + n, !.MCU_vert_offset = (Position(d) + n) \div MCUs_per_row(d), !.MCU_ctr = (Position(d) + n) % MCUs_per_row(d)]
  ELSE IF d.input_iMCU_row < LastRow(d) THEN start_input_row([d EXCEPT !.read = @ + n], d.input_iMCU_row + 1)
  ELSE finish_input_pass([d EXCEPT !.read = @ + n, !.input_iMCU_row = @ + 1])
consume_data(d, n) ==
  Advanced([d EXCEPT !.whole_image =
    FoldLeft(LAMBDA arrays, b : [arrays EXCEPT ![b.c][b.place] = DecodedBlock(@, b.sent, d.cur)], @, SentBlocks(d, n))], n)

---------------------------------------------------------------------------
(* The output side. *)
NothingShown == [row |-> -1]
BlockRows(d, c) == IF d.output_iMCU_row < LastRow(d) THEN d.job.info.comps[c].v ELSE last_row_height(d, c)
RowPlaces(d, c) ==
  {<<d.output_iMCU_row * d.job.info.comps[c].v + y, x>> : y \in 0 .. BlockRows(d, c) - 1, x \in 0 .. width_in_blocks(d.job.info, c) - 1}

smoothing_ok(d) ==
  /\ d.progressive
  /\ \A c \in DOMAIN d.quant_table : /\ d.quant_table[c] # 0
                                     /\ \A k \in Zigzag : QuantTables[d.quant_table[c]][k] # 0
                                     /\ d.coef_bits[c][0] >= 0
  /\ \E c \in DOMAIN d.coef_bits : \E k \in 1 .. 5 : d.coef_bits[c][k] # 0

(* prepare_for_output_pass: the inverse DCT gets the tables saved so far, the
   coefficient controller decides about smoothing.  "begun" only remembers, for
   PictureShown, how many scans had begun by then. *)
prepare_for_output_pass(d) ==
  [d EXCEPT !.output_iMCU_row = 0, !.phase = "scanning",
            !.dct_table = [c \in DOMAIN @ |-> IF @[c] = 0 THEN d.quant_table[c] ELSE @[c]],
            !.smoothing = d.full /\ d.job.smooth /\ smoothing_ok(d),
            !.coef_bits_latch = d.coef_bits, !.begun = d.input_scan_number]

(* A row of MCUs handed out: its blocks and the tables they are multiplied by. *)
RowShown(d, blocks, dcs) ==
  [d EXCEPT !.output_iMCU_row = @ + 1,
            !.shown = [row |-> d.output_iMCU_row, scan |-> d.output_scan_number, blocks |-> blocks, dcs |-> dcs, tables |-> d.dct_table]]

decompress_onepass(d, n) ==
  LET buf == FoldLeft(LAMBDA out, b : IF b.useful THEN [out EXCEPT ![b.c] = (b.place :> DecodedBlock(ZeroCoefs, b.sent, d.cur)) @@ @] ELSE out,
                      d.output_buf, SentBlocks(d, n))
      next == Advanced([d EXCEPT !.output_buf = buf], n)
  IN  IF n < McusToRead(d) THEN next
      ELSE [RowShown(next, buf, << >>) EXCEPT !.output_buf = [c \in DOMAIN buf |-> << >>]]

InputBehind(d) ==
  \/ d.input_scan_number < d.output_scan_number
  \/ d.input_scan_number = d.output_scan_number /\ d.input_iMCU_row <= d.output_iMCU_row
decompress_data(d) ==
  RowShown(d, [c \in DOMAIN d.whole_image |-> [p \in RowPlaces(d, c) |-> d.whole_image[c][p]]], << >>)

SmoothInputBehindMutant(d) ==
  /\ d.input_scan_number <= d.output_scan_number /\ ~d.eoi_reached
  /\ ~(d.input_scan_number = d.output_scan_number /\ d.input_iMCU_row > d.output_iMCU_row)
(* decompress_smooth_data also looks at the row below while the DC scan is
   still coming in. *)
SmoothInputBehind(d) ==
  /\ d.input_scan_number <= d.output_scan_number /\ ~d.eoi_reached
  /\ ~ /\ d.input_scan_number = d.output_scan_number
       /\ d.input_iMCU_row > d.output_iMCU_row + (IF d.cur.Ss = 0 THEN 1 ELSE 0)
\* The places of DC1 to DC9: the block and its neighbours, repeated at the edges of the picture.
Neighbours(d, c, p) ==
  LET up == IF p[1] = 0 THEN p[1] ELSE p[1] - 1
      down == IF d.output_iMCU_row = LastRow(d) /\ p[1] = height_in_blocks(d.job.info, c) - 1 THEN p[1] ELSE p[1] + 1
      left == IF p[2] = 0 THEN p[2] ELSE p[2] - 1
      right == IF p[2] = width_in_blocks(d.job.info, c) - 1 THEN p[2] ELSE p[2] + 1
  IN  <<<<up, left>>, <<up, p[2]>>, <<up, right>>, <<p[1], left>>, p, <<p[1], right>>, <<down, left>>, <<down, p[2]>>, <<down, right>>>>
Gradient(k, DC) ==
  CASE k = 1 -> 36 * (DC[4] - DC[6])
    [] k = 2 -> 36 * (DC[2] - DC[8])
    [] k = 3 -> 9 * (DC[2] + DC[8] - 2 * DC[5])
    [] k = 4 -> 5 * (DC[1] - DC[3] - DC[7] + DC[9])
    [] k = 5 -> 9 * (DC[4] + DC[6] - 2 * DC[5])
Predicted(num, q, al) ==
  LET pred == (q * 128 + AbsValue(num)) \div (q * 256)
      kept == IF al > 0 /\ pred >= 2^al THEN 2^al - 1 ELSE pred
  IN  IF num >= 0 THEN kept ELSE -kept
SmoothedBlock(block, DC, quanttbl, bits) ==
  [k \in Zigzag |-> IF k > 0 /\ bits[k] # 0 /\ block[k] = 0 THEN Predicted(quanttbl[0] * Gradient(k, DC), quanttbl[k], bits[k]) ELSE block[k]]
DCsAround(d, c, p) == [i \in 1 .. 9 |-> d.whole_image[c][Neighbours(d, c, p)[i]][0]]
decompress_smooth_data(d) ==
  RowShown(d,
    [c \in DOMAIN d.whole_image |-> [p \in RowPlaces(d, c) |->
       SmoothedBlock(d.whole_image[c][p], DCsAround(d, c, p), QuantTables[d.quant_table[c]], d.coef_bits_latch[c])]],
    [c \in DOMAIN d.whole_image |-> [p \in RowPlaces(d, c) |-> DCsAround(d, c, p)]])

---------------------------------------------------------------------------
(* The application.  A step of one decoder object, with nothing left in the
   application's buffer from the step before. *)
DecoderIdle == deco = [phase |-> "idle"]
Went(d) == deco' = d
Now == [deco EXCEPT !.shown = NothingShown]

NewDecoder(job, file) ==
  LET none == [c \in DOMAIN job.info.comps |-> 0]
  IN  [phase |-> "header", job |-> job, file |-> file, progressive |-> IsProgressive(job.script),
       inheaders |-> TRUE, has_multiple_scans |-> FALSE, eoi_reached |-> FALSE, consume_input |-> "consume_markers",
       input_scan_number |-> 0, input_iMCU_row |-> 0, MCU_ctr |-> 0, MCU_vert_offset |-> 0, read |-> 0,
       cur |-> ScanParameters(<< >>, 0, 0, 0, 0), slot |-> 0, quant_table |-> none, dct_table |-> none,
       coef_bits |-> [c \in DOMAIN job.info.comps |-> [k \in Zigzag |-> -1]],
       coef_bits_latch |-> [c \in DOMAIN job.info.comps |-> [k \in Zigzag |-> -1]],
       full |-> FALSE, whole_image |-> [c \in DOMAIN job.info.comps |-> EmptyArray(job.info, c)],
       output_buf |-> [c \in DOMAIN job.info.comps |-> << >>],
       output_scan_number |-> 0, output_iMCU_row |-> 0, smoothing |-> FALSE, begun |-> 0, shown |-> NothingShown]

OpenFile ==
  /\ comp.phase = "written" /\ deco.phase = "idle" /\ comp.job.read # "none"
  /\ Went(NewDecoder(comp.job, comp.file))

\* jpeg_read_header
ReadHeader ==
  /\ deco.phase = "header"
  /\ Went([consume_markers(Now) EXCEPT !.phase = "ready"])

\* jpeg_start_decompress or jpeg_read_coefficients, up to where they start to wait for input
StartDecompress ==
  /\ deco.phase = "ready"
  /\ Went([start_input_pass(Now) EXCEPT
             !.full = deco.has_multiple_scans \/ deco.job.read # "plain",
             !.phase = CASE deco.job.read = "plain" -> "preload" [] deco.job.read = "buffered" -> "bufimage" [] OTHER -> "rdcoefs"])

(* One call of consume_input; with a single pass the rows are read by the
   output side instead. *)
ConsumeInput ==
  /\ \/ deco.phase \in {"scanning", "bufimage", "bufpost", "stopping", "rdcoefs"}
     \/ deco.phase = "preload" /\ deco.has_multiple_scans
  /\ ~deco.eoi_reached
  /\ \/ deco.consume_input = "consume_markers" /\ Went(consume_markers(Now))
     \/ deco.consume_input = "consume_data" /\ deco.full
        /\ \E n \in {m \in {1, McusToRead(deco)} : m <= McusToRead(deco)} : Went(consume_data(Now, n))

\* the end of jpeg_start_decompress
StartScanning ==
  /\ deco.phase = "preload" /\ (deco.has_multiple_scans => deco.eoi_reached)
  /\ Went(prepare_for_output_pass([Now EXCEPT !.output_scan_number = deco.input_scan_number]))

(* A pass is started for a scan that has been read, is being read or is still
   to come. *)
LimitedScan(d, s) == IF d.eoi_reached /\ s > d.input_scan_number THEN d.input_scan_number ELSE s
jpeg_start_output ==
  /\ deco.phase = "bufimage"
  /\ \E s \in {1, deco.input_scan_number, deco.input_scan_number + 1} :
       Went(prepare_for_output_pass([Now EXCEPT !.output_scan_number = LimitedScan(deco, s)]))

(* jpeg_read_raw_data *)
ReadRawData ==
  /\ deco.phase = "scanning" /\ deco.output_iMCU_row <= LastRow(deco)
  /\ \/ ~deco.full /\ \E n \in {m \in {1, McusToRead(deco)} : m <= McusToRead(deco)} : Went(decompress_onepass(Now, n))
     \/ deco.full /\ ~deco.smoothing /\ ~InputBehind(deco) /\ Went(decompress_data(Now))
     \/ deco.full /\ deco.smoothing /\ ~SmoothInputBehind(deco) /\ Went(decompress_smooth_data(Now))

\* It may come before all rows are read
jpeg_finish_output ==
  \/ deco.phase = "scanning" /\ deco.job.read = "buffered" /\ Went([Now EXCEPT !.phase = "bufpost"])
  \/ deco.phase = "bufpost" /\ (deco.input_scan_number > deco.output_scan_number \/ deco.eoi_reached) /\ Went([Now EXCEPT !.phase = "bufimage"])

\* jpeg_finish_decompress and the end of jpeg_read_coefficients
FinishDecompress ==
  \/ deco.phase = "scanning" /\ deco.job.read = "plain" /\ deco.output_iMCU_row > LastRow(deco) /\ Went([Now EXCEPT !.phase = "stopping"])
  \/ deco.phase = "bufimage" /\ Went([Now EXCEPT !.phase = "stopping"])
  \/ deco.phase = "rdcoefs" /\ deco.eoi_reached /\ Went([Now EXCEPT !.phase = "stopping"])
  \/ deco.phase = "stopping" /\ deco.eoi_reached /\ Went([Now EXCEPT !.phase = "done"])

DecoderStep ==
  \/ OpenFile \/ ReadHeader \/ StartDecompress \/ ConsumeInput \/ StartScanning
  \/ jpeg_start_output \/ ReadRawData \/ jpeg_finish_output \/ FinishDecompress

---------------------------------------------------------------------------
(* What may be known of a coefficient when at least the first s scans have
   been read. *)
KnownAfter(d, c, p, k, t) ==
  LET al == last_bitpos([n \in 1 .. t |-> d.file[n].scan], t + 1, c, k)
  IN  IF al < 0 THEN 0 ELSE Approximation(k, SourceBlock(c, p[1], p[2])[k], al)
KnownFrom(d, c, p, k, s) == {KnownAfter(d, c, p, k, t) : t \in s .. Len(d.file)}
FirstScanOf(d, c) == CHOOSE n \in DOMAIN d.file : c \in ScanComps(d.file[n].scan) /\ \A m \in 1 .. n - 1 : c \notin ScanComps(d.file[m].scan)
TableOf(d, c) == IF d.job.redefine THEN 1 + ((FirstScanOf(d, c) - 1) % Len(QuantTables)) ELSE 1

ShownScans(d) == IF d.shown.scan > Len(d.file) THEN Len(d.file) ELSE d.shown.scan
(* A value is shown that is known from the scans asked for, or a guess where
   nothing but zero is known, within the bits that are not known yet. *)
CoefShown(d, c, p, k) ==
  LET v == d.shown.blocks[c][p][k]
      known == KnownFrom(d, c, p, k, ShownScans(d))
      bits == d.coef_bits_latch[c][k]
  IN  \/ v \in known
      \/ d.smoothing /\ k > 0 /\ 0 \in known /\ bits # 0 /\ (bits > 0 => AbsValue(v) < 2^bits)
RowPlacesShown(d, c) ==
  {p \in PaddedPlaces(d.job.info, c) : InPicture(d.job.info, c, p) /\ p[1] \div d.job.info.comps[c].v = d.shown.row}
ClampedNeighbour(d, c, p, i) ==
  LET y == p[1] + ((i - 1) \div 3) - 1
      x == p[2] + ((i - 1) % 3) - 1
      within(v, n) == IF v < 0 THEN 0 ELSE IF v >= n THEN n - 1 ELSE v
  IN  <<within(y, height_in_blocks(d.job.info, c)), within(x, width_in_blocks(d.job.info, c))>>
GuessesGrounded(d, c, p) ==
  \A i \in 1 .. 9 : d.shown.dcs[c][p][i] \in KnownFrom(d, c, ClampedNeighbour(d, c, p, i), 0, ShownScans(d))

(* Every row of every pass shows all blocks of the picture with at least what
   the scans asked for say of them, and smoothing guesses from DC coefficients
   of the same quality; the table they are multiplied by is that of the
   component's first scan when that scan had begun by the time the pass did,
   and otherwise all zero to the end of the pass, though coefficients may come
   in during it (jddctmgr.c, lines 149 to 151): only a reader of buffered images
   can be ahead so far.  A reader of coefficients gets all of them.  (jdcoefct.c, lines 305 to 335 and 480 to
   497, jdinput.c, lines 198 to 218, jdapistd.c, lines 216 to 273.) *)
PictureShown ==
  /\ deco.phase = "scanning" /\ deco.shown # NothingShown =>
       \A c \in DOMAIN deco.job.info.comps :
         /\ DOMAIN deco.shown.blocks[c] = RowPlacesShown(deco, c)
         /\ deco.shown.tables[c] = IF FirstScanOf(deco, c) <= deco.begun THEN TableOf(deco, c) ELSE 0
         /\ \A p \in DOMAIN deco.shown.blocks[c] :
              /\ \A k \in Zigzag : CoefShown(deco, c, p, k)
              /\ deco.smoothing => GuessesGrounded(deco, c, p)
  /\ deco.phase = "done" /\ deco.job.read = "coefs" =>
       \A c \in DOMAIN deco.job.info.comps : \A p \in PaddedPlaces(deco.job.info, c) :
         InPicture(deco.job.info, c, p) =>
           \A k \in Zigzag : deco.whole_image[c][p][k] = KnownAfter(deco, c, p, k, Len(deco.file))

---------------------------------------------------------------------------
PassesIdle == EncoderIdle /\ DecoderIdle
PassesInit == EncoderInit /\ DecoderIdle
PassesDone ==
  /\ \/ comp.phase \in {"refused", "failed"}
     \/ comp.phase = "written" /\ (deco.phase = "done" \/ comp.job.read = "none")
  /\ UNCHANGED <<comp, deco>>
PassesNext ==
  \/ EncoderStep /\ UNCHANGED deco
  \/ DecoderStep /\ UNCHANGED comp
  \/ PassesDone
passesVars == <<encoderVars, decoderVars>>
PassesSpec == PassesInit /\ [][PassesNext]_passesVars

=============================================================================
