---------------------------- MODULE EncoderPasses ---------------------------
(***************************************************************************)
(* How the encoder takes a picture through its passes: the master control  *)
(* (jcmaster.c), the coefficient controllers of the compressor (jccoefct.c)*)
(* and of the transcoder (jctrans.c), and the calls of an application that *)
(* delivers rows of MCUs (jcapistd.c, jcapimin.c).                         *)
(*                                                                         *)
(* A block is a list of DCTSIZE2 = 6 coefficients in zigzag order.  The    *)
(* entropy coder, which JpegScan models, takes an MCU or refuses it; what  *)
(* it writes is represented by the blocks it was given.                    *)
(***************************************************************************)
EXTENDS McuLayout, SequencesExt

CONSTANTS
  PassJobs,               \* pictures and how they are written and read
  CoefValues,             \* what the coefficients of the pictures are taken from
  MAX_COMPONENTS, MAX_COMPS_IN_SCAN, MAX_SAMP_FACTOR, C_MAX_BLOCKS_IN_MCU, MAX_AH_AL

VARIABLE comp             \* the compressor
encoderVars == <<comp>>

Zigzag == 0 .. 5
LastCoef == 5
ZeroCoefs == [k \in Zigzag |-> 0]
OnlyDC(dc) == [k \in Zigzag |-> IF k = 0 THEN dc ELSE 0]

(* The coefficients of the picture: what forward_DCT makes of its samples. *)
SourceBlock(c, y, x) ==
  [k \in Zigzag |-> CoefValues[1 + ((29 * c + 13 * y + 7 * x + 3 * k + k * k) % Len(CoefValues))]]

---------------------------------------------------------------------------
(* initial_setup *)
BadPicture(info) ==
  \/ info.width = 0 \/ info.height = 0
  \/ Len(info.comps) \notin 1 .. MAX_COMPONENTS
  \/ \E c \in DOMAIN info.comps : info.comps[c].h \notin 1 .. MAX_SAMP_FACTOR \/ info.comps[c].v \notin 1 .. MAX_SAMP_FACTOR

(* validate_script.  A scan has comps, Ss, Se, Ah and Al. *)
ScanComps(scan) == {scan.comps[i] : i \in DOMAIN scan.comps}
IsProgressive(script) == script # << >> /\ (script[1].Ss # 0 \/ script[1].Se # LastCoef)
last_bitpos(script, n, c, k) ==
  LET before == {i \in 1 .. n - 1 : c \in ScanComps(script[i]) /\ script[i].Ss <= k /\ k <= script[i].Se}
  IN  IF before = {} THEN -1 ELSE script[Max(before)].Al

ComponentsGood(info, scan) ==
  /\ Len(scan.comps) \in 1 .. MAX_COMPS_IN_SCAN
  /\ \A i \in DOMAIN scan.comps : scan.comps[i] \in DOMAIN info.comps /\ (i > 1 => scan.comps[i] > scan.comps[i - 1])
ProgressiveGood(script, n) ==
  LET s == script[n]
  IN  /\ s.Ss \in Zigzag /\ s.Se \in s.Ss .. LastCoef
      /\ s.Ah \in 0 .. MAX_AH_AL /\ s.Al \in 0 .. MAX_AH_AL
      /\ IF s.Ss = 0 THEN s.Se = 0 ELSE Len(s.comps) = 1
      /\ \A c \in ScanComps(s) :
           /\ s.Ss # 0 => last_bitpos(script, n, c, 0) >= 0
           /\ \A k \in s.Ss .. s.Se :
                IF last_bitpos(script, n, c, k) < 0 THEN s.Ah = 0
                ELSE s.Ah = last_bitpos(script, n, c, k) /\ s.Al = s.Ah - 1
SequentialGood(script, n) ==
  LET s == script[n]
  IN  /\ s.Ss = 0 /\ s.Se = LastCoef /\ s.Ah = 0 /\ s.Al = 0
      /\ \A c \in ScanComps(s) : last_bitpos(script, n, c, 0) < 0
AllSent(info, script) == \A c \in DOMAIN info.comps : last_bitpos(script, Len(script) + 1, c, 0) >= 0
validate_script(info, script) ==
  /\ \A n \in DOMAIN script :
       /\ ComponentsGood(info, script[n])
       /\ IF IsProgressive(script) THEN ProgressiveGood(script, n) ELSE SequentialGood(script, n)
  /\ AllSent(info, script)

---------------------------------------------------------------------------
(* per_scan_setup: the MCUs of a scan.  A scan of one component consists of
   single blocks, without padding. *)
per_scan_setup(info, comps) ==
  LET of == {comps[i] : i \in DOMAIN comps}
      single == Len(comps) = 1
  IN  [MCUs_per_row |-> IF single THEN width_in_blocks(info, comps[1]) ELSE CeilDiv(info.width, MaxH(info) * DCTSIZE),
       MCU_width |-> [c \in of |-> IF single THEN 1 ELSE info.comps[c].h],
       MCU_height |-> [c \in of |-> IF single THEN 1 ELSE info.comps[c].v],
       last_col_width |-> [c \in of |-> IF single THEN 1 ELSE LastPart(width_in_blocks(info, c), info.comps[c].h)],
       last_row_height |-> [c \in of |-> LastPart(height_in_blocks(info, c), info.comps[c].v)]]
McuTooBig(info, comps) ==
  Len(comps) > 1 /\ FoldSet(LAMBDA i, n : n + info.comps[comps[i]].h * info.comps[comps[i]].v, 0, DOMAIN comps) > C_MAX_BLOCKS_IN_MCU

(* The blocks of an MCU in their order: component, row and column in the MCU. *)
BlocksInMcu(layout, c) ==
  [i \in 1 .. layout.MCU_width[c] * layout.MCU_height[c] |-> <<c, (i - 1) \div layout.MCU_width[c], (i - 1) % layout.MCU_width[c]>>]
MCU_membership(layout, comps) == FlattenSeq([i \in DOMAIN comps |-> BlocksInMcu(layout, comps[i])])

MCU_rows_per_iMCU_row(info, comps, layout, row) ==
  IF Len(comps) > 1 THEN 1
  ELSE IF row < total_iMCU_rows(info) - 1 THEN info.comps[comps[1]].v ELSE layout.last_row_height[comps[1]]

---------------------------------------------------------------------------
(* The coefficient controllers.  The compressor e is at MCU row e.row; all of
   them make the MCU of column col in row yoffset of it. *)
LayoutOf(e) == per_scan_setup(e.job.info, e.cur.comps)
RowIsReal(e, layout, c, y) == e.row < total_iMCU_rows(e.job.info) - 1 \/ y < layout.last_row_height[c]
RealColumns(layout, c, col) == IF col < layout.MCUs_per_row - 1 THEN layout.MCU_width[c] ELSE layout.last_col_width[c]
BlockRow(e, c, y) == e.row * e.job.info.comps[c].v + y

(* compress_data takes the blocks from the delivered rows and makes up those
   beyond the right and the lower edge. *)
PassThruMcu(e, layout, places, yoffset, col) ==
  LET from(c, y, x) == SourceBlock(c, e.delivered * e.job.info.comps[c].v + yoffset + y, col * layout.MCU_width[c] + x)
      buffer[i \in 0 .. Len(places)] ==
        IF i = 0 THEN ZeroCoefs
        ELSE LET c == places[i][1]  y == places[i][2]  x == places[i][3]
             IN  IF ~RowIsReal(e, layout, c, yoffset + y) THEN OnlyDC(buffer[i - x - 1][0])
                 ELSE IF x < RealColumns(layout, c, col) THEN from(c, y, x)
                 ELSE OnlyDC(buffer[i - 1][0])
  IN  [i \in DOMAIN places |-> buffer[i]]

FirstPassRowMutant(e, c) ==
  LET info == e.job.info
      across == width_in_blocks(info, c)
      from(y, x) == SourceBlock(c, e.delivered * info.comps[c].v + y, x)
  IN  [y \in 0 .. info.comps[c].v - 1 |->
        [x \in 0 .. RoundUp(across, info.comps[c].h) - 1 |->
           IF x < across THEN from(y, x) ELSE OnlyDC(from(y, across - 1)[0])]]
(* compress_first_pass fills a row of MCUs of the whole image's arrays, with
   the blocks beyond the edges. *)
FirstPassRow(e, c) ==
  LET info == e.job.info
      h == info.comps[c].h
      across == width_in_blocks(info, c)
      block_rows == IF e.row < total_iMCU_rows(info) - 1 THEN info.comps[c].v ELSE LastPart(height_in_blocks(info, c), info.comps[c].v)
      from(y, x) == SourceBlock(c, e.delivered * info.comps[c].v + y, x)
      buffer[y \in 0 .. info.comps[c].v - 1] ==
        [x \in 0 .. RoundUp(across, h) - 1 |->
           IF y >= block_rows THEN OnlyDC(buffer[y - 1][(x \div h) * h + h - 1][0])
           ELSE IF x < across THEN from(y, x)
           ELSE OnlyDC(from(y, across - 1)[0])]
  IN  buffer
FirstPassStored(e, c) ==
  LET v == e.job.info.comps[c].v
      new == FirstPassRow(e, c)
  IN  [p \in DOMAIN e.whole[c] |-> IF p[1] \div v = e.row THEN new[p[1] % v][p[2]] ELSE e.whole[c][p]]

(* compress_output of jccoefct.c takes all blocks from the arrays. *)
WholeImageMcu(e, layout, places, yoffset, col) ==
  [i \in DOMAIN places |->
     LET c == places[i][1]
     IN  e.whole[c][<<BlockRow(e, c, yoffset + places[i][2]), col * layout.MCU_width[c] + places[i][3]>>]]

(* compress_output of jctrans.c does not trust what the arrays hold beyond
   the edges. *)
TranscodedMcu(e, layout, places, yoffset, col) ==
  LET buffer[i \in 0 .. Len(places)] ==
        IF i = 0 THEN ZeroCoefs
        ELSE LET c == places[i][1]  y == places[i][2]  x == places[i][3]
             IN  IF RowIsReal(e, layout, c, yoffset + y) /\ x < RealColumns(layout, c, col)
                 THEN e.whole[c][<<BlockRow(e, c, yoffset + y), col * layout.MCU_width[c] + x>>]
                 ELSE OnlyDC(buffer[i - 1][0])
  IN  [i \in DOMAIN places |-> buffer[i]]

McuFor(e, layout, places, yoffset, col) ==
  CASE e.buffer = "pass_thru" -> PassThruMcu(e, layout, places, yoffset, col)
    [] e.buffer = "trans" -> TranscodedMcu(e, layout, places, yoffset, col)
    [] OTHER -> WholeImageMcu(e, layout, places, yoffset, col)

(* encode_mcu, n times: statistics are gathered or the scan is written. *)
Encoded(e, mcus) ==
  IF e.gather THEN [e EXCEPT !.stats = @ \o mcus]
  ELSE [e EXCEPT !.file = ReplaceAt(@, Len(@), [@[Len(@)] EXCEPT !.mcus = @ \o mcus])]

McusLeft(e) ==
  MCU_rows_per_iMCU_row(e.job.info, e.cur.comps, LayoutOf(e), e.row) * LayoutOf(e).MCUs_per_row
  - (e.MCU_vert_offset * LayoutOf(e).MCUs_per_row + e.mcu_ctr)
start_iMCU_row(e, row) == [e EXCEPT !.row = row, !.mcu_ctr = 0, !.MCU_vert_offset = 0]
Suspended(e, at) == [e EXCEPT !.MCU_vert_offset = at \div LayoutOf(e).MCUs_per_row, !.mcu_ctr = at % LayoutOf(e).MCUs_per_row]

(* One call of compress_data; the entropy coder takes n more MCUs and then
   refuses, unless the row is complete. *)
McuRun(e, n) ==
  LET layout == LayoutOf(e)
      places == MCU_membership(layout, e.cur.comps)
      at == e.MCU_vert_offset * layout.MCUs_per_row + e.mcu_ctr
      mcus == [i \in 1 .. n |-> McuFor(e, layout, places, (at + i - 1) \div layout.MCUs_per_row, (at + i - 1) % layout.MCUs_per_row)]
  IN  IF n = McusLeft(e) THEN start_iMCU_row(Encoded(e, mcus), e.row + 1) ELSE Suspended(Encoded(e, mcus), at + n)
Stored(e) == IF e.buffer = "save" THEN [e EXCEPT !.whole = [c \in DOMAIN e.job.info.comps |-> FirstPassStored(e, c)]] ELSE e
compress_data(e, n) == McuRun(Stored(e), n)

---------------------------------------------------------------------------
(* The master control. *)
ScanParameters(comps, ss, se, ah, al) == [comps |-> comps, Ss |-> ss, Se |-> se, Ah |-> ah, Al |-> al]
select_scan_parameters(e) ==
  IF e.job.script # << >> THEN e.job.script[e.scan_number + 1]
  ELSE ScanParameters([c \in DOMAIN e.job.info.comps |-> c], 0, LastCoef, 0, 0)
NumScans(job) == IF job.script = << >> THEN 1 ELSE Len(job.script)
Optimizes(job) == job.optimize \/ IsProgressive(job.script)
TotalPasses(e) == IF e.optimize THEN 2 * NumScans(e.job) ELSE NumScans(e.job)

(* write_frame_header with the first scan, and write_scan_header *)
ScanStarted(e) ==
  [e EXCEPT !.frames = @ + (IF e.scan_number = 0 THEN 1 ELSE 0),
            !.file = Append(@, [scan |-> e.cur, mcus |-> << >>, tables |-> e.stats])]
pass_startup(e) == IF e.startup THEN [ScanStarted(e) EXCEPT !.startup = FALSE] ELSE e

Selected(e) == [e EXCEPT !.cur = select_scan_parameters(e)]
Gathering(e, g) == [start_iMCU_row(e, 0) EXCEPT !.gather = g, !.stats = IF g THEN << >> ELSE @]
NeedsStatistics(e) == e.cur.Ss # 0 \/ e.cur.Ah = 0
CrankMode(e) == IF e.job.write = "trans" THEN "trans" ELSE "crank"

MainPass(e) ==
  [Gathering(Selected(e), e.optimize) EXCEPT
     !.buffer = IF TotalPasses(e) > 1 THEN "save" ELSE "pass_thru", !.startup = ~e.optimize]
OutputPass(e) ==
  ScanStarted([Gathering(IF e.optimize THEN e ELSE Selected(e), FALSE) EXCEPT !.buffer = CrankMode(e), !.startup = FALSE])
HuffOptPass(e) ==
  LET s == Selected(e)
  IN  IF NeedsStatistics(s) THEN [Gathering(s, TRUE) EXCEPT !.buffer = CrankMode(e), !.startup = FALSE]
      ELSE OutputPass([s EXCEPT !.pass_type = "output_pass", !.pass_number = @ + 1])
NoteLast(e) == [e EXCEPT !.is_last_pass = (e.pass_number = TotalPasses(e) - 1)]
prepare_for_pass(e) ==
  NoteLast(CASE e.pass_type = "main_pass" -> MainPass(e)
             [] e.pass_type = "huff_opt_pass" -> HuffOptPass(e)
             [] e.pass_type = "output_pass" -> OutputPass(e))

finish_pass_master(e) ==
  [e EXCEPT !.pass_number = @ + 1,
            !.pass_type = IF e.pass_type = "output_pass" /\ e.optimize THEN "huff_opt_pass" ELSE "output_pass",
            !.scan_number = IF e.pass_type = "output_pass" \/ (e.pass_type = "main_pass" /\ ~e.optimize) THEN @ + 1 ELSE @]

(* The arrays a transcoder is given hold anything beyond the edges. *)
GivenArray(info, c) ==
  [p \in PaddedPlaces(info, c) |->
     IF p[1] < height_in_blocks(info, c) /\ p[2] < width_in_blocks(info, c) THEN SourceBlock(c, p[1], p[2])
     ELSE [k \in Zigzag |-> 40 + k]]
EmptyArray(info, c) == [p \in PaddedPlaces(info, c) |-> ZeroCoefs]

jinit_c_master_control(job) ==
  [phase |-> "started", job |-> job, optimize |-> Optimizes(job),
   pass_type |-> IF job.write # "trans" THEN "main_pass" ELSE IF Optimizes(job) THEN "huff_opt_pass" ELSE "output_pass",
   pass_number |-> 0, scan_number |-> 0, is_last_pass |-> FALSE, startup |-> FALSE, gather |-> FALSE, buffer |-> "none",
   cur |-> ScanParameters(<< >>, 0, 0, 0, 0), row |-> 0, mcu_ctr |-> 0, MCU_vert_offset |-> 0, delivered |-> 0,
   whole |-> [c \in DOMAIN job.info.comps |-> IF job.write = "trans" THEN GivenArray(job.info, c) ELSE EmptyArray(job.info, c)],
   frames |-> 0, file |-> << >>, stats |-> << >>]

---------------------------------------------------------------------------
EncoderIdle == comp = [phase |-> "idle"]
EncoderInit == \E job \in PassJobs : comp = [phase |-> "new", job |-> job]

SetupFails(job) ==
  \/ BadPicture(job.info)
  \/ IF job.script = << >> THEN Len(job.info.comps) > MAX_COMPS_IN_SCAN \/ McuTooBig(job.info, [c \in DOMAIN job.info.comps |-> c])
     ELSE ~validate_script(job.info, job.script) \/ \E n \in DOMAIN job.script : McuTooBig(job.info, job.script[n].comps)

(* jpeg_start_compress, or jpeg_write_coefficients for a transcoder.  (A scan
   whose MCUs are too big is refused when its pass is prepared.) *)
StartCompress ==
  /\ comp.phase = "new"
  /\ comp' = IF SetupFails(comp.job) THEN [phase |-> "refused", job |-> comp.job]
             ELSE IF comp.job.write = "trans" THEN [jinit_c_master_control(comp.job) EXCEPT !.phase = "finishing"]
             ELSE [prepare_for_pass(jinit_c_master_control(comp.job)) EXCEPT !.phase = "scanning"]

(* jpeg_write_raw_data: a row of MCUs, which the application gives again when
   the encoder could not take all of it. *)
WriteRawData ==
  /\ comp.phase = "scanning" /\ comp.delivered < total_iMCU_rows(comp.job.info)
  /\ \E n \in {m \in {0, 1, McusLeft(comp)} : m <= McusLeft(comp)} :
       comp' = LET e == compress_data(pass_startup(comp), n)
               IN  IF n = McusLeft(comp) THEN [e EXCEPT !.delivered = @ + 1] ELSE e

(* jpeg_finish_compress ends the first pass and makes the others itself;
   these cannot be suspended. *)
FinishMainPass ==
  /\ comp.phase = "scanning" /\ comp.delivered = total_iMCU_rows(comp.job.info)
  /\ comp' = [finish_pass_master(comp) EXCEPT !.phase = "finishing"]

FurtherPass ==
  /\ comp.phase = "finishing" /\ ~comp.is_last_pass
  /\ comp' = [prepare_for_pass(comp) EXCEPT !.phase = "cranking"]

CrankRow ==
  /\ comp.phase = "cranking" /\ comp.row < total_iMCU_rows(comp.job.info)
  /\ \/ comp' = compress_data(comp, McusLeft(comp))
     \/ ~comp.gather /\ comp' = [phase |-> "failed", job |-> comp.job]

FinishPass ==
  /\ comp.phase = "cranking" /\ comp.row = total_iMCU_rows(comp.job.info)
  /\ comp' = [finish_pass_master(comp) EXCEPT !.phase = "finishing"]

WriteTrailer ==
  /\ comp.phase = "finishing" /\ comp.is_last_pass
  /\ comp' = [phase |-> "written", job |-> comp.job, frames |-> comp.frames, file |-> comp.file, optimize |-> comp.optimize]

EncoderStep == StartCompress \/ WriteRawData \/ FinishMainPass \/ FurtherPass \/ CrankRow \/ FinishPass \/ WriteTrailer

---------------------------------------------------------------------------
(* Where block i of MCU number m of a scan belongs, by the format: MCUs from
   left to right and from top to bottom. *)
BlockPlace(info, comps, place, m) ==
  LET c == place[1]
      across == IF Len(comps) = 1 THEN width_in_blocks(info, c) ELSE CeilDiv(info.width, MaxH(info) * DCTSIZE)
      up == IF Len(comps) = 1 THEN 1 ELSE info.comps[c].v
      along == IF Len(comps) = 1 THEN 1 ELSE info.comps[c].h
  IN  <<(m \div across) * up + place[2], (m % across) * along + place[3]>>
InPicture(info, c, p) == p[1] < height_in_blocks(info, c) /\ p[2] < width_in_blocks(info, c)
ExpectedMcus(info, comps) ==
  IF Len(comps) = 1 THEN width_in_blocks(info, comps[1]) * height_in_blocks(info, comps[1])
  ELSE CeilDiv(info.width, MaxH(info) * DCTSIZE) * total_iMCU_rows(info)

(* A block of the picture is the picture's; one beyond its edge has no AC
   coefficients and the DC of the block before it, which costs the fewest
   bits. *)
BlockGood(info, comps, places, mcu, m, i) ==
  IF InPicture(info, places[i][1], BlockPlace(info, comps, places[i], m))
  THEN mcu[i] = SourceBlock(places[i][1], BlockPlace(info, comps, places[i], m)[1], BlockPlace(info, comps, places[i], m)[2])
  ELSE i > 1 /\ places[i - 1][1] = places[i][1] /\ mcu[i] = OnlyDC(mcu[i - 1][0])
McusGood(info, comps, mcus) ==
  LET places == MCU_membership(per_scan_setup(info, comps), comps)
  IN  \A m \in DOMAIN mcus : Len(mcus[m]) = Len(places) /\ \A i \in DOMAIN places : BlockGood(info, comps, places, mcus[m], m - 1, i)

(* Whatever the way through the encoder, one pass or many, through buffers or
   from a transcoder's arrays, and wherever the destination makes it wait:
   each scan consists of the blocks of its components in the order of the
   format, with cheap padding, and was coded with tables made for just these
   blocks.  (jccoefct.c, lines 132 to 166 and 222 to 243, jctrans.c, lines 320
   to 328, jcmaster.c, lines 426 to 464.) *)
ScansWritten ==
  comp.phase \in {"scanning", "finishing", "cranking", "written"} =>
    /\ \A s \in DOMAIN comp.file : McusGood(comp.job.info, comp.file[s].scan.comps, comp.file[s].mcus)
    /\ comp.phase = "written" =>
         /\ comp.frames = 1
         /\ Len(comp.file) = NumScans(comp.job)
         /\ \A s \in DOMAIN comp.file :
              /\ comp.job.script # << >> => comp.file[s].scan = comp.job.script[s]
              /\ Len(comp.file[s].mcus) = ExpectedMcus(comp.job.info, comp.file[s].scan.comps)
              /\ comp.optimize /\ NeedsStatistics([cur |-> comp.file[s].scan]) => comp.file[s].tables = comp.file[s].mcus

=============================================================================
