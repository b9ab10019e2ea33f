----------------------------- MODULE Scanlines -----------------------------
(***************************************************************************)
(* The rows of a picture between the application and the coefficient       *)
(* controllers of encoder and decoder.                                     *)
(*                                                                         *)
(* Encoder: jpeg_write_scanlines (jcapistd.c), the main controller         *)
(* (jcmainct.c), the preprocessing controller without and with context     *)
(* rows (jcprepct.c) and downsampling with smoothing (jcsample.c).         *)
(* Decoder: output passes and jpeg_read_scanlines (jdapistd.c), the main   *)
(* controller with its lists of pointers for context rows (jdmainct.c),    *)
(* upsampling (jdsample.c) and merged upsampling (jdmerge.c), the post     *)
(* controller (jdpostct.c) and the output's dimensions (jdmaster.c).       *)
(*                                                                         *)
(* A row is a function from columns to samples, an image row one to        *)
(* tuples.  The application passes any number of rows in a call, the       *)
(* destination refuses, the source has nothing.  DCTSIZE is 2, so that a   *)
(* picture is shown in full size (2) or half of it (1).  Conversion and    *)
(* quantisation of colours, which work on one row, are left out.           *)
(***************************************************************************)
EXTENDS McuLayout, SequencesExt

CONSTANTS LineJobs,       \* pictures and how they are passed
          LineCounts      \* numbers of rows in a call

ASSUME LineCounts \subseteq Nat \ {0}

VARIABLES sheet,          \* the job, and where it stands
          source,         \* the encoder
          display         \* the decoder
lineVars == <<sheet, source, display>>

Info == sheet.info
Comps == DOMAIN Info.comps
Lowest(a, b) == IF a < b THEN a ELSE b
Between(low, v, high) == IF v < low THEN low ELSE IF v > high THEN high ELSE v
Group == MaxV(Info)       \* max_v_samp_factor: image rows of a row group
\* Samples of a picture, and of the planes of a file; -900 and below is what is beyond the picture.
Sample(c, y, x) == (89 * c + 37 * y + 101 * x + 13 * x * y + 7 * y * y) % 256
Junk == -900

-----------------------------------------------------------------------------
(* Downsampling.  in is a function from -1 .. Group to image rows.         *)
DownWidth(c) == width_in_blocks(Info, c) * DCTSIZE
Across(c) == MaxH(Info) \div Info.comps[c].h
Down(c) == MaxV(Info) \div Info.comps[c].v
expand_right_edge(row, cols) == [x \in 0 .. cols - 1 |-> row[Lowest(x, Info.width - 1)]]

DownMethod(c) ==
  LET h == Info.comps[c].h  v == Info.comps[c].v
  IN IF h = MaxH(Info) /\ v = MaxV(Info) THEN IF sheet.smooth > 0 THEN "fullsize_smooth" ELSE "fullsize"
     ELSE IF h * 2 = MaxH(Info) /\ v = MaxV(Info) THEN "h2v1"
     ELSE IF h * 2 = MaxH(Info) /\ v * 2 = MaxV(Info) THEN IF sheet.smooth > 0 THEN "h2v2_smooth" ELSE "h2v2"
     ELSE IF MaxH(Info) % h = 0 /\ MaxV(Info) % v = 0 THEN "int" ELSE "none"
Smoothing == {"fullsize_smooth", "h2v2_smooth"}
NeedContextRows == \E c \in Comps : DownMethod(c) \in Smoothing

int_downsample(c, in, r, x) ==
  LET numpix == Across(c) * Down(c)
  IN (MapThenSumSet(LAMBDA p : in[r * Down(c) + p[1]][x * Across(c) + p[2]], (0 .. Down(c) - 1) \X (0 .. Across(c) - 1)) + (numpix \div 2)) \div numpix
h2v1_downsample(in, r, x) == (in[r][2 * x] + in[r][2 * x + 1] + (x % 2)) \div 2
h2v2_downsample(in, r, x) ==
  (in[2 * r][2 * x] + in[2 * r][2 * x + 1] + in[2 * r + 1][2 * x] + in[2 * r + 1][2 * x + 1] + 1 + (x % 2)) \div 4
h2v2_smooth_downsample(in, r, x, last) ==
  LET i == 2 * r  a == 2 * x  b == 2 * x + 1
      left == IF x = 0 THEN a ELSE a - 1
      right == IF x = last THEN b ELSE b + 1
      membersum == in[i][a] + in[i][b] + in[i + 1][a] + in[i + 1][b]
      beside == in[i - 1][a] + in[i - 1][b] + in[i + 2][a] + in[i + 2][b] + in[i][left] + in[i][right] + in[i + 1][left] + in[i + 1][right]
      corners == in[i - 1][left] + in[i - 1][right] + in[i + 2][left] + in[i + 2][right]
  IN (membersum * (16384 - sheet.smooth * 80) + (2 * beside + corners) * sheet.smooth * 16 + 32768) \div 65536
fullsize_smooth_downsample(in, r, x, last) ==
  LET ColSum(k) == in[r - 1][k] + in[r][k] + in[r + 1][k]
      left == IF x = 0 THEN 0 ELSE x - 1
      right == IF x = last THEN last ELSE x + 1
      neighsum == ColSum(left) + ColSum(x) - in[r][x] + ColSum(right)
  IN (in[r][x] * (65536 - sheet.smooth * 512) + neighsum * sheet.smooth * 64 + 32768) \div 65536

\* Only smoothing looks at the rows around the group.
Looked(method) == IF method \in Smoothing THEN -1 .. Group ELSE 0 .. Group - 1
DownSample(method, c, in, r, x, last) ==
  CASE method = "fullsize" -> in[r][x]
    [] method = "h2v1" -> h2v1_downsample(in, r, x)
    [] method = "h2v2" -> h2v2_downsample(in, r, x)
    [] method = "int" -> int_downsample(c, in, r, x)
    [] method = "h2v2_smooth" -> h2v2_smooth_downsample(in, r, x, last)
    [] method = "fullsize_smooth" -> fullsize_smooth_downsample(in, r, x, last)
Downsampled(method, c, in, last) ==
  [r \in 0 .. Info.comps[c].v - 1 |-> [x \in 0 .. last |-> DownSample(method, c, in, r, x, last)]]

\* sep_downsample, of the rows of color_buf from in_row_index on, into a row group of the output.
Around(e, c, in_row_index) ==
  [i \in Looked(e.methods[c]) |-> expand_right_edge(e.color[c][(in_row_index + i) % e.height], DownWidth(c) * Across(c))]
PutGroup(output, new, v, group) == [r \in DOMAIN output |-> IF r \div v = group THEN new[r % v] ELSE output[r]]
sep_downsample(e, in_row_index, group) ==
  [e EXCEPT !.output = [c \in Comps |->
     PutGroup(e.output[c], Downsampled(e.methods[c], c, Around(e, c, in_row_index), DownWidth(c) - 1), Info.comps[c].v, group)]]

-----------------------------------------------------------------------------
(* Preprocessing.  in counts the rows taken from this call's avail rows,   *)
(* which start at image row next_scanline.  color_buf has `height' rows;   *)
(* with context rows, create_context_buffer's pointers go round.           *)
expand_bottom_edge(rows, input_rows, output_rows) ==
  [r \in DOMAIN rows |-> IF r \in input_rows .. output_rows - 1 THEN rows[(input_rows - 1) % Cardinality(DOMAIN rows)] ELSE rows[r]]
ImageRow(c, y) == [x \in 0 .. Info.width - 1 |-> Sample(c, y, x)]
TakeRows(e, n) ==
  [e EXCEPT !.color = [c \in Comps |-> [i \in DOMAIN @[c] |-> LET k == i - e.next_buf_row
                                                              IN IF k \in 0 .. n - 1 THEN ImageRow(c, e.next_scanline + e.in + k) ELSE @[c][i]]],
            !.in = @ + n, !.next_buf_row = @ + n, !.rows_to_go = @ - n]
PadColor(e, to) == [e EXCEPT !.color = [c \in Comps |-> expand_bottom_edge(@[c], e.next_buf_row, to)], !.next_buf_row = to]
PadOutput(e) ==
  [e EXCEPT !.output = [c \in Comps |-> expand_bottom_edge(@[c], e.rowgroup_ctr * Info.comps[c].v, DCTSIZE * Info.comps[c].v)],
            !.rowgroup_ctr = DCTSIZE]

PadLast(e) == IF e.rows_to_go = 0 /\ e.next_buf_row < Group THEN PadColor(e, Group) ELSE e
DownFull(e) ==
  IF e.next_buf_row < Group THEN e
  ELSE [sep_downsample(e, 0, e.rowgroup_ctr) EXCEPT !.next_buf_row = 0, !.rowgroup_ctr = @ + 1]
RECURSIVE pre_process_data(_, _), OrPadOutput(_, _)
pre_process_data(e, avail) ==
  IF e.in >= avail \/ e.rowgroup_ctr >= DCTSIZE THEN e
  ELSE OrPadOutput(DownFull(PadLast(TakeRows(e, Lowest(Group - e.next_buf_row, avail - e.in)))), avail)
OrPadOutput(e, avail) ==
  IF e.rows_to_go = 0 /\ e.rowgroup_ctr < DCTSIZE THEN PadOutput(e) ELSE pre_process_data(e, avail)

\* The first row is copied above itself, into the rows that stand for the third group.
CopyTop(e) ==
  [e EXCEPT !.color = [c \in Comps |-> [i \in DOMAIN @[c] |-> IF i >= 2 * Group THEN @[c][0] ELSE @[c][i]]]]
TakeContext(e, avail) ==
  IF e.in >= avail THEN IF e.next_buf_row < e.next_buf_stop THEN PadColor(e, e.next_buf_stop) ELSE e
  ELSE IF e.rows_to_go = Info.height THEN CopyTop(TakeRows(e, Lowest(e.next_buf_stop - e.next_buf_row, avail - e.in)))
  ELSE TakeRows(e, Lowest(e.next_buf_stop - e.next_buf_row, avail - e.in))
Wrapped(row) == IF row >= 3 * Group THEN 0 ELSE row
DownContext(e) ==
  IF e.next_buf_row # e.next_buf_stop THEN e
  ELSE [sep_downsample(e, e.this_row_group, e.rowgroup_ctr) EXCEPT
          !.rowgroup_ctr = @ + 1, !.this_row_group = Wrapped(@ + Group), !.next_buf_row = Wrapped(@),
          !.next_buf_stop = Wrapped(e.next_buf_row) + Group]
RECURSIVE pre_process_context(_, _)
pre_process_context(e, avail) ==
  IF e.rowgroup_ctr >= DCTSIZE \/ (e.in >= avail /\ e.rows_to_go # 0) THEN e
  ELSE pre_process_context(DownContext(TakeContext(e, avail)), avail)

\* When it has to wait, the main controller keeps the last row back, so that it is called again.
HoldBackMutant(f) == [f EXCEPT !.suspended = TRUE]

HoldBack(f) == IF f.suspended THEN f ELSE [f EXCEPT !.in = @ - 1, !.suspended = TRUE]

\* process_data_simple_main.  The destination takes `room' rows of MCUs; compress_data refuses the next.
FillMain(e, avail) ==
  IF e.rowgroup_ctr >= DCTSIZE THEN e ELSE IF e.context THEN pre_process_context(e, avail) ELSE pre_process_data(e, avail)
RECURSIVE process_data_simple_main(_, _, _), SendRow(_, _, _)
process_data_simple_main(e, avail, room) ==
  IF e.cur_iMCU_row >= total_iMCU_rows(Info) THEN e ELSE SendRow(FillMain(e, avail), avail, room)
SendRow(f, avail, room) ==
  IF f.rowgroup_ctr # DCTSIZE THEN f
  ELSE IF room = 0 THEN HoldBack(f)
  ELSE process_data_simple_main(
         [f EXCEPT !.in = IF f.suspended THEN @ + 1 ELSE @, !.suspended = FALSE, !.rowgroup_ctr = 0,
                   !.cur_iMCU_row = @ + 1, !.given = Append(@, f.output)], avail, room - 1)

\* start_pass_main and start_pass_prep; jinit_c_prep_controller has made the buffers.
NewSource ==
  LET height == IF NeedContextRows THEN 3 * Group ELSE Group
  IN [next_scanline |-> 0, in |-> 0, cur_iMCU_row |-> 0, rowgroup_ctr |-> 0, suspended |-> FALSE, rows_to_go |-> Info.height,
      next_buf_row |-> 0, this_row_group |-> 0, next_buf_stop |-> 2 * Group, height |-> height, context |-> NeedContextRows,
      methods |-> [c \in Comps |-> DownMethod(c)], color |-> [c \in Comps |-> [i \in 0 .. height - 1 |-> << >>]],
      output |-> [c \in Comps |-> [r \in 0 .. DCTSIZE * Info.comps[c].v - 1 |-> << >>]], given |-> << >>, taken |-> -1]

jpeg_write_scanlines ==
  /\ sheet.at = "write" /\ source.next_scanline < Info.height
  /\ \E n \in LineCounts, room \in 0 .. 2 :
       \E e \in {process_data_simple_main([source EXCEPT !.in = 0, !.given = << >>], Lowest(n, Info.height - source.next_scanline), room)} :
         source' = [e EXCEPT !.next_scanline = @ + e.in, !.taken = e.in]
  /\ UNCHANGED <<sheet, display>>

-----------------------------------------------------------------------------
(* Dimensions of the output (jpeg_calc_output_dimensions): M is the size   *)
(* of a block of the least scaled component.                               *)
MinSize == sheet.size
output_width == CeilDiv(Info.width * MinSize, DCTSIZE)
output_height == CeilDiv(Info.height * MinSize, DCTSIZE)
RECURSIVE ScaledSize(_, _)
ScaledSize(c, ssize) ==
  IF /\ ssize < DCTSIZE
     /\ Info.comps[c].h * ssize * 2 <= MaxH(Info) * MinSize /\ Info.comps[c].v * ssize * 2 <= MaxV(Info) * MinSize
  THEN ScaledSize(c, ssize * 2) ELSE ssize
DCT_scaled_size(c) == ScaledSize(c, MinSize)
downsampled_width(c) == CeilDiv(Info.width * Info.comps[c].h * DCT_scaled_size(c), MaxH(Info) * DCTSIZE)
downsampled_height(c) == CeilDiv(Info.height * Info.comps[c].v * DCT_scaled_size(c), MaxV(Info) * DCTSIZE)
RGroup(c) == (Info.comps[c].v * DCT_scaled_size(c)) \div MinSize           \* rows of a row group
HGroup(c) == (Info.comps[c].h * DCT_scaled_size(c)) \div MinSize
ImcuHeight(c) == Info.comps[c].v * DCT_scaled_size(c)

use_merged_upsample ==
  /\ ~sheet.fancy /\ sheet.rgb /\ Comps = 1 .. 3
  /\ Info.comps[1].h = 2 /\ Info.comps[1].v <= 2
  /\ \A c \in {2, 3} : Info.comps[c].h = 1 /\ Info.comps[c].v = 1
  /\ \A c \in 1 .. 3 : DCT_scaled_size(c) = MinSize
strip_height == Group

UpMethod(c) ==
  LET do_fancy == sheet.fancy /\ MinSize > 1 /\ downsampled_width(c) > 2
  IN IF c \notin sheet.needed THEN "noop"
     ELSE IF HGroup(c) = MaxH(Info) /\ RGroup(c) = Group THEN "fullsize"
     ELSE IF HGroup(c) * 2 = MaxH(Info) /\ RGroup(c) = Group THEN IF do_fancy THEN "h2v1_fancy" ELSE "h2v1"
     ELSE IF HGroup(c) * 2 = MaxH(Info) /\ RGroup(c) * 2 = Group THEN IF do_fancy THEN "h2v2_fancy" ELSE "h2v2"
     ELSE IF MaxH(Info) % HGroup(c) = 0 /\ Group % RGroup(c) = 0 THEN "int" ELSE "none"
UpsamplesContext == ~use_merged_upsample /\ \E c \in Comps : UpMethod(c) = "h2v2_fancy"

\* What the coefficient controller has for row y of a component: blocks reach beyond the picture.
PlaneRow(c, y) ==
  [x \in 0 .. width_in_blocks(Info, c) * DCT_scaled_size(c) - 1 |->
     IF y < downsampled_height(c) /\ x < downsampled_width(c) THEN Sample(c, y, x) ELSE Junk]

-----------------------------------------------------------------------------
(* Upsampling.  input_buf is, of each component, a function from the       *)
(* numbers of a list of pointers to rows of its buffer.                    *)
InputRow(d, c, i) == d.buffer[c][d.xbuffer[d.whichptr][c][i]]
Columns == 0 .. RoundUp(output_width, MaxH(Info)) - 1
int_upsample(row, h_expand) == [x \in Columns |-> IF x < output_width THEN row[x \div h_expand] ELSE Junk]
h2v1_upsample(row) == [x \in Columns |-> row[x \div 2]]
h2v1_fancy_upsample(row, last) ==
  [x \in 0 .. 2 * last + 1 |->
     LET i == x \div 2
     IN IF x \in {0, 2 * last + 1} THEN row[i]
        ELSE IF x % 2 = 0 THEN (3 * row[i] + row[i - 1] + 1) \div 4 ELSE (3 * row[i] + row[i + 1] + 2) \div 4]
h2v2_fancy_upsample(near, far, last) ==
  LET colsum == [i \in 0 .. last |-> near[i] * 3 + far[i]]
  IN [x \in 0 .. 2 * last + 1 |->
        LET i == x \div 2
        IN IF x = 0 THEN (colsum[0] * 4 + 8) \div 16
           ELSE IF x = 2 * last + 1 THEN (colsum[last] * 4 + 7) \div 16
           ELSE IF x % 2 = 0 THEN (colsum[i] * 3 + colsum[i - 1] + 8) \div 16 ELSE (colsum[i] * 3 + colsum[i + 1] + 7) \div 16]

\* A row group of a component: rows of color_buf, or where in the input they are.
Farther(r) == (r \div 2) + (IF r % 2 = 0 THEN -1 ELSE 1)
UpsampledRow(d, c, method, base, r) ==
  CASE method = "h2v1" -> h2v1_upsample(InputRow(d, c, base + r))
    [] method = "h2v2" -> h2v1_upsample(InputRow(d, c, base + r \div 2))
    [] method = "int" -> int_upsample(InputRow(d, c, base + r \div (Group \div RGroup(c))), MaxH(Info) \div HGroup(c))
    [] method = "h2v1_fancy" -> h2v1_fancy_upsample(InputRow(d, c, base + r), downsampled_width(c) - 1)
    [] method = "h2v2_fancy" ->
         h2v2_fancy_upsample(InputRow(d, c, base + r \div 2), InputRow(d, c, base + Farther(r)), downsampled_width(c) - 1)
UpsampledGroup(d, c, method, base) ==
  CASE method = "noop" -> << >>
    [] method = "fullsize" -> [direct |-> base]
    [] OTHER -> [rows |-> [r \in 0 .. Group - 1 |-> UpsampledRow(d, c, method, base, r)]]

NeededList == SetToSortSeq(sheet.needed, LAMBDA a, b : a < b)
ColorRow(d, c, r) == IF "direct" \in DOMAIN d.color_buf[c] THEN InputRow(d, c, d.color_buf[c].direct + r) ELSE d.color_buf[c].rows[r]
ConvertedRow(of) == [x \in 0 .. output_width - 1 |-> [k \in DOMAIN NeededList |-> of[NeededList[k]][x]]]
color_convert(d, r) == ConvertedRow([c \in sheet.needed |-> ColorRow(d, c, r)])

\* Upsamplers are given room for rows; what they have made of them is in `made'.
FillGroup(d) ==
  IF d.next_row_out < Group THEN d
  ELSE [d EXCEPT !.color_buf = [c \in Comps |-> UpsampledGroup(d, c, d.methods[c], d.rowgroup_ctr * RGroup(c))], !.next_row_out = 0]
EmitRows(u, num_rows) ==
  [u EXCEPT !.made = [i \in 1 .. num_rows |-> color_convert(u, u.next_row_out + i - 1)],
            !.rows_to_go = @ - num_rows, !.next_row_out = @ + num_rows,
            !.rowgroup_ctr = IF u.next_row_out + num_rows >= Group THEN @ + 1 ELSE @]
EmitGroup(u, room) == EmitRows(u, Min({Group - u.next_row_out, u.rows_to_go, room}))
sep_upsample(d, room) == EmitGroup(FillGroup(d), room)

MergedRow(y, cb, cr) == [x \in 0 .. output_width - 1 |-> <<y[x], cb[x \div 2], cr[x \div 2]>>]
merged_upsample(d, r) ==
  MergedRow(InputRow(d, 1, d.rowgroup_ctr * RGroup(1) + r), InputRow(d, 2, d.rowgroup_ctr), InputRow(d, 3, d.rowgroup_ctr))
merged_1v_upsample(d) == [d EXCEPT !.made = <<merged_upsample(d, 0)>>, !.rowgroup_ctr = @ + 1]
EmitSpare(d) ==
  [d EXCEPT !.made = <<d.spare_row>>, !.spare_full = FALSE, !.rows_to_go = @ - 1, !.rowgroup_ctr = @ + 1]
EmitMerged(d, num_rows) ==
  [d EXCEPT !.made = [i \in 1 .. num_rows |-> merged_upsample(d, i - 1)], !.rows_to_go = @ - num_rows,
            !.spare_full = (num_rows < 2), !.spare_row = IF num_rows < 2 THEN merged_upsample(d, 1) ELSE @,
            !.rowgroup_ctr = IF num_rows < 2 THEN @ ELSE @ + 1]
merged_2v_upsample(d, room) == IF d.spare_full THEN EmitSpare(d) ELSE EmitMerged(d, Min({2, d.rows_to_go, room}))
upsample(d, room) ==
  IF ~d.merged THEN sep_upsample(d, room)
  ELSE IF MaxV(Info) = 2 THEN merged_2v_upsample(d, room) ELSE merged_1v_upsample(d)

-----------------------------------------------------------------------------
(* The post controller.  Rows go to the application, which is given up to  *)
(* room, or to the strip of the whole picture and to the quantiser.        *)
post_process_1pass(d, room) == upsample(d, Lowest(room, strip_height))
NextStrip(d, next_row) ==
  [d EXCEPT !.starting_row = IF next_row >= strip_height THEN @ + strip_height ELSE @,
            !.next_row = IF next_row >= strip_height THEN 0 ELSE next_row]
StoreRows(u, from) ==
  [NextStrip(u, u.next_row + Len(u.made)) EXCEPT
     !.whole_image = [y \in DOMAIN @ |-> IF y - from + 1 \in DOMAIN u.made THEN u.made[y - from + 1] ELSE @[y]],
     !.seen = @ \o u.made]
post_process_prepass(d) == StoreRows(upsample(d, strip_height - d.next_row), d.starting_row + d.next_row)
FetchRows(d, num_rows) ==
  [NextStrip(d, d.next_row + num_rows) EXCEPT
     !.made = [i \in 1 .. num_rows |-> d.whole_image[d.starting_row + d.next_row + i - 1]]]
post_process_2pass(d, room) == FetchRows(d, Min({strip_height - d.next_row, room, output_height - d.starting_row}))
post_process_data(d, room) ==
  IF d.dummy THEN post_process_prepass(d) ELSE IF sheet.quantize # "none" THEN post_process_1pass(d, room) ELSE upsample(d, room)

-----------------------------------------------------------------------------
(* The main controller.                                                    *)
SetList(list, changed) == [i \in DOMAIN list |-> IF i \in DOMAIN changed THEN changed[i] ELSE list[i]]
FirstList(rg, M) == [i \in -rg .. rg * (M + 2) - 1 |-> IF i < 0 THEN 0 ELSE i]
SecondList(rg, M) ==
  [i \in 0 .. rg * (M + 2) - 1 |-> IF i \in rg * (M - 2) .. rg * M - 1 THEN i + 2 * rg
                                   ELSE IF i \in rg * M .. rg * (M + 2) - 1 THEN i - 2 * rg ELSE i]
make_funny_pointers(d) ==
  [d EXCEPT !.xbuffer = <<[c \in Comps |-> SetList(@[1][c], FirstList(RGroup(c), MinSize))],
                          [c \in Comps |-> SetList(@[2][c], SecondList(RGroup(c), MinSize))]>>]
WrapList(list, rg, M) ==
  SetList(list, [i \in (-rg .. -1) \cup (rg * (M + 2) .. rg * (M + 3) - 1) |->
                   IF i < 0 THEN list[rg * (M + 2) + i] ELSE list[i - rg * (M + 2)]])
set_wraparound_pointers(d) ==
  [d EXCEPT !.xbuffer = [w \in 1 .. 2 |-> [c \in Comps |-> WrapList(@[w][c], RGroup(c), MinSize)]]]
rows_left(c) == LastPart(downsampled_height(c), ImcuHeight(c))
BottomList(list, left, rg) == SetList(list, [i \in left .. left + 2 * rg - 1 |-> list[left - 1]])
set_bottom_pointers(d) ==
  [d EXCEPT !.rowgroups_avail = CeilDiv(rows_left(1), RGroup(1)),
            !.xbuffer[d.whichptr] = [c \in Comps |-> BottomList(@[c], rows_left(c), RGroup(c))]]

\* decompress_rows writes a row of MCUs through the list it is given: as many blocks as there are.
BlockRowsIn(c, row) ==
  IF row < total_iMCU_rows(Info) - 1 THEN Info.comps[c].v ELSE LastPart(height_in_blocks(Info, c), Info.comps[c].v)
RowWritten(c, old, from, first) == IF from = {} THEN old ELSE PlaneRow(c, first + Max(from))
decompress_rows(d) ==
  [d EXCEPT !.output_iMCU_row = @ + 1, !.buffer_full = TRUE, !.iMCU_row_ctr = IF d.context THEN @ + 1 ELSE @,
            !.buffer = [c \in Comps |-> [p \in DOMAIN @[c] |->
               RowWritten(c, @[c][p],
                 {i \in 0 .. BlockRowsIn(c, d.output_iMCU_row) * DCT_scaled_size(c) - 1 : d.xbuffer[d.whichptr][c][i] = p},
                 d.output_iMCU_row * ImcuHeight(c))]]]

AfterSimple(p) == IF p.rowgroup_ctr >= MinSize THEN [p EXCEPT !.buffer_full = FALSE, !.rowgroup_ctr = 0] ELSE p
process_simple_main(d, room) == AfterSimple(post_process_data(d, room))

\* The states of process_data_context_main, each of which may go on to the next one.
AfterImcu(p) ==
  IF p.rowgroup_ctr < p.rowgroups_avail THEN p
  ELSE [(IF p.iMCU_row_ctr = 1 THEN set_wraparound_pointers(p) ELSE p) EXCEPT
          !.whichptr = 3 - @, !.buffer_full = FALSE, !.rowgroup_ctr = MinSize + 1, !.rowgroups_avail = MinSize + 2,
          !.context_state = "postponed"]
ProcessImcu(d, room) == AfterImcu(post_process_data(d, room))
ReadyForImcu(d) ==
  IF d.iMCU_row_ctr = total_iMCU_rows(Info) THEN set_bottom_pointers(d) ELSE d
PrepareForImcu(d, room) ==
  ProcessImcu(ReadyForImcu([d EXCEPT !.rowgroup_ctr = 0, !.rowgroups_avail = MinSize - 1, !.context_state = "process"]), room)
AfterPostponed(p, room) ==
  IF p.rowgroup_ctr < p.rowgroups_avail THEN p
  ELSE IF Len(p.made) >= room THEN [p EXCEPT !.context_state = "prepare"]
  ELSE [PrepareForImcu(p, room - Len(p.made)) EXCEPT !.made = p.made \o @]
process_context_main(d, room) ==
  CASE d.context_state = "postponed" -> AfterPostponed(post_process_data(d, room), room)
    [] d.context_state = "prepare" -> PrepareForImcu(d, room)
    [] d.context_state = "process" -> ProcessImcu(d, room)

\* A call gives rows or, when the source has nothing for a buffer that is empty, none.
process_data_main(d, room) == IF d.context THEN process_context_main(d, room) ELSE process_simple_main(d, room)
ProcessRows(e, room, comes) ==
  IF e.crank THEN post_process_2pass(e, room)
  ELSE IF ~e.buffer_full /\ ~comes THEN [e EXCEPT !.waits = TRUE]
  ELSE process_data_main(IF e.buffer_full THEN e ELSE decompress_rows(e), room)
process_data(d, room, comes) == ProcessRows([d EXCEPT !.made = << >>, !.waits = FALSE], room, comes)

-----------------------------------------------------------------------------
(* Output passes.  A new one starts every module again; the buffers and    *)
(* what is in them stay.                                                   *)
Unwritten == [x \in 0 .. 40 |-> Junk]
BufferRows(c) == RGroup(c) * (IF UpsamplesContext THEN MinSize + 2 ELSE MinSize)
PointerList(c) ==
  IF UpsamplesContext THEN [i \in -RGroup(c) .. RGroup(c) * (MinSize + 3) - 1 |-> -1] ELSE [i \in 0 .. BufferRows(c) - 1 |-> i]
NewDisplay ==
  [buffer |-> [c \in Comps |-> [p \in 0 .. BufferRows(c) - 1 |-> Unwritten]],
   xbuffer |-> [w \in 1 .. 2 |-> [c \in Comps |-> PointerList(c)]],
   methods |-> [c \in Comps |-> UpMethod(c)], context |-> UpsamplesContext, merged |-> use_merged_upsample,
   whichptr |-> 1, context_state |-> "prepare", iMCU_row_ctr |-> 0, rowgroup_ctr |-> 0, rowgroups_avail |-> 0, buffer_full |-> FALSE,
   output_iMCU_row |-> 0, color_buf |-> << >>, next_row_out |-> 0, rows_to_go |-> 0, spare_full |-> FALSE, spare_row |-> Unwritten,
   whole_image |-> [y \in 0 .. RoundUp(output_height, strip_height) - 1 |-> Unwritten], starting_row |-> 0, next_row |-> 0,
   seen |-> << >>, made |-> << >>, room |-> 0, waits |-> FALSE, output_scanline |-> 0, dummy |-> FALSE, crank |-> FALSE]

FirstPointers(d) ==
  IF ~d.context THEN d
  ELSE [make_funny_pointers(d) EXCEPT !.whichptr = 1, !.context_state = "prepare", !.iMCU_row_ctr = 0]
start_pass_main(d) == FirstPointers([d EXCEPT !.buffer_full = FALSE, !.rowgroup_ctr = 0])
start_pass_upsample(d) ==
  [d EXCEPT !.rows_to_go = output_height, !.next_row_out = IF d.merged THEN @ ELSE Group,
            !.spare_full = IF d.merged THEN FALSE ELSE @]
start_pass_dpost(d) == [d EXCEPT !.starting_row = 0, !.next_row = 0, !.output_scanline = 0, !.made = << >>]
prepare_rows(d) ==
  IF d.dummy THEN [start_pass_dpost(d) EXCEPT !.dummy = FALSE, !.crank = TRUE]
  ELSE start_pass_main(start_pass_dpost(start_pass_upsample(
         [d EXCEPT !.output_iMCU_row = 0, !.dummy = (sheet.quantize = "2pass"), !.crank = FALSE, !.seen = << >>])))

BeginOutput ==
  /\ sheet.at = "start"
  /\ display' = prepare_rows(display)
  /\ sheet' = [sheet EXCEPT !.at = IF sheet.quantize = "2pass" THEN "prescan" ELSE "scanning", !.pass = @ + 1]
  /\ UNCHANGED source

\* output_pass_setup, one round of its loops.
Prescan ==
  /\ sheet.at = "prescan"
  /\ \E comes \in BOOLEAN :
       \E p \in {process_data(display, 0, comes)} :
         \E scanline \in {display.output_scanline + Len(p.made)} :
           IF scanline < output_height THEN display' = [p EXCEPT !.output_scanline = scanline] /\ UNCHANGED sheet
           ELSE display' = prepare_rows(p) /\ sheet' = [sheet EXCEPT !.at = "scanning"]
  /\ UNCHANGED source

jpeg_read_scanlines ==
  /\ sheet.at = "scanning" /\ display.output_scanline < output_height
  /\ \E max_lines \in LineCounts, comes \in BOOLEAN :
       \E p \in {process_data(display, max_lines, comes)} : display' = [p EXCEPT !.output_scanline = @ + Len(p.made), !.room = max_lines]
  /\ UNCHANGED <<sheet, source>>

\* jpeg_finish_output ends a pass at any time, another follows; jpeg_finish_decompress ends the last.
EndPass ==
  /\ sheet.at = "scanning" /\ (sheet.pass < sheet.passes \/ display.output_scanline >= output_height)
  /\ sheet' = [sheet EXCEPT !.at = IF sheet.pass < sheet.passes THEN "start" ELSE "done"]
  /\ UNCHANGED <<source, display>>
EndWriting ==
  /\ sheet.at = "write" /\ source.next_scanline = Info.height
  /\ sheet' = [sheet EXCEPT !.at = "done"] /\ UNCHANGED <<source, display>>
LinesDone == sheet.at = "done" /\ UNCHANGED lineVars

LinesIdle == sheet = [at |-> "idle"] /\ source = << >> /\ display = << >>
LinesInit ==
  /\ sheet \in LineJobs
  /\ source = IF sheet.at = "write" THEN NewSource ELSE << >>
  /\ display = IF sheet.at = "start" THEN NewDisplay ELSE << >>
LinesNext == jpeg_write_scanlines \/ BeginOutput \/ Prescan \/ jpeg_read_scanlines \/ EndPass \/ EndWriting \/ LinesDone
LinesSpec == LinesInit /\ [][LinesNext]_lineVars

-----------------------------------------------------------------------------
(* Written: each sample is the average of its pixels, or of them and their *)
(* neighbours, of a picture that goes on beyond its edges.                 *)
Pixel(c, y, x) == Sample(c, Between(0, y, Info.height - 1), Between(0, x, Info.width - 1))
\* 65536 times the weight of the pixel at (dy, dx) from the sample's first.
Weight(c, dy, dx) ==
  LET own == dy \in 0 .. Down(c) - 1 /\ dx \in 0 .. Across(c) - 1
      near == dy \in 0 .. Down(c) - 1 \/ dx \in 0 .. Across(c) - 1
  IN CASE DownMethod(c) = "h2v2_smooth" -> IF own THEN 16384 - 80 * sheet.smooth ELSE (IF near THEN 32 ELSE 16) * sheet.smooth
       [] DownMethod(c) = "fullsize_smooth" -> IF own THEN 65536 - 512 * sheet.smooth ELSE 64 * sheet.smooth
       [] OTHER -> IF own THEN 65536 \div (Across(c) * Down(c)) ELSE 0
SampleWritten(c, v, Y, X) ==
  LET sum == MapThenSumSet(LAMBDA p : Weight(c, p[1], p[2]) * Pixel(c, Y * Down(c) + p[1], X * Across(c) + p[2]), (-1 .. Down(c)) \X (-1 .. Across(c)))
  IN v * 65536 - sum \in -65536 .. 65536

\* Without context rows the rows below the picture's last group repeat the group's last.
MeantRow(c, Y) ==
  LET v == Info.comps[c].v  last == CeilDiv(Info.height, Group) * v - 1
  IN IF NeedContextRows THEN Y ELSE Lowest(Y, last)
ImcuWritten(output, row) ==
  \A c \in Comps : \A r \in DOMAIN output[c] : \A x \in 0 .. DownWidth(c) - 1 :
    SampleWritten(c, output[c][r][x], MeantRow(c, row * DCTSIZE * Info.comps[c].v + r), x)
\* Every row of the picture is taken once, every row of MCUs given once, right, and nothing is held back.
GroupsWritten ==
  /\ \A k \in DOMAIN source.given : ImcuWritten(source.given[k], source.cur_iMCU_row - Len(source.given) + k - 1)
  /\ source.next_scanline + source.rows_to_go = IF source.suspended THEN Info.height - 1 ELSE Info.height
  /\ source.next_scanline = Info.height => source.cur_iMCU_row = total_iMCU_rows(Info) /\ ~source.suspended
  /\ source.taken = 0 => source.suspended

(* Read: a sample shown is that of its place in the plane or, when it is   *)
(* to be fancy, between it and its neighbours; planes go on at the edges.  *)
PlaneSample(c, i, j) == Sample(c, Between(0, i, downsampled_height(c) - 1), Between(0, j, downsampled_width(c) - 1))
Side(k) == IF k % 2 = 0 THEN -1 ELSE 1
Shown(c, y, x) ==
  LET h == MaxH(Info) \div HGroup(c)  v == Group \div RGroup(c)
      i == y \div v  j == x \div h
      fancy == ~use_merged_upsample /\ sheet.fancy /\ MinSize > 1 /\ downsampled_width(c) > 2 /\ h = 2
      Col(k) == 3 * PlaneSample(c, i, k) + PlaneSample(c, i + Side(y), k)
  IN IF fancy /\ v = 1 THEN (3 * PlaneSample(c, i, j) + PlaneSample(c, i, j + Side(x)) + 1 + (x % 2)) \div 4
     ELSE IF fancy /\ v = 2 THEN (3 * Col(j) + Col(j + Side(x)) + 8 - (x % 2)) \div 16
     ELSE PlaneSample(c, i, j)
RowCorrect(row, y) == \A x \in 0 .. output_width - 1 : row[x] = [k \in DOMAIN NeededList |-> Shown(NeededList[k], y, x)]
RowsShown(rows, from) == from + Len(rows) <= output_height /\ \A k \in DOMAIN rows : RowCorrect(rows[k], from + k - 1)
RowsRead ==
  /\ RowsShown(display.made, display.output_scanline - Len(display.made))
  /\ sheet.at = "scanning" => Len(display.made) <= display.room
  /\ display.made = << >> /\ display.output_scanline > 0 => display.waits \/ sheet.at # "scanning"
  /\ sheet.at = "scanning" /\ display.crank => RowsShown(display.seen, 0) /\ Len(display.seen) = output_height

\* However many rows pass in a call, and whenever destination or source stop, the coefficient
\* controller gets each row of MCUs once, downsampled from the picture and the copies of its edges,
\* and the application each row of the picture once, upsampled from the planes without what lies
\* beyond them, in every pass, after one that was given up too (set_bottom_pointers, start_pass_main).
LinesRight ==
  /\ sheet.at = "write" => GroupsWritten
  /\ sheet.at \in {"start", "prescan", "scanning", "done"} /\ display # << >> => RowsRead

\* "Row index of next scanline to be read from jpeg_read_scanlines(). [...] 0 .. output_height-1"
\* (jpeglib.h, lines 483 to 489), and in the second pass of a quantisation in two "We have to check
\* bottom of image here, can't depend on upsampler" (jdpostct.c, line 223): however many rows calls
\* ask for, they are given no row beyond the picture's last.
ScanlinesInPicture == display # << >> => display.output_scanline <= output_height

=============================================================================
