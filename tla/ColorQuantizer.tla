--------------------------- MODULE ColorQuantizer ---------------------------
(***************************************************************************)
(* Reduction of the output to few colours: the quantiser of one pass with  *)
(* a rectangular colour map (jquant1.c), the one of two passes with a map  *)
(* of its own or of the application (jquant2.c), and their choice before   *)
(* every output pass (jdmaster.c).  The application decodes into a buffer  *)
(* and may put the image out again with other settings.                    *)
(*                                                                         *)
(* Colours are sequences of samples, pixel codes count from zero.          *)
(***************************************************************************)
EXTENDS ColorSpaces, FiniteSets, SequencesExt, FiniteSetsExt

CONSTANTS QuantJobs,       \* [nc, space, passes, desired, enable, dither, colormap, pictures]
          DitherModes,     \* what the application may ask for: "none", "ordered", "fs"
          ExternalMaps,    \* colour maps of the application
          HistMax          \* of a histogram cell: 65535 in the code

VARIABLES quantJob, quantPhase,  \* "between" passes, "prescan", "output"
          cquantize,             \* the quantiser in use: "1pass" or "2pass"
          colormap, dither_mode, picture,
          one,                   \* [is_padded, row_index, on_odd_row, fserrors]
          two,                   \* [histogram, needs_zeroed, on_odd_row, fserrors], and the picture
                                 \* its last map was made for
          quantRows,             \* rows of the pass: [code, value, error] for every pixel
          quantPasses

quantVars == <<quantJob, quantPhase, cquantize, colormap, dither_mode, picture, one, two, quantRows, quantPasses>>

NoMap == << >>
\* The same sequence, with every element worked out once.
Made(s) == SubSeq(s, 1, Len(s))
Nothing == [i \in 1 .. quantJob.nc |-> 0]
RIGHT_SHIFT4(x) == x \div 16
Width == Len(picture[1])

-----------------------------------------------------------------------------
(* The rectangular colour map.                                             *)

ProductOf(N) == FoldSeq(LAMBDA a, b : a * b, 1, N)
SweepOrder(nc, space) == IF space = "rgb" THEN <<2, 1, 3>> ELSE [i \in 1 .. nc |-> i]

\* One more value for the components in turn, as long as the product allows it.
RECURSIVE Grown(_, _, _, _, _)
Grown(N, order, i, changed, max) ==
  IF i <= Len(N) /\ (ProductOf(N) \div N[order[i]]) * (N[order[i]] + 1) <= max
  THEN Grown([N EXCEPT ![order[i]] = @ + 1], order, i + 1, TRUE, max)
  ELSE IF changed THEN Grown(N, order, 1, FALSE, max) ELSE N
select_ncolors(nc, space, max) ==
  LET iroot == CHOOSE r \in 1 .. max : r^nc <= max /\ (r + 1)^nc > max
  IN Grown(Made([i \in 1 .. nc |-> iroot]), SweepOrder(nc, space), 1, FALSE, max)
Ncolors == select_ncolors(quantJob.nc, quantJob.space, quantJob.desired)

output_value(j, maxj) == (j * MAXJSAMPLE + maxj \div 2) \div maxj
largest_input_value(j, maxj) == ((2 * j + 1) * MAXJSAMPLE + maxj) \div (2 * maxj)

BlockSize(N, i) == ProductOf(SubSeq(N, i + 1, Len(N)))
create_colormap(N) ==
  [p \in 1 .. ProductOf(N) |-> [i \in 1 .. Len(N) |->
     output_value(((p - 1) % (N[i] * BlockSize(N, i))) \div BlockSize(N, i), N[i] - 1)]]
sv_colormap == create_colormap(Ncolors)

\* The index table of a component reaches beyond the samples when it is padded.
Outside == 10^6
CreatedPadded(dither) == dither = "ordered"
Covered(padded) == IF padded THEN -MAXJSAMPLE .. 2 * MAXJSAMPLE ELSE 0 .. MAXJSAMPLE
colorindex(i, x) ==
  IF x \notin Covered(one.is_padded) THEN Outside
  ELSE Min({val \in 0 .. Ncolors[i] - 1 :
              \/ range_limit(x) <= largest_input_value(val, Ncolors[i] - 1)
              \/ val = Ncolors[i] - 1})
       * BlockSize(Ncolors, i)

ODITHER_SIZE == 16
ODITHER_CELLS == ODITHER_SIZE * ODITHER_SIZE
\* Bayer's matrix: the bits of column and row, interleaved and reversed.
Bit2(x, n) == (x \div 2^n) % 2
BayerBits(j, k, n) == 2^(7 - 2 * n) * ((Bit2(j, n) + Bit2(k, n)) % 2) + 2^(6 - 2 * n) * Bit2(k, n)
base_dither_matrix(j, k) == BayerBits(j, k, 0) + BayerBits(j, k, 1) + BayerBits(j, k, 2) + BayerBits(j, k, 3)
Truncated(num, den) == IF num < 0 THEN -((-num) \div den) ELSE num \div den
make_odither_array(n, j, k) ==
  Truncated((ODITHER_CELLS - 1 - 2 * base_dither_matrix(j, k)) * MAXJSAMPLE, 2 * ODITHER_CELLS * (n - 1))
odither(i, j, k) == make_odither_array(Ncolors[i], j, k)

\* A pixel of the output, with the value that was looked up and what it misses.
Entry(code, value) ==
  [code |-> code, value |-> value,
   error |-> Made([i \in 1 .. Len(value) |-> IF code < Len(colormap) THEN value[i] - colormap[code + 1][i] ELSE Outside])]
IndexOf(p) == FoldSeq(LAMBDA a, b : a + b, 0, [i \in 1 .. Len(p) |-> colorindex(i, p[i])])

color_quantize(row) == Made([x \in 1 .. Len(row) |-> Entry(IndexOf(row[x]), row[x])])
Dithered(p, x) == [i \in 1 .. Len(p) |-> p[i] + odither(i, one.row_index, (x - 1) % ODITHER_SIZE)]
quantize_ord_dither(row) == Made([x \in 1 .. Len(row) |-> Entry(IndexOf(Dithered(row[x], x)), row[x])])

-----------------------------------------------------------------------------
(* The histogram of two passes, later the cache of the inverse colour map: *)
(* cells of 8 x 4 x 8 colours; those not in its domain are zero.           *)

C_SHIFT == <<3, 2, 3>>
C_SCALE == <<2, 3, 1>>
BOX_LOG == <<2, 3, 2>>
CellOf(p) == <<p[1] \div 2^C_SHIFT[1], p[2] \div 2^C_SHIFT[2], p[3] \div 2^C_SHIFT[3]>>
CellCentre(cell, i) == cell[i] * 2^C_SHIFT[i] + 2^C_SHIFT[i] \div 2
At(histogram, cell) == IF cell \in DOMAIN histogram THEN histogram[cell] ELSE 0

CountedPixel(histogram, p) ==
  (CellOf(p) :> (IF At(histogram, CellOf(p)) < HistMax THEN At(histogram, CellOf(p)) + 1 ELSE HistMax)) @@ histogram
prescan_quantize(histogram, row) == FoldLeft(CountedPixel, histogram, row)

\* Boxes: their least and greatest cells.  A box shrinks to the cells that occur.
Within3(cell, low, high) == \A i \in 1 .. 3 : cell[i] \in low[i] .. high[i]
Occupied(histogram, low, high) == {c \in DOMAIN histogram : histogram[c] # 0 /\ Within3(c, low, high)}
Extent(low, high, i) == (high[i] - low[i]) * 2^C_SHIFT[i] * C_SCALE[i]
Bounding(cells) ==
  [low |-> <<Min({c[1] : c \in cells}), Min({c[2] : c \in cells}), Min({c[3] : c \in cells})>>,
   high |-> <<Max({c[1] : c \in cells}), Max({c[2] : c \in cells}), Max({c[3] : c \in cells})>>]
Volume(b) == Extent(b.low, b.high, 1)^2 + Extent(b.low, b.high, 2)^2 + Extent(b.low, b.high, 3)^2
update_box(histogram, low, high) ==
  LET cells == Occupied(histogram, low, high)
      bound == Bounding(cells)
  IN [low |-> bound.low, high |-> bound.high, volume |-> Volume(bound), colorcount |-> Cardinality(cells)]

\* The first of the largest; zero when there is none above zero.
FirstLargest(keys) ==
  IF \A i \in DOMAIN keys : keys[i] <= 0 THEN 0
  ELSE Min({i \in DOMAIN keys : \A j \in DOMAIN keys : keys[j] <= keys[i]})
find_biggest_color_pop(boxes) ==
  FirstLargest([i \in DOMAIN boxes |-> IF boxes[i].volume > 0 THEN boxes[i].colorcount ELSE 0])
find_biggest_volume(boxes) == FirstLargest([i \in DOMAIN boxes |-> boxes[i].volume])

\* Green before red before blue, when they are as long.
LongestAxis(b) ==
  LET c == [i \in 1 .. 3 |-> Extent(b.low, b.high, i)]
      n == IF c[1] > c[2] THEN 1 ELSE 2
  IN IF c[3] > c[n] THEN 3 ELSE n
Halves(histogram, b, n) ==
  LET lb == (b.high[n] + b.low[n]) \div 2
  IN <<update_box(histogram, b.low, [b.high EXCEPT ![n] = lb]),
       update_box(histogram, [b.low EXCEPT ![n] = lb + 1], b.high)>>
RECURSIVE median_cut(_, _, _)
median_cut(histogram, boxes, desired) ==
  LET b1 == IF 2 * Len(boxes) <= desired THEN find_biggest_color_pop(boxes) ELSE find_biggest_volume(boxes)
  IN IF Len(boxes) >= desired \/ b1 = 0 THEN boxes
     ELSE LET halves == Halves(histogram, boxes[b1], LongestAxis(boxes[b1]))
          IN median_cut(histogram, Append([boxes EXCEPT ![b1] = halves[1]], halves[2]), desired)

SumOver(S, histogram, i) == FoldSet(LAMBDA c, sum : sum + histogram[c] * (IF i = 0 THEN 1 ELSE CellCentre(c, i)), 0, S)
compute_color(histogram, b) ==
  LET cells == Occupied(histogram, b.low, b.high)
      total == SumOver(cells, histogram, 0)
  IN Made([i \in 1 .. 3 |-> (SumOver(cells, histogram, i) + total \div 2) \div total])
select_colors(histogram, desired) ==
  LET boxes == median_cut(histogram, <<update_box(histogram, <<0, 0, 0>>, <<31, 63, 31>>)>>, desired)
  IN Made([k \in 1 .. Len(boxes) |-> compute_color(histogram, boxes[k])])

-----------------------------------------------------------------------------
(* The inverse colour map: boxes of 4 x 8 x 4 cells are filled at once.    *)

Corner(boxNo, i) == boxNo[i] * 2^(C_SHIFT[i] + BOX_LOG[i]) + 2^C_SHIFT[i] \div 2
FarCorner(boxNo, i) == Corner(boxNo, i) + 2^(C_SHIFT[i] + BOX_LOG[i]) - 2^C_SHIFT[i]
Squared(d, i) == (d * C_SCALE[i])^2
AxisMin(x, low, high, i) ==
  IF x < low THEN Squared(x - low, i) ELSE IF x > high THEN Squared(x - high, i) ELSE 0
AxisMax(x, low, high, i) ==
  IF x < low \/ (x <= high /\ x <= (low + high) \div 2) THEN Squared(x - high, i) ELSE Squared(x - low, i)
MinDist(boxNo, c) == AxisMin(c[1], Corner(boxNo, 1), FarCorner(boxNo, 1), 1)
                     + AxisMin(c[2], Corner(boxNo, 2), FarCorner(boxNo, 2), 2)
                     + AxisMin(c[3], Corner(boxNo, 3), FarCorner(boxNo, 3), 3)
MaxDist(boxNo, c) == AxisMax(c[1], Corner(boxNo, 1), FarCorner(boxNo, 1), 1)
                     + AxisMax(c[2], Corner(boxNo, 2), FarCorner(boxNo, 2), 2)
                     + AxisMax(c[3], Corner(boxNo, 3), FarCorner(boxNo, 3), 3)
find_nearby_colors(boxNo) ==
  LET minmaxdist == Min({MaxDist(boxNo, colormap[k]) : k \in DOMAIN colormap})
  IN {k \in DOMAIN colormap : MinDist(boxNo, colormap[k]) <= minmaxdist}

\* Distances from cell to cell by differences: after n steps along an axis.
Step(i) == 2^C_SHIFT[i] * C_SCALE[i]
AfterSteps(inc, n, i) == inc^2 + n * (inc * 2 * Step(i) + Step(i)^2) + n * (n - 1) * Step(i)^2
Distance(boxNo, c, offset) ==
  AfterSteps((Corner(boxNo, 1) - c[1]) * C_SCALE[1], offset[1], 1)
  + AfterSteps((Corner(boxNo, 2) - c[2]) * C_SCALE[2], offset[2], 2)
  + AfterSteps((Corner(boxNo, 3) - c[3]) * C_SCALE[3], offset[3], 3)
find_best_colors(boxNo, colorlist, offset) ==
  Min({k \in colorlist : \A l \in colorlist :
         Distance(boxNo, colormap[k], offset) <= Distance(boxNo, colormap[l], offset)})

BoxOf(cell) == <<cell[1] \div 2^BOX_LOG[1], cell[2] \div 2^BOX_LOG[2], cell[3] \div 2^BOX_LOG[3]>>
FirstCell(boxNo, i) == boxNo[i] * 2^BOX_LOG[i]
\* Codes are kept plus one, and colour k has the code k - 1.
Filled(boxNo, colorlist) ==
  [c \in {FirstCell(boxNo, 1) + n : n \in 0 .. 3} \X {FirstCell(boxNo, 2) + n : n \in 0 .. 7}
         \X {FirstCell(boxNo, 3) + n : n \in 0 .. 3} |->
     find_best_colors(boxNo, colorlist, <<c[1] - FirstCell(boxNo, 1), c[2] - FirstCell(boxNo, 2), c[3] - FirstCell(boxNo, 3)>>)]
fill_inverse_cmap(histogram, cell) == Filled(BoxOf(cell), find_nearby_colors(BoxOf(cell))) @@ histogram
Cached(histogram, p) == IF At(histogram, CellOf(p)) = 0 THEN fill_inverse_cmap(histogram, CellOf(p)) ELSE histogram

\* A row, pixel after pixel: the cache grows on the way.
Pass2Pixel(s, p) ==
  LET h == Cached(s.histogram, p)
  IN [histogram |-> h, out |-> Append(s.out, Entry(h[CellOf(p)] - 1, p))]
pass2_no_dither(row) == FoldLeft(Pass2Pixel, [histogram |-> two.histogram, out |-> << >>], row)

STEPSIZE == (MAXJSAMPLE + 1) \div 16
LimitedSize(n) == IF n < STEPSIZE THEN n
                  ELSE IF n < 3 * STEPSIZE THEN STEPSIZE + (n - STEPSIZE) \div 2 ELSE 2 * STEPSIZE
error_limit(e) == IF e < 0 THEN -LimitedSize(-e) ELSE LimitedSize(e)

-----------------------------------------------------------------------------
(* Floyd-Steinberg dithering of a row, in the direction dir.  errors holds *)
(* what the row above left, for the columns 0 .. width + 1; an entry that  *)
(* has been used takes what the row leaves for the column before.          *)

FsStart(errors, histogram, odd) ==
  [dir |-> IF odd THEN -1 ELSE 1, at |-> IF odd THEN Len(errors) ELSE 1, errors |-> errors,
   cur |-> Nothing, below |-> Nothing, bprev |-> Nothing, histogram |-> histogram, out |-> << >>]
Incoming(s, i) == RIGHT_SHIFT4(s.cur[i] + s.errors[s.at + s.dir][i] + 8)
FsValue(s, p) ==
  Made([i \in 1 .. Len(p) |->
     range_limit(p[i] + (IF cquantize = "2pass" THEN error_limit(Incoming(s, i)) ELSE Incoming(s, i)))])
FsChosen(s, value) == IF cquantize = "2pass" THEN Cached(s.histogram, value) ELSE s.histogram
FsCode(histogram, value) == IF cquantize = "2pass" THEN histogram[CellOf(value)] - 1 ELSE IndexOf(value)
FsSpread(s, histogram, entry) ==
  [s EXCEPT !.errors[s.at] = Made([i \in DOMAIN entry.error |-> s.bprev[i] + 3 * entry.error[i]]),
            !.bprev = Made([i \in DOMAIN entry.error |-> s.below[i] + 5 * entry.error[i]]),
            !.below = entry.error,
            !.cur = Made([i \in DOMAIN entry.error |-> 7 * entry.error[i]]),
            !.at = s.at + s.dir, !.histogram = histogram,
            !.out = IF s.dir = 1 THEN Append(s.out, entry) ELSE <<entry>> \o s.out]
FsLookedUp(s, histogram, value) == FsSpread(s, histogram, Entry(FsCode(histogram, value), value))
FsAt(s, value) == FsLookedUp(s, FsChosen(s, value), value)
FsPixel(s, p) == FsAt(s, FsValue(s, p))
FsFinish(s) == [s EXCEPT !.errors[s.at] = s.bprev]
FsRow(errors, histogram, odd, row) ==
  FsFinish(FoldLeft(FsPixel, FsStart(errors, histogram, odd), IF odd THEN Reverse(row) ELSE row))
quantize_fs_dither(row) == FsRow(one.fserrors, NoMap, one.on_odd_row, row)
pass2_fs_dither(row) == FsRow(two.fserrors, two.histogram, two.on_odd_row, row)

-----------------------------------------------------------------------------
(* Passes.                                                                 *)
NoErrors == [k \in 1 .. Width + 2 |-> Nothing]

start_pass_1_quant(dither) ==
  CASE dither = "ordered" -> [one EXCEPT !.row_index = 0, !.is_padded = TRUE]
    [] dither = "fs" -> [one EXCEPT !.on_odd_row = FALSE, !.fserrors = NoErrors]
    [] OTHER -> one

Zeroed(q) == IF q.needs_zeroed THEN [q EXCEPT !.histogram = NoMap, !.needs_zeroed = FALSE] ELSE q
start_pass_2_quant(q, is_pre_scan, dither) ==
  IF is_pre_scan THEN Zeroed([q EXCEPT !.needs_zeroed = TRUE])
  ELSE IF dither = "none" THEN Zeroed(q)
  ELSE Zeroed([q EXCEPT !.on_odd_row = FALSE, !.fserrors = NoErrors])
\* Mutant: the cache of the last map is kept.
KeptCache(q) == q
new_color_map_2_quant(q) == [q EXCEPT !.needs_zeroed = TRUE]
NoOrdered(dither) == IF dither = "none" THEN "none" ELSE "fs"

\* What the memory of the histogram held before.
Garbage == [c \in {<<n, m, n>> : n \in {0, 15, 31}, m \in {0, 32, 63}} |-> 1]

QuantIdle ==
  /\ quantJob = NoMap /\ quantPhase = "idle" /\ quantPasses = 0 /\ cquantize = "none" /\ colormap = NoMap
  /\ dither_mode = "none" /\ picture = NoMap /\ one = NoMap /\ two = NoMap /\ quantRows = << >>

QuantInit ==
  /\ quantJob \in QuantJobs /\ quantPhase = "between" /\ quantPasses = 0
  /\ cquantize = (IF quantJob.enable = {"1pass"} THEN "1pass" ELSE "2pass")
  /\ colormap = quantJob.colormap /\ picture \in quantJob.pictures
  /\ dither_mode = (IF cquantize = "1pass" THEN quantJob.dither ELSE NoOrdered(quantJob.dither))
  /\ one = [is_padded |-> CreatedPadded(quantJob.dither), row_index |-> 0, on_odd_row |-> FALSE, fserrors |-> NoErrors]
  /\ two = [histogram |-> Garbage, needs_zeroed |-> TRUE, on_odd_row |-> FALSE, fserrors |-> NoErrors, chosenFor |-> NoMap]
  /\ quantRows = << >>

StartTwo(q, is_pre_scan, dither) ==
  /\ two' = start_pass_2_quant(q, is_pre_scan, dither) /\ dither_mode' = NoOrdered(dither) /\ UNCHANGED one
StartOne(dither) ==
  one' = start_pass_1_quant(dither) /\ colormap' = sv_colormap /\ dither_mode' = dither /\ UNCHANGED two

Beginning(phase) ==
  /\ quantPhase' = phase /\ quantRows' = << >>
  /\ picture' \in quantJob.pictures
  /\ UNCHANGED <<quantJob, quantPasses>>

\* prepare_for_output_pass without a colour map, with the one there is, and after a new one.
OutputWithChoice(two_pass, dither) ==
  IF two_pass /\ "2pass" \in quantJob.enable
  THEN /\ Beginning("prescan") /\ cquantize' = "2pass" /\ colormap' = NoMap
       /\ StartTwo(two, TRUE, dither)
  ELSE /\ "1pass" \in quantJob.enable
       /\ Beginning("output") /\ cquantize' = "1pass" /\ StartOne(dither)
OutputAgain(dither) ==
  /\ colormap # NoMap /\ Beginning("output") /\ UNCHANGED cquantize
  /\ IF cquantize = "1pass" THEN StartOne(dither)
     ELSE StartTwo(two, FALSE, dither) /\ UNCHANGED colormap
OutputWithNewMap(map, dither) ==
  /\ "external" \in quantJob.enable /\ Beginning("output")
  /\ colormap' = map /\ cquantize' = "2pass"
  /\ StartTwo(new_color_map_2_quant(two), FALSE, dither)

StartOutput == quantPhase = "between" /\ quantPasses < quantJob.passes /\
               \E dither \in DitherModes :
                 \/ \E two_pass \in BOOLEAN : OutputWithChoice(two_pass, dither)
                 \/ OutputAgain(dither)
                 \/ \E map \in ExternalMaps : OutputWithNewMap(map, dither)

NextRow == picture[Len(quantRows) + 1]
RowsLeft == quantPhase \in {"prescan", "output"} /\ Len(quantRows) < Len(picture)
PrescanRow ==
  /\ quantPhase = "prescan" /\ RowsLeft
  /\ two' = [two EXCEPT !.histogram = prescan_quantize(two.histogram, NextRow)]
  /\ quantRows' = Append(quantRows, << >>)
  /\ UNCHANGED <<quantJob, quantPhase, cquantize, colormap, dither_mode, picture, one, quantPasses>>

RowOfOne ==
  /\ cquantize = "1pass" /\ UNCHANGED two
  /\ CASE dither_mode = "none" -> quantRows' = Append(quantRows, color_quantize(NextRow)) /\ UNCHANGED one
       [] dither_mode = "ordered" ->
            /\ quantRows' = Append(quantRows, quantize_ord_dither(NextRow))
            /\ one' = [one EXCEPT !.row_index = (@ + 1) % ODITHER_SIZE]
       [] dither_mode = "fs" -> \E s \in {quantize_fs_dither(NextRow)} :
            /\ quantRows' = Append(quantRows, s.out)
            /\ one' = [one EXCEPT !.fserrors = s.errors, !.on_odd_row = ~@]
RowOfTwo ==
  /\ cquantize = "2pass" /\ UNCHANGED one
  /\ IF dither_mode = "none"
     THEN \E s \in {pass2_no_dither(NextRow)} :
            quantRows' = Append(quantRows, s.out) /\ two' = [two EXCEPT !.histogram = s.histogram]
     ELSE \E s \in {pass2_fs_dither(NextRow)} :
            /\ quantRows' = Append(quantRows, s.out)
            /\ two' = [two EXCEPT !.histogram = s.histogram, !.fserrors = s.errors, !.on_odd_row = ~@]
QuantizeRow ==
  /\ quantPhase = "output" /\ RowsLeft
  /\ RowOfOne \/ RowOfTwo
  /\ UNCHANGED <<quantJob, quantPhase, cquantize, colormap, dither_mode, picture, quantPasses>>

\* After the scan for colours the rows, which have been saved, are put out at once.
finish_pass1 ==
  /\ quantPhase = "prescan" /\ ~RowsLeft
  /\ colormap' = select_colors(two.histogram, quantJob.desired)
  /\ two' = start_pass_2_quant([two EXCEPT !.needs_zeroed = TRUE, !.chosenFor = picture], FALSE, dither_mode)
  /\ quantPhase' = "output" /\ quantRows' = << >>
  /\ UNCHANGED <<quantJob, cquantize, dither_mode, picture, one, quantPasses>>

FinishOutput ==
  /\ quantPhase = "output" /\ ~RowsLeft
  /\ quantPhase' = "between" /\ quantPasses' = quantPasses + 1
  /\ UNCHANGED <<quantJob, cquantize, colormap, dither_mode, picture, one, two, quantRows>>

QuantDone == quantPhase = "between" /\ quantPasses = quantJob.passes /\ UNCHANGED quantVars

QuantNext == StartOutput \/ PrescanRow \/ QuantizeRow \/ finish_pass1 \/ FinishOutput \/ QuantDone
QuantSpec == QuantInit /\ [][QuantNext]_quantVars

-----------------------------------------------------------------------------
Levels(i) == {colormap[k][i] : k \in DOMAIN colormap}
Size(n) == IF n < 0 THEN -n ELSE n

\* The nearest of the map, as far as the cells of two passes or the halves of one tell.
NearestLevel(i, value, level) == \A other \in Levels(i) : Size(level - value) <= Size(other - value) + 1
SquaredTo(c, value, i) == Squared(CellCentre(CellOf(value), i) - c[i], i)
DistanceTo(c, value) == SquaredTo(c, value, 1) + SquaredTo(c, value, 2) + SquaredTo(c, value, 3)
Nearest(code, value) ==
  IF cquantize = "1pass" THEN \A i \in DOMAIN value : NearestLevel(i, value[i], colormap[code + 1][i])
  ELSE \A k \in DOMAIN colormap : DistanceTo(colormap[code + 1], value) <= DistanceTo(colormap[k], value)

\* Ordered dithering picks one of the two levels around the sample.
BesideSample(code, p) ==
  \A i \in DOMAIN p : ~\E level \in Levels(i) : \/ p[i] < level /\ level < colormap[code + 1][i]
                                                \/ colormap[code + 1][i] < level /\ level < p[i]

\* What a pixel gets of the errors of its neighbours: 7/16 of the one before it, and of the row
\* before, which went the other way, 5/16 of the one above and 3/16 and 1/16 of those beside it.
ErrorAt(y, x, i) == IF y \in DOMAIN quantRows /\ x \in 1 .. Width THEN quantRows[y][x].error[i] ELSE 0
Direction(y) == IF y % 2 = 1 THEN 1 ELSE -1
Diffused(y, x, i) ==
  RIGHT_SHIFT4(7 * ErrorAt(y, x - Direction(y), i) + 5 * ErrorAt(y - 1, x, i)
               + 3 * ErrorAt(y - 1, x - Direction(y), i) + ErrorAt(y - 1, x + Direction(y), i) + 8)
Wanted(y, x, i) ==
  IF dither_mode # "fs" THEN picture[y][x][i]
  ELSE range_limit(picture[y][x][i] + (IF cquantize = "2pass" THEN error_limit(Diffused(y, x, i)) ELSE Diffused(y, x, i)))

\* With ordered dithering the whole matrix averages to the sample, of an even picture.
Even == \A y \in 2 .. Len(picture) : picture[y] = picture[1]
Mean(i) == FoldSeq(LAMBDA row, sum : sum + FoldSeq(LAMBDA e, n : n + colormap[e.code + 1][i], 0, row), 0, quantRows)
Averages == quantPhase = "between" /\ quantPasses > 0 /\ dither_mode = "ordered" /\ Even /\ Width = ODITHER_SIZE /\ Len(picture) = ODITHER_SIZE
            => \A i \in 1 .. quantJob.nc : Size(Mean(i) - ODITHER_CELLS * picture[1][1][i]) <= 2 * ODITHER_CELLS

\* A map chosen for few colours holds all their cells.
CellsOfPicture == {CellOf(picture[y][x]) : y \in DOMAIN picture, x \in 1 .. Width}
FewExact == Cardinality(CellsOfPicture) <= quantJob.desired
            => ToSet(colormap) = {<<CellCentre(c, 1), CellCentre(c, 2), CellCentre(c, 3)>> : c \in CellsOfPicture}

\* Every pixel put out has the colour of the map nearest to the value wanted there, whatever maps
\* were in use before and whichever pass filled the cache; the error passed on is exactly the
\* share of its neighbours, in serpentine order; no code is outside the map; and a picture with
\* no more cells of colour than allowed gets each of them (jquant1.c, jquant2.c, jdmaster.c).
ColorsNearest ==
  /\ quantPhase \in {"output", "between"} =>
       \A y \in DOMAIN quantRows : \A x \in DOMAIN quantRows[y] : \E e \in {quantRows[y][x]} :
         /\ e.code \in 0 .. Len(colormap) - 1
         /\ \A i \in DOMAIN e.value : e.value[i] = Wanted(y, x, i)
         /\ IF dither_mode = "ordered" THEN BesideSample(e.code, picture[y][x]) ELSE Nearest(e.code, e.value)
  /\ quantPhase = "output" /\ colormap \notin ExternalMaps => Len(colormap) <= quantJob.desired
  /\ quantPhase = "output" /\ cquantize = "2pass" /\ colormap \notin ExternalMaps /\ two.chosenFor = picture => FewExact
  /\ Averages

=============================================================================
