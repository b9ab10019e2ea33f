----------------------------- MODULE SamplePath -----------------------------
(***************************************************************************)
(* The way of one block of pixels through the arithmetic of the library:   *)
(* colour conversion, forward DCT and quantisation, then dequantisation    *)
(* and inverse DCT, and colour conversion back.                            *)
(*                                                                         *)
(* The integer DCTs: the slow ones (jfdctint.c, jidctint.c), the fast ones *)
(* (jfdctfst.c, jidctfst.c), those of reduced size (jidctred.c), and the   *)
(* divisors and multipliers (jcdctmgr.c, jddctmgr.c).  A block is a        *)
(* sequence of eight rows.  Every DCT is two passes of a one-dimensional   *)
(* one, over rows and over columns, that differ in how their results are   *)
(* scaled.                                                                 *)
(***************************************************************************)
EXTENDS ColorSpaces, SequencesExt

CONST_BITS == 13       \* islow; 8 in the fast DCTs, 14 in their tables
PASS1_BITS == 2
IFAST_CONST_BITS == 8
IFAST_SCALE_BITS == 2

DESCALE(x, n) == (x + 2^(n - 1)) \div 2^n
RIGHT_SHIFT(x, n) == x \div 2^n

\* The same sequence, with every element worked out once.
Listed(s) == SubSeq(s, 1, Len(s))
Transposed(block) == Listed([c \in 1 .. Len(block[1]) |-> Listed([r \in 1 .. Len(block) |-> block[r][c]])])
InRows(Pass(_), block) == Listed([r \in 1 .. Len(block) |-> Pass(block[r])])
InColumns(Pass(_), block) == Transposed(InRows(Pass, Transposed(block)))
Each(F(_, _), a, b) == InRows(LAMBDA r : Listed([c \in 1 .. Len(a[r]) |-> F(a[r][c], b[r][c])]), [r \in 1 .. Len(a) |-> r])

\* The table that brings a result back into the range of samples: it is indexed with ten bits of
\* the result, so that far overflows wrap around without leaving it.
IDCT_range_limit(x) ==
  LET i == x % (4 * (MAXJSAMPLE + 1))
  IN IF i < CENTERJSAMPLE THEN i + CENTERJSAMPLE
     ELSE IF i < 2 * (MAXJSAMPLE + 1) THEN MAXJSAMPLE
     ELSE IF i < 4 * (MAXJSAMPLE + 1) - CENTERJSAMPLE THEN 0
     ELSE i - (4 * (MAXJSAMPLE + 1) - CENTERJSAMPLE)

-----------------------------------------------------------------------------
(* The slow DCTs.  Rotations are the same forward and backward.            *)

EvenRotation(a, b) == LET z1 == (a + b) * 4433
                      IN <<z1 + a * 6270, z1 - b * 15137>>

Turned(t0, t1, t2, t3, z1, z2, z3, z4) ==
  <<t0 + z1 + z3, t1 + z2 + z4, t2 + z2 + z3, t3 + z1 + z4>>
OddRotation(t0, t1, t2, t3) ==
  LET z5 == (t0 + t2 + t1 + t3) * 9633
  IN Turned(t0 * 2446, t1 * 16819, t2 * 25172, t3 * 12299,
            (t0 + t3) * (-7373), (t1 + t2) * (-20995), (t0 + t2) * (-16069) + z5, (t1 + t3) * (-3196) + z5)

\* sum: of the samples at equal distance from the ends; Plain, Scaled: what becomes of a result
\* without and with a factor of 2^CONST_BITS.
IslowForward(sum, even, odd, Plain(_), Scaled(_)) ==
  <<Plain(sum[1] + sum[4] + sum[2] + sum[3]), Scaled(odd[4]), Scaled(even[1]), Scaled(odd[3]),
    Plain(sum[1] + sum[4] - sum[2] - sum[3]), Scaled(odd[2]), Scaled(even[2]), Scaled(odd[1])>>
IslowForwardPass(d, Plain(_), Scaled(_)) ==
  IslowForward(<<d[1] + d[8], d[2] + d[7], d[3] + d[6], d[4] + d[5]>>,
               EvenRotation(d[1] + d[8] - d[4] - d[5], d[2] + d[7] - d[3] - d[6]),
               OddRotation(d[4] - d[5], d[3] - d[6], d[2] - d[7], d[1] - d[8]), Plain, Scaled)
IslowRow(d) == IslowForwardPass(d, LAMBDA x : x * 2^PASS1_BITS, LAMBDA x : DESCALE(x, CONST_BITS - PASS1_BITS))
IslowColumn(d) == IslowForwardPass(d, LAMBDA x : DESCALE(x, PASS1_BITS), LAMBDA x : DESCALE(x, CONST_BITS + PASS1_BITS))
jpeg_fdct_islow(data) == InColumns(IslowColumn, InRows(IslowRow, data))

\* The outputs are sums and differences of an even and an odd half.
Mirrored(even, odd, Out(_)) ==
  Listed([i \in 1 .. 2 * Len(even) |-> IF i <= Len(even) THEN Out(even[i] + odd[i])
                                ELSE Out(even[2 * Len(even) + 1 - i] - odd[2 * Len(even) + 1 - i])])
EvenHalf(t0, t1, rotated) == <<t0 + rotated[1], t1 + rotated[2], t1 - rotated[2], t0 - rotated[1]>>
Reversed4(s) == <<s[4], s[3], s[2], s[1]>>
IslowInversePass(c, Out(_)) ==
  Mirrored(EvenHalf((c[1] + c[5]) * 2^CONST_BITS, (c[1] - c[5]) * 2^CONST_BITS, EvenRotation(c[3], c[7])),
           Reversed4(OddRotation(c[8], c[6], c[4], c[2])), Out)

\* A column or row with nothing but its first term is constant.
Constant(n, x) == [i \in 1 .. n |-> x]
Unless(c, terms, short, long) == IF \A i \in terms : c[i] = 0 THEN short ELSE long

IslowInverseColumn(c) ==
  Unless(c, 2 .. 8, Constant(8, c[1] * 2^PASS1_BITS),
         IslowInversePass(c, LAMBDA x : DESCALE(x, CONST_BITS - PASS1_BITS)))
FromFirst(n, x) == Constant(n, IDCT_range_limit(DESCALE(x, PASS1_BITS + 3)))
IslowInverseRow(c) ==
  Unless(c, 2 .. 8, FromFirst(8, c[1]),
         IslowInversePass(c, LAMBDA x : IDCT_range_limit(DESCALE(x, CONST_BITS + PASS1_BITS + 3))))
jpeg_idct_islow(coefs) == InRows(IslowInverseRow, InColumns(IslowInverseColumn, coefs))

-----------------------------------------------------------------------------
(* Reduced sizes.  Term 5 of a column, or the even ones, do not matter.    *)

Inverse4(c, Out(_)) ==
  LET even == c[3] * 15137 - c[7] * 6270
  IN Mirrored(<<c[1] * 2^(CONST_BITS + 1) + even, c[1] * 2^(CONST_BITS + 1) - even>>,
              <<c[8] * (-4176) + c[6] * (-4926) + c[4] * 7373 + c[2] * 20995,
                c[8] * (-1730) + c[6] * 11893 + c[4] * (-17799) + c[2] * 8697>>, Out)
Inverse2(c, Out(_)) ==
  Mirrored(<<c[1] * 2^(CONST_BITS + 2)>>,
           <<c[8] * (-5906) + c[6] * 6967 + c[4] * (-10426) + c[2] * 29692>>, Out)

Column4(c) == Unless(c, {2, 3, 4, 6, 7, 8}, Constant(4, c[1] * 2^PASS1_BITS),
                     Inverse4(c, LAMBDA x : DESCALE(x, CONST_BITS - PASS1_BITS + 1)))
Row4(c) == Unless(c, {2, 3, 4, 6, 7, 8}, FromFirst(4, c[1]),
                  Inverse4(c, LAMBDA x : IDCT_range_limit(DESCALE(x, CONST_BITS + PASS1_BITS + 3 + 1))))
Column2(c) == Unless(c, {2, 4, 6, 8}, Constant(2, c[1] * 2^PASS1_BITS),
                     Inverse2(c, LAMBDA x : DESCALE(x, CONST_BITS - PASS1_BITS + 2)))
Row2(c) == Unless(c, {2, 4, 6, 8}, FromFirst(2, c[1]),
                  Inverse2(c, LAMBDA x : IDCT_range_limit(DESCALE(x, CONST_BITS + PASS1_BITS + 3 + 2))))

jpeg_idct_4x4(coefs) == InRows(Row4, InColumns(Column4, coefs))
jpeg_idct_2x2(coefs) == InRows(Row2, InColumns(Column2, coefs))
jpeg_idct_1x1(coefs) == <<<<IDCT_range_limit(DESCALE(coefs[1][1], 3))>>>>

-----------------------------------------------------------------------------
(* The fast DCTs: five multiplications, the rest of the scaling left to    *)
(* the tables.  Products are cut off, not rounded.                         *)
MULTIPLY(x, c) == RIGHT_SHIFT(x * c, IFAST_CONST_BITS)

FastForward(sum, z11, z13, z2, z4, z1, tmp13) ==
  <<sum[1] + sum[4] + sum[2] + sum[3], z11 + z4, tmp13 + z1, z13 - z2,
    sum[1] + sum[4] - sum[2] - sum[3], z13 + z2, tmp13 - z1, z11 - z4>>
FastRotated(d, t10, t11, t12, z5, sum) ==
  FastForward(sum, d[1] - d[8] + MULTIPLY(t11, 181), d[1] - d[8] - MULTIPLY(t11, 181),
              MULTIPLY(t10, 139) + z5, MULTIPLY(t12, 334) + z5,
              MULTIPLY(sum[2] - sum[3] + sum[1] - sum[4], 181), sum[1] - sum[4])
FastForwardPass(d) ==
  LET t10 == d[4] - d[5] + d[3] - d[6]
      t12 == d[2] - d[7] + d[1] - d[8]
  IN FastRotated(d, t10, d[3] - d[6] + d[2] - d[7], t12, MULTIPLY(t10 - t12, 98),
                 <<d[1] + d[8], d[2] + d[7], d[3] + d[6], d[4] + d[5]>>)
jpeg_fdct_ifast(data) == InColumns(FastForwardPass, InRows(FastForwardPass, data))

FastOdd(tmp7, tmp6, tmp11, tmp10) == <<tmp7, tmp6, tmp11 - tmp6, -(tmp10 + tmp11 - tmp6)>>
FastOddHalf(z10, z11, z12, z13) ==
  LET z5 == MULTIPLY(z10 + z12, 473)
  IN FastOdd(z11 + z13, MULTIPLY(z10, -669) + z5 - (z11 + z13), MULTIPLY(z11 - z13, 362),
             MULTIPLY(z12, 277) - z5)
FastInversePass(c, Out(_)) ==
  Mirrored(EvenHalf(c[1] + c[5], c[1] - c[5],
                    <<c[3] + c[7], MULTIPLY(c[3] - c[7], 362) - (c[3] + c[7])>>),
           FastOddHalf(c[6] - c[4], c[2] + c[8], c[2] - c[8], c[6] + c[4]), Out)
FastLimited(x) == IDCT_range_limit(RIGHT_SHIFT(x, PASS1_BITS + 3))
FastInverseColumn(c) == Unless(c, 2 .. 8, Constant(8, c[1]), FastInversePass(c, LAMBDA x : x))
FastInverseRow(c) == Unless(c, 2 .. 8, Constant(8, FastLimited(c[1])), FastInversePass(c, FastLimited))
jpeg_idct_ifast(coefs) == InRows(FastInverseRow, InColumns(FastInverseColumn, coefs))

-----------------------------------------------------------------------------
(* Tables and quantisation.                                                *)

\* cos(k pi / 16) sqrt(2) and its products, scaled by 2^14, by rows.
aanscales ==
  <<<<16384, 22725, 21407, 19266, 16384, 12873, 8867, 4520>>,
    <<22725, 31521, 29692, 26722, 22725, 17855, 12299, 6270>>,
    <<21407, 29692, 27969, 25172, 21407, 16819, 11585, 5906>>,
    <<19266, 26722, 25172, 22654, 19266, 15137, 10426, 5315>>,
    <<16384, 22725, 21407, 19266, 16384, 12873, 8867, 4520>>,
    <<12873, 17855, 16819, 15137, 12873, 10114, 6967, 3552>>,
    <<8867, 12299, 11585, 10426, 8867, 6967, 4799, 2446>>,
    <<4520, 6270, 5906, 5315, 4520, 3552, 2446, 1247>>>>

Divisors(method, quantval) ==
  IF method = "islow" THEN InRows(LAMBDA row : [c \in 1 .. 8 |-> row[c] * 8], quantval)
  ELSE Each(LAMBDA q, s : DESCALE(q * s, 14 - 3), quantval, aanscales)
Multipliers(method, quantval) ==
  IF method = "islow" THEN quantval
  ELSE Each(LAMBDA q, s : DESCALE(q * s, 14 - IFAST_SCALE_BITS), quantval, aanscales)

\* To the nearest multiple, away from zero when halfway.
Quantised(temp, qval) == IF temp < 0 THEN -((-temp + qval \div 2) \div qval)
                         ELSE (temp + qval \div 2) \div qval

FDCT(method, data) == IF method = "islow" THEN jpeg_fdct_islow(data) ELSE jpeg_fdct_ifast(data)
Centred(samples) == InRows(LAMBDA row : [c \in 1 .. 8 |-> row[c] - CENTERJSAMPLE], samples)
forward_DCT(method, samples, quantval) ==
  Each(Quantised, FDCT(method, Centred(samples)), Divisors(method, quantval))

\* By the size of the output: the reduced ones use the table of the slow method.
IDCT(method, size, coefs, quantval) ==
  LET Of(table) == Each(LAMBDA x, q : x * q, coefs, Multipliers(table, quantval))
  IN CASE size = 1 -> jpeg_idct_1x1(Of("islow"))
       [] size = 2 -> jpeg_idct_2x2(Of("islow"))
       [] size = 4 -> jpeg_idct_4x4(Of("islow"))
       [] size = 8 -> IF method = "islow" THEN jpeg_idct_islow(Of(method)) ELSE jpeg_idct_ifast(Of(method))

-----------------------------------------------------------------------------
(* One block through it.                                                   *)
CONSTANTS SampleJobs   \* [in, jpeg, out, strip, fdct, idct, size, quantval, picture]

VARIABLES pathJob, pathStage,
          planes,    \* the components as the encoder has them
          coded,     \* their coefficients, quantised
          restored,  \* the components as the decoder has them
          pixels     \* what it puts out

sampleVars == <<pathJob, pathStage, planes, coded, restored, pixels>>
NoData == << >>

\* The block of another part's run: nothing happens here.
SampleIdle ==
  /\ pathJob = NoData /\ pathStage = "idle"
  /\ planes = NoData /\ coded = NoData /\ restored = NoData /\ pixels = NoData

SampleInit ==
  /\ pathJob \in SampleJobs
  /\ color_converter(pathJob.in, pathJob.jpeg) # "refused"
  /\ pathStage = "input" /\ planes = NoData /\ coded = NoData /\ restored = NoData /\ pixels = NoData

\* From pixels to planes and back.
Plane(block, c) == [y \in 1 .. Len(block) |-> [x \in 1 .. Len(block[y]) |-> block[y][x][c]]]
Planes(block) == [c \in 1 .. Len(block[1][1]) |-> Plane(block, c)]
Interleaved(comps) ==
  [y \in 1 .. Len(comps[1]) |-> [x \in 1 .. Len(comps[1][y]) |-> [c \in 1 .. Len(comps) |-> comps[c][y][x]]]]
ConvertBlock(method, block) ==
  [y \in 1 .. Len(block) |-> [x \in 1 .. Len(block[y]) |-> Converted(method, block[y][x])]]

ColorConvert ==
  /\ pathStage = "input"
  /\ planes' = Planes(ConvertBlock(color_converter(pathJob.in, pathJob.jpeg), pathJob.picture))
  /\ pathStage' = "converted"
  /\ UNCHANGED <<pathJob, coded, restored, pixels>>

ForwardDct ==
  /\ pathStage = "converted"
  /\ coded' = [c \in DOMAIN planes |-> forward_DCT(pathJob.fdct, planes[c], pathJob.quantval)]
  /\ pathStage' = "transformed"
  /\ UNCHANGED <<pathJob, planes, restored, pixels>>

Header == IF pathJob.strip THEN Stripped(jpeg_set_colorspace(pathJob.jpeg)) ELSE jpeg_set_colorspace(pathJob.jpeg)
Guessed == default_decompress_parms(Header)
OutSpace == IF pathJob.out = "default" THEN default_out_color_space(Header) ELSE pathJob.out
\* Components that the output does not need are not computed.
Needed == IF OutSpace = "grayscale" THEN 1 .. 1 ELSE DOMAIN coded

InverseDct ==
  /\ pathStage = "transformed"
  /\ restored' = [c \in Needed |-> IDCT(pathJob.idct, pathJob.size, coded[c], pathJob.quantval)]
  /\ pathStage' = IF color_deconverter(Guessed, OutSpace) = "refused" THEN "refused" ELSE "restored"
  /\ UNCHANGED <<pathJob, planes, coded, pixels>>

ColorDeconvert ==
  /\ pathStage = "restored"
  /\ pixels' = ConvertBlock(color_deconverter(Guessed, OutSpace), Interleaved(restored))
  /\ pathStage' = "output"
  /\ UNCHANGED <<pathJob, planes, coded, restored>>

SampleDone == pathStage \in {"output", "refused"} /\ UNCHANGED sampleVars

SampleNext == SampleDone \/ ColorConvert \/ ForwardDct \/ InverseDct \/ ColorDeconvert
SampleSpec == SampleInit /\ [][SampleNext]_sampleVars

-----------------------------------------------------------------------------
SumSeq(s) == FoldSeq(LAMBDA x, y : x + y, 0, s)
SumBlock(F(_, _), rows, cols) == SumSeq([y \in 1 .. rows |-> SumSeq([x \in 1 .. cols |-> F(y, x)])])
InRange(block) == \A y \in DOMAIN block : \A x \in DOMAIN block[y] : block[y][x] \in 0 .. MAXJSAMPLE

\* A sample of the output stands for a cell of a x a samples of the input.
CellSum(plane, y, x, a) == SumBlock(LAMBDA i, j : plane[(y - 1) * a + i][(x - 1) * a + j], a, a)
CellError(plane, out, y, x, a) == (out[y][x] * a * a - CellSum(plane, y, x, a))^2 \div (a * a)
BlockError(plane, out, a) == SumBlock(LAMBDA y, x : CellError(plane, out, y, x, a), Len(out), Len(out))

\* The transform keeps sums of squares: half a quantum of error in every coefficient and half a
\* unit in every sample, at worst in the same direction.
Permitted == SumBlock(LAMBDA y, x : pathJob.quantval[y][x]^2, 8, 8) \div 2 + 32

Within(p, q, d) == \A y \in DOMAIN p : \A x \in DOMAIN p[y] : \A c \in DOMAIN p[y][x] :
                     p[y][x][c] - q[y][x][c] \in -d .. d
Luminance(p) == (299 * p[1] + 587 * p[2] + 114 * p[3]) \div 1000
Luminances(picture) == [y \in 1 .. 8 |-> [x \in 1 .. 8 |-> <<Luminance(picture[y][x])>>]]
Fine == pathJob.size = 8 /\ \A y, x \in 1 .. 8 : pathJob.quantval[y][x] = 1
\* What the pixels should be, where the spaces say so.
Expected ==
  CASE pathJob.in = "rgb" /\ pathJob.jpeg = "grayscale" /\ OutSpace = "rgb" ->
         ConvertBlock("gray_rgb_convert", Luminances(pathJob.picture))
    [] pathJob.in = OutSpace /\ (OutSpace = "rgb" => pathJob.jpeg # "grayscale") -> pathJob.picture
    [] OutSpace = "grayscale" /\ pathJob.in = "rgb" -> Luminances(pathJob.picture)
    [] pathJob.in = "grayscale" /\ OutSpace = "rgb" -> ConvertBlock("gray_rgb_convert", pathJob.picture)

\* The decoder takes the file for what the encoder made it, whether or not its application
\* markers were kept; only a YCCK file needs them.
Recognised == Guessed = pathJob.jpeg \/ (pathJob.jpeg = "ycck" /\ pathJob.strip /\ Guessed = "cmyk")

\* Nothing leaves the range of samples, although the encoder does not limit it; every plane comes
\* back, at the size asked for, with no more error than the quantisation justifies; with a quantum
\* of one the pixels come back within a few units; and the only conversion refused is that of an
\* RGB file to grey (jccolor.c, jfdct*.c, jcdctmgr.c, jddctmgr.c, jidct*.c, jdcolor.c).
SamplesReturn ==
  /\ \A c \in DOMAIN planes : InRange(planes[c])
  /\ \A c \in DOMAIN restored : InRange(restored[c])
  /\ pathStage = "restored" => Recognised
  /\ pathStage = "refused" => pathJob.jpeg = "rgb" /\ OutSpace = "grayscale"
  /\ pathStage = "restored" =>
       \A c \in DOMAIN restored : BlockError(planes[c], restored[c], 8 \div pathJob.size) <= Permitted
  /\ pathStage = "output" /\ Fine /\ Guessed = pathJob.jpeg => Within(pixels, Expected, 3)

=============================================================================
