----------------------------- MODULE ColorSpaces ----------------------------
(***************************************************************************)
(* Colour conversion in both directions (jccolor.c, jdcolor.c), and how    *)
(* the colour space of a file is chosen, marked in its header and guessed  *)
(* (jcparam.c, jcmarker.c, jdmarker.c, jdapimin.c).  A pixel is a sequence *)
(* of samples.                                                             *)
(***************************************************************************)
EXTENDS Integers, Sequences

MAXJSAMPLE == 255
CENTERJSAMPLE == 128
SCALEBITS == 16
ONE_HALF == 2^(SCALEBITS - 1)
CBCR_OFFSET == CENTERJSAMPLE * 2^SCALEBITS

\* Mutant: the rounding of the luminance for the chrominances too.
RgbYccTabMutant ==
  [y  |-> <<19595, 38470, 7471, ONE_HALF>>,
   cb |-> <<-11059, -21709, 32768, CBCR_OFFSET + ONE_HALF>>,
   cr |-> <<32768, -27439, -5329, CBCR_OFFSET + ONE_HALF>>]

\* Constants times 2^16, as FIX makes them.
rgb_ycc_tab ==
  [y  |-> <<19595, 38470, 7471, ONE_HALF>>,
   cb |-> <<-11059, -21709, 32768, CBCR_OFFSET + ONE_HALF - 1>>,
   cr |-> <<32768, -27439, -5329, CBCR_OFFSET + ONE_HALF - 1>>]
Weighted(p, w) == (p[1] * w[1] + p[2] * w[2] + p[3] * w[3] + w[4]) \div 2^SCALEBITS

rgb_gray_convert(p) == <<Weighted(p, rgb_ycc_tab.y)>>
rgb_ycc_convert(p) == <<Weighted(p, rgb_ycc_tab.y), Weighted(p, rgb_ycc_tab.cb), Weighted(p, rgb_ycc_tab.cr)>>
Complement(p) == [i \in 1 .. 3 |-> MAXJSAMPLE - p[i]]
cmyk_ycck_convert(p) == Append(rgb_ycc_convert(Complement(p)), p[4])
grayscale_convert(p) == <<p[1]>>
null_convert(p) == p

\* The table of the simple range limit.
range_limit(x) == IF x < 0 THEN 0 ELSE IF x > MAXJSAMPLE THEN MAXJSAMPLE ELSE x
Cr_r_tab(x) == (91881 * x + ONE_HALF) \div 2^SCALEBITS
Cb_b_tab(x) == (116130 * x + ONE_HALF) \div 2^SCALEBITS
Green(cb, cr) == (-22554 * cb + ONE_HALF - 46802 * cr) \div 2^SCALEBITS
YccToRgb(y, cb, cr) == <<y + Cr_r_tab(cr), y + Green(cb, cr), y + Cb_b_tab(cb)>>
Unlimited(p) == YccToRgb(p[1], p[2] - CENTERJSAMPLE, p[3] - CENTERJSAMPLE)
ycc_rgb_convert(p) == [i \in 1 .. 3 |-> range_limit(Unlimited(p)[i])]
ycck_cmyk_convert(p) == [i \in 1 .. 4 |-> IF i = 4 THEN p[4] ELSE range_limit(MAXJSAMPLE - Unlimited(p)[i])]
gray_rgb_convert(p) == <<p[1], p[1], p[1]>>

-----------------------------------------------------------------------------
Spaces == {"grayscale", "rgb", "ycbcr", "cmyk", "ycck", "unknown"}
NumComponents(space) == CASE space = "grayscale" -> 1 [] space \in {"rgb", "ycbcr"} -> 3 [] OTHER -> 4

jpeg_default_colorspace(in) == IF in = "rgb" THEN "ycbcr" ELSE in

\* Which converter leads from one space to another; none for a pair that is refused.
color_converter(in, jpeg) ==
  CASE jpeg = "grayscale" /\ in \in {"grayscale", "ycbcr"} -> "grayscale_convert"
    [] jpeg = "grayscale" /\ in = "rgb" -> "rgb_gray_convert"
    [] jpeg = "ycbcr" /\ in = "rgb" -> "rgb_ycc_convert"
    [] jpeg = "ycck" /\ in = "cmyk" -> "cmyk_ycck_convert"
    [] jpeg = in /\ jpeg # "grayscale" -> "null_convert"
    [] OTHER -> "refused"
color_deconverter(jpeg, out) ==
  CASE out = "grayscale" /\ jpeg \in {"grayscale", "ycbcr"} -> "grayscale_convert"
    [] out = "rgb" /\ jpeg = "ycbcr" -> "ycc_rgb_convert"
    [] out = "rgb" /\ jpeg = "grayscale" -> "gray_rgb_convert"
    [] out = "cmyk" /\ jpeg = "ycck" -> "ycck_cmyk_convert"
    [] out = jpeg /\ out # "grayscale" -> "null_convert"
    [] OTHER -> "refused"
Converted(method, p) ==
  CASE method = "rgb_ycc_convert" -> rgb_ycc_convert(p)
    [] method = "rgb_gray_convert" -> rgb_gray_convert(p)
    [] method = "cmyk_ycck_convert" -> cmyk_ycck_convert(p)
    [] method = "ycc_rgb_convert" -> ycc_rgb_convert(p)
    [] method = "gray_rgb_convert" -> gray_rgb_convert(p)
    [] method = "ycck_cmyk_convert" -> ycck_cmyk_convert(p)
    [] method = "grayscale_convert" -> grayscale_convert(p)
    [] method = "null_convert" -> null_convert(p)

\* What jpeg_set_colorspace has the header say of the space.
ComponentIds(space) ==
  CASE space = "rgb" -> <<82, 71, 66>>
    [] space = "cmyk" -> <<67, 77, 89, 75>>
    [] space = "unknown" -> <<0, 1, 2, 3>>
    [] OTHER -> [i \in 1 .. NumComponents(space) |-> i]
jpeg_set_colorspace(space) ==
  [ids |-> ComponentIds(space), jfif |-> space \in {"grayscale", "ycbcr"},
   adobe |-> space \in {"rgb", "cmyk", "ycck"},
   transform |-> CASE space = "ycbcr" -> 1 [] space = "ycck" -> 2 [] OTHER -> 0]
\* What is left of it after a program that copies a file without the markers APP0 and APP14.
Stripped(header) == [header EXCEPT !.jfif = FALSE, !.adobe = FALSE]

FromIds(ids) == IF ids = <<82, 71, 66>> THEN "rgb" ELSE "ycbcr"
default_decompress_parms(header) ==
  CASE Len(header.ids) = 1 -> "grayscale"
    [] Len(header.ids) = 3 -> IF header.jfif THEN "ycbcr"
                              ELSE IF header.adobe THEN IF header.transform = 0 THEN "rgb" ELSE "ycbcr"
                              ELSE FromIds(header.ids)
    [] Len(header.ids) = 4 -> IF header.adobe /\ header.transform # 0 THEN "ycck" ELSE "cmyk"
default_out_color_space(header) ==
  CASE Len(header.ids) = 1 -> "grayscale" [] Len(header.ids) = 3 -> "rgb" [] OTHER -> "cmyk"

=============================================================================
