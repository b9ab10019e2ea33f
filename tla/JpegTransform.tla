--------------------------- MODULE JpegTransform ---------------------------
(***************************************************************************)
(* Lossless transformations (transupp.c as jpegtran.c uses it): the        *)
(* coefficient blocks of a picture are moved, mirrored and transposed      *)
(* without leaving the coefficient domain.  Sizes, sampling factors and    *)
(* quantisation tables turn with them; columns and rows of incomplete      *)
(* MCUs stay where they are or are trimmed.                                *)
(*                                                                         *)
(* With DCTSIZE = 2 a block's samples are sums and differences of its      *)
(* coefficients; everything the code does to blocks depends on the parity  *)
(* of rows and columns only.                                               *)
(***************************************************************************)
EXTENDS McuLayout

CONSTANTS
  TransformJobs,    \* what jpegtran is asked: a picture's parameters and a transformation
  BlockValues       \* how the coefficients and tables of the source are filled

VARIABLE tran       \* one run of jpegtran
transformVars == <<tran>>

(* A block or table: the entry of row i and column j. *)
Cell2 == (0 .. DCTSIZE - 1) \X (0 .. DCTSIZE - 1)
TransposedBlock(b) == [c \in Cell2 |-> b[<<c[2], c[1]>>]]
NegateOddColumns(b) == [c \in Cell2 |-> IF c[2] % 2 = 1 THEN -b[c] ELSE b[c]]
NegateOddRows(b) == [c \in Cell2 |-> IF c[1] % 2 = 1 THEN -b[c] ELSE b[c]]
Block == [Cell2 -> Int]

---------------------------------------------------------------------------
(* Besides its layout a file has a colour space and tables, quant; used are
   the tables its components were coded with.  There is a table for every
   component; the program is asked for one of eight transformations. *)
Transforms == {"none", "flip_h", "flip_v", "transpose", "transverse", "rot_90", "rot_180", "rot_270"}
FileSpaces == {"unknown", "grayscale", "rgb", "ycbcr", "cmyk", "ycck"}
FileRecord ==
  [width : Nat \ {0}, height : Nat \ {0}, space : FileSpaces, comps : Seq([h : Nat \ {0}, v : Nat \ {0}, tbl : Nat]),
   quant : Seq(Block), used : Seq(Block)]
ASSUME TransformAssumption ==
  /\ \A fill \in DOMAIN BlockValues : BlockValues[fill] \in Seq(Int) \ {<< >>}
  /\ \A job \in TransformJobs :
       /\ job.info \in FileRecord /\ job.transform \in Transforms /\ job.trim \in BOOLEAN /\ job.gray \in BOOLEAN
       /\ job.fill \in DOMAIN BlockValues
       /\ \A c \in DOMAIN job.info.comps : job.info.comps[c].tbl \in DOMAIN job.info.quant

(* Samples are a whole number of pixels wide and high, as the decoder's upsampling
   demands, and the one component that is kept of a colour picture has a sample
   for every pixel. *)
SamplingWhole(info) ==
  \A c \in DOMAIN info.comps : MaxH(info) % info.comps[c].h = 0 /\ MaxV(info) % info.comps[c].v = 0
SamplingInOrder ==
  \A job \in TransformJobs :
    /\ SamplingWhole(job.info)
    /\ job.gray /\ job.info.space = "ycbcr" /\ Len(job.info.comps) = 3 =>
         job.info.comps[1].h = MaxH(job.info) /\ job.info.comps[1].v = MaxV(job.info)

(* The whole MCUs of the picture, counted in blocks of component c. *)
comp_width(info, c) == (info.width \div (MaxH(info) * DCTSIZE)) * info.comps[c].h
comp_height(info, c) == (info.height \div (MaxV(info) * DCTSIZE)) * info.comps[c].v

SourceArray(info, c, fill) ==
  [p \in PaddedPlaces(info, c) |->
     [k \in Cell2 |-> BlockValues[fill][1 + ((41 * c + 17 * p[1] + 5 * p[2] + 2 * k[1] + k[2]) % Len(BlockValues[fill]))]]]

---------------------------------------------------------------------------
(* jtransform_request_workspace *)
TransposesSize(t) == t \in {"transpose", "transverse", "rot_90", "rot_270"}
NeedsWorkspace(t) == t \notin {"none", "flip_h"}
Components1(info, gray) == IF gray /\ info.space = "ycbcr" /\ Len(info.comps) = 3 THEN 1 ELSE Len(info.comps)
Undefined2 == [k \in Cell2 |-> 99]
WorkspaceArray(info, c, t) ==
  LET rows == RoundUp(height_in_blocks(info, c), info.comps[c].v)
      cols == RoundUp(width_in_blocks(info, c), info.comps[c].h)
  IN  [p \in IF TransposesSize(t) THEN Place(cols, rows) ELSE Place(rows, cols) |-> Undefined2]
jtransform_request_workspace(info, t, gray) ==
  IF NeedsWorkspace(t) THEN [c \in 1 .. Components1(info, gray) |-> WorkspaceArray(info, c, t)] ELSE << >>

(* jpeg_copy_critical_parameters: a component whose own table is not the one
   now in its slot cannot be copied. *)
Mismatched(info) == \E c \in DOMAIN info.comps : info.used[c] # info.quant[info.comps[c].tbl]

(* jtransform_adjust_parameters *)
transpose_critical_parameters(info) ==
  [info EXCEPT !.width = info.height, !.height = info.width,
               !.comps = [c \in DOMAIN info.comps |-> [info.comps[c] EXCEPT !.h = info.comps[c].v, !.v = info.comps[c].h]],
               !.quant = [t \in DOMAIN info.quant |-> TransposedBlock(info.quant[t])]]
trim_right_edge(info) ==
  LET MCU_cols == info.width \div (MaxH(info) * DCTSIZE)
  IN  IF MCU_cols > 0 THEN [info EXCEPT !.width = MCU_cols * (MaxH(info) * DCTSIZE)] ELSE info
trim_bottom_edge(info) ==
  LET MCU_rows == info.height \div (MaxV(info) * DCTSIZE)
  IN  IF MCU_rows > 0 THEN [info EXCEPT !.height = MCU_rows * (MaxV(info) * DCTSIZE)] ELSE info
CanBeGray(info) == \/ info.space = "ycbcr" /\ Len(info.comps) = 3
                   \/ info.space = "grayscale" /\ Len(info.comps) = 1
MadeGray(info) ==
  [info EXCEPT !.space = "grayscale", !.comps = <<[h |-> 1, v |-> 1, tbl |-> info.comps[1].tbl]>>]

TrimmedRight(t) == t \in {"flip_h", "transverse", "rot_90", "rot_180"}
TrimmedBottom(t) == t \in {"flip_v", "transverse", "rot_180", "rot_270"}
TurnedInfo(info, t) == IF TransposesSize(t) THEN transpose_critical_parameters(info) ELSE info
TrimmedWidthMutant(info, t, trim) == IF TrimmedRight(t) THEN trim_right_edge(info) ELSE info
TrimmedWidth(info, t, trim) == IF trim /\ TrimmedRight(t) THEN trim_right_edge(info) ELSE info
TrimmedHeight(info, t, trim) == IF trim /\ TrimmedBottom(t) THEN trim_bottom_edge(info) ELSE info
jtransform_adjust_parameters(info, t, trim, gray) ==
  TrimmedHeight(TrimmedWidth(TurnedInfo(IF gray THEN MadeGray(info) ELSE info, t), t, trim), t, trim)

---------------------------------------------------------------------------
(* The transformations.  Of the destination, the rows of every started group
   of v block rows are written, and of these the columns the loops reach. *)
RowsWritten(dst, c) == RoundUp(height_in_blocks(dst, c), dst.comps[c].v)
ColumnsWritten(dst, c) == RoundUp(width_in_blocks(dst, c), dst.comps[c].h)
Overwritten(old, new) == [p \in DOMAIN old |-> IF p \in DOMAIN new THEN new[p] ELSE old[p]]
MirroredAt(p, n) == IF p < n THEN n - p - 1 ELSE p

do_flip_h(dst, c, a) ==
  [p \in DOMAIN a |->
     IF p[1] < RowsWritten(dst, c) /\ p[2] < comp_width(dst, c)
     THEN NegateOddColumns(a[<<p[1], MirroredAt(p[2], comp_width(dst, c))>>]) ELSE a[p]]

do_flip_v(dst, c, a, w) ==
  Overwritten(w, [p \in Place(RowsWritten(dst, c), width_in_blocks(dst, c)) |->
     IF p[1] < comp_height(dst, c) THEN NegateOddRows(a[<<MirroredAt(p[1], comp_height(dst, c)), p[2]>>]) ELSE a[p]])

do_transpose(dst, c, a, w) ==
  Overwritten(w, [p \in Place(RowsWritten(dst, c), ColumnsWritten(dst, c)) |-> TransposedBlock(a[<<p[2], p[1]>>])])

do_rot_90(dst, c, a, w) ==
  Overwritten(w, [p \in Place(RowsWritten(dst, c), ColumnsWritten(dst, c)) |->
     IF p[2] < comp_width(dst, c)
     THEN TransposedBlock(NegateOddRows(a[<<MirroredAt(p[2], comp_width(dst, c)), p[1]>>]))
     ELSE TransposedBlock(a[<<p[2], p[1]>>])])

do_rot_270(dst, c, a, w) ==
  Overwritten(w, [p \in Place(RowsWritten(dst, c), ColumnsWritten(dst, c)) |->
     IF p[1] < comp_height(dst, c)
     THEN TransposedBlock(NegateOddColumns(a[<<p[2], MirroredAt(p[1], comp_height(dst, c))>>]))
     ELSE TransposedBlock(a[<<p[2], p[1]>>])])

do_rot_180(dst, c, a, w) ==
  LET mx(x) == MirroredAt(x, comp_width(dst, c))
      my(y) == MirroredAt(y, comp_height(dst, c))
  IN  Overwritten(w, [p \in Place(RowsWritten(dst, c), width_in_blocks(dst, c)) |->
        CASE p[1] < comp_height(dst, c) /\ p[2] < comp_width(dst, c) -> NegateOddRows(NegateOddColumns(a[<<my(p[1]), mx(p[2])>>]))
          [] p[1] < comp_height(dst, c) /\ p[2] >= comp_width(dst, c) -> NegateOddRows(a[<<my(p[1]), p[2]>>])
          [] p[1] >= comp_height(dst, c) /\ p[2] < comp_width(dst, c) -> NegateOddColumns(a[<<p[1], mx(p[2])>>])
          [] OTHER -> a[p]])

do_transverse(dst, c, a, w) ==
  LET mx(x) == MirroredAt(x, comp_width(dst, c))
      my(y) == MirroredAt(y, comp_height(dst, c))
  IN  Overwritten(w, [p \in Place(RowsWritten(dst, c), ColumnsWritten(dst, c)) |->
        CASE p[1] < comp_height(dst, c) /\ p[2] < comp_width(dst, c) -> TransposedBlock(NegateOddRows(NegateOddColumns(a[<<mx(p[2]), my(p[1])>>])))
          [] p[1] < comp_height(dst, c) /\ p[2] >= comp_width(dst, c) -> TransposedBlock(NegateOddColumns(a[<<p[2], my(p[1])>>]))
          [] p[1] >= comp_height(dst, c) /\ p[2] < comp_width(dst, c) -> TransposedBlock(NegateOddRows(a[<<mx(p[2]), p[1]>>]))
          [] OTHER -> TransposedBlock(a[<<p[2], p[1]>>])])

(* jtransform_execute_transformation, for one component: its source array a
   and its workspace w give the array to be written. *)
Transformed(t, dst, c, a, w) ==
  CASE t = "none" -> a
    [] t = "flip_h" -> do_flip_h(dst, c, a)
    [] t = "flip_v" -> do_flip_v(dst, c, a, w)
    [] t = "transpose" -> do_transpose(dst, c, a, w)
    [] t = "transverse" -> do_transverse(dst, c, a, w)
    [] t = "rot_90" -> do_rot_90(dst, c, a, w)
    [] t = "rot_180" -> do_rot_180(dst, c, a, w)
    [] t = "rot_270" -> do_rot_270(dst, c, a, w)

jtransform_execute_transformation(t, dst, src_coef_arrays, workspace) ==
  [c \in DOMAIN dst.comps |->
     Transformed(t, dst, c, src_coef_arrays[c], IF NeedsWorkspace(t) THEN workspace[c] ELSE << >>)]

---------------------------------------------------------------------------
(* jpegtran's main program, one call after the other. *)
TransformIdle == tran = [phase |-> "idle"]
TransformInit ==
  \E job \in TransformJobs : tran = [phase |-> "header", job |-> job, src |-> job.info]

RequestWorkspace ==
  /\ tran.phase = "header"
  /\ tran' = [phase |-> "read", job |-> tran.job, src |-> tran.src,
              workspace |-> jtransform_request_workspace(tran.src, tran.job.transform, tran.job.gray)]

(* jpeg_read_coefficients *)
ReadCoefficients ==
  /\ tran.phase = "read"
  /\ tran' = [phase |-> "copy", job |-> tran.job, src |-> tran.src, workspace |-> tran.workspace,
              arrays |-> [c \in DOMAIN tran.src.comps |-> SourceArray(tran.src, c, tran.job.fill)]]

CopyParameters ==
  /\ tran.phase = "copy"
  /\ tran' = IF Mismatched(tran.src) THEN [tran EXCEPT !.phase = "refused"]
             ELSE [phase |-> "adjust", job |-> tran.job, src |-> tran.src, workspace |-> tran.workspace,
                   arrays |-> tran.arrays, dst |-> tran.src]

AdjustParameters ==
  /\ tran.phase = "adjust"
  /\ tran' = IF tran.job.gray /\ ~CanBeGray(tran.dst) THEN [tran EXCEPT !.phase = "refused"]
             ELSE [tran EXCEPT !.phase = "execute",
                               !.dst = jtransform_adjust_parameters(tran.dst, tran.job.transform, tran.job.trim, tran.job.gray)]

ExecuteTransformation ==
  /\ tran.phase = "execute"
  /\ tran' = [phase |-> "done", job |-> tran.job, src |-> tran.src, dst |-> tran.dst, arrays |-> tran.arrays,
              result |-> jtransform_execute_transformation(tran.job.transform, tran.dst, tran.arrays, tran.workspace)]

TransformDone == tran.phase \in {"done", "refused"} /\ UNCHANGED tran

TransformNext ==
  \/ RequestWorkspace \/ ReadCoefficients \/ CopyParameters \/ AdjustParameters
  \/ ExecuteTransformation \/ TransformDone
TransformSpec == TransformInit /\ [][TransformNext]_tran

---------------------------------------------------------------------------
(* The sample a decoder shows for a pixel: the inverse transform of the
   dequantised block its component has there. *)
Sign(n) == IF n % 2 = 1 THEN -1 ELSE 1
BlockSample(b, q, y, x) ==
  b[<<0, 0>>] * q[<<0, 0>>] + Sign(x) * b[<<0, 1>>] * q[<<0, 1>>]
  + Sign(y) * b[<<1, 0>>] * q[<<1, 0>>] + Sign(x + y) * b[<<1, 1>>] * q[<<1, 1>>]
ComponentSample(info, c, a, y, x) ==
  BlockSample(a[<<y \div DCTSIZE, x \div DCTSIZE>>], info.quant[info.comps[c].tbl], y % DCTSIZE, x % DCTSIZE)
PixelOf(info, c, a, y, x) ==
  ComponentSample(info, c, a, (y * info.comps[c].v) \div MaxV(info), (x * info.comps[c].h) \div MaxH(info))

(* The pixel of the source that belongs at pixel y, x of the result, whose
   whole MCUs cover fh by fw pixels. *)
Origin(t, y, x, fh, fw) ==
  CASE t = "none" -> <<y, x>>
    [] t = "flip_h" -> <<y, MirroredAt(x, fw)>>
    [] t = "flip_v" -> <<MirroredAt(y, fh), x>>
    [] t = "transpose" -> <<x, y>>
    [] t = "transverse" -> <<MirroredAt(x, fw), MirroredAt(y, fh)>>
    [] t = "rot_90" -> <<MirroredAt(x, fw), y>>
    [] t = "rot_180" -> <<MirroredAt(y, fh), MirroredAt(x, fw)>>
    [] t = "rot_270" -> <<x, MirroredAt(y, fh)>>
Whole(n, unit) == (n \div unit) * unit
FullWidth(info) == Whole(info.width, MaxH(info) * DCTSIZE)
FullHeight(info) == Whole(info.height, MaxV(info) * DCTSIZE)

(* A trimmed picture consists of whole MCUs in the directions that are
   mirrored, unless it is smaller than one; otherwise nothing is cut off. *)
SizeRight(job, src, dst) ==
  LET w == IF TransposesSize(job.transform) THEN src.height ELSE src.width
      h == IF TransposesSize(job.transform) THEN src.width ELSE src.height
      fw == Whole(w, MaxH(dst) * DCTSIZE)
      fh == Whole(h, MaxV(dst) * DCTSIZE)
  IN  /\ dst.width = IF job.trim /\ TrimmedRight(job.transform) /\ fw > 0 THEN fw ELSE w
      /\ dst.height = IF job.trim /\ TrimmedBottom(job.transform) /\ fh > 0 THEN fh ELSE h

(* The written file shows the source turned or mirrored, pixel for pixel and
   in all components, with its own turned quantisation tables: blocks, signs,
   tables, sizes and sampling factors are turned together.  Only pixels of
   incomplete MCUs at the right and lower edge are not mirrored.  (transupp.c,
   lines 35 to 60 and the comments of the seven transformations.) *)
PictureTurned ==
  tran.phase = "done" =>
    /\ SizeRight(tran.job, tran.src, tran.dst)
    /\ \A c \in DOMAIN tran.dst.comps : \A y \in 0 .. tran.dst.height - 1, x \in 0 .. tran.dst.width - 1 :
         LET o == Origin(tran.job.transform, y, x, FullHeight(tran.dst), FullWidth(tran.dst))
         IN  PixelOf(tran.dst, c, tran.result[c], y, x) = PixelOf(tran.src, c, tran.arrays[c], o[1], o[2])

=============================================================================
