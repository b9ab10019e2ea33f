------------------------------- MODULE MCJpeg ------------------------------
(***************************************************************************)
(* The parts of the JPEG library that are modelled each on its own inputs. *)
(* A behaviour takes one of them through its work; the others are idle.    *)
(***************************************************************************)
EXTENDS JpegScan, SamplePath, ColorQuantizer, JpegMemory, JpegTransform, DecoderPasses, Markers, Scanlines

Init ==
  \/ ScanInit /\ SampleIdle /\ QuantIdle /\ MemoryIdle /\ TransformIdle /\ PassesIdle /\ MarkerIdle /\ LinesIdle
  \/ SampleInit /\ ScanIdle /\ QuantIdle /\ MemoryIdle /\ TransformIdle /\ PassesIdle /\ MarkerIdle /\ LinesIdle
  \/ QuantInit /\ ScanIdle /\ SampleIdle /\ MemoryIdle /\ TransformIdle /\ PassesIdle /\ MarkerIdle /\ LinesIdle
  \/ MemoryInit /\ ScanIdle /\ SampleIdle /\ QuantIdle /\ TransformIdle /\ PassesIdle /\ MarkerIdle /\ LinesIdle
  \/ TransformInit /\ ScanIdle /\ SampleIdle /\ QuantIdle /\ MemoryIdle /\ PassesIdle /\ MarkerIdle /\ LinesIdle
  \/ PassesInit /\ ScanIdle /\ SampleIdle /\ QuantIdle /\ MemoryIdle /\ TransformIdle /\ MarkerIdle /\ LinesIdle
  \/ MarkerInit /\ ScanIdle /\ SampleIdle /\ QuantIdle /\ MemoryIdle /\ TransformIdle /\ PassesIdle /\ LinesIdle
  \/ LinesInit /\ ScanIdle /\ SampleIdle /\ QuantIdle /\ MemoryIdle /\ TransformIdle /\ PassesIdle /\ MarkerIdle

Next ==
  \/ ScanNext /\ UNCHANGED <<sampleVars, quantVars, memoryVars, transformVars, passesVars, markerVars, lineVars>>
  \/ SampleNext /\ UNCHANGED <<scanVars, quantVars, memoryVars, transformVars, passesVars, markerVars, lineVars>>
  \/ QuantNext /\ UNCHANGED <<scanVars, sampleVars, memoryVars, transformVars, passesVars, markerVars, lineVars>>
  \/ MemoryNext /\ UNCHANGED <<scanVars, sampleVars, quantVars, transformVars, passesVars, markerVars, lineVars>>
  \/ TransformNext /\ UNCHANGED <<scanVars, sampleVars, quantVars, memoryVars, passesVars, markerVars, lineVars>>
  \/ PassesNext /\ UNCHANGED <<scanVars, sampleVars, quantVars, memoryVars, transformVars, markerVars, lineVars>>
  \/ MarkerNext /\ UNCHANGED <<scanVars, sampleVars, quantVars, memoryVars, transformVars, passesVars, lineVars>>
  \/ LinesNext /\ UNCHANGED <<scanVars, sampleVars, quantVars, memoryVars, transformVars, passesVars, markerVars>>

libraryVars == <<scanVars, sampleVars, quantVars, memoryVars, transformVars, passesVars, markerVars, lineVars>>
Spec == Init /\ [][Next]_libraryVars

---------------------------------------------------------------------------
(* Small instances. *)

\* Scan jobs: bytes of 4 bits, blocks of 6 coefficients.
Blk(a, b, c, d, e, f) == [k \in 0 .. 5 |-> <<a, b, c, d, e, f>>[k + 1]]
Zero == Blk(0, 0, 0, 0, 0, 0)
LongRun == Blk(3, 0, 0, 0, 0, 1)
Mixed == Blk(-4, 2, -3, 0, 1, 0)
Sparse == Blk(1, 0, -1, 0, 0, 0)
Dense == Blk(0, 3, 3, -3, 2, -2)
Late == Blk(-1, 0, 1, 0, 0, -3)

Sequential == <<[progressive |-> FALSE, comps |-> <<1, 2>>, Ss |-> 0, Se |-> 5, Ah |-> 0, Al |-> 0]>>
Pass(comps, ss, se, ah, al) ==
  [progressive |-> TRUE, comps |-> comps, Ss |-> ss, Se |-> se, Ah |-> ah, Al |-> al]
Progressive == <<Pass(<<1, 2>>, 0, 0, 0, 1), Pass(<<1>>, 1, 5, 0, 1), Pass(<<2>>, 1, 2, 0, 0),
                 Pass(<<2>>, 3, 5, 0, 0), Pass(<<1>>, 1, 5, 1, 0), Pass(<<2, 1>>, 0, 0, 1, 0)>>

Img(a, b) == <<a, b>>
Images == {Img(<<Mixed, LongRun, Zero, Late, Dense>>, <<Zero, Zero, Sparse, Mixed, LongRun>>),
           Img(<<Dense, Dense, Sparse, Zero, Mixed>>, <<Late, Zero, Zero, Zero, Zero>>),
           Img(<<Late, Zero, Zero, Zero, LongRun>>, <<Dense, Mixed, Mixed, Late, Sparse>>)}
MCScanJobs ==
  {[image |-> i, script |-> Sequential, interval |-> r, dc_only |-> d] :
     i \in Images, r \in {0, 1, 2}, d \in BOOLEAN}
  \cup {[image |-> i, script |-> Progressive, interval |-> r, dc_only |-> FALSE] :
     i \in Images, r \in {0, 1, 2}}
MCRooms == {1, 3, 6, 12}
MCArrivals == {0, 1, 2, 3, 5, 7}
OneTable == <<1, 1>>
TwoTables == <<1, 2>>

\* Sample jobs: pictures of one block.
Grid(F(_, _)) == [y \in 1 .. 8 |-> [x \in 1 .. 8 |-> F(y, x)]]
Clip(v) == IF v > 255 THEN 255 ELSE IF v < 0 THEN 0 ELSE v
Gray(F(_, _)) == Grid(LAMBDA y, x : <<Clip(F(y, x))>>)
Noise(y, x, k) == ((y * 37 + x * 101 + k * 61) * (y * 13 + x * 7 + k + 3)) % 256
GrayPictures == {
  Gray(LAMBDA y, x : 0), Gray(LAMBDA y, x : 255), Gray(LAMBDA y, x : 128),
  Gray(LAMBDA y, x : 36 * (x - 1)), Gray(LAMBDA y, x : 36 * (8 - y)), Gray(LAMBDA y, x : 18 * (x + y - 2)),
  Gray(LAMBDA y, x : 255 * ((x + y) % 2)), Gray(LAMBDA y, x : IF x = 3 /\ y = 6 THEN 255 ELSE 0),
  Gray(LAMBDA y, x : IF x < 4 THEN 255 ELSE 20), Gray(LAMBDA y, x : IF y < 6 THEN 10 ELSE 200),
  Gray(LAMBDA y, x : Noise(y, x, 0)), Gray(LAMBDA y, x : Noise(y, x, 5) \div 4 + 90)}
ColourPictures == {
  Grid(LAMBDA y, x : <<Noise(y, x, 1), Noise(y, x, 2), Noise(y, x, 3)>>),
  Grid(LAMBDA y, x : <<IF x > 4 THEN 255 ELSE 0, IF y > 4 THEN 255 ELSE 0, IF ((x - 1) \div 2) % 2 = 1 THEN 255 ELSE 0>>),
  Grid(LAMBDA y, x : <<Clip(40 * y - 30), 255 - 30 * x, 100 + 10 * x>>)}
InkPictures == {Grid(LAMBDA y, x : <<Noise(y, x, 1), Noise(y, x, 2), Noise(y, x, 3), Noise(y, x, 4)>>)}
Flat(q) == Grid(LAMBDA y, x : q)
CoarseTables == {Flat(16), Grid(LAMBDA y, x : 3 + (((x + y - 2) * (x + y)) \div 2))}
Methods == {<<"islow", "islow", 8>>, <<"islow", "islow", 4>>, <<"islow", "islow", 2>>, <<"islow", "islow", 1>>,
            <<"islow", "ifast", 8>>, <<"ifast", "islow", 8>>, <<"ifast", "ifast", 8>>}
Job(in, jpeg, out, strip, m, q, p) ==
  [in |-> in, jpeg |-> jpeg, out |-> out, strip |-> strip, fdct |-> m[1], idct |-> m[2], size |-> m[3], quantval |-> q, picture |-> p]
MCSampleJobs ==
  {Job("grayscale", "grayscale", "default", FALSE, m, q, p) : m \in Methods, q \in CoarseTables, p \in GrayPictures}
  \cup {Job("grayscale", "grayscale", "default", FALSE, <<"islow", "islow", n>>, Flat(1), p) : n \in {1, 2, 4, 8}, p \in GrayPictures}
  \cup {Job(in, jpeg, out, strip, m, Flat(1), p) : in \in {"rgb"}, jpeg \in {"grayscale", "rgb", "ycbcr"}, out \in {"default", "rgb", "grayscale"}, strip \in BOOLEAN,
             m \in {<<"islow", "islow", 8>>}, p \in ColourPictures}
  \cup {Job("cmyk", jpeg, "default", strip, <<"islow", "islow", 8>>, Flat(1), p) :
          jpeg \in {"cmyk", "ycck"}, strip \in BOOLEAN, p \in InkPictures}

\* Quantiser jobs: pictures of a few pixels.
Picture(rows, cols, P(_, _)) == [y \in 1 .. rows |-> [x \in 1 .. cols |-> P(y, x)]]
Scattered(s) == Picture(2, 4, LAMBDA y, x : <<Noise(y, x, s), Noise(y, x, s + 1), Noise(y, x, s + 2)>>)
Faint == Picture(3, 3, LAMBDA y, x : <<100 + x, 200 - 20 * y, 90 + 30 * x * y>>)
Wide == Picture(4, 4, LAMBDA y, x : <<16 * (4 * y + x - 5), 255 - 12 * (4 * y + x - 5), Noise(y, x, 9)>>)
GrayRamp == Picture(2, 5, LAMBDA y, x : <<Noise(y, x, 7)>>)
Level(v) == Picture(16, 16, LAMBDA y, x : <<v>>)
MCExternalMaps == {<<<<0, 0, 0>>, <<255, 255, 255>>, <<200, 30, 40>>, <<90, 120, 200>>>>}
QuantJob(nc, space, passes, desired, enable, dither, map, pictures) ==
  [nc |-> nc, space |-> space, passes |-> passes, desired |-> desired, enable |-> enable, dither |-> dither, colormap |-> map, pictures |-> pictures]
AllQuantizers == {"1pass", "2pass", "external"}
MCQuantJobs ==
  {QuantJob(3, "rgb", 2, 12, AllQuantizers, "none", NoMap, {Scattered(1), Scattered(5)}),
   QuantJob(3, "ycbcr", 1, 20, {"1pass"}, "ordered", NoMap, {Faint}),
   QuantJob(3, "rgb", 3, 8, {"2pass"}, "fs", NoMap, {Faint}),
   QuantJob(3, "rgb", 1, 8, {"2pass"}, "none", NoMap, {Wide, Scattered(3)}),
   QuantJob(3, "rgb", 1, 8, {"2pass", "external"}, "fs", <<<<0, 0, 0>>, <<255, 255, 255>>, <<200, 30, 40>>, <<90, 120, 200>>>>, {Faint}),
   QuantJob(1, "grayscale", 2, 5, {"1pass"}, "fs", NoMap, {GrayRamp})}
  \cup {QuantJob(1, "grayscale", 1, n, {"1pass"}, "ordered", NoMap, {Level(v)}) : n \in {2, 5}, v \in {3, 100, 128, 250}}
MCDither == {"none", "ordered", "fs"}

\* Memory jobs: a few rows of a few units.
Req(kind, z, width, rows, maxaccess) == [kind |-> kind, pre_zero |-> z, width |-> width, rows |-> rows, maxaccess |-> maxaccess]
MemJob(ansi, memory, max_use, requests, n, sizes, imgs) ==
  [ansi |-> ansi, memory |-> memory, max_use |-> max_use, requests |-> requests, objects |-> n, sizes |-> sizes, images |-> imgs]
TwoArrays == <<Req("sample", FALSE, 3, 2, 1), Req("block", TRUE, 2, 2, 2)>>
OneArray == <<Req("block", TRUE, 3, 4, 2)>>
SampleArray == <<Req("sample", FALSE, 5, 3, 1)>>
MCMemoryJobs ==
  {MemJob(TRUE, 300, 34, OneArray, 0, {2}, 1)}
  \cup {MemJob(TRUE, m, 62, SampleArray, 1, {3}, 2) : m \in {70, 300}}
  \cup {MemJob(a, 50, 0, TwoArrays, 0, {2}, 1) : a \in BOOLEAN} \cup {MemJob(FALSE, 70, 0, TwoArrays, 0, {2}, 1)}
  \cup {MemJob(FALSE, 60, 0, << >>, 2, {1, 3, 8}, 2), MemJob(FALSE, 3, 0, << >>, 1, {1}, 1)}
MCFirstSlop == [p \in Pools |-> IF p = "image" THEN 9 ELSE 4]
MCExtraSlop == [p \in Pools |-> IF p = "image" THEN 5 ELSE 0]

\* Pictures of a few blocks of 2 by 2 samples: to be transformed, and to be taken
\* through the passes of encoder and decoder.
CompInfo(h, v, t) == [h |-> h, v |-> v, tbl |-> t]
Table2(a, b, c, d) == [k \in Cell2 |-> <<<<a, b>>, <<c, d>>>>[k[1] + 1][k[2] + 1]]
TwoTables2 == <<Table2(2, 3, 5, 7), Table2(1, 4, 6, 9)>>
FileInfo(w, h, space, comps, quant) ==
  [width |-> w, height |-> h, space |-> space, comps |-> comps, quant |-> quant, used |-> [c \in DOMAIN comps |-> TwoTables2[comps[c].tbl]]]
Y2C(h, v) == <<CompInfo(h, v, 1), CompInfo(1, 1, 2), CompInfo(1, 1, 2)>>
TransJob(info, t, trim, gray, fill) == [info |-> info, transform |-> t, trim |-> trim, gray |-> gray, fill |-> fill]
MCTransformJobs ==
  {TransJob(FileInfo(d[1], d[2], "ycbcr", Y2C(s[1], s[2]), TwoTables2), t, trim, gray, 1) :
     d \in {<<9, 7>>, <<3, 10>>}, s \in {<<2, 1>>, <<2, 2>>, <<1, 2>>}, t \in Transforms, trim \in BOOLEAN, gray \in BOOLEAN}
  \cup {TransJob(FileInfo(5, 3, "grayscale", <<CompInfo(2, 1, 2)>>, TwoTables2), t, FALSE, TRUE, 2) : t \in Transforms}
  \cup {TransJob(FileInfo(4, 4, "rgb", Y2C(1, 1), TwoTables2), "flip_v", FALSE, TRUE, 2),
        TransJob(FileInfo(4, 4, "rgb", Y2C(1, 1), <<TwoTables2[2], TwoTables2[1]>>), "none", FALSE, FALSE, 2)}
MCBlockValues == <<<<3, -1, 4, 1, -5, 9, 2, -6, 5, 3, 5, 8, -9, 7, -2, 3, 2, 11, 8, -4, 6>>, <<7, 0, -3, 1, 0, 0, 2>>>>

Layout(w, h, comps) == [width |-> w, height |-> h, comps |-> comps]
Spectral(comps, ss, se, ah, al) == [comps |-> comps, Ss |-> ss, Se |-> se, Ah |-> ah, Al |-> al]
YCb(h, v) == <<CompInfo(h, v, 1), CompInfo(1, 1, 1)>>
ProgScript ==
  <<Spectral(<<1, 2>>, 0, 0, 0, 1), Spectral(<<1>>, 1, 5, 0, 1), Spectral(<<2>>, 1, 2, 0, 0),
    Spectral(<<1>>, 1, 5, 1, 0), Spectral(<<1, 2>>, 0, 0, 1, 0)>>
SplitScript == <<Spectral(<<1>>, 0, 0, 0, 1), Spectral(<<2>>, 0, 0, 0, 0), Spectral(<<1>>, 1, 2, 0, 0)>>
TwoScans == <<Spectral(<<1>>, 0, 5, 0, 0), Spectral(<<2>>, 0, 5, 0, 0)>>
BadScripts ==
  {<<Spectral(<<1, 2>>, 0, 0, 0, 1), Spectral(<<1>>, 1, 5, 1, 0)>>,
   <<Spectral(<<1>>, 0, 0, 0, 1)>>, <<Spectral(<<1>>, 0, 5, 0, 0)>>, <<Spectral(<<2, 1>>, 0, 5, 0, 0)>>,
   <<Spectral(<<1>>, 0, 5, 0, 0), Spectral(<<1, 2>>, 0, 5, 0, 0)>>,
   <<Spectral(<<1>>, 1, 5, 0, 0)>>}
PassJob(info, script, opt, write, read, redefine, smooth) ==
  [info |-> info, script |-> script, optimize |-> opt, write |-> write, read |-> read, redefine |-> redefine, smooth |-> smooth]
MCPassJobs ==
  {PassJob(Layout(d[1], d[2], YCb(s[1], s[2])), sc, o, w, "none", FALSE, FALSE) :
     d \in {<<5, 6>>, <<3, 1>>}, s \in {<<2, 2>>, <<1, 2>>, <<3, 1>>}, sc \in {<< >>, TwoScans, ProgScript}, o \in BOOLEAN, w \in {"raw", "trans"}}
  \cup {PassJob(Layout(4, 4, YCb(1, 1)), sc, FALSE, "raw", "none", FALSE, FALSE) : sc \in BadScripts}
  \cup {PassJob(Layout(5, 7, <<CompInfo(2, 3, 1)>>), << >>, o, "raw", r, FALSE, FALSE) : o \in BOOLEAN, r \in {"plain", "coefs"}}
  \cup {PassJob(Layout(5, 6, YCb(2, 2)), sc, FALSE, "raw", r, TRUE, TRUE) : sc \in {<< >>, TwoScans, ProgScript}, r \in {"plain", "coefs"}}
  \cup {PassJob(Layout(3, 6, YCb(1, 2)), sc, FALSE, "raw", "buffered", TRUE, sm) : sc \in {<< >>, TwoScans, ProgScript, SplitScript}, sm \in BOOLEAN}
MCCoefValues == <<3, -1, 4, 1, -5, 0, 2, -6, 0, 3, 5, 0, -2, 7, -2, 3, 0, 1, 6, -4, 0, -7, 5>>
MCQuantTables == <<[k \in 0 .. 5 |-> 3 + k], [k \in 0 .. 5 |-> 8 - k]>>

\* Marker jobs: tables of two values and codes of two lengths.
Q(s, v) == <<"quant", s>> :> v
HT(c, s, n) == <<c, s>> :> [bits |-> <<1, 1>>, huffval |-> <<n, n + 1>>]
FileComp(id, hv, tq, td, ta) == [id |-> id, h |-> hv, v |-> hv, tq |-> tq, td |-> td, ta |-> ta]
ScanOf(comps, ss, se, ah, al, interval, new, left) ==
  [comps |-> comps, Ss |-> ss, Se |-> se, Ah |-> ah, Al |-> al, interval |-> interval, tables |-> new, left |-> left]
WholeScan(comps, interval, left) == ScanOf(comps, 0, 63, 0, 0, interval, << >>, left)
Comment == [marker |-> 254, data |-> <<7, 255, 217>>]
Profile == [marker |-> 226, data |-> <<1, 2, 3, 4, 5>>]
SaveAll == [i \in 1 .. 17 |-> [marker |-> IF i = 17 THEN 254 ELSE 223 + i, limit |-> 65535]]
SaveSome == <<[marker |-> 254, limit |-> 2], [marker |-> 224, limit |-> 1], [marker |-> 226, limit |-> 0]>>
JfifInfo == [major |-> 1, minor |-> 2, unit |-> 1, x |-> 300, y |-> 72]
BaseTables == Q(0, ScaledQuant(<<16, 11>>, QualityScaling(50), TRUE)) @@ Q(1, ScaledQuant(<<17, 18>>, QualityScaling(75), FALSE)) @@ HT("dc", 0, 0) @@ HT("ac", 0, 1) @@ HT("dc", 1, 2) @@ HT("ac", 1, 3)
Image == [is |-> "image", all |-> TRUE, room |-> 1000, fails |-> FALSE, tables |-> BaseTables, precision |-> 8, width |-> 300, height |-> 2,
          progressive |-> FALSE, space |-> "ycbcr", jfif |-> JfifInfo, adobe |-> FALSE, extra |-> << >>, cut |-> 0, save |-> << >>,
          comps |-> <<FileComp(1, 2, 0, 0, 0), FileComp(2, 1, 1, 1, 1)>>, scans |-> <<WholeScan(<<1, 2>>, 0, << >>)>>]
\* Scans of one component have other restart intervals than interleaved ones.
TwoParts == [Image EXCEPT !.scans = <<WholeScan(<<1>>, 4, <<3, 255, 0, 9>>), WholeScan(<<2>>, 2, <<255, 255>>)>>, !.extra = <<Comment, Profile>>]
Refined == [Image EXCEPT !.progressive = TRUE, !.tables = Q(0, ScaledQuant(<<16, 11>>, QualityScaling(2), FALSE)) @@ Q(3, <<1, 2>>), !.jfif = << >>, !.adobe = TRUE, !.space = "rgb",
              !.comps = <<FileComp(82, 1, 0, 0, 0), FileComp(71, 1, 3, 2, 0)>>,
              !.scans = <<ScanOf(<<1, 2>>, 0, 0, 0, 1, 5, HT("dc", 0, 4) @@ HT("dc", 2, 5), <<255, 208, 1>>),
                          ScanOf(<<1>>, 1, 63, 0, 0, 3, HT("ac", 0, 6), << >>),
                          ScanOf(<<2>>, 1, 63, 0, 0, 3, HT("ac", 0, 7), << >>),
                          ScanOf(<<2, 1>>, 0, 0, 1, 0, 5, << >>, << >>)>>]
Tables(t) == [is |-> "tables", room |-> 1000, fails |-> FALSE, tables |-> t, cut |-> 0, save |-> << >>]
Abbreviated(f) == [f EXCEPT !.all = FALSE, !.tables = << >>]
Fails(f, room) == [f EXCEPT !.room = room, !.fails = TRUE]
CopyOf(f) == [f EXCEPT !.is = "copy", !.save = SaveAll]
Seg(m, b) == Segment(m, b)
Soi == <<255, 216>>
Eoi == <<255, 217>>
Sof(n, hv) == Seg(192, <<n, 0, 1, 0, 1, 1, 1, hv, 0>>)
Sos(id) == Seg(218, <<1, id, 0, 0, 63, 0>>)
For(bytes, verdict, facts) == [is |-> "foreign", bytes |-> Soi \o bytes, verdict |-> verdict, facts |-> facts, cut |-> 0, save |-> << >>]
Bad(bytes) == For(bytes, "refused", << >>)
OneGray == <<8, 0, 1, 0, 1, 1, 1, 17, 0>>
ForeignFiles ==
  {[Bad(<< >>) EXCEPT !.bytes = <<1, 2, 3>>], [Bad(<< >>) EXCEPT !.bytes = << >>], Bad(Soi), Bad(Sof(8, 17) \o Sof(8, 17)), Bad(Sos(1)),
   Bad(Seg(195, <<8, 0, 1, 0, 1, 1, 1, 17, 0>>)), Bad(<<255, 2>>), Bad(Sof(8, 17) \o Sos(2)), Bad(Seg(219, <<4, 1, 1>>)),
   Bad(Seg(196, <<4, 1, 0, 7>>)), Bad(Seg(196, <<48, 1, 0, 7>>)), Bad(Seg(196, <<0, 1, 3, 7>>)), Bad(Seg(221, <<0, 1, 1>>)),
   Bad(Sof(8, 17) \o Seg(218, <<1, 1, 0, 0, 63>>)), Bad(Seg(192, <<8, 0, 1, 0, 0, 1, 1, 17, 0>>)), Bad(Seg(192, <<8, 0, 1, 0, 1, 2, 1, 17, 0>>)),
   Bad(Sof(12, 17) \o Sos(1)), Bad(Sof(8, 81) \o Sos(1)), Bad(Sof(8, 16) \o Sos(1)), Bad(Sof(8, 17) \o Eoi), Bad(Seg(219, <<0, 1, 1, 1>>)),
   For(Seg(201, OneGray) \o Sos(1), "refused", [arith_code |-> TRUE, progressive |-> FALSE, input_scan_number |-> 1]),
   For(Seg(202, OneGray) \o Sos(1), "refused", [arith_code |-> TRUE, progressive |-> TRUE, input_scan_number |-> 1]),
   Bad(Sof(8, 17) \o Sos(1) \o Sos(1)), Bad(Seg(196, <<0, 1, 0, 7, 9>>)),
   For(Eoi, "ended", << >>),
   For(<<255, 255, 255>> \o Tail(Seg(219, <<0, 5, 6, 17, 1, 2, 3, 4>>)) \o <<9, 255, 0>> \o Seg(196, <<1, 1, 0, 7, 17, 0, 2, 8, 9>>) \o <<255, 208, 255, 1>>
         \o Seg(220, <<0, 5>>) \o Seg(204, <<0, 5>>) \o Seg(254, << >>) \o <<255, 254, 0, 1>> \o Seg(224, Jfif \o <<1, 2>>) \o Seg(230, Jfif)
         \o Seg(238, Adobe \o <<0, 100, 0, 0, 0, 0, 2, 9>>) \o Seg(221, <<1, 2>>) \o Sof(8, 17) \o Sos(1) \o Eoi, "ended",
       [tables |-> [quant |-> (0 :> <<5, 6>> @@ 1 :> <<258, 772>> @@ 2 :> << >> @@ 3 :> << >>),
                    dc |-> (0 :> << >> @@ 1 :> [bits |-> <<1, 0>>, huffval |-> <<7>>] @@ 2 :> << >> @@ 3 :> << >>),
                    ac |-> (0 :> << >> @@ 1 :> [bits |-> <<0, 2>>, huffval |-> <<8, 9>>] @@ 2 :> << >> @@ 3 :> << >>)],
        jfif |-> << >>, adobe |-> 2, restart_interval |-> 258, marker_list |-> << >>, input_scan_number |-> 1, width |-> 1])}
MCFileJobs ==
  {[files |-> fs] : fs \in
     {<<[TwoParts EXCEPT !.save = SaveAll], CopyOf(TwoParts)>>, <<[TwoParts EXCEPT !.save = SaveSome], [CopyOf(TwoParts) EXCEPT !.save = << >>, !.extra = <<[Comment EXCEPT !.data = <<7, 255>>]>>]>>, <<Refined, Image>>,
      <<Tables(BaseTables), Abbreviated(TwoParts), Fails(Abbreviated(Image), 30), TwoParts>>,
      <<Fails([Image EXCEPT !.width = 65536], 1000), Fails([Image EXCEPT !.scans[1].tables = HT("dc", 2, 1), !.comps[1].tq = 2], 1000)>>}
     \cup {<<[TwoParts EXCEPT !.cut = c]>> : c \in {2, 3, 7, 14, 40, 60, 100, 120}}
     \cup {<<Fails(Abbreviated(TwoParts), r), TwoParts>> : r \in {1, 2, 40}} \cup {<<Fails(TwoParts, r), TwoParts>> : r \in {25, 60, 90, 126}}
     \cup {<<f>> : f \in ForeignFiles}}
MCReceived == 0 .. 12

\* Row jobs: pictures of a few rows, in full size and in half of it.
Writing(w, h, comps, smooth) == [at |-> "write", info |-> Layout(w, h, comps), smooth |-> smooth]
Reading(w, h, comps, size, fancy, rgb, needed, quantize, passes) ==
  [at |-> "start", info |-> Layout(w, h, comps), size |-> size, fancy |-> fancy, rgb |-> rgb, needed |-> needed, quantize |-> quantize,
   passes |-> passes, pass |-> 0]
MCLineJobs ==
  {Writing(5, n, YCb(s[1], s[2]), sm) : n \in {1, 3, 4, 5, 8}, s \in {<<2, 1>>, <<2, 2>>, <<3, 1>>, <<2, 3>>}, sm \in {0, 60}}
  \cup {Reading(5, n, YCb(s[1], s[2]), 2, f, FALSE, {1, 2}, "none", 1) : n \in {1, 4, 5, 7, 9}, s \in {<<2, 1>>, <<2, 2>>, <<1, 2>>}, f \in BOOLEAN}
  \cup {Reading(9, n, YCb(s[1], s[2]), 1, f, FALSE, {1, 2}, "none", 1) : n \in 5 .. 6, s \in {<<2, 2>>, <<4, 4>>}, f \in BOOLEAN}
  \cup {Reading(5, n, Y2C(2, v), 2, FALSE, TRUE, {1, 2, 3}, q, 2) : n \in {5, 6}, v \in {1, 2}, q \in {"none", "2pass"}}
  \cup {Reading(5, n, Y2C(2, v), 2, TRUE, TRUE, {1, 2, 3}, q, 2) : n \in {7, 8}, v \in {1, 2}, q \in {"1pass", "2pass"}}
  \cup {Reading(5, 6, Y2C(2, 2), 2, TRUE, FALSE, {1}, "none", 1), Reading(5, 9, YCb(3, 4), 2, TRUE, FALSE, {1, 2}, "none", 1)}
\* Eight rows in strips of three, of which calls take one or three.
StripsOfThree == {Reading(5, 8, Y2C(1, 3), 2, FALSE, TRUE, {1, 2, 3}, "2pass", 1)}

\* What JpegProofs takes for granted of a job holds for these.
ASSUME InstanceInOrder == SamplingInOrder

=============================================================================
