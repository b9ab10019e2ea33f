------------------------------ MODULE Markers ------------------------------
(***************************************************************************)
(* The markers of JPEG files, from a compressor that writes them           *)
(* (jcmarker.c, and the calls of jcapimin.c, jcparam.c and transupp.c that *)
(* write tables and markers) to a decompressor that reads them             *)
(* (jdmarker.c, the headers' part of jdinput.c, and the source of          *)
(* jdatasrc.c where a file ends early).                                    *)
(*                                                                         *)
(* Both objects live through several files: tables stay, and so do the     *)
(* flags that say which the reader has been sent.  The destination may be  *)
(* too small, which aborts a file; bytes arrive when they arrive, and what *)
(* could not be read to its end is read again.                             *)
(*                                                                         *)
(* Bytes are numbers below 256.  Only the lengths of the tables are        *)
(* scaled; zigzag order is a renaming of a table's places.  Coded data are *)
(* left out: what follows an SOS marker in a file is what the entropy      *)
(* decoder leaves unread.                                                  *)
(***************************************************************************)
EXTENDS Integers, SequencesExt, FiniteSetsExt

CONSTANTS FileJobs,       \* sequences of files, written or foreign, and how they are read
          QuantLen,       \* 64: values of a quantisation table
          CodeLengths,    \* 16: lengths of Huffman codes
          Received        \* numbers of unread bytes that may have arrived

ASSUME QuantLen \in Nat \ {0} /\ CodeLengths \in Nat \ {0} /\ Received \subseteq Nat

VARIABLES filing,         \* the job
          spot,           \* [at, file, scan]: what is being done
          comprs,         \* the compressor
          decomp,         \* the decompressor
          file,           \* the bytes written, and how many of them have been read
          meant, known    \* what the compressor had, the decompressor knows at each scan

markerVars == <<filing, spot, comprs, decomp, file, meant, known>>

NUM_TBLS == 4
Slots == 0 .. NUM_TBLS - 1
NoTable == << >>
High8(v) == v \div 256
Word16(b, i) == 256 * b[i] + b[i + 1]
Bytes2(v) == <<(v \div 256) % 256, v % 256>>

M == [SOF0 |-> 192, SOF1 |-> 193, SOF2 |-> 194, SOF9 |-> 201, SOF10 |-> 202, DHT |-> 196, RST0 |-> 208, RST7 |-> 215, SOI |-> 216, EOI |-> 217,
      SOS |-> 218, DQT |-> 219, DNL |-> 220, DRI |-> 221, DAC |-> 204, APP0 |-> 224, APP14 |-> 238, APP15 |-> 239,
      TEM |-> 1, COM |-> 254]
Jfif == <<74, 70, 73, 70, 0>>
Adobe == <<65, 100, 111, 98, 101>>
APP0_DATA_LEN == 14
APP14_DATA_LEN == 12
Apps == M.APP0 .. M.APP15

(***************************************************************************)
(* The writer: a record with the tables of three classes, "quant", "dc"    *)
(* and "ac", whether each has been sent, the last restart interval, and    *)
(* what it has put out.  emit_byte fails when the destination gets full.   *)
(***************************************************************************)
Classes == {"quant", "dc", "ac"}
NewCompressor ==
  [tables |-> [c \in Classes |-> [s \in Slots |-> NoTable]], sent |-> [c \in Classes |-> [s \in Slots |-> FALSE]],
   last_restart_interval |-> 0, out |-> << >>, room |-> 0, error |-> FALSE]

jinit_marker_writer(w) == [w EXCEPT !.last_restart_interval = 0]

Emit(w, bytes) ==
  IF w.error THEN w
  ELSE IF Len(w.out) + Len(bytes) >= w.room THEN [w EXCEPT !.error = TRUE]
  ELSE [w EXCEPT !.out = @ \o bytes]
Segment(marker, body) == <<255, marker>> \o Bytes2(Len(body) + 2) \o body

EmitTable(w, class, slot, bytes) ==
  IF w.sent[class][slot] THEN w
  ELSE LET e == Emit(w, bytes) IN IF e.error THEN e ELSE [e EXCEPT !.sent[class][slot] = TRUE]

Precise(values) == \E i \in DOMAIN values : values[i] > 255
QuantBytes(slot, values) ==
  IF Precise(values) THEN <<slot + 16>> \o FlattenSeq([i \in DOMAIN values |-> Bytes2(values[i])])
  ELSE <<slot>> \o values
emit_dqt(w, slot) ==
  IF w.tables.quant[slot] = NoTable THEN [w EXCEPT !.error = TRUE]
  ELSE EmitTable(w, "quant", slot, Segment(M.DQT, QuantBytes(slot, w.tables.quant[slot])))

HuffBytes(class, slot, table) == <<IF class = "ac" THEN slot + 16 ELSE slot>> \o table.bits \o table.huffval
emit_dht(w, class, slot) ==
  IF w.tables[class][slot] = NoTable THEN [w EXCEPT !.error = TRUE]
  ELSE EmitTable(w, class, slot, Segment(M.DHT, HuffBytes(class, slot, w.tables[class][slot])))

emit_dri(w, interval) == Emit(w, Segment(M.DRI, Bytes2(interval)))

emit_sof(w, f, code) ==
  IF f.height > 65535 \/ f.width > 65535 THEN [w EXCEPT !.error = TRUE]
  ELSE Emit(w, Segment(code, <<f.precision>> \o Bytes2(f.height) \o Bytes2(f.width) \o <<Len(f.comps)>>
         \o FlattenSeq([i \in DOMAIN f.comps |-> <<f.comps[i].id, 16 * f.comps[i].h + f.comps[i].v, f.comps[i].tq>>])))

\* A progressive scan that does not use a table has zero for its number.
TableByte(f, scan, c) ==
  LET td == IF f.progressive /\ (scan.Ss # 0 \/ scan.Ah # 0) THEN 0 ELSE f.comps[c].td
      ta == IF f.progressive /\ scan.Ss = 0 THEN 0 ELSE f.comps[c].ta
  IN 16 * td + ta
emit_sos(w, f, scan) ==
  Emit(w, Segment(M.SOS, <<Len(scan.comps)>>
            \o FlattenSeq([i \in DOMAIN scan.comps |-> <<f.comps[scan.comps[i]].id, TableByte(f, scan, scan.comps[i])>>])
            \o <<scan.Ss, scan.Se, 16 * scan.Ah + scan.Al>>))

emit_jfif_app0(w, f) ==
  IF f.jfif = << >> THEN w
  ELSE Emit(w, Segment(M.APP0, Jfif \o <<f.jfif.major, f.jfif.minor, f.jfif.unit>> \o Bytes2(f.jfif.x) \o Bytes2(f.jfif.y) \o <<0, 0>>))
AdobeTransform(space) == CASE space = "ycbcr" -> 1 [] space = "ycck" -> 2 [] OTHER -> 0
emit_adobe_app14(w, f) ==
  IF ~f.adobe THEN w
  ELSE Emit(w, Segment(M.APP14, Adobe \o Bytes2(100) \o <<0, 0, 0, 0>> \o <<AdobeTransform(f.space)>>))

jpeg_write_marker(w, marker, data) ==
  IF Len(data) > 65533 THEN [w EXCEPT !.error = TRUE] ELSE Emit(w, Segment(marker, data))

-----------------------------------------------------------------------------
jpeg_suppress_tables(w, suppress) ==
  [w EXCEPT !.sent = [c \in Classes |-> [s \in Slots |-> IF w.tables[c][s] = NoTable THEN @[c][s] ELSE suppress]]]

write_file_header(w, f) ==
  emit_adobe_app14(emit_jfif_app0([Emit(w, <<255, M.SOI>>) EXCEPT !.last_restart_interval = 0], f), f)

IsBaseline(w, f) ==
  /\ ~f.progressive /\ f.precision = 8
  /\ \A i \in DOMAIN f.comps : f.comps[i].td <= 1 /\ f.comps[i].ta <= 1 /\ ~Precise(w.tables.quant[f.comps[i].tq])
write_frame_header(w, f) ==
  LET t == FoldLeft(LAMBDA e, c : emit_dqt(e, c.tq), w, f.comps)
  IN IF t.error THEN t
     ELSE emit_sof(t, f, IF f.progressive THEN M.SOF2 ELSE IF IsBaseline(w, f) THEN M.SOF0 ELSE M.SOF1)

\* The tables a component of a scan is coded with, in the order in which they are sent.
CodedWith(f, scan, c) ==
  LET dc == <<"dc", f.comps[c].td>>  ac == <<"ac", f.comps[c].ta>>
  IN IF ~f.progressive THEN <<dc, ac>>
     ELSE IF scan.Ss # 0 THEN <<ac>> ELSE IF scan.Ah = 0 THEN <<dc>> ELSE << >>
write_scan_header(w, f, scan) ==
  LET needed == FlattenSeq([i \in DOMAIN scan.comps |-> CodedWith(f, scan, scan.comps[i])])
      t == FoldLeft(LAMBDA e, n : emit_dht(e, n[1], n[2]), w, needed)
      d == IF scan.interval = t.last_restart_interval THEN t
           ELSE [emit_dri(t, scan.interval) EXCEPT !.last_restart_interval = scan.interval]
  IN emit_sos(d, f, scan)

write_tables_only(w) ==
  LET Every(e, class, slot) == IF w.tables[class][slot] = NoTable THEN e
                               ELSE IF class = "quant" THEN emit_dqt(e, slot) ELSE emit_dht(e, class, slot)
      quants == FoldLeft(LAMBDA e, s : Every(e, "quant", s), Emit(w, <<255, M.SOI>>), <<0, 1, 2, 3>>)
      huffs == FoldLeft(LAMBDA e, s : Every(Every(e, "dc", s), "ac", s), quants, <<0, 1, 2, 3>>)
  IN Emit(huffs, <<255, M.EOI>>)

\* A table of the application or of the encoder replaces the one in a slot and has to be sent.
Replace(w, new) ==
  [w EXCEPT !.tables = [c \in Classes |-> [s \in Slots |-> IF <<c, s>> \in DOMAIN new THEN new[<<c, s>>] ELSE @[c][s]]],
            !.sent = [c \in Classes |-> [s \in Slots |-> @[c][s] /\ <<c, s>> \notin DOMAIN new]]]

(* jpeg_add_quant_table, jpeg_quality_scaling *)
QualityScaling(quality) ==
  LET q == IF quality <= 0 THEN 1 ELSE IF quality > 100 THEN 100 ELSE quality
  IN IF q < 50 THEN 5000 \div q ELSE 200 - q * 2
ScaledQuant(basic, scale_factor, force_baseline) ==
  [i \in DOMAIN basic |->
     LET temp == (basic[i] * scale_factor + 50) \div 100
         limited == IF temp <= 0 THEN 1 ELSE IF temp > 32767 THEN 32767 ELSE temp
     IN IF force_baseline /\ limited > 255 THEN 255 ELSE limited]

\* jcopy_markers_execute: what a copy of a file takes over of its saved markers.
Starts(data, name) == Len(data) >= Len(name) /\ SubSeq(data, 1, Len(name)) = name
Copied(list, f) ==
  SelectSeq(list, LAMBDA m : /\ ~(f.jfif # << >> /\ m.marker = M.APP0 /\ Starts(m.data, Jfif))
                             /\ ~(f.adobe /\ m.marker = M.APP14 /\ Starts(m.data, Adobe)))
ExtraMarkers(w, list) == FoldLeft(LAMBDA e, m : jpeg_write_marker(e, m.marker, m.data), w, list)

(***************************************************************************)
(* The reader.  A routine gets the bytes at hand and says how many it has  *)
(* used up, with what it has stored; "short" when it must be called again. *)
(***************************************************************************)
Through(r, used) == [is |-> "done", r |-> r, used |-> used]
Short(r, used) == [is |-> "short", r |-> r, used |-> used]
Refused(r) == [is |-> "error", r |-> r, used |-> 0]

NoMarker == << >>
NewDecompressor ==
  [tables |-> [c \in Classes |-> [s \in Slots |-> NoTable]], limits |-> [m \in Apps \cup {M.COM} |-> 0],
   unread_marker |-> 0, saw_SOI |-> FALSE, saw_SOF |-> FALSE, cur_marker |-> NoMarker, bytes_read |-> 0,
   marker_list |-> << >>, input_scan_number |-> 0, restart_interval |-> 0, progressive |-> FALSE, arith_code |-> FALSE,
   precision |-> 0, height |-> 0, width |-> 0, num_components |-> 0, comps |-> << >>, cur |-> << >>,
   Ss |-> 0, Se |-> 0, Ah |-> 0, Al |-> 0, jfif |-> << >>, adobe |-> -1,
   inheaders |-> TRUE, has_multiple_scans |-> FALSE, next_restart_num |-> 0]

\* reset_input_controller and reset_marker_reader, and the list that jpeg_abort has dropped.
reset_marker_reader(r) ==
  [r EXCEPT !.comps = << >>, !.input_scan_number = 0, !.unread_marker = 0, !.saw_SOI = FALSE, !.saw_SOF = FALSE,
            !.cur_marker = NoMarker, !.marker_list = << >>, !.inheaders = TRUE, !.has_multiple_scans = FALSE]

jpeg_save_markers(r, marker, limit) ==
  [r EXCEPT !.limits[marker] = IF limit = 0 THEN 0
                               ELSE IF marker = M.APP0 /\ limit < APP0_DATA_LEN THEN APP0_DATA_LEN
                               ELSE IF marker = M.APP14 /\ limit < APP14_DATA_LEN THEN APP14_DATA_LEN ELSE limit]

get_soiMutant(r) ==   \* the last file's restart interval stays
  IF r.saw_SOI THEN Refused(r) ELSE Through([r EXCEPT !.jfif = << >>, !.adobe = -1, !.saw_SOI = TRUE], 0)
get_soi(r) ==
  IF r.saw_SOI THEN Refused(r)
  ELSE Through([r EXCEPT !.restart_interval = 0, !.jfif = << >>, !.adobe = -1, !.saw_SOI = TRUE], 0)

\* What has arrived of the header is stored, also when the rest is missing.
Arrived(b, i, old) == IF Len(b) >= i THEN b[i] ELSE old
Arrived2(b, i, old) == IF Len(b) > i THEN Word16(b, i) ELSE old
SofComponent(b, i) == [id |-> b[i], h |-> b[i + 1] \div 16, v |-> b[i + 1] % 16, tq |-> b[i + 2], td |-> 0, ta |-> 0]
get_sof(r, b, is_prog, is_arith) ==
  LET head == [r EXCEPT !.progressive = is_prog, !.arith_code = is_arith, !.precision = Arrived(b, 3, @), !.height = Arrived2(b, 4, @),
                        !.width = Arrived2(b, 6, @), !.num_components = Arrived(b, 8, @)]
      n == head.num_components
  IN IF Len(b) < 8 THEN Short(head, 0)
     ELSE IF \/ r.saw_SOF
             \/ head.height = 0 \/ head.width = 0 \/ n = 0
             \/ Word16(b, 1) - 8 # 3 * n THEN Refused(head)
     ELSE IF Len(b) < 8 + 3 * n THEN Short(head, 0)
     ELSE Through([head EXCEPT !.comps = [i \in 1 .. n |-> SofComponent(b, 6 + 3 * i)], !.saw_SOF = TRUE], 8 + 3 * n)

FirstWith(comps, id) == LET found == {i \in DOMAIN comps : comps[i].id = id} IN IF found = {} THEN 0 ELSE Min(found)
get_sos(r, b) ==
  LET n == b[3]
      came == {i \in 1 .. n : Len(b) >= 3 + 2 * i}      \* components of which both bytes are there
      index == [i \in came |-> FirstWith(r.comps, b[2 + 2 * i])]
      Byte(c) == b[3 + 2 * Max({i \in came : index[i] = c})]
      chosen == [r EXCEPT
        !.cur = IF came = 1 .. n THEN [i \in 1 .. n |-> index[i]] ELSE @,
        !.comps = [c \in DOMAIN r.comps |-> IF \E i \in came : index[i] = c
                                            THEN [r.comps[c] EXCEPT !.td = Byte(c) \div 16, !.ta = Byte(c) % 16] ELSE r.comps[c]],
        !.Ss = Arrived(b, 4 + 2 * n, @), !.Se = Arrived(b, 5 + 2 * n, @)]
  IN IF ~r.saw_SOF THEN Refused(r)
     ELSE IF Len(b) < 3 THEN Short(r, 0)
     ELSE IF Word16(b, 1) # 2 * n + 6 \/ n < 1 \/ n > 4 THEN Refused(r)
     ELSE IF \E i \in came : index[i] = 0 THEN Refused(chosen)
     ELSE IF Len(b) < 6 + 2 * n THEN Short(chosen, 0)
     ELSE Through([chosen EXCEPT !.Ah = b[6 + 2 * n] \div 16, !.Al = b[6 + 2 * n] % 16,
                                  !.next_restart_num = 0, !.input_scan_number = @ + 1], 6 + 2 * n)

RECURSIVE HuffTables(_, _, _, _)
HuffTables(r, b, at, length) ==
  IF length <= CodeLengths THEN IF length # 0 THEN Refused(r) ELSE Through(r, at)
  ELSE IF Len(b) < at + 1 + CodeLengths THEN Short(r, 0)
  ELSE LET index == b[at + 1]
           bits == SubSeq(b, at + 2, at + 1 + CodeLengths)
           count == FoldLeft(LAMBDA s, v : s + v, 0, bits)
           end == at + 1 + CodeLengths + count
           class == IF (index \div 16) % 2 = 1 THEN "ac" ELSE "dc"
           slot == IF class = "ac" THEN index - 16 ELSE index
       IN IF count > 256 \/ count > length - 1 - CodeLengths THEN Refused(r)
          ELSE IF Len(b) < end THEN Short(r, 0)
          ELSE IF slot \notin Slots THEN Refused(r)
          ELSE HuffTables([r EXCEPT !.tables[class][slot] = [bits |-> bits, huffval |-> SubSeq(b, end - count + 1, end)]],
                          b, end, length - (end - at))
get_dht(r, b) == IF Len(b) < 2 THEN Short(r, 0) ELSE HuffTables(r, b, 2, Word16(b, 1) - 2)

\* The values go straight into the table; a table that is new holds anything until then.
Unknown == [i \in 1 .. QuantLen |-> -1]
RECURSIVE GetQuantTables(_, _, _, _)
GetQuantTables(r, b, at, length) ==
  IF length <= 0 THEN IF length # 0 THEN Refused(r) ELSE Through(r, at)
  ELSE IF Len(b) <= at THEN Short(r, 0)
  ELSE LET n == b[at + 1] % 16
           width == IF b[at + 1] \div 16 = 0 THEN 1 ELSE 2
           old == IF r.tables.quant[n] = NoTable THEN Unknown ELSE r.tables.quant[n]
           Value(i) == IF width = 1 THEN Arrived(b, at + 1 + i, old[i]) ELSE Arrived2(b, at + 2 * i, old[i])
           end == at + 1 + QuantLen * width
       IN IF n >= NUM_TBLS THEN Refused(r)
          ELSE LET filled == [r EXCEPT !.tables.quant[n] = [i \in 1 .. QuantLen |-> Value(i)]]
               IN IF Len(b) < end THEN Short(filled, 0) ELSE GetQuantTables(filled, b, end, length - (end - at))
get_dqt(r, b) == IF Len(b) < 2 THEN Short(r, 0) ELSE GetQuantTables(r, b, 2, Word16(b, 1) - 2)

get_dri(r, b) ==
  IF Len(b) < 2 THEN Short(r, 0) ELSE IF Word16(b, 1) # 4 THEN Refused(r)
  ELSE IF Len(b) < 4 THEN Short(r, 0) ELSE Through([r EXCEPT !.restart_interval = Word16(b, 3)], 4)

examine_app0(r, d) ==
  IF Len(d) >= APP0_DATA_LEN /\ Starts(d, Jfif)
  THEN [r EXCEPT !.jfif = [major |-> d[6], minor |-> d[7], unit |-> d[8], x |-> Word16(d, 9), y |-> Word16(d, 11)]] ELSE r
examine_app14(r, d) == IF Len(d) >= APP14_DATA_LEN /\ Starts(d, Adobe) THEN [r EXCEPT !.adobe = d[12]] ELSE r
Examined(r, d) ==
  IF r.unread_marker = M.APP0 THEN examine_app0(r, d) ELSE IF r.unread_marker = M.APP14 THEN examine_app14(r, d) ELSE r

get_interesting_appn(r, b) ==
  IF Len(b) < 2 THEN Short(r, 0)
  ELSE LET length == Max({Word16(b, 1) - 2, 0})
           numtoread == Min({length, APP0_DATA_LEN})
       IN IF Len(b) < 2 + numtoread THEN Short(r, 0) ELSE Through(Examined(r, SubSeq(b, 3, 2 + numtoread)), 2 + length)

\* The only routine that goes on where it was: what it has got is in cur_marker.
SavePart(r, b, used) ==
  LET got == Min({Len(b) - used, r.cur_marker.data_length - r.bytes_read})
      part == [r EXCEPT !.cur_marker.data = @ \o SubSeq(b, used + 1, used + got), !.bytes_read = @ + got]
      whole == [part EXCEPT !.marker_list = Append(@, part.cur_marker), !.cur_marker = NoMarker]
  IN IF part.bytes_read < part.cur_marker.data_length THEN Short(part, used + got)
     ELSE Through(Examined(whole, part.cur_marker.data),
                   used + got + (part.cur_marker.original_length - part.cur_marker.data_length))
save_marker(r, b) ==
  IF r.cur_marker # NoMarker THEN SavePart(r, b, 0)
  ELSE IF Len(b) < 2 THEN Short(r, 0)
  ELSE LET length == Word16(b, 1) - 2
           new == [marker |-> r.unread_marker, original_length |-> length,
                   data_length |-> Min({length, r.limits[r.unread_marker]}), data |-> << >>]
       IN IF length < 0 THEN Through(r, 2)
          ELSE SavePart([r EXCEPT !.cur_marker = new, !.bytes_read = 0], b, 2)

skip_variable(r, b) == IF Len(b) < 2 THEN Short(r, 0) ELSE Through(r, 2 + Max({Word16(b, 1) - 2, 0}))

\* What is skipped is given up at once: other bytes than FF, and FF with a zero after it.
RECURSIVE SeekMarker(_, _, _)
SeekMarker(r, b, at) ==
  LET after == {i \in at + 2 .. Len(b) : b[i] # 255}
  IN IF Len(b) = at THEN Short(r, at)
     ELSE IF b[at + 1] # 255 THEN SeekMarker(r, b, at + 1)
     ELSE IF after = {} THEN Short(r, at)
     ELSE IF b[Min(after)] = 0 THEN SeekMarker(r, b, Min(after))
     ELSE Through([r EXCEPT !.unread_marker = b[Min(after)]], Min(after))
first_marker(r, b) ==
  IF Len(b) < 2 THEN Short(r, 0)
  ELSE IF b[1] # 255 \/ b[2] # M.SOI THEN Refused(r) ELSE Through([r EXCEPT !.unread_marker = b[2]], 2)

Process(r, b) ==
  LET m == r.unread_marker
  IN CASE m = M.SOI -> get_soi(r)
     [] m \in {M.SOF0, M.SOF1} -> get_sof(r, b, FALSE, FALSE)
     [] m = M.SOF2 -> get_sof(r, b, TRUE, FALSE)
     [] m = M.SOF9 -> get_sof(r, b, FALSE, TRUE)
     [] m = M.SOF10 -> get_sof(r, b, TRUE, TRUE)
     [] m = M.SOS -> get_sos(r, b)
     [] m = M.EOI -> Through(r, 0)
     [] m = M.DHT -> get_dht(r, b)
     [] m = M.DQT -> get_dqt(r, b)
     [] m = M.DRI -> get_dri(r, b)
     [] m \in DOMAIN r.limits /\ r.limits[m] > 0 -> save_marker(r, b)
     [] m \in {M.APP0, M.APP14} /\ r.limits[m] = 0 -> get_interesting_appn(r, b)
     [] m \in (Apps \ {M.APP0, M.APP14}) \cup {M.COM} /\ r.limits[m] = 0 -> skip_variable(r, b)
     [] m \in {M.DAC, M.DNL} -> skip_variable(r, b)
     [] m \in (M.RST0 .. M.RST7) \cup {M.TEM} -> Through(r, 0)
     [] OTHER -> Refused(r)

\* One round of read_markers.  The marker is used up as soon as it is read.
ReadMarker(r, b) ==
  LET m == IF r.unread_marker # 0 THEN Through(r, 0)
           ELSE IF r.saw_SOI THEN SeekMarker(r, b, 0) ELSE first_marker(r, b)
      p == Process(m.r, SubSeq(b, m.used + 1, Len(b)))
  IN IF m.is # "done" THEN m ELSE [p EXCEPT !.used = @ + m.used]

(* consume_markers and initial_setup: whether what a marker says fits. *)
BadFrame(r) ==
  \/ r.height > 65500 \/ r.width > 65500 \/ r.precision # 8 \/ r.num_components > 10
  \/ \E i \in DOMAIN r.comps : r.comps[i].h \notin 1 .. 4 \/ r.comps[i].v \notin 1 .. 4
BadScan(r) == IF r.inheaders THEN BadFrame(r) ELSE ~r.has_multiple_scans
AfterSos(r) ==
  IF r.inheaders THEN [r EXCEPT !.inheaders = FALSE, !.has_multiple_scans = Len(r.cur) < r.num_components \/ r.progressive]
  ELSE r
\* The decompression that starts after the first SOS finds that nothing decodes arithmetic codes.
NotImplemented(r) == r.inheaders /\ r.arith_code
BadEnd(r) == r.inheaders /\ r.saw_SOF

(* fill_input_buffer and skip_input_data: after the end of a file come EOI
   markers, two bytes at a time. *)
EndOfFile == FlattenSeq([i \in 1 .. 40 |-> <<255, M.EOI>>])
Supply(f) ==
  IF f.read <= Len(f.bytes) THEN SubSeq(f.bytes, f.read + 1, Len(f.bytes)) \o EndOfFile
  ELSE SubSeq(EndOfFile, ((f.read - Len(f.bytes)) % 2) + 1, Len(EndOfFile))

-----------------------------------------------------------------------------
This == filing.files[spot.file]
ThisScan == This.scans[spot.scan]

\* The facts of a scan that a decoder must have: from the writer, and from the reader.
MeantScan(w, f, scan) ==
  [progressive |-> f.progressive, size |-> <<f.width, f.height, f.precision>>, interval |-> scan.interval,
   selected |-> <<scan.Ss, scan.Se, scan.Ah, scan.Al>>, of |-> Len(f.comps),
   comps |-> [i \in DOMAIN scan.comps |-> LET c == f.comps[scan.comps[i]] IN <<c.id, c.h, c.v, w.tables.quant[c.tq]>>],
   coded |-> [i \in DOMAIN scan.comps |-> LET used == CodedWith(f, scan, scan.comps[i])
                                          IN [k \in DOMAIN used |-> w.tables[used[k][1]][used[k][2]]]]]
KnownScan(r) ==
  [progressive |-> r.progressive, size |-> <<r.width, r.height, r.precision>>, interval |-> r.restart_interval,
   selected |-> <<r.Ss, r.Se, r.Ah, r.Al>>, of |-> r.num_components,
   comps |-> [i \in DOMAIN r.cur |-> LET c == r.comps[r.cur[i]] IN <<c.id, c.h, c.v, r.tables.quant[c.tq]>>],
   coded |-> [i \in DOMAIN r.cur |-> LET used == CodedWith(r, r, r.cur[i])
                                     IN [k \in DOMAIN used |-> r.tables[used[k][1]][used[k][2]]]]]

MarkerIdle ==
  /\ filing = << >> /\ spot = [at |-> "idle"] /\ comprs = << >> /\ decomp = << >> /\ file = << >> /\ meant = << >> /\ known = << >>
MarkerInit ==
  /\ filing \in FileJobs
  /\ spot = [at |-> "start", file |-> 1, scan |-> 1]
  /\ comprs = NewCompressor /\ decomp = NewDecompressor
  /\ file = [bytes |-> << >>, read |-> 0] /\ meant = << >> /\ known = << >>

\* A step of the writer; one that fails makes the application abort, and the file is not read.
Written(w, then) ==
  /\ comprs' = w
  /\ spot' = IF w.error THEN [spot EXCEPT !.at = "aborted"] ELSE then
  /\ UNCHANGED <<filing, decomp, file, known>>

\* jpeg_start_compress, after the application has set what it wants, with a marker writer that is
\* new to each file.
StartFile ==
  /\ spot.at = "start" /\ This.is \in {"image", "copy"}
  /\ LET new == Replace([comprs EXCEPT !.out = << >>, !.room = This.room, !.error = FALSE], This.tables)
         started == IF This.all THEN jpeg_suppress_tables(new, FALSE) ELSE new
     IN Written(write_file_header(jinit_marker_writer(started), This), [spot EXCEPT !.at = "extra"])
  /\ meant' = << >>
WriteExtra ==
  /\ spot.at = "extra"
  /\ Written(ExtraMarkers(comprs, IF This.is = "copy" THEN Copied(decomp.marker_list, This) ELSE This.extra),
             [spot EXCEPT !.at = "scan"])
  /\ UNCHANGED meant
\* The tables made for a scan by the entropy encoder are there before its header.
WriteScan ==
  /\ spot.at = "scan"
  /\ LET new == Replace(comprs, ThisScan.tables)
         framed == IF spot.scan = 1 THEN write_frame_header(new, This) ELSE new
         headed == Emit(write_scan_header(framed, This, ThisScan), ThisScan.left)
     IN /\ meant' = Append(meant, MeantScan(headed, This, ThisScan))
        /\ Written(headed, IF spot.scan = Len(This.scans) THEN [spot EXCEPT !.at = "trailer"] ELSE [spot EXCEPT !.scan = @ + 1])
WriteTrailerMarker ==
  /\ spot.at = "trailer"
  /\ Written(Emit(comprs, <<255, M.EOI>>), [spot EXCEPT !.at = "open"])
  /\ UNCHANGED meant
jpeg_write_tables ==
  /\ spot.at = "start" /\ This.is = "tables"
  /\ Written(write_tables_only(jinit_marker_writer(Replace([comprs EXCEPT !.out = << >>, !.room = This.room, !.error = FALSE], This.tables))),
             [spot EXCEPT !.at = "open"])
  /\ meant' = << >>
Foreign ==
  /\ spot.at = "start" /\ This.is = "foreign" /\ spot' = [spot EXCEPT !.at = "open"]
  /\ meant' = << >> /\ UNCHANGED <<filing, comprs, decomp, file, known>>

\* jpeg_read_header and, at any time before, jpeg_save_markers.  A file may be cut on its way.
OpenMarkers ==
  /\ spot.at = "open"
  /\ decomp' = FoldLeft(LAMBDA r, s : jpeg_save_markers(r, s.marker, s.limit), reset_marker_reader(decomp), This.save)
  /\ LET whole == IF This.is = "foreign" THEN This.bytes ELSE comprs.out
     IN file' = [bytes |-> SubSeq(whole, 1, Len(whole) - This.cut), read |-> 0]
  /\ spot' = [spot EXCEPT !.at = "read"] /\ known' = << >>
  /\ UNCHANGED <<filing, comprs, meant>>

\* A call with n bytes at hand, or with the rest of the file and what comes after its end.
Ended(verdict) == spot' = [spot EXCEPT !.at = verdict]
ReadMarkers ==
  /\ spot.at = "read"
  /\ \E n \in Received \cup {-1} :
       LET supply == Supply(file)
       IN /\ n = -1 \/ n < Len(file.bytes) - file.read
          /\ \E p \in {ReadMarker(decomp, IF n = -1 THEN supply ELSE SubSeq(supply, 1, n))} :
               /\ file' = [file EXCEPT !.read = @ + p.used]
               /\ \/ /\ p.is = "error" /\ Ended("refused") /\ decomp' = p.r /\ UNCHANGED known
                  \/ /\ p.is = "short" /\ decomp' = p.r /\ UNCHANGED known
                     /\ IF n = -1 THEN Ended("stuck") ELSE UNCHANGED spot
                  \/ /\ p.is = "done" /\ p.r.unread_marker \notin {M.SOS, M.EOI}
                     /\ decomp' = [p.r EXCEPT !.unread_marker = 0] /\ UNCHANGED <<known, spot>>
                  \/ /\ p.is = "done" /\ p.r.unread_marker = M.SOS
                     /\ decomp' = [AfterSos(p.r) EXCEPT !.unread_marker = 0]
                     /\ IF BadScan(p.r) \/ NotImplemented(p.r) THEN Ended("refused") /\ UNCHANGED known
                        ELSE known' = Append(known, KnownScan(p.r)) /\ UNCHANGED spot
                  \/ /\ p.is = "done" /\ p.r.unread_marker = M.EOI
                     /\ decomp' = [p.r EXCEPT !.unread_marker = 0] /\ UNCHANGED known
                     /\ IF BadEnd(p.r) THEN Ended("refused") ELSE Ended("ended")
  /\ UNCHANGED <<filing, comprs, meant>>

NextFile ==
  /\ spot.at \in {"ended", "refused", "aborted"} /\ spot.file < Len(filing.files)
  /\ spot' = [at |-> "start", file |-> spot.file + 1, scan |-> 1]
  /\ UNCHANGED <<filing, comprs, decomp, file, meant, known>>
MarkersDone ==
  /\ spot.at \in {"ended", "refused", "aborted"} /\ spot.file = Len(filing.files) /\ UNCHANGED markerVars

MarkerNext == \/ StartFile \/ WriteExtra \/ WriteScan \/ WriteTrailerMarker \/ jpeg_write_tables \/ Foreign
              \/ OpenMarkers \/ ReadMarkers \/ NextFile \/ MarkersDone

MarkerSpec == MarkerInit /\ [][MarkerNext]_markerVars

-----------------------------------------------------------------------------
\* The markers of a file that the application asked for, cut to the lengths it asked for.
FileMarkers(f) ==
  LET jfif == IF f.jfif = << >> THEN << >>
              ELSE <<[marker |-> M.APP0, data |-> Jfif \o <<f.jfif.major, f.jfif.minor, f.jfif.unit>> \o Bytes2(f.jfif.x) \o Bytes2(f.jfif.y) \o <<0, 0>>]>>
      adobe == IF ~f.adobe THEN << >>
               ELSE <<[marker |-> M.APP14, data |-> Adobe \o <<0, 100, 0, 0, 0, 0, AdobeTransform(f.space)>>]>>
  IN jfif \o adobe \o f.extra
AskedFor(f, r) ==
  LET asked == SelectSeq(FileMarkers(f), LAMBDA m : r.limits[m.marker] > 0)
  IN [i \in DOMAIN asked |-> [marker |-> asked[i].marker, original_length |-> Len(asked[i].data),
                              data |-> SubSeq(asked[i].data, 1, Min({Len(asked[i].data), r.limits[asked[i].marker]}))]]
Kept(r) == [i \in DOMAIN r.marker_list |-> [marker |-> r.marker_list[i].marker, data |-> r.marker_list[i].data,
                                            original_length |-> r.marker_list[i].original_length]]

\* However the bytes of a file arrive, at each SOS the reader has the frame, the tables, the
\* restart interval and the scan's parameters the writer had, although the writer sends a table
\* and an interval only when it believes the reader lacks it, over files that were aborted,
\* held tables only or left them out; at EOI it has each marker it was asked to save once, whole
\* up to the limit, and a copy of the file has them again (save_marker, jcopy_markers_execute).  A file
\* cut short gives no scan that was not in it, and reading it comes to an end.  A foreign file
\* is read, or refused, as its content demands.
MarkersKept ==
  /\ spot.at # "stuck"
  /\ spot.at \in {"aborted", "open"} /\ This.is # "foreign" => (This.fails = (spot.at = "aborted"))
  /\ spot.at \in {"read", "ended", "refused"} /\ This.is # "foreign" =>
       /\ \A i \in DOMAIN known : i <= Len(meant) /\ (known[i] = meant[i] \/ (This.cut > 0 /\ i = Len(known)))
       /\ This.cut = 0 => spot.at # "refused"
  /\ spot.at = "ended" /\ This.is \in {"image", "copy"} /\ This.cut = 0 =>
       /\ Len(known) = Len(meant)
       /\ Kept(decomp) = AskedFor(This, decomp)
       /\ decomp.jfif = This.jfif
       /\ decomp.adobe = IF This.adobe THEN AdobeTransform(This.space) ELSE -1
  /\ spot.at \in {"ended", "refused"} /\ This.is = "foreign" =>
       /\ spot.at = This.verdict
       /\ \A f \in DOMAIN This.facts : decomp[f] = This.facts[f]

=============================================================================
