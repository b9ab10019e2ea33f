------------------------------ MODULE JpegScan -----------------------------
(***************************************************************************)
(* The scans of a JPEG file from the encoder through a channel to the      *)
(* decoder.  The encoder codes each scan twice, to count and to write; its *)
(* destination may be full.  The channel may lose or repeat restart        *)
(* intervals.  The decoder has to do with the bytes that have arrived, and *)
(* tries again when more have.                                             *)
(*                                                                         *)
(* All components have one block per MCU; the coefficients of the decoder  *)
(* live in arrays, zero before the first scan.                             *)
(***************************************************************************)
EXTENDS EntropyDecoder

CONSTANTS ScanJobs,      \* what may be coded: [image, script, interval, dc_only]
          EndMarker,     \* the marker after a scan
          Rooms,         \* bytes the destination may have free
          Arrivals,      \* bytes that may have arrived when not all have
          MaxFaults      \* scans of a file the channel may damage

ASSUME EndMarker > RST0 + 7 /\ EndMarker < FF

VARIABLES work,          \* the job
          step,          \* "gather", "code", "channel", "decode", "done"
          scanNo, mcuNo, \* where in the job
          enc, tables,   \* the encoder and the Huffman tables
          stream,        \* the bytes written, or not yet read
          dec, coefs,    \* the decoder and its coefficient arrays
          faults,        \* scans damaged by the channel
          damaged        \* blocks it has taken data of: <<component, block>>

scanVars == <<work, step, scanNo, mcuNo, enc, tables, stream, dec, coefs, faults, damaged>>

Scan == work.script[scanNo]
Components == DOMAIN work.image
NumMcus == Len(work.image[1])
McuOf(arrays, i) == [c \in ToSet(Scan.comps) |-> arrays[c][i]]
NoTables == [t \in {"dc", "ac"} \X ToSet(dc_tbl_no \o ac_tbl_no) |-> << >>]
ZeroBlock == [k \in 0 .. DCTSIZE2 - 1 |-> 0]
Idle == << >>

StartEncoderPass(scan, tbls, gather) ==
  IF scan.progressive THEN start_pass_phuff(scan, work.interval, tbls, gather)
  ELSE start_pass_huff(scan, work.interval, tbls, gather)

\* Another part of the library runs.
ScanIdle ==
  /\ work = Idle /\ step = "idle" /\ scanNo = 0 /\ mcuNo = 0 /\ tables = Idle /\ enc = Idle
  /\ stream = << >> /\ dec = Idle /\ faults = 0 /\ damaged = {} /\ coefs = Idle

ScanInit ==
  /\ work \in ScanJobs
  /\ step = "gather" /\ scanNo = 1 /\ mcuNo = 1
  /\ tables = NoTables
  /\ enc = StartEncoderPass(work.script[1], NoTables, TRUE)
  /\ stream = << >> /\ dec = Idle /\ faults = 0 /\ damaged = {}
  /\ coefs = [c \in Components |-> [i \in 1 .. NumMcus |-> ZeroBlock]]

GatherMcu ==
  /\ step = "gather" /\ mcuNo <= NumMcus
  /\ enc' = LET mcu == McuOf(work.image, mcuNo)
            IN IF Scan.progressive THEN encode_mcu_phuff(enc, mcu) ELSE encode_mcu_gather(enc, mcu)
  /\ mcuNo' = mcuNo + 1
  /\ UNCHANGED <<work, step, scanNo, tables, stream, dec, coefs, faults, damaged>>

FinishGather ==
  /\ step = "gather" /\ mcuNo > NumMcus
  /\ tables' = IF Scan.progressive THEN finish_pass_gather_phuff(enc, tables)
               ELSE finish_pass_gather(enc, tables)
  /\ enc' = StartEncoderPass(Scan, tables', FALSE)
  /\ step' = "code" /\ mcuNo' = 1
  /\ UNCHANGED <<work, scanNo, stream, dec, coefs, faults, damaged>>

\* The application empties the destination's buffer between calls; a call that found too
\* little room is made again.
CodeMcu ==
  /\ step = "code" /\ mcuNo <= NumMcus
  /\ LET mcu == McuOf(work.image, mcuNo)
     IN IF Scan.progressive THEN enc' = encode_mcu_phuff(enc, mcu) /\ mcuNo' = mcuNo + 1
        ELSE \E room \in Rooms :
               /\ enc' = encode_mcu_huff(enc, mcu, room)
               /\ mcuNo' = IF enc' = enc THEN mcuNo ELSE mcuNo + 1
  /\ UNCHANGED <<work, step, scanNo, tables, stream, dec, coefs, faults, damaged>>

FinishCode ==
  /\ step = "code" /\ mcuNo > NumMcus
  /\ enc' = IF Scan.progressive THEN finish_pass_phuff(enc) ELSE finish_pass_huff(enc)
  /\ stream' = enc'.output \o <<FF, EndMarker>>
  /\ step' = "channel"
  /\ UNCHANGED <<work, scanNo, mcuNo, tables, dec, coefs, faults, damaged>>

-----------------------------------------------------------------------------
(* The channel.  Part i of a stream is the i-th restart marker and the     *)
(* data after it; part 0 has no marker; the end marker is never damaged.   *)

Markers == {i \in 1 .. Len(stream) - 2 : stream[i] = FF /\ stream[i + 1] # 0}
PartStart(i) == IF i = 0 THEN 1 ELSE SetToSortSeq(Markers, <)[i]
PartEnd(i) == IF i = Cardinality(Markers) THEN Len(stream) - 2 ELSE PartStart(i + 1) - 1
Part(i, j) == SubSeq(stream, PartStart(i), PartEnd(j))
BlocksOf(i) == {<<c, b>> \in ToSet(Scan.comps) \X (1 .. NumMcus) :
                  b \in work.interval * i + 1 .. work.interval * (i + 1)}
Replaced(i, j, bytes) == SubSeq(stream, 1, PartStart(i) - 1) \o bytes
                         \o SubSeq(stream, PartEnd(j) + 1, Len(stream))

Undamaged == UNCHANGED <<stream, faults, damaged>>
\* One or two intervals with their markers do not arrive.
LoseIntervals == \E i \in 1 .. Cardinality(Markers) : \E j \in {i, i + 1} \cap DOMAIN SetToSortSeq(Markers, <) :
                   /\ stream' = Replaced(i, j, << >>)
                   /\ damaged' = damaged \cup BlocksOf(i) \cup BlocksOf(j)
\* A marker does not arrive, and the data after it runs into the data before it.
LoseMarker == \E i \in 1 .. Cardinality(Markers) :
                /\ stream' = Replaced(i, i, SubSeq(Part(i, i), 3, Len(Part(i, i))))
                /\ damaged' = damaged \cup BlocksOf(i)
\* The data of an interval ends early.
CutInterval == \E i \in 0 .. Cardinality(Markers) :
                 /\ Markers # {}
                 /\ stream' = Replaced(i, i, SubSeq(Part(i, i), 1, IF i = 0 THEN 0 ELSE 2))
                 /\ damaged' = damaged \cup BlocksOf(i)
\* An interval arrives twice.
RepeatInterval == \E i \in 1 .. Cardinality(Markers) :
                    /\ stream' = Replaced(i, i, Part(i, i) \o Part(i, i))
                    /\ UNCHANGED damaged

Channel ==
  /\ step = "channel"
  /\ \/ Undamaged
     \/ /\ faults < MaxFaults /\ faults' = faults + 1
        /\ LoseIntervals \/ LoseMarker \/ CutInterval \/ RepeatInterval
  /\ step' = "decode" /\ mcuNo' = 1 /\ enc' = Idle
  /\ dec' = IF Scan.progressive THEN start_pass_phuff_decoder(Scan, work.interval, tables)
            ELSE start_pass_huff_decoder(Scan, work.interval, tables, work.dc_only)
  /\ UNCHANGED <<work, scanNo, tables, coefs>>

-----------------------------------------------------------------------------
\* A call with the first n bytes of the stream arrived.  The blocks of the MCU are in the
\* arrays: what a call that suspends has stored in them stays there.
Attempt(n) ==
  LET ready == [dec EXCEPT !.src = SubSeq(stream, 1, n), !.mcu = McuOf(coefs, mcuNo)]
  IN IF Scan.progressive THEN decode_mcu_phuff(ready) ELSE decode_mcu(ready)

DecodeMcuAttempt ==
  /\ step = "decode" /\ mcuNo <= NumMcus
  /\ \E n \in {Len(stream)} \cup {a \in Arrivals : a < Len(stream)} : \E done \in {Attempt(n)} :
       /\ stream' = done.src \o SubSeq(stream, n + 1, Len(stream))
       /\ coefs' = [c \in Components |-> IF c \in DOMAIN done.mcu
                                         THEN [coefs[c] EXCEPT ![mcuNo] = done.mcu[c]] ELSE coefs[c]]
       /\ mcuNo' = IF done.suspended THEN mcuNo ELSE mcuNo + 1
       /\ dec' = [done EXCEPT !.src = << >>, !.mcu = << >>, !.value = 0, !.newnz_pos = {},
                              !.suspended = FALSE,
                              !.error = @ \/ (done.suspended /\ n = Len(stream))]
  /\ UNCHANGED <<work, step, scanNo, enc, tables, faults, damaged>>

\* After the last MCU the markers are read on: restart markers mean nothing there.
RECURSIVE ScanEnd(_)
ScanEnd(d) ==
  LET Met(x) == IF x.unread_marker \in RST0 .. RST0 + 7
                THEN ScanEnd([x EXCEPT !.unread_marker = 0]) ELSE x
  IN Then(IF d.unread_marker = 0 THEN next_marker(d) ELSE d, Met)

FinishScan ==
  /\ step = "decode" /\ mcuNo > NumMcus
  /\ \E ended \in {ScanEnd([dec EXCEPT !.src = stream])} :
        IF ended.unread_marker # EndMarker \/ ended.src # << >> \/ dec.error
        THEN step' = "lost" /\ UNCHANGED <<scanNo, mcuNo, enc>>
        ELSE IF scanNo = Len(work.script)
        THEN step' = "done" /\ UNCHANGED <<scanNo, mcuNo, enc>>
        ELSE /\ scanNo' = scanNo + 1 /\ step' = "gather" /\ mcuNo' = 1
             /\ enc' = StartEncoderPass(work.script[scanNo + 1], tables, TRUE)
  /\ stream' = << >> /\ dec' = Idle
  /\ UNCHANGED <<work, tables, coefs, faults, damaged>>

ScanDone == step = "done" /\ UNCHANGED scanVars

ScanNext == \/ GatherMcu \/ FinishGather \/ CodeMcu \/ FinishCode \/ Channel
            \/ DecodeMcuAttempt \/ FinishScan \/ ScanDone

ScanSpec == ScanInit /\ [][ScanNext]_scanVars

-----------------------------------------------------------------------------
\* What the encoder was given comes out of the decoder, coefficient by coefficient, whatever
\* the tables that the counting pass made, whenever the destination was full and however the
\* bytes arrived; a lost, cut or repeated restart interval costs the blocks in it and no
\* others (jchuff.c, jcphuff.c, jdhuff.c, jdphuff.c, read_restart_marker).
CoefficientsReturn ==
  /\ step # "lost"
  /\ enc # Idle => ~enc.error
  /\ step = "done" =>
       \A c \in Components, b \in 1 .. NumMcus :
         \/ <<c, b>> \in damaged
         \/ coefs[c][b] = (IF work.dc_only THEN [ZeroBlock EXCEPT ![0] = work.image[c][b][0]]
                           ELSE work.image[c][b])

=============================================================================
