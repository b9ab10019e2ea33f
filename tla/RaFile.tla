------------------------------- MODULE RaFile -------------------------------
(***************************************************************************)
(* rafile.c: reads of any length at any place of a file that can only be   *)
(* read by whole sectors.  A byte of the file is represented by its        *)
(* position, so a sector is its number; a RAFile is a record of the        *)
(* sector FileRead will deliver next, the position, and the sector that    *)
(* lies in the buffer.                                                     *)
(*                                                                         *)
(* fat.c is not in the repository: FileRead delivers the current sector or *)
(* fails and delivers nothing, FileNextSector moves on, FileSeek goes to a *)
(* sector or fails and stays.  "bad" is what cannot be read during a call: *)
(* sectors of the file, or the Chain of its clusters.                      *)
(***************************************************************************)
EXTENDS Integers, Sequences

CONSTANT SectorSize     \* 512

ASSUME RaFileAssumption == SectorSize \in Nat \ {0}

NoSector == -1          \* a buffer nothing has been read into
NoByte == -1            \* a byte of the reader's that was not written

Opened == [sector |-> 0, ptr |-> 0, buffer |-> NoSector]

Chain == -2             \* what FileSeek follows
FileReadOk(sector, bad) == sector \notin bad
FileSeekOk(bad) == Chain \notin bad

FileReadInto(old, sector, bad) == IF FileReadOk(sector, bad) THEN sector ELSE old

\* Bytes from .. to - 1 of a sector.
BytesOf(sector, from, to) ==
  [i \in 1 .. (IF to > from THEN to - from ELSE 0) |->
     IF sector = NoSector THEN NoByte ELSE sector * SectorSize + from + i - 1]

\* Bytes of count whole sectors.
SectorsDirect(first, count, bad) ==
  [i \in 1 .. count * SectorSize |->
     LET sector == first + (i - 1) \div SectorSize
     IN IF FileReadOk(sector, bad) THEN first * SectorSize + i - 1 ELSE NoByte]

\* The bytes left in the buffer, whole sectors straight to the reader, the rest through the buffer.
RAReadMutant(f, bytes, bad) ==
  LET blockoffset == f.ptr % SectorSize
      l == IF bytes > SectorSize THEN SectorSize ELSE bytes
      drained == IF blockoffset = 0 THEN 0 ELSE l - blockoffset
      left == bytes - drained
      whole == left \div SectorSize
      tail == left % SectorSize
      last == f.sector + whole
      buffer == IF tail = 0 THEN f.buffer ELSE FileReadInto(f.buffer, last, bad)
  IN [file |-> [sector |-> last,
                ptr |-> f.ptr + bytes, buffer |-> buffer],
      data |-> (IF blockoffset = 0 THEN << >> ELSE BytesOf(f.buffer, blockoffset, l))
                 \o SectorsDirect(f.sector, whole, bad)
                 \o BytesOf(buffer, 0, tail),
      ok |-> \A s \in f.sector .. (IF tail = 0 THEN last - 1 ELSE last) : FileReadOk(s, bad)]

RARead(f, bytes, bad) ==
  LET blockoffset == f.ptr % SectorSize
      l == IF bytes > SectorSize THEN SectorSize ELSE bytes
      drained == IF blockoffset = 0 THEN 0 ELSE l - blockoffset
      left == bytes - drained
      whole == left \div SectorSize
      tail == left % SectorSize
      last == f.sector + whole
      buffer == IF tail = 0 THEN f.buffer ELSE FileReadInto(f.buffer, last, bad)
  IN [file |-> [sector |-> IF tail = 0 THEN last ELSE last + 1,
                ptr |-> f.ptr + bytes, buffer |-> buffer],
      data |-> (IF blockoffset = 0 THEN << >> ELSE BytesOf(f.buffer, blockoffset, l))
                 \o SectorsDirect(f.sector, whole, bad)
                 \o BytesOf(buffer, 0, tail),
      ok |-> \A s \in f.sector .. (IF tail = 0 THEN last - 1 ELSE last) : FileReadOk(s, bad)]

RASeek(f, offset, bad) ==
  LET blockoffset == offset % SectorSize
      sector == offset \div SectorSize
  IN IF ~ FileSeekOk(bad)
     THEN [file |-> [f EXCEPT !.ptr = offset], ok |-> FALSE]
     ELSE IF blockoffset = 0
     THEN [file |-> [f EXCEPT !.sector = sector, !.ptr = offset], ok |-> TRUE]
     ELSE [file |-> [sector |-> sector + 1, ptr |-> offset,
                     buffer |-> FileReadInto(f.buffer, sector, bad)],
           ok |-> FileReadOk(sector, bad)]
=============================================================================
