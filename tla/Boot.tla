-------------------------------- MODULE Boot --------------------------------
(***************************************************************************)
(* The two boot programs.  boot.c loads from a card the images that a      *)
(* manifest names and starts them; rs232boot.c stores the S-records that   *)
(* a remote machine sends.  Which one is in the ROM is chosen at the       *)
(* start.  Card and line lose things at any time.                          *)
(***************************************************************************)
EXTENDS Fat, SequencesExt

CONSTANTS Roms,         \* programs: "SD", "RS232"
          Programs,     \* what the remote machine sends: sequences of records
          Damage,       \* characters that may arrive instead of the one sent: -2 .. 15
          AddressRange  \* 2^32

BootAssumption == Roms \subseteq {"SD", "RS232"} /\ Damage \subseteq -2 .. 15 /\ AddressRange \in Nat \ {0}
ASSUME BootAssumption

VARIABLES rom,
          boot,         \* place in main() of boot.c: the line of the manifest, the address parsed
          frame,        \* FRAMEBUFFERPTR
          missed,       \* history: lines whose file LoadFile did not load, or not by its own links
          sent,         \* the remote machine's program, and the place it has got to
          damaged,      \* history: records that have not arrived as sent
          SREC,         \* rs232boot.c: COLUMN, ADDR, ADDRSIZE, BYTECOUNT, TYPE, COUNTER, TEMP
          ram,          \* bytes it has stored
          booted        \* it has called _boot

bootVars == <<boot, frame, missed>>
lineVars == <<sent, damaged>>
srecVars == <<SREC, ram, booted>>
vars == <<rom, sdVars, fatVars, bootVars, srecVars, lineVars>>

-----------------------------------------------------------------------------
\* rs232boot.c: the program that receives S-records over the serial line, one character at
\* a time.  A character is a hexadecimal digit 0 .. 15, "S", or NewLine.
S == -1
NewLine == -2

\* Nothing clears the variables before main.
SrecStates == [COLUMN : {0}, ADDR : {0}, ADDRSIZE : {0}, BYTECOUNT : {0, 3}, TYPE : {0, 1},
               COUNTER : {0, 1}, TEMP : {0}]
SrecInit == /\ SREC \in SrecStates
            /\ ram = << >> /\ booted = FALSE

\* DoDecode: a digit joins at the right; a character below the digits comes out as -6.
DoDecode(a0, d0) == IF d0 = NewLine THEN -6 ELSE 16 * a0 + d0

NewRecord == [SREC EXCEPT !.COLUMN = 0, !.ADDR = 0, !.BYTECOUNT = 0, !.TYPE = 0]

\* The type tells the number of address digits: S7 goes with S3, S8 with S2, S9 with S1.
TypeColumn(column, d0) ==
  LET type == DoDecode(SREC.TYPE, d0)
      t == IF type > 3 THEN 10 - type ELSE type
  IN [SREC EXCEPT !.COLUMN = column, !.TYPE = type, !.ADDRSIZE = 2 * (t + 1)]

CountColumn(column, d0) == [SREC EXCEPT !.COLUMN = column, !.BYTECOUNT = DoDecode(@, d0)]

AddressColumnMutant(column, d0) ==
  [SREC EXCEPT !.COLUMN = column, !.ADDR = DoDecode(@, d0) % AddressRange]
AddressColumn(column, d0) ==
  [SREC EXCEPT !.COLUMN = column, !.ADDR = DoDecode(@, d0) % AddressRange, !.COUNTER = 1]

InData(column) == column <= 2 * SREC.BYTECOUNT + 1

Store(value) == ram' = [a \in DOMAIN ram \cup {SREC.ADDR} |-> IF a = SREC.ADDR THEN value % 256 ELSE ram[a]]

\* Two digits for a byte.
DataColumn(column, d0) ==
  LET temp == DoDecode(SREC.TEMP, d0)
  IN IF SREC.COUNTER = 0
     THEN /\ Store(temp)
          /\ SREC' = [SREC EXCEPT !.COLUMN = column, !.TEMP = temp % 256, !.COUNTER = 1, !.ADDR = (@ + 1) % AddressRange]
     ELSE /\ SREC' = [SREC EXCEPT !.COLUMN = column, !.TEMP = temp % 256, !.COUNTER = @ - 1]
          /\ UNCHANGED ram

\* Behind the data: the checksum is not looked at; half a byte would be completed.
TailColumn(column) ==
  IF SREC.COUNTER = 0
  THEN /\ Store(16 * SREC.TEMP)
       /\ SREC' = [SREC EXCEPT !.COLUMN = column, !.TEMP = (16 * @) % 256]
  ELSE SREC' = [SREC EXCEPT !.COLUMN = column] /\ UNCHANGED ram

HandleByte(d0) ==
  LET column == SREC.COLUMN + 1
  IN /\ ~ booted
     /\ IF d0 = S THEN SREC' = NewRecord /\ UNCHANGED <<ram, booted>>
        ELSE IF column = 1 THEN SREC' = TypeColumn(column, d0) /\ UNCHANGED <<ram, booted>>
        ELSE IF column <= 3 THEN SREC' = CountColumn(column, d0) /\ UNCHANGED <<ram, booted>>
        ELSE IF column <= SREC.ADDRSIZE + 3 THEN SREC' = AddressColumn(column, d0) /\ UNCHANGED <<ram, booted>>
        ELSE IF SREC.TYPE \in 1 .. 3
        THEN /\ IF InData(column) THEN DataColumn(column, d0) ELSE TailColumn(column)
             /\ UNCHANGED booted
        ELSE /\ booted' = (SREC.TYPE >= 7)
             /\ SREC' = [SREC EXCEPT !.COLUMN = column]
             /\ UNCHANGED ram

SrecType == /\ SREC \in [COLUMN : Nat, ADDR : 0 .. AddressRange - 1, ADDRSIZE : Int, BYTECOUNT : Int, TYPE : Int,
                         COUNTER : {0, 1}, TEMP : 0 .. 255]
            /\ booted \in BOOLEAN

-----------------------------------------------------------------------------
ManifestName == "MST"
ManifestAt == 900       \* where Manifest[] lies, out of the images' way

AnySrec == CHOOSE r \in SrecStates : TRUE
AnyProgram == CHOOSE p \in Programs : TRUE
AnyKind == CHOOSE k \in Kinds : TRUE
AnyWarm == CHOOSE n \in WarmUp : TRUE
AnyVolume == CHOOSE v \in Volumes : TRUE
AnyDrive == CHOOSE g \in Geometries : TRUE

Init == /\ rom \in Roms
        /\ sent \in [program : Programs, record : {1}, char : {0}]
        /\ SdInit /\ FatInit /\ SrecInit
        \* What the program in the ROM does not use is anything.
        /\ rom = "SD" => SREC = AnySrec /\ sent.program = AnyProgram
        /\ rom = "RS232" => kind = AnyKind /\ card.warm = AnyWarm /\ volume = AnyVolume /\ drive = AnyDrive /\ ~ SDHCtype
        /\ boot = [at |-> "start", line |-> 1, ptr |-> 0]
        /\ frame = 0 /\ missed = {}
        /\ damaged = {}

-----------------------------------------------------------------------------
\* main() of boot.c.
Manifest == volume.manifest

CallInit == /\ boot.at = "start" /\ SpiInit
            /\ boot' = [boot EXCEPT !.at = "card"]
            /\ UNCHANGED <<fatVars, frame, missed>>

NoCard == /\ boot.at = "card" /\ sd.at = "dead"
          /\ boot' = [boot EXCEPT !.at = "ended"]
          /\ UNCHANGED <<sdVars, fatVars, frame, missed>>

CallFindDrive == /\ boot.at = "card" /\ sd.at = "up"
                 /\ boot' = [boot EXCEPT !.at = "drive"]
                 /\ fat' = [fat EXCEPT !.at = "find"]
                 /\ UNCHANGED <<sdVars, volume, sector_buffer, buffered_fat_index, drive, memory, misled, frame, missed>>

\* Whether FindDrive has found anything is not looked at.
LoadManifest == /\ boot.at = "drive" /\ fat.at \in {"found", "nothing"}
                /\ LoadFile(ManifestName, ManifestAt)
                /\ boot' = [boot EXCEPT !.at = "manifest"]
                /\ UNCHANGED <<frame, missed>>

ExactlyLoaded(name, to) ==
  \A k \in 0 .. (volume.files[name].size + SectorBytes - 1) \div SectorBytes - 1 :
    to + k \in DOMAIN memory /\ memory[to + k] = Piece(name, k)

\* The manifest is what was asked for, or the parser runs through something else.
ManifestLoaded ==
  /\ boot.at = "manifest" /\ fat.at = "returned"
  /\ boot' = [boot EXCEPT !.at = IF ~ fat.ok THEN "ended"
                                 ELSE IF ExactlyLoaded(ManifestName, ManifestAt) THEN "parse" ELSE "lost"]
  /\ UNCHANGED <<sdVars, fatVars, frame, missed>>

\* A digit of an address.  Letters keep more than their value: 'a' is 97, less 32 and 16,
\* which is not yet '9'.
Digit(d) == IF d >= 10 THEN 39 + d ELSE d

\* ptr|=c with c over four bits: its upper bits fall on the digit before.
Or(a, b) == LET bit(n, k) == (n \div 2^k) % 2
            IN FoldFunction(+, 0, [k \in 0 .. 7 |-> 2^k * (IF bit(a, k) + bit(b, k) > 0 THEN 1 ELSE 0)])
                 + 256 * (a \div 256)

ParseAddress(digits, ptr) == FoldLeft(LAMBDA p, d : Or(16 * p, Digit(d)), ptr, digits)

Line == Manifest[boot.line]

Comment == /\ boot.at = "parse" /\ Line.is = "#"
           /\ boot' = [boot EXCEPT !.line = @ + 1, !.ptr = 0]
           /\ UNCHANGED <<sdVars, fatVars, frame, missed>>

\* 'L': the parser goes on at the beginning of the manifest, in the middle of an address.
Again == /\ boot.at = "parse" /\ Line.is = "L"
         /\ boot' = [boot EXCEPT !.line = 1, !.ptr = 43]
         /\ UNCHANGED <<sdVars, fatVars, frame, missed>>

LoadImage == /\ boot.at = "parse" /\ Line.is = "load"
             /\ LET ptr == ParseAddress(Line.digits, boot.ptr)
                IN /\ LoadFile(Line.name, ptr)
                   /\ boot' = [boot EXCEPT !.at = "image", !.ptr = ptr]
             /\ UNCHANGED <<frame, missed>>

\* Loaded or not, the screen shows it.
ImageLoaded == /\ boot.at = "image" /\ fat.at = "returned"
               /\ frame' = boot.ptr
               /\ boot' = [at |-> "parse", line |-> boot.line + 1, ptr |-> 0]
               /\ missed' = IF fat.ok /\ ~ misled THEN missed \ {boot.line} ELSE missed \cup {boot.line}
               /\ UNCHANGED <<sdVars, fatVars>>

Go == /\ boot.at = "parse" /\ Line.is = "G"
      /\ boot' = [boot EXCEPT !.at = "started"]
      /\ UNCHANGED <<sdVars, fatVars, frame, missed>>

Halt == /\ boot.at = "parse" /\ Line.is = "blank"
        /\ boot' = [boot EXCEPT !.at = "halted"]
        /\ UNCHANGED <<sdVars, fatVars, frame, missed>>

SdBoot == /\ rom = "SD"
          /\ \/ CallInit \/ NoCard \/ CallFindDrive \/ LoadManifest \/ ManifestLoaded
             \/ Comment \/ Again \/ LoadImage \/ ImageLoaded \/ Go \/ Halt
             \/ (boot.at = "card" /\ SdNext /\ UNCHANGED <<fatVars, bootVars>>)
             \/ (boot.at \in {"drive", "manifest", "image"} /\ FatNext /\ UNCHANGED bootVars)
          /\ UNCHANGED <<srecVars, lineVars>>

-----------------------------------------------------------------------------
\* The remote machine: a record's characters.
HexDigits(n, count) == [i \in 1 .. count |-> (n \div 16^(count - i)) % 16]
AddressDigits(type) == IF type \in {3, 7} THEN 8 ELSE IF type \in {2, 8} THEN 6 ELSE 4

Text(r) ==
  LET bytes == FlattenSeq([i \in 1 .. Len(r.data) |-> HexDigits(r.data[i], 2)])
      count == AddressDigits(r.type) \div 2 + Len(r.data) + 1
      sum == FoldLeft(+, count + r.address, r.data)
  IN <<S, r.type>> \o HexDigits(count, 2) \o HexDigits(r.address, AddressDigits(r.type)) \o bytes
       \o HexDigits(255 - (sum % 256), 2) \o <<NewLine>>

Record == sent.program[sent.record]
Current == Text(Record)

Advance == sent' = [sent EXCEPT !.char = @ + 1]

NextRecord == /\ sent.char = Len(Current) /\ sent.record < Len(sent.program)
              /\ sent' = [sent EXCEPT !.record = @ + 1, !.char = 0]
              /\ UNCHANGED <<srecVars, damaged, faults>>

Arrives == /\ sent.char < Len(Current)
           /\ HandleByte(Current[sent.char + 1])
           /\ Advance /\ UNCHANGED <<damaged, faults>>

GetsLost == /\ sent.char < Len(Current) /\ faults < MaxFaults /\ ~ booted
            /\ Advance
            /\ damaged' = damaged \cup {sent.record} /\ faults' = faults + 1
            /\ UNCHANGED srecVars

Changes == /\ sent.char < Len(Current) /\ faults < MaxFaults
           /\ \E c \in Damage \ {Current[sent.char + 1]} : HandleByte(c)
           /\ Advance
           /\ damaged' = damaged \cup {sent.record} /\ faults' = faults + 1

SerialBoot == /\ rom = "RS232"
              /\ NextRecord \/ Arrives \/ GetsLost \/ Changes
              /\ UNCHANGED <<kind, card, selected, SDHCtype, sd, typeMissed, fatVars, bootVars>>

Next == (SdBoot \/ SerialBoot) /\ UNCHANGED rom

Spec == Init /\ [][Next]_vars
FairSpec == Spec /\ WF_vars(SdBoot /\ UNCHANGED rom)

-----------------------------------------------------------------------------
\* spi.c: whatever commands and answers are lost, a card that is up is known for what it is,
\* ready, with blocks of a sector, unless the answer that tells its type was lost and it is a
\* large one.
CardKnown == /\ SdType
             /\ sd.at = "up" /\ ~ (typeMissed /\ kind = "SDHC") =>
                  /\ card.state = "ready" /\ SDHCtype = (kind = "SDHC")
                  /\ kind # "SDHC" => card.block = SectorBytes

\* A 32-bit byte address reaches every sector of the card.
Addressable == kind # "SDHC" => CardSectors <= ByteAddresses

\* FindDrive can tell what the volume is, and where: its start survives the mask of swap.c.
Usable == volume.recognised /\ volume.start < SwapRange

\* minfat.c: a file that LoadFile reports loaded is that file, sector by sector, although a failed
\* directory sector is searched again and all sectors of the FAT go through one buffer; only
\* where a link could not be read, which nothing reports, another cluster has been taken.
LoadedExactly == /\ FatType
                 /\ fat.at = "returned" /\ fat.ok /\ ~ misled => ExactlyLoaded(fat.name, fat.to)

\* minfat.c: with nothing lost every file of a usable volume is found and loaded, wherever its
\* clusters lie; no other file is, and none of a volume that FindDrive refused, whose result boot.c
\* ignores, or looked for elsewhere because the mask took bits of its start, whatever the geometry
\* variables and sector 0 hold then.
LoadsWhatIsThere == fat.at = "returned" /\ faults = 0 /\ Addressable =>
                      (fat.ok <=> Usable /\ fat.name \in DOMAIN volume.files)

\* minfat.c:77, 208, 214: the buffered FAT sector is the one its index names.
FatBufferCurrent == volume.recognised /\ fat.at \in {"dir", "data", "link"} /\ buffered_fat_index # -1 =>
                      sector_buffer = Sector("fat", "", buffered_fat_index)

\* boot.c: main ignores what LoadFile returns, so a program may be started without images that a
\* loss has kept away; every other image the manifest names is in place then, the last of two at
\* one address, whatever was lost before, between and after, and with nothing lost all are that
\* the card has.
StartsLoaded ==
  boot.at = "started" =>
    \A i \in 1 .. boot.line - 1 :
      LET line == Manifest[i]
      IN line.is = "load" /\ line.name \in DOMAIN volume.files =>
           /\ \/ i \in missed
              \/ \E k \in i + 1 .. boot.line - 1 : Manifest[k].is = "load" /\ Manifest[k].digits = line.digits
              \/ ExactlyLoaded(line.name, ParseAddress(line.digits, 0))
           /\ faults = 0 /\ Addressable => i \notin missed

\* rs232boot.c: a record that arrives as sent is stored as it says, whatever was lost before it.
RecordStored ==
  SrecType /\ (rom = "RS232" /\ sent.char = Len(Current) /\ sent.record \notin damaged /\ Record.type \in 1 .. 3 =>
    \A i \in 1 .. Len(Record.data) :
      Record.address + i - 1 \in DOMAIN ram /\ ram[Record.address + i - 1] = Record.data[i])

\* Where nothing is lost a program is started when all of it is stored, nothing else
\* is, and the address is the record's.
StartedComplete ==
  booted /\ damaged = {} =>
    /\ Record.type >= 7 /\ SREC.ADDR = Record.address
    /\ \A a \in DOMAIN ram : \E i \in 1 .. sent.record : LET r == sent.program[i] IN
         r.type \in 1 .. 3 /\ a \in r.address .. r.address + Len(r.data) - 1
    /\ \A i \in 1 .. sent.record : LET r == sent.program[i] IN r.type \in 1 .. 3 =>
         \A k \in 1 .. Len(r.data) : r.address + k - 1 \in DOMAIN ram

\* rs232boot.c: the loader keeps what arrives whole, and starts what is complete.
RecordsLoaded == RecordStored /\ StartedComplete

\* boot.c: as long as losses are bounded the program gets to an end, though the retries are nested and
\* a directory's chain may be followed from a cluster that was not read.
Straight == volume.recognised /\ \A i \in 1 .. Len(Manifest) : Manifest[i].is # "L"
Ends == rom = "SD" /\ Straight => <>(boot.at \in {"started", "halted", "ended", "lost"})
-----------------------------------------------------------------------------
\* What the theorems of BootProofs take for granted of cards, volumes and manifests.

\* A card asks for fewer commands more than wait_init and wait_initV2 have to give.
WarmsUpInTime == \A w \in WarmUp : w + MaxFaults < OldInitLoop - 1 /\ w + MaxFaults < InitLoop - 1

\* Where the parts of a volume are.
Own(v) == Geometry(v, v.start)
SectorsIn(size) == (size + SectorBytes - 1) \div SectorBytes

\* The volume lies on the card, every cluster has its link in the FAT.
Placed(v) ==
  /\ {v.start, v.fatSize, v.rootSectors, v.rootCluster} \subseteq Nat /\ v.reserved \in Nat \ {0}
  /\ v.recognised \in BOOLEAN
  /\ v.mbr <=> v.start > 0
  /\ Own(v).data_start <= CardSectors
  /\ \A c \in DOMAIN v.link : /\ c \in Nat \ {0, 1} /\ v.link[c] \in Nat
                              /\ c \div LinksPerSector[v.fat32] < v.fatSize
                              /\ Own(v).data_start + v.clusterSize * (c - 1) <= CardSectors
                              /\ v.holds[c].is \in {"dir", "data"} /\ v.holds[c].n \in Nat
                              /\ v.holds[c] = Sector(v.holds[c].is, v.holds[c].of, v.holds[c].n)

\* The directory's sectors name files; a FAT32 directory is one cluster long.
Named(v) ==
  /\ ~ v.fat32 => 0 .. v.rootSectors - 1 \subseteq DOMAIN v.dir
  /\ \A c \in DOMAIN v.link : v.holds[c].is = "dir" => v.holds[c].n .. v.holds[c].n + v.clusterSize - 1 \subseteq DOMAIN v.dir
  /\ \A n \in DOMAIN v.dir : v.dir[n] \subseteq DOMAIN v.files
  /\ v.fat32 => v.rootCluster \in DOMAIN v.link /\ v.link[v.rootCluster] = EndOfChain

\* A file's clusters hold it in order, and are linked in this order.
Chained(v) ==
  \A name \in DOMAIN v.files :
    LET f == v.files[name] IN
    /\ f.size \in Nat /\ f.size < SwapRange /\ f.cluster \in Nat
    /\ f.size > 0 => f.cluster \in DOMAIN v.link /\ v.holds[f.cluster] = Piece(name, 0)
    /\ \A c \in DOMAIN v.link :
         LET h == v.holds[c] IN
         h.is = "data" /\ h.of = name /\ h.n + v.clusterSize < SectorsIn(f.size) =>
           v.link[c] \in DOMAIN v.link /\ v.holds[v.link[c]] = Piece(name, h.n + v.clusterSize)

\* The manifest ends with a command that does not come back, and its addresses are digits.
Readable(v) ==
  LET lines == v.manifest IN
  /\ Len(lines) \in Nat \ {0} /\ DOMAIN lines = 1 .. Len(lines)
  /\ \A i \in DOMAIN lines :
       /\ i \in Nat
       /\ lines[i].is \in {"#", "load"} => i + 1 \in DOMAIN lines
       /\ lines[i].is = "load" => lines[i].digits \in Seq(0 .. 15)

\* There is no manifest where a driver that takes the card for something else looks for one: in
\* the multiples of a sector's length, and where a geometry leads that was never set.
ShowsManifest(v, lba) == LET s == SectorOf(v, lba) IN s.is = "dir" /\ ManifestName \in v.dir[s.n]
Hidden(v, lba) == ~ ShowsManifest(v, lba) /\ ~ ShowsManifest(v, lba % ByteAddresses)
AnyLink(v) == {0} \cup JunkLinks \cup {v.link[c] : c \in DOMAIN v.link}
StrayClusters(v, g) == AnyLink(v) \cup {g.root_directory_cluster}
StrayRoot(v, g) == {g.root_directory_start + i :
                      i \in 0 .. g.root_directory_size - 1 \cup (IF v.recognised THEN {} ELSE 0 .. g.cluster_size - 1)}
StrayFat(v, g) == {g.fat_start + c \div LinksPerSector[TRUE] : c \in StrayClusters(v, g)}
StrayData(v, g) == {g.data_start + g.cluster_size * (c - 2) + i : c \in AnyLink(v), i \in 0 .. g.cluster_size - 1}
OutOfTheWay(v) ==
  /\ \A lba \in 0 .. CardSectors - 1 : ShowsManifest(v, lba) => lba % SectorBytes # 0
  /\ Hidden(v, SwapBBBB(v.start))
  /\ \A g \in Geometries :
       /\ \A lba \in StrayRoot(v, g) : Hidden(v, lba)
       /\ v.fat32 /\ ~ v.recognised => \A lba \in StrayFat(v, g) \cup StrayData(v, g) : Hidden(v, lba)

\* What a driver's variables may hold.
Drives == [fat32 : BOOLEAN, cluster_size : Nat, fat_start : Int, data_start : Int, root_directory_cluster : Nat,
           root_directory_start : Int, root_directory_size : Nat]

\* What the theorems about LoadFile take for granted.
CardsInOrder ==
  /\ JunkLinks \subseteq Nat
  /\ CardSectors <= ByteAddresses \/ Kinds \subseteq {"none", "SDHC"}
  /\ Geometries \subseteq Drives
  /\ \A v \in Volumes : Placed(v) /\ Named(v) /\ Chained(v) /\ Readable(v) /\ OutOfTheWay(v)

\* The root directory lists every file.
Listed(v) ==
  /\ v.fat32 => v.holds[v.rootCluster] = Sector("dir", "", 0)
  /\ \A name \in DOMAIN v.files : \E n \in 0 .. Own(v).root_directory_size - 1 : name \in v.dir[n]
FilesListed == \A v \in Volumes : Listed(v)

\* A remote machine's program: addresses have their digits, and a record its count of bytes.
RecordInOrder(r) ==
  /\ r.type \in 0 .. 9 /\ r.address \in Nat /\ r.data \in Seq(0 .. 255)
  /\ r.address \div 16^(AddressDigits(r.type) - 1) < 16
  /\ r.address < AddressRange /\ r.address + Len(r.data) <= AddressRange
  /\ AddressDigits(r.type) \div 2 + Len(r.data) + 1 < 256
ProgramsInOrder == \A p \in Programs : Len(p) \in Nat \ {0} /\ \A i \in 1 .. Len(p) : RecordInOrder(p[i])

Address0(line) == ParseAddress(line.digits, 0)

\* Images that are not loaded to one place do not overlap.
Apart(v) ==
  \A i, k \in DOMAIN v.manifest :
    LET one == v.manifest[i]
        two == v.manifest[k]
    IN /\ one.is = "load" /\ two.is = "load" /\ one.digits # two.digits
       /\ one.name \in DOMAIN v.files /\ two.name \in DOMAIN v.files
       => \A a \in 0 .. SectorsIn(v.files[one.name].size) - 1, b \in 0 .. SectorsIn(v.files[two.name].size) - 1 :
            Address0(one) + a # Address0(two) + b
ImagesApart == \A v \in Volumes : Apart(v)
=============================================================================
