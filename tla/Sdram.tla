-------------------------------- MODULE Sdram --------------------------------
(***************************************************************************)
(* The SDRAM controller of RTL/sdram.vhd, one step per rising clock edge.   *)
(*                                                                         *)
(* Sixteen phases ph0..ph15 make one round.  A round has two access slots:  *)
(* slot 1 opens a row in ph2, issues its column command in ph5 and returns  *)
(* data around ph10; slot 2 does the same in ph10, ph13 and around ph2 of    *)
(* the next round, so the two are in flight together and must stay on        *)
(* different banks.  The clients are the VGA port (reads of a whole line of  *)
(* eight bytes), the CPU port (32-bit reads) and the write cache, a one-entry*)
(* buffer that acknowledges a CPU write before it has reached the chip.      *)
(*                                                                         *)
(* Every register is a variable; a register's primed value is a function of  *)
(* unprimed values, as in the VHDL.  Addresses are split into the fields the *)
(* controller uses (sdram.vhd:333-366): a line of eight bytes lies in one    *)
(* bank, row and column group; half is addr(2 downto 1).                    *)
(***************************************************************************)
EXTENDS Naturals

CONSTANTS
  Row,       \* row addresses
  Col,       \* column groups, addr(cols+2 downto 5)
  Byte,      \* values of a byte
  Float      \* the byte an undriven bus or an unset register reads as

ASSUME GeometryAssumption == Row # {} /\ Col # {} /\ Float \in Byte

Bank == 0..3
Line == [bank : Bank, row : Row, col : Col]
HalfAddr == [line : Line, half : 0..3]      \* addr(.. downto 1)
Addr == [line : Line, byte : 0..7]          \* a CPU byte address
Word == [0..3 -> Byte]                      \* 32 bits, byte 0 is 31..24
Half == [0..1 -> Byte]                      \* 16 bits, byte 0 is 15..8
Mask == [0..1 -> BOOLEAN]                   \* TRUE: byte not written

HalfOf(a) == [line |-> a.line, half |-> a.byte \div 2]
\* Mutant: the low address bits of a VGA request are not cleared.
LineStartMutant(l) == [line |-> l, half |-> 1]
LineStart(l) == [line |-> l, half |-> 0]
HalfWord(w, i) == [b \in 0..1 |-> w[2 * i + b]]

(***************************************************************************)
(* Commands on the pins of the memory device.                              *)
(***************************************************************************)
Nop == [op |-> "nop"]
Refresh == [op |-> "refresh"]
Precharge == [op |-> "precharge"]
LoadMode == [op |-> "mode"]
Active(l) == [op |-> "active", bank |-> l.bank, row |-> l.row]
Cas(c, a) == [op |-> c, bank |-> a.line.bank, col |-> a.line.col, half |-> a.half]

Command ==
  {Nop, Refresh, Precharge, LoadMode}
    \cup [op : {"active"}, bank : Bank, row : Row]
    \cup [op : {"read", "write"}, bank : Bank, col : Col, half : 0..3]

Port == {"idle", "refresh", "port0", "zpu", "writecache"}

VARIABLES
  \* inputs
  req1, wr1, Addr1, datawr1, wrU2, wrU1, wrL1,          \* CPU port
  vga_req, vga_addr, vga_refresh, vga_reservebank, vga_reserveaddr,
  chip_q,                                               \* what the device drives
  \* phase process
  sdram_state, initstate, init_done, sdwrite, vga_fill, sdata_reg,
  \* write cache process
  writecache_req, writecache_dtack, writecache_addr, writecache_word, writecache_dqm,
  \* slot process
  sdram_slot1, sdram_slot2, slot1_bank, slot2_bank, refreshpending,
  casaddr, cas_cmd, sd_cmd, datain, dqm,
  vga_ack, writecache_ack, zpu_ack, dataout1

cpuPort == <<req1, wr1, Addr1, datawr1, wrU2, wrU1, wrL1>>
vgaPort == <<vga_req, vga_addr, vga_refresh, vga_reservebank, vga_reserveaddr>>
phaseRegs == <<sdram_state, initstate, init_done, sdwrite, vga_fill, sdata_reg>>
writecacheRegs ==
  <<writecache_req, writecache_dtack, writecache_addr, writecache_word, writecache_dqm>>
slotRegs == <<sdram_slot1, sdram_slot2, slot1_bank, slot2_bank, refreshpending,
              casaddr, cas_cmd, sd_cmd, datain, dqm,
              vga_ack, writecache_ack, zpu_ack, dataout1>>
sdramRegs == <<phaseRegs, writecacheRegs, slotRegs>>

\* The CPU port is acknowledged when this is FALSE.
dtack1 == writecache_dtack /\ zpu_ack

\* The data bus; both readers of it sample the same register.
sdata == IF sdwrite THEN datain ELSE chip_q
vga_data == sdata_reg

-----------------------------------------------------------------------------
(***************************************************************************)
(* The registers as reset leaves them.  What reset does not assign holds    *)
(* some value of its type; of these only the two acknowledgements are read  *)
(* before they are written (they keep their value until init_done), so only *)
(* they are left open.                                                      *)
(***************************************************************************)
AnyLine == CHOOSE l \in Line : TRUE
AnyHalf == [b \in 0..1 |-> Float]
NoMask == [b \in 0..1 |-> FALSE]
FullMask == [b \in 0..1 |-> TRUE]

SdramInit ==
  /\ sdram_state = 0 /\ initstate = 0 /\ init_done = FALSE
  /\ sdwrite = FALSE /\ vga_fill = FALSE /\ sdata_reg = AnyHalf
  /\ writecache_req = FALSE /\ writecache_dtack = TRUE
  /\ writecache_addr = LineStart(AnyLine)
  /\ writecache_word = [i \in 0..1 |-> AnyHalf]
  /\ writecache_dqm = [i \in 0..1 |-> NoMask]
  /\ sdram_slot1 = "refresh" /\ sdram_slot2 = "idle"
  /\ slot1_bank = 0 /\ slot2_bank = 3 /\ refreshpending = FALSE
  /\ casaddr = LineStart(AnyLine) /\ cas_cmd = "nop" /\ sd_cmd = Nop
  /\ datain = AnyHalf /\ dqm = NoMask
  /\ vga_ack \in BOOLEAN /\ writecache_ack \in BOOLEAN /\ zpu_ack = TRUE
  /\ dataout1 = [i \in 0..1 |-> AnyHalf]

-----------------------------------------------------------------------------
(***************************************************************************)
(* The write cache.  A halfword write is moved back by one halfword, so     *)
(* that the second beat of the burst, the only one not masked, lands on it. *)
(***************************************************************************)
BurstStart(a) ==
  IF wrU2 THEN [line |-> a.line, half |-> (a.byte \div 2 + 3) % 4] ELSE HalfOf(a)

WriteLatched == req1 /\ ~wr1 /\ ~writecache_req

WriteCache ==
  /\ writecache_dtack' = ~WriteLatched
  /\ writecache_req' = (~writecache_ack /\ (writecache_req \/ WriteLatched))
  /\ \/ /\ WriteLatched
        /\ writecache_addr' = BurstStart(Addr1)
        /\ writecache_word' = [i \in 0..1 |-> HalfWord(datawr1, i)]
        /\ writecache_dqm' = [i \in 0..1 |-> [b \in 0..1 |->
              IF i = 0 THEN wrU2 ELSE IF b = 0 THEN wrU1 ELSE wrL1]]
     \/ /\ ~WriteLatched
        /\ UNCHANGED <<writecache_addr, writecache_word, writecache_dqm>>

-----------------------------------------------------------------------------

\* The phases before those in which the controller may drive the data bus.
BusEnable ==
  \/ sdram_state \in {4, 5, 6, 7, 12, 13, 14, 15}
  \/ sdram_state = 0 /\ sdram_slot2 = "writecache"
  \/ sdram_state = 8 /\ sdram_slot1 = "writecache"

(***************************************************************************)
(* The phase counter, the initialisation count and the enables that follow  *)
(* the phase alone.  After reset the chip gets 16 rounds, then the counter  *)
(* waits in ph14 for the first vga_refresh.                                 *)
(***************************************************************************)
Phase ==
  /\ \/ /\ sdram_state # 14
        /\ sdram_state' = (sdram_state + 1) % 16
        /\ UNCHANGED <<initstate, init_done>>
     \/ /\ sdram_state = 14 /\ initstate # 15
        /\ initstate' = initstate + 1 /\ sdram_state' = 15
        /\ UNCHANGED init_done
     \/ /\ sdram_state = 14 /\ initstate = 15 /\ init_done
        /\ sdram_state' = 15
        /\ UNCHANGED <<initstate, init_done>>
     \/ /\ sdram_state = 14 /\ initstate = 15 /\ ~init_done
        /\ init_done' = vga_refresh
        /\ sdram_state' = IF vga_refresh THEN 0 ELSE 14
        /\ UNCHANGED initstate
  /\ sdwrite' = BusEnable
  /\ vga_fill' = \/ sdram_state = 9 /\ sdram_slot1 = "port0"
                 \/ sdram_state = 1 /\ sdram_slot2 = "port0"
                 \/ vga_fill /\ sdram_state \notin {5, 13}
  /\ sdata_reg' = sdata

-----------------------------------------------------------------------------
(***************************************************************************)
(* Slot arbitration.  A row is opened for the winner and the column command *)
(* for it is prepared; without a winner the prepared command is a NOP.      *)
(***************************************************************************)
RefreshWins == refreshpending /\ sdram_slot2 = "idle"

\* The bank is not the one the other slot is still using.
\* Mutant: slot 1 checks the bank of the slot it is about to overwrite.
BankFree1Mutant(b) == b # slot1_bank \/ sdram_slot2 = "idle"
BankFree1(b) == b # slot2_bank \/ sdram_slot2 = "idle"
\* Mutant: slot 2 checks its own last bank.
BankFree2Mutant(b) == b # slot2_bank \/ sdram_slot1 = "idle"
BankFree2(b) == b # slot1_bank \/ sdram_slot1 = "idle"

\* The bank is not the one kept clear for the next VGA burst.
Unreserved(b) == b # vga_reserveaddr.bank \/ ~vga_reservebank

WriteWins1 == /\ writecache_req /\ sdram_slot2 # "writecache"
              /\ BankFree1(writecache_addr.line.bank)
\* Mutant: a burst is granted only while the port keeps a bank clear.
VgaWins1Mutant == ~RefreshWins /\ vga_req /\ vga_reservebank /\ BankFree1(vga_addr.bank)
VgaWins1 == ~RefreshWins /\ vga_req /\ BankFree1(vga_addr.bank)
ReadWins1 == req1 /\ wr1 /\ sdram_slot2 # "zpu" /\ BankFree1(Addr1.line.bank)

WriteWins2 == /\ writecache_req /\ sdram_slot1 # "writecache"
              /\ BankFree2(writecache_addr.line.bank)
              /\ Unreserved(writecache_addr.line.bank)
ReadWins2 == /\ req1 /\ wr1 /\ sdram_slot1 # "zpu"
             /\ BankFree2(Addr1.line.bank) /\ Unreserved(Addr1.line.bank)

OpenRow(a, c) ==
  casaddr' = a /\ cas_cmd' = c /\ sd_cmd' = Active(a.line)

OpenNone(c) ==
  cas_cmd' = "nop" /\ sd_cmd' = c /\ UNCHANGED casaddr

Slot1(p, a, c) ==
  sdram_slot1' = p /\ slot1_bank' = a.line.bank /\ OpenRow(a, c)

Slot2(p, a, c) ==
  sdram_slot2' = p /\ slot2_bank' = a.line.bank /\ OpenRow(a, c)

Slot1Refresh ==
  /\ RefreshWins
  /\ sdram_slot1' = "refresh" /\ OpenNone(Refresh) /\ UNCHANGED slot1_bank

Slot1Vga ==
  /\ VgaWins1
  /\ Slot1("port0", LineStart(vga_addr), "read")

Slot1Write ==
  /\ ~RefreshWins /\ ~vga_req /\ WriteWins1
  /\ Slot1("writecache", writecache_addr, "write")

Slot1Read ==
  /\ ~RefreshWins /\ ~vga_req /\ ~WriteWins1 /\ ReadWins1
  /\ Slot1("zpu", HalfOf(Addr1), "read")

Slot1Idle ==
  /\ ~RefreshWins
  /\ \/ vga_req /\ ~VgaWins1
     \/ ~vga_req /\ ~WriteWins1 /\ ~ReadWins1
  /\ sdram_slot1' = "idle" /\ OpenNone(Nop) /\ UNCHANGED slot1_bank

Slot1Arbitration ==
  /\ Slot1Refresh \/ Slot1Vga \/ Slot1Write \/ Slot1Read \/ Slot1Idle
  /\ UNCHANGED <<sdram_slot2, slot2_bank>>

Slot2Closed == refreshpending \/ sdram_slot1 = "refresh"

Slot2Write ==
  /\ ~Slot2Closed /\ WriteWins2
  /\ Slot2("writecache", writecache_addr, "write")

Slot2Read ==
  /\ ~Slot2Closed /\ ~WriteWins2 /\ ReadWins2
  /\ Slot2("zpu", HalfOf(Addr1), "read")

Slot2Idle ==
  /\ Slot2Closed \/ (~WriteWins2 /\ ~ReadWins2)
  /\ sdram_slot2' = "idle" /\ OpenNone(Nop) /\ UNCHANGED slot2_bank

Slot2Arbitration ==
  /\ Slot2Write \/ Slot2Read \/ Slot2Idle
  /\ UNCHANGED <<sdram_slot1, slot1_bank>>

(***************************************************************************)
(* The other phases: the column commands in ph5 and ph13, NOP elsewhere.    *)
(* While the device is being initialised ph2 sends its start-up sequence.   *)
(***************************************************************************)
\* Mutant: the column phase does not look at whether an access was granted.
ColumnCommandMutant == Cas(cas_cmd, casaddr)

ColumnCommand ==
  IF cas_cmd = "nop" THEN Nop ELSE Cas(cas_cmd, casaddr)

InitCommand ==
  CASE initstate = 2        -> Precharge
    [] initstate \in 3..12  -> Refresh
    [] initstate = 13       -> LoadMode
    [] OTHER                -> Nop

OtherPhase ==
  /\ sd_cmd' = CASE ~init_done /\ sdram_state = 2 -> InitCommand
                 [] init_done /\ sdram_state = 5  -> ColumnCommand
                 [] init_done /\ sdram_state = 13 /\ sdram_slot2 # "idle" -> ColumnCommand
                 [] OTHER -> Nop
  /\ UNCHANGED <<sdram_slot1, sdram_slot2, slot1_bank, slot2_bank, casaddr, cas_cmd>>

Arbitration ==
  \/ init_done /\ sdram_state = 2 /\ Slot1Arbitration
  \/ init_done /\ sdram_state = 10 /\ Slot2Arbitration
  \/ ~(init_done /\ sdram_state \in {2, 10}) /\ OtherPhase

(***************************************************************************)
(* The data side.  A write burst has four beats, of which the last two are  *)
(* masked; it acknowledges the write cache with its second beat.  A read    *)
(* copies two words off the bus and acknowledges the CPU with the second.   *)
(***************************************************************************)
Beat == (sdram_state + 3) % 8

Writing == \/ sdram_state \in 5..8 /\ sdram_slot1 = "writecache"
           \/ sdram_state \in {13, 14, 15, 0} /\ sdram_slot2 = "writecache"

\* Mutant: the acknowledgement lasts for two beats.
BeatAcknowledgedMutant == Writing /\ Beat \in {1, 2}

BeatAcknowledged == Writing /\ Beat = 1

WriteData ==
  /\ datain' = IF Writing /\ Beat < 2 THEN writecache_word[Beat] ELSE datain
  /\ dqm' = IF ~Writing THEN NoMask
            ELSE IF Beat < 2 THEN writecache_dqm[Beat] ELSE FullMask
  /\ writecache_ack' = IF init_done THEN BeatAcknowledged ELSE writecache_ack

ReadWord(i) ==
  /\ init_done
  /\ \/ sdram_state = 10 + i /\ sdram_slot1 = "zpu"
     \/ sdram_state = 2 + i /\ sdram_slot2 = "zpu"

ReadData ==
  /\ dataout1' = [i \in 0..1 |-> IF ReadWord(i) THEN sdata_reg ELSE dataout1[i]]
  /\ zpu_ack' = ~ReadWord(1)

Slots ==
  /\ Arbitration
  /\ WriteData
  /\ ReadData
  /\ refreshpending' = (sdram_slot1 # "refresh" /\ (refreshpending \/ vga_refresh))
  /\ vga_ack' = IF init_done THEN sdram_state = 2 /\ VgaWins1 ELSE vga_ack

SdramEdge == WriteCache /\ Phase /\ Slots

-----------------------------------------------------------------------------
(***************************************************************************)
(* Properties of the controller.                                           *)
(***************************************************************************)
CpuPortTypeOK ==
  /\ req1 \in BOOLEAN /\ wr1 \in BOOLEAN /\ Addr1 \in Addr /\ datawr1 \in Word
  /\ wrU2 \in BOOLEAN /\ wrU1 \in BOOLEAN /\ wrL1 \in BOOLEAN

VgaPortTypeOK ==
  /\ vga_req \in BOOLEAN /\ vga_addr \in Line
  /\ vga_refresh \in BOOLEAN /\ vga_reservebank \in BOOLEAN /\ vga_reserveaddr \in Line

SdramTypeOK ==
  /\ sdram_state \in 0..15 /\ initstate \in 0..15 /\ init_done \in BOOLEAN
  /\ sdwrite \in BOOLEAN /\ vga_fill \in BOOLEAN /\ sdata_reg \in Half
  /\ writecache_req \in BOOLEAN /\ writecache_dtack \in BOOLEAN
  /\ writecache_addr \in HalfAddr
  /\ writecache_word \in [0..1 -> Half] /\ writecache_dqm \in [0..1 -> Mask]
  /\ sdram_slot1 \in Port /\ sdram_slot2 \in Port \ {"refresh", "port0"}
  /\ slot1_bank \in Bank /\ slot2_bank \in Bank /\ refreshpending \in BOOLEAN
  /\ casaddr \in HalfAddr /\ cas_cmd \in {"nop", "read", "write"} /\ sd_cmd \in Command
  /\ datain \in Half /\ dqm \in Mask
  /\ vga_ack \in BOOLEAN /\ writecache_ack \in BOOLEAN /\ zpu_ack \in BOOLEAN
  /\ dataout1 \in [0..1 -> Half]

Accessing(p) == p \in {"port0", "zpu", "writecache"}

\* The two slots in flight never share a bank, a refresh is never in flight with
\* an access, and one client never holds both slots: the guards of ph2 and ph10
\* together, each looking at what the other phase left in its registers.
SlotsDisjoint ==
  /\ Accessing(sdram_slot1) /\ Accessing(sdram_slot2) =>
        slot1_bank # slot2_bank /\ sdram_slot1 # sdram_slot2
  /\ sdram_slot1 = "refresh" => sdram_slot2 = "idle"

\* The one-entry write cache is acknowledged only while it holds the write that
\* is being acknowledged: an acknowledgement that came late, or twice, would clear
\* the request of a write latched in between, and that write would be lost.
PostedWriteKept == init_done /\ sdram_state # 0 /\ writecache_ack => writecache_req
=============================================================================
