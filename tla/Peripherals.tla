------------------------------ MODULE Peripherals ------------------------------
(***************************************************************************)
(* The CPU, the bus's peripheral side, UART, SPI host and LCD bridge, with     *)
(* what is on their pins (external to src/): a remote sender and a listener on *)
(* the serial line, an SD card that answers with a fixed stream of bits, and  *)
(* a panel.  One step is one clock edge.                                    *)
(***************************************************************************)
EXTENDS SocBus

CONSTANTS
  Programs,       \* what may run
  Widths,         \* the clocks one of its bits may take
  Stream,         \* the bits the card sends, over and over
  AccessTime,     \* clocks after which the panel's word is valid
  HoldTimes       \* clocks it drives on after lcd_rd has risen

\* A program is a record: its accesses, a set of <<"read" or "write", register>>; the
\* characters arriving meanwhile; what a flag that reset leaves alone may hold;
\* the divisor it has set.
ASSUME ProgramAssumption ==
  \A p \in Programs :
    /\ DOMAIN p = {"accesses", "arriving", "leftover", "divisor"}
    /\ p.divisor \in Divisors
    /\ p.accesses \subseteq {"read", "write"} \X Register
    /\ {<<"read", "VGA">>, <<"read", "DIVISOR">>} \cap p.accesses = {}
    /\ p.arriving \subseteq Character /\ p.leftover \subseteq BOOLEAN /\ p.leftover # {}

ASSUME PartnerAssumption ==
  /\ Widths \subseteq Nat \ {0} /\ Widths # {}
  /\ Stream \in Seq(Bit) /\ Stream # << >>
  /\ AccessTime \in Nat \ {0} /\ HoldTimes \subseteq Nat \ {0} /\ HoldTimes # {}

\* The panels the bridge's delays are meant for: lcd_rd is low for ten clocks, and after it
\* has risen fifteen pass before the bridge can drive the bus.
ASSUME PanelAssumption == AccessTime <= 10 /\ \A h \in HoldTimes : h <= 14

\* What some theorems ask of the programs and of the remote end: a program that sends leaves the
\* divisor as it is, and the receiver, which takes its samples in the middle of bits of its own,
\* samples in each bit, the stop bit too, and is at rest before the next frame can begin.
DivisorKept == \A p \in Programs : <<"write", "DIVISOR">> \in p.accesses => Divisors = {p.divisor}
Tolerated(w, d) ==
  /\ (d \div 2) + 3 <= w
  /\ 9 * w <= (9 * (d + 1)) + (d \div 2) + 2
  /\ (9 * (d + 1)) + (d \div 2) + 6 <= 10 * w
DriftTolerated == \A p \in Programs : p.arriving # {} => \A w \in Widths : Tolerated(w, p.divisor)

VARIABLES
  program,        \* the one that runs
  knows_ready,    \* the program has seen txready and not written since
  warm,           \* an exchange has been completed since reset
  wire, wire_left, bit_width,                     \* remote sender
  frame, awaited, unread,                         \* what it sent and what the CPU has read of it
  ear, heard, spoken,                             \* listener, the character accepted last
  position, card_in, card_out,                    \* the card, since the last trigger
  panel_word, panel_low, panel_hold, latched      \* the panel

remoteVars == <<wire, wire_left, bit_width, frame, awaited, unread>>
panelVars == <<panel_word, panel_low, panel_hold, latched, lcd_data_in>>
vars == <<cpuRegs, currentstate, mem_busy, mem_read, ser_rxrecv, spi_cs, cpu_to_lcd_cs,
          vga_reg_req, vga_reg_dtack, ser_clock_divisor, rxd, ser_txgo, ser_txdata, rxRegs, txRegs,
          host_to_spi, spi_wide, spi_trigger, spi_fast, miso, spiRegs,
          cpu_to_lcd, cpu_to_lcd_cmd, cpu_to_lcd_req, cpu_to_lcd_rw, lcdRegs,
          program, knows_ready, warm, remoteVars, ear, heard, spoken, position, card_in, card_out, panelVars>>

-----------------------------------------------------------------------------
(***************************************************************************)
(* The CPU runs a program that behaves as the firmware does: it sends a        *)
(* character only after it has seen txready (minisoc_hardware.c:6), selects    *)
(* the card only after an exchange with nobody selected (spi.c:225-228), and    *)
(* otherwise does what it likes when it likes.                              *)
(***************************************************************************)
Careful(op, reg, data) ==
  /\ <<op, reg>> = <<"write", "UART">> => knows_ready
  /\ <<op, reg>> = <<"write", "CS">> => data[2] = 0 \/ warm

Issue(op, reg) ==
  /\ mem_op = "none" /\ mem_strobe' = TRUE /\ mem_op' = op /\ mem_addr' = reg
  /\ IF op = "write" THEN \E data \in Writable(reg) : Careful(op, reg, data) /\ mem_write' = data
                     ELSE mem_write' = mem_write
  /\ knows_ready' = (knows_ready /\ <<op, reg>> # <<"write", "UART">>)
  /\ UNCHANGED warm

Await ==
  /\ mem_op # "none" /\ mem_busy
  /\ mem_strobe' = FALSE /\ UNCHANGED <<mem_op, mem_addr, mem_write, knows_ready, warm>>

Continue ==
  /\ mem_op # "none" /\ ~mem_busy
  /\ mem_strobe' = FALSE /\ mem_op' = "none" /\ mem_addr' = "OTHER" /\ mem_write' = << >>
  /\ knows_ready' = (knows_ready \/ (Answered("read", "UART") /\ mem_read[2] = 1))
  /\ warm' = (warm \/ (mem_addr \in {"SPI", "SPI_PUMP"} /\ <<mem_op, mem_addr>> # <<"read", "SPI">>))

Compute == mem_op = "none" /\ UNCHANGED <<cpuRegs, knows_ready, warm>>

CpuEdge ==
  /\ (\E a \in program.accesses : Issue(a[1], a[2])) \/ Await \/ Continue \/ Compute
  /\ UNCHANGED program

-----------------------------------------------------------------------------
(***************************************************************************)
(* The remote sender.  Its bits may be a little longer or shorter than the     *)
(* receiver's, its characters follow each other as closely as it likes.        *)
(***************************************************************************)
LineFree == wire = << >> \/ (Len(wire) = 1 /\ wire_left = 0)

Quiet ==
  /\ LineFree /\ wire' = << >> /\ wire_left' = 0 /\ rxd' = 1 /\ UNCHANGED frame

Begin(c) ==
  /\ LineFree /\ wire' = <<0>> \o c \o <<1>> /\ wire_left' = bit_width - 1 /\ rxd' = 0
  /\ frame' = c

Send ==
  /\ ~LineFree
  /\ wire' = IF wire_left = 0 THEN Tail(wire) ELSE wire
  /\ wire_left' = IF wire_left = 0 THEN bit_width - 1 ELSE wire_left - 1
  /\ rxd' = wire'[1] /\ UNCHANGED frame

Begins == LineFree /\ wire' # << >>
Reads == mem_strobe /\ mem_op = "read" /\ mem_addr = "UART"

\* unread: the characters given to the bus and not read since, a flag left over from
\* before reset included; with two, one is lost.
RemoteEdge ==
  /\ Quiet \/ (\E c \in program.arriving : Begin(c)) \/ Send
  /\ awaited' = (Begins \/ (awaited /\ ~ser_rxint'))
  /\ LET left == IF Reads /\ ser_rxrecv /\ unread = 1 THEN 0 ELSE unread
     IN unread' = IF ser_rxint' /\ left < 2 THEN left + 1 ELSE left
  /\ UNCHANGED bit_width

\* A listener that looks at the middle of each bit, counted from the start edge.
ListenerEdge ==
  /\ ear' = CASE ear = 0 -> (IF txd = 0 THEN 1 ELSE 0)
              [] ear > 0 /\ Len(heard) = 10 /\ txd = 1 -> 0
              [] OTHER -> IF Len(heard) = 10 THEN ear ELSE ear + 1
  /\ heard' = CASE ear = 0 -> << >>
                [] ear > 0 /\ ear % (ser_clock_divisor + 1) = ser_clock_divisor \div 2
                   /\ Len(heard) < 10 -> Append(heard, txd)
                [] OTHER -> heard
  /\ spoken' = IF ser_txgo THEN ser_txdata ELSE spoken

-----------------------------------------------------------------------------
(***************************************************************************)
(* The card puts out a bit when its clock falls and takes one in when it        *)
(* rises; deselected, it does neither.                                       *)
(***************************************************************************)
CardEdge ==
  LET selected == spi_cs = 0
      falls == selected /\ sck = 1 /\ sck' = 0
      rises == selected /\ sck = 0 /\ sck' = 1
      since(bits) == IF spi_trigger THEN << >> ELSE bits
      next == Stream[position + 1]
  IN /\ miso' = CASE falls -> next [] selected /\ ~falls -> miso [] OTHER -> 1
     /\ position' = IF falls THEN (position + 1) % Len(Stream) ELSE position
     /\ card_out' = since(IF falls THEN Append(card_out, next) ELSE card_out)
     /\ card_in' = IF rises THEN Append(since(card_in), mosi) ELSE since(card_in)

(***************************************************************************)
(* The panel, selected by cpu_to_lcd_cs: a rising lcd_wr takes in what is on   *)
(* the bus; while lcd_rd is low it drives, from AccessTime on with its word, and *)
(* it drives a little longer.  A floating bus matters, and may be anything,     *)
(* while it is being read.  latched is what the panel took in in this access.   *)
(***************************************************************************)
PanelDrives == panel_low > 0

PanelRead ==
  /\ cpu_to_lcd_cs = 0 /\ ~lcd_rd'
  /\ panel_word' \in IF lcd_rd THEN LcdWord ELSE {panel_word}
  /\ panel_low' = IF panel_low < AccessTime THEN panel_low + 1 ELSE panel_low
  /\ panel_hold' \in HoldTimes

PanelHolds ==
  /\ (cpu_to_lcd_cs = 1 \/ lcd_rd') /\ UNCHANGED panel_word
  /\ IF PanelDrives /\ panel_hold > 0
     THEN panel_hold' = panel_hold - 1 /\ UNCHANGED panel_low
     ELSE panel_hold' = 0 /\ panel_low' = 0

PanelEdge ==
  /\ PanelRead \/ PanelHolds
  /\ lcd_data_in' \in CASE panel_low' = AccessTime -> {panel_word'}
                       [] panel_low' < AccessTime /\ ~(lcd_rd /\ lcd_rd') -> LcdWord
                       [] OTHER -> {lcd_data_in}
  /\ latched' = IF cpu_to_lcd_cs = 0 /\ ~lcd_wr /\ lcd_wr'
                THEN Append(latched, [rs |-> lcd_rs, driven |-> lcd_drive, word |-> cpu_to_lcd])
                ELSE IF mem_strobe THEN << >> ELSE latched

-----------------------------------------------------------------------------
Init ==
  /\ lcd_data_in \in LcdWord
  /\ program \in Programs /\ ser_clock_divisor = program.divisor
  /\ LcdInit(program.leftover) /\ BusInit(program.leftover) /\ UartInit /\ SpiInit
  /\ knows_ready = FALSE /\ warm = FALSE
  /\ wire = << >> /\ wire_left = 0 /\ rxd = 1
  /\ bit_width \in IF program.arriving = {} THEN {ser_clock_divisor + 1} ELSE Widths
  /\ frame = Ones(8) /\ awaited = FALSE /\ unread = BitOf(ser_rxrecv)
  /\ ear = 0 /\ heard = << >> /\ spoken = Ones(8)
  /\ miso = 1 /\ position = 0 /\ card_in = << >> /\ card_out = << >>
  /\ panel_word = lcd_data_in /\ panel_low = 0 /\ panel_hold = 0 /\ latched = << >>

Next ==
  /\ CpuEdge /\ BusEdge /\ UartEdge /\ SpiEdge /\ LcdEdge
  /\ RemoteEdge /\ ListenerEdge /\ CardEdge /\ PanelEdge

Spec == Init /\ [][Next]_vars
FairSpec == Spec /\ WF_vars(Next)

-----------------------------------------------------------------------------
\* Every register holds a value of its type, and the partners' counters stay in range.
TypeOK ==
  /\ BusTypeOK /\ UartTypeOK /\ SpiTypeOK /\ LcdTypeOK
  /\ Len(wire) <= 10 /\ unread \in 0..2 /\ Len(heard) <= 10
  /\ Len(card_in) <= 32 /\ Len(card_out) <= 32 /\ panel_low \in 0..AccessTime

(***************************************************************************)
(* Serial line.                                                            *)
(***************************************************************************)
\* Each character the remote end sends is reported once, with its bits, before the
\* next one begins, whatever the phase and the small difference of the two clocks
\* (simple_uart.vhd:103-169).
ReceivedOnce ==
  [][/\ ser_rxint' => awaited /\ ser_rxdata' = frame
     /\ Begins => ~awaited]_vars

\* Unless a second character arrives before the first is read, the flag says exactly
\* whether there is one the CPU has not read, also when the read meets the arrival
\* (ZPUTest.vhd:537-541 and 663-666).
NothingLostOrReadTwice ==
  unread < 2 => ((ser_rxrecv \/ ser_rxint) <=> unread = 1)

\* A program that polls txready never writes into a transmission: the transmitter is idle
\* when it is told to go (simple_uart.vhd:176-209; the bus has no check of its own).
NothingDropped == ser_txgo => txstate = "idle"

\* In the middle of each bit the line shows start bit, character and stop bit of the
\* character accepted last.
Transmission ==
  LET whole == <<0>> \o spoken \o <<1>>
  IN \A i \in 1..Len(heard) : heard[i] = whole[i]

(***************************************************************************)
(* Serial peripheral interface.                                            *)
(***************************************************************************)
LastBits(word, n) == SubSeq(word, Len(word) - n + 1, Len(word))

\* When the CPU goes on after an exchange with a selected card, the card has got all of
\* its bits and nothing else, and the host all of the card's (spi.vhd:45-68); every register
\* on the way and of the other peripherals keeps its width.
SpiExchange ==
  TypeOK /\ (spi_cs = 0 =>
    /\ Answered("write", "SPI") => card_in = mem_write
    /\ Answered("write", "SPI_PUMP") => card_in = mem_write \o High(24)
    /\ Answered("read", "SPI_PUMP") => card_in = High(32) /\ mem_read = card_out
    /\ Answered("read", "SPI") => LastBits(mem_read, Len(card_out)) = card_out
    /\ (\E op \in {"read", "write"}, reg \in {"SPI", "SPI_PUMP"} : Answered(op, reg)) =>
          LastBits(sd_shift, Len(card_out)) = card_out)

(***************************************************************************)
(* LCD bridge.                                                             *)
(***************************************************************************)
\* A write of the CPU is one write cycle of the panel, with the bridge driving the CPU's
\* word and bit 31 on the register select (lcd_bridge.vhd:67-117).  A read returns the panel's
\* word and writes nothing; rd1 acts twice, so the word is taken while the panel still holds it
\* after lcd_rd has risen; the two never drive the bus at the same time.
LcdAccess ==
  /\ Answered("write", "LCD") /\ cpu_to_lcd_cs = 0 =>
       latched = <<[rs |-> (mem_write[1] = 1), driven |-> TRUE, word |-> Tail(mem_write)]>>
  /\ Answered("read", "LCD") /\ cpu_to_lcd_cs = 0 => mem_read = panel_word /\ latched = << >>
  /\ ~(lcd_drive /\ PanelDrives)

\* Every access of the CPU is answered.
Served == mem_strobe ~> ~mem_busy
=============================================================================
