-------------------------------- MODULE SocBus --------------------------------
(***************************************************************************)
(* The peripheral side of the bus (RTL/ZPUTest.vhd:437-668): what a strobe of  *)
(* the CPU does to the UART, the SPI host, the LCD bridge and the VGA          *)
(* registers, per clock edge.  A write carries only the bits its register      *)
(* looks at, a read returns only the bits its register drives, both the most    *)
(* significant first (a UART character: the first sent first).               *)
(***************************************************************************)
EXTENDS Uart, SpiHost, LcdBridge

CONSTANTS
  Characters,     \* the characters the program sends
  SpiBytes,       \* the bytes it exchanges
  Selections      \* what it writes to the chip select register: <<lcd, sd, fast>>

Register == {"UART", "DIVISOR", "CS", "SPI", "SPI_PUMP", "LCD", "VGA", "OTHER"}

ASSUME DataAssumption ==
  /\ Characters \subseteq Character /\ SpiBytes \subseteq [1..8 -> Bit]
  /\ Selections \subseteq [1..3 -> Bit]
  /\ LcdWord \subseteq Seq(Bit)

VARIABLES
  currentstate, mem_busy, mem_read, ser_rxrecv,
  spi_cs, cpu_to_lcd_cs,                      \* 0: selected
  vga_reg_req, vga_reg_dtack,                 \* vga_controller.vhd's handshake
  mem_strobe, mem_op, mem_addr, mem_write     \* driven by the CPU

cpuRegs == <<mem_strobe, mem_op, mem_addr, mem_write>>

BitOf(b) == IF b THEN 1 ELSE 0

\* What the program may write to a register.  For the LCD: bit 31, then the word.
Writable(reg) ==
  CASE reg = "UART" -> Characters
    [] reg = "DIVISOR" -> {<<d>> : d \in Divisors}
    [] reg = "CS" -> Selections
    [] reg \in {"SPI", "SPI_PUMP"} -> SpiBytes
    [] reg = "LCD" -> {<<cmd>> \o w : cmd \in Bit, w \in LcdWord}
    [] OTHER -> {<< >>}

-----------------------------------------------------------------------------
(***************************************************************************)
(* After reset.  Reset returns the bus to WAITING and deselects the card; of   *)
(* what it does not touch, the pulses that start something, the flags and      *)
(* selections keep what they had (leftover), the rest is written before it is  *)
(* read.                                                                   *)
(***************************************************************************)
BusInit(leftover) ==
  /\ currentstate = "WAITING" /\ mem_busy = TRUE /\ mem_read = << >>
  /\ ser_rxrecv \in BOOLEAN /\ ser_txgo \in leftover /\ ser_txdata = Ones(8)
  /\ ser_clock_divisor \in Divisors
  /\ spi_cs = 1 /\ cpu_to_lcd_cs \in {BitOf(b) : b \in leftover} /\ spi_fast \in leftover
  /\ spi_trigger \in leftover /\ spi_wide \in leftover /\ host_to_spi = High(8)
  /\ cpu_to_lcd = cpu_from_lcd /\ cpu_to_lcd_cmd = TRUE
  /\ cpu_to_lcd_req \in leftover /\ cpu_to_lcd_rw = TRUE
  /\ vga_reg_req = FALSE /\ vga_reg_dtack = TRUE
  /\ mem_strobe = FALSE /\ mem_op = "none" /\ mem_addr = "OTHER" /\ mem_write = << >>

-----------------------------------------------------------------------------
(***************************************************************************)
(* What an edge does unless a branch says otherwise.                        *)
(***************************************************************************)
NoUart == ser_txgo' = FALSE /\ UNCHANGED <<ser_txdata, ser_clock_divisor>>
NoSpi == spi_trigger' = FALSE /\ UNCHANGED <<spi_wide, host_to_spi>>
NoLcd == cpu_to_lcd_req' = FALSE /\ UNCHANGED <<cpu_to_lcd, cpu_to_lcd_cmd, cpu_to_lcd_rw>>
NoVga == vga_reg_req' = FALSE
NoSelect == UNCHANGED <<spi_cs, cpu_to_lcd_cs, spi_fast>>
NoPeripheral == NoUart /\ NoSpi /\ NoLcd /\ NoVga /\ NoSelect

\* Mutant: the flag is set before the read has cleared it.
ReceivedMutant(cleared) == (ser_rxint \/ ser_rxrecv) /\ ~cleared
\* "Set this after the read operation has potentially cleared it."
Received(cleared) == ser_rxint \/ (ser_rxrecv /\ ~cleared)

KeepFlag == ser_rxrecv' = Received(FALSE)
Release == mem_busy' = FALSE /\ currentstate' = "WAITING"
Block(state) == mem_busy' = TRUE /\ currentstate' = state
Strobe(op, reg) ==
  currentstate = "WAITING" /\ mem_strobe /\ mem_op = op /\ mem_addr = reg

-----------------------------------------------------------------------------
(***************************************************************************)
(* WAITING: the branches of the two case statements.                        *)
(***************************************************************************)
NoStrobe ==
  /\ currentstate = "WAITING" /\ ~mem_strobe
  /\ Block("WAITING") /\ NoPeripheral /\ KeepFlag /\ UNCHANGED mem_read

WriteUart ==
  /\ Strobe("write", "UART")
  /\ ser_txdata' = mem_write /\ ser_txgo' = TRUE /\ UNCHANGED ser_clock_divisor
  /\ NoSpi /\ NoLcd /\ NoVga /\ NoSelect /\ KeepFlag /\ Release /\ UNCHANGED mem_read

WriteDivisor ==
  /\ Strobe("write", "DIVISOR")
  /\ ser_clock_divisor' = mem_write[1] /\ ser_txgo' = FALSE /\ UNCHANGED ser_txdata
  /\ NoSpi /\ NoLcd /\ NoVga /\ NoSelect /\ KeepFlag /\ Release /\ UNCHANGED mem_read

WriteSelect ==
  /\ Strobe("write", "CS")
  /\ cpu_to_lcd_cs' = 1 - mem_write[1] /\ spi_cs' = 1 - mem_write[2]
  /\ spi_fast' = (mem_write[3] = 1)
  /\ NoUart /\ NoSpi /\ NoLcd /\ NoVga /\ KeepFlag /\ Release /\ UNCHANGED mem_read

WriteSpi(reg) ==
  /\ Strobe("write", reg)
  /\ spi_wide' = (reg = "SPI_PUMP") /\ spi_trigger' = TRUE /\ host_to_spi' = mem_write
  /\ NoUart /\ NoLcd /\ NoVga /\ NoSelect /\ KeepFlag /\ Block("WAITSPIW") /\ UNCHANGED mem_read

WriteLcd ==
  /\ Strobe("write", "LCD")
  /\ cpu_to_lcd' = Tail(mem_write) /\ cpu_to_lcd_cmd' = (mem_write[1] = 1)
  /\ cpu_to_lcd_req' = TRUE /\ cpu_to_lcd_rw' = FALSE
  /\ NoUart /\ NoSpi /\ NoVga /\ NoSelect /\ KeepFlag /\ Block("WAITLCD") /\ UNCHANGED mem_read

WriteVga ==
  /\ Strobe("write", "VGA")
  /\ vga_reg_req' = TRUE
  /\ NoUart /\ NoSpi /\ NoLcd /\ NoSelect /\ KeepFlag /\ Block("VGAWRITE") /\ UNCHANGED mem_read

ReadUart ==
  /\ Strobe("read", "UART")
  /\ LET status == <<BitOf(ser_rxrecv), BitOf(ser_txready)>>
     IN mem_read' = [i \in 1..10 |-> IF i <= 2 THEN status[i] ELSE ser_rxdata[i - 2]]
  /\ ser_rxrecv' = Received(TRUE)
  /\ NoPeripheral /\ Release

ReadBusy ==
  /\ Strobe("read", "CS")
  /\ mem_read' = <<BitOf(spi_busy)>>
  /\ NoPeripheral /\ KeepFlag /\ Release

ReadSpi ==
  /\ Strobe("read", "SPI")
  /\ spi_wide' = FALSE /\ spi_trigger' = FALSE /\ UNCHANGED host_to_spi
  /\ NoUart /\ NoLcd /\ NoVga /\ NoSelect /\ KeepFlag /\ Block("WAITSPIR") /\ UNCHANGED mem_read

ReadPump ==
  /\ Strobe("read", "SPI_PUMP")
  /\ spi_wide' = TRUE /\ spi_trigger' = TRUE /\ host_to_spi' = High(8)
  /\ NoUart /\ NoLcd /\ NoVga /\ NoSelect /\ KeepFlag /\ Block("WAITSPIR") /\ UNCHANGED mem_read

ReadLcd ==
  /\ Strobe("read", "LCD")
  /\ cpu_to_lcd_cmd' = TRUE /\ cpu_to_lcd_req' = TRUE /\ cpu_to_lcd_rw' = TRUE
  /\ NoUart /\ NoSpi /\ NoVga /\ NoSelect /\ KeepFlag /\ Block("WAITLCD")
  /\ UNCHANGED <<mem_read, cpu_to_lcd>>

\* Switches, hex display, millisecond counter, manifest and unused addresses.
OtherRegister ==
  /\ \E op \in {"read", "write"} : Strobe(op, "OTHER")
  /\ mem_read' = IF mem_op = "read" THEN << >> ELSE mem_read
  /\ NoPeripheral /\ KeepFlag /\ Release

-----------------------------------------------------------------------------
(***************************************************************************)
(* The states that wait for a peripheral.                                   *)
(***************************************************************************)
ReleaseWhen(answered) == IF answered THEN Release ELSE Block(currentstate)

VgaWrite ==
  /\ currentstate = "VGAWRITE"
  /\ ReleaseWhen(~vga_reg_dtack) /\ NoPeripheral /\ KeepFlag /\ UNCHANGED mem_read

WaitSpiW ==
  /\ currentstate = "WAITSPIW"
  /\ ReleaseWhen(~spi_busy) /\ NoPeripheral /\ KeepFlag /\ UNCHANGED mem_read

WaitSpiR ==
  /\ currentstate = "WAITSPIR"
  /\ ReleaseWhen(~spi_busy) /\ NoPeripheral /\ KeepFlag /\ mem_read' = sd_shift

WaitLcd ==
  /\ currentstate = "WAITLCD"
  /\ ReleaseWhen(cpu_from_lcd_ack) /\ NoPeripheral /\ KeepFlag
  /\ mem_read' = IF cpu_from_lcd_ack THEN cpu_from_lcd ELSE mem_read

\* Mutant: no answer.
VgaDtackMutant == TRUE
\* The register process of vga_controller.vhd answers in the clock after the request.
VgaDtack == ~vga_reg_req

BusEdge ==
  /\ \/ NoStrobe \/ WriteUart \/ WriteDivisor \/ WriteSelect
     \/ \E reg \in {"SPI", "SPI_PUMP"} : WriteSpi(reg)
     \/ WriteLcd \/ WriteVga \/ ReadUart \/ ReadBusy \/ ReadSpi \/ ReadPump \/ ReadLcd
     \/ OtherRegister \/ VgaWrite \/ WaitSpiW \/ WaitSpiR \/ WaitLcd
  /\ vga_reg_dtack' = VgaDtack

\* The access of the CPU is answered in this clock.
Answered(op, reg) == ~mem_busy /\ mem_op = op /\ mem_addr = reg

BusTypeOK ==
  /\ currentstate \in {"WAITING", "VGAWRITE", "WAITSPIW", "WAITSPIR", "WAITLCD"}
  /\ {mem_busy, ser_rxrecv, vga_reg_req, vga_reg_dtack, mem_strobe} \subseteq BOOLEAN
  /\ spi_cs \in Bit /\ cpu_to_lcd_cs \in Bit
  /\ mem_op \in {"none", "read", "write"} /\ mem_addr \in Register
=============================================================================
