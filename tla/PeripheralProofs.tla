--------------------------- MODULE PeripheralProofs ---------------------------
(***************************************************************************)
(* Theorems about Peripherals, for every program, every set of characters and  *)
(* selections, and every behaviour of the partners on the pins.              *)
(***************************************************************************)
EXTENDS Peripherals, SequenceTheorems, TLAPS

(***************************************************************************)
(* The protocol between CPU and bus.  A strobe meets a bus that is waiting,     *)
(* the CPU is released for one clock, and by then the bus is waiting again.     *)
(***************************************************************************)
Handshake ==
  /\ program \in Programs
  /\ {mem_busy, mem_strobe} \subseteq BOOLEAN
  /\ mem_op = "none" => ~mem_strobe /\ currentstate = "WAITING"
  /\ mem_strobe => currentstate = "WAITING" /\ mem_busy
  /\ ~mem_busy => currentstate = "WAITING"

\* What an edge of the bus is to the CPU: idling, taking up a strobe, or waiting.
LEMMA BusCases ==
  ASSUME BusEdge
  PROVE  \/ currentstate = "WAITING" /\ ~mem_strobe /\ Block("WAITING")
         \/ currentstate = "WAITING" /\ mem_strobe /\ (Release \/ \E state : Block(state))
         \/ currentstate # "WAITING" /\ (Release \/ Block(currentstate))
<1>1. CASE NoStrobe
  BY <1>1 DEF NoStrobe
<1>2. CASE WriteUart \/ WriteDivisor \/ WriteSelect
  BY <1>2, Zenon DEF WriteUart, WriteDivisor, WriteSelect, Strobe
<1>3. CASE \E reg \in {"SPI", "SPI_PUMP"} : WriteSpi(reg)
  BY <1>3, Zenon DEF WriteSpi, Strobe
<1>4. CASE WriteLcd \/ WriteVga
  BY <1>4, Zenon DEF WriteLcd, WriteVga, Strobe
<1>5. CASE ReadUart \/ ReadBusy \/ OtherRegister
  BY <1>5, Zenon DEF ReadUart, ReadBusy, OtherRegister, Strobe
<1>6. CASE ReadSpi \/ ReadPump \/ ReadLcd
  BY <1>6, Zenon DEF ReadSpi, ReadPump, ReadLcd, Strobe
<1>7. CASE VgaWrite \/ WaitSpiW \/ WaitSpiR \/ WaitLcd
  <2>1. currentstate # "WAITING"
    BY <1>7 DEF VgaWrite, WaitSpiW, WaitSpiR, WaitLcd
  <2>2. \E b : ReleaseWhen(b)
    BY <1>7, Zenon DEF VgaWrite, WaitSpiW, WaitSpiR, WaitLcd
  <2> QED
    BY <2>1, <2>2, Zenon DEF ReleaseWhen
<1> QED
  BY <1>1, <1>2, <1>3, <1>4, <1>5, <1>6, <1>7, Zenon DEF BusEdge

\* The CPU leaves its rest by a strobe, and returns to it when the bus has let go.
LEMMA CpuCases ==
  ASSUME CpuEdge, program \in Programs
  PROVE  \/ mem_op = "none" /\ mem_strobe' = TRUE /\ mem_op' # "none"
         \/ mem_op # "none" /\ mem_busy /\ mem_strobe' = FALSE /\ mem_op' = mem_op
         \/ mem_op # "none" /\ ~mem_busy /\ mem_strobe' = FALSE /\ mem_op' = "none"
         \/ mem_op = "none" /\ mem_op' = mem_op /\ mem_strobe' = mem_strobe
<1>1. ASSUME NEW a \in program.accesses, Issue(a[1], a[2])
      PROVE  mem_op = "none" /\ mem_strobe' = TRUE /\ mem_op' # "none"
  <2>1. a[1] \in {"read", "write"}
    BY <1>1, ProgramAssumption
  <2> QED
    BY <1>1, <2>1 DEF Issue
<1>2. CASE Await \/ Continue \/ Compute
  BY <1>2 DEF Await, Continue, Compute, cpuRegs
<1> QED
  BY <1>1, <1>2, Zenon DEF CpuEdge

LEMMA HandshakeStep ==
  ASSUME Handshake, [Next]_vars
  PROVE  Handshake'
<1>1. CASE Next
  <2>1. BusEdge /\ CpuEdge
    BY <1>1 DEF Next
  <2>. program' \in Programs
    BY <2>1 DEF Handshake, CpuEdge
  <2>2. mem_busy' \in BOOLEAN /\ mem_strobe' \in BOOLEAN
    BY <2>1, BusCases, CpuCases DEF Handshake, Release, Block
  <2>3. mem_op' = "none" => ~mem_strobe' /\ currentstate' = "WAITING"
    BY <2>1, BusCases, CpuCases DEF Handshake, Release, Block
  <2>4. mem_strobe' => currentstate' = "WAITING" /\ mem_busy'
    BY <2>1, BusCases, CpuCases DEF Handshake, Release, Block
  <2>5. ~mem_busy' => currentstate' = "WAITING"
    BY <2>1, BusCases, CpuCases DEF Handshake, Release, Block
  <2> QED
    BY <2>2, <2>3, <2>4, <2>5 DEF Handshake
<1>2. CASE UNCHANGED vars
  BY <1>2 DEF Handshake, vars, cpuRegs
<1> QED
  BY <1>1, <1>2

LEMMA HandshakeAlways == Spec => []Handshake
<1>1. Init => Handshake
  BY DEF Init, BusInit, Handshake
<1> QED
  BY <1>1, HandshakeStep, PTL DEF Spec

-----------------------------------------------------------------------------
(***************************************************************************)
(* The received character's flag.                                          *)
(***************************************************************************)
\* Inductive together with: the flag and the pulse stand for a character each, so that
\* before an overrun they are not up at once.
Flag ==
  /\ {ser_rxrecv, ser_rxint} \subseteq BOOLEAN
  /\ unread \in 0..2
  /\ NothingLostOrReadTwice
  /\ unread < 2 => ~(ser_rxrecv /\ ser_rxint)

\* The receiver's pulse is a truth value after every edge.
LEMMA PulseType ==
  ASSUME Receive
  PROVE  ser_rxint' \in BOOLEAN
<1>1. CASE RxIdle \/ RxStart \/ RxBits
  BY <1>1 DEF RxIdle, RxStart, RxBits
<1>2. CASE RxStop
  BY <1>2 DEF RxStop
<1> QED
  BY <1>1, <1>2, Zenon DEF Receive

\* The bus clears the flag for a read of the UART and for nothing else, and a pulse sets it
\* all the same.
LEMMA FlagStep ==
  ASSUME BusEdge, Handshake, {ser_rxrecv, ser_rxint} \subseteq BOOLEAN
  PROVE  ser_rxrecv' = IF Reads THEN ser_rxint ELSE ser_rxint \/ ser_rxrecv
<1>1. CASE ReadUart
  <2>1. Reads /\ ser_rxrecv' = (ser_rxint \/ (ser_rxrecv /\ ~TRUE))
    BY <1>1, Zenon DEF ReadUart, Strobe, Reads, Received
  <2> QED
    BY <2>1
<1>2. ASSUME KeepFlag, ~Reads
      PROVE  ser_rxrecv' = IF Reads THEN ser_rxint ELSE ser_rxint \/ ser_rxrecv
  BY <1>2 DEF KeepFlag, Received
<1>3. CASE NoStrobe \/ VgaWrite \/ WaitSpiW \/ WaitSpiR \/ WaitLcd
  <2>1. KeepFlag
    BY <1>3, Zenon DEF NoStrobe, VgaWrite, WaitSpiW, WaitSpiR, WaitLcd
  <2>2. ~mem_strobe
    BY <1>3 DEF NoStrobe, VgaWrite, WaitSpiW, WaitSpiR, WaitLcd, Handshake
  <2> QED
    BY <1>2, <2>1, <2>2, Zenon DEF Reads
<1>4. CASE WriteUart \/ WriteDivisor \/ WriteSelect \/ WriteLcd \/ WriteVga
           \/ \E reg \in {"SPI", "SPI_PUMP"} : WriteSpi(reg)
  <2>1. KeepFlag /\ mem_op = "write"
    BY <1>4, Zenon DEF WriteUart, WriteDivisor, WriteSelect, WriteLcd, WriteVga, WriteSpi, Strobe
  <2> QED
    BY <1>2, <2>1 DEF Reads
<1>5. CASE ReadBusy \/ ReadSpi \/ ReadPump \/ ReadLcd \/ OtherRegister
  <2>1. KeepFlag
    BY <1>5, Zenon DEF ReadBusy, ReadSpi, ReadPump, ReadLcd, OtherRegister
  <2>2. mem_addr # "UART"
    BY <1>5 DEF ReadBusy, ReadSpi, ReadPump, ReadLcd, OtherRegister, Strobe
  <2> QED
    BY <1>2, <2>1, <2>2 DEF Reads
<1> QED
  BY <1>1, <1>3, <1>4, <1>5, Zenon DEF BusEdge

LEMMA FlagKept ==
  ASSUME Flag, Handshake, [Next]_vars
  PROVE  Flag'
<1>1. CASE Next
  <2>1. BusEdge /\ Receive /\ RemoteEdge
    BY <1>1 DEF Next, UartEdge
  <2>2. ser_rxint' \in BOOLEAN
    BY <2>1, PulseType
  <2>3. ser_rxrecv' = IF Reads THEN ser_rxint ELSE ser_rxint \/ ser_rxrecv
    BY <2>1, FlagStep DEF Flag
  <2>4. unread' = LET left == IF Reads /\ ser_rxrecv /\ unread = 1 THEN 0 ELSE unread
                  IN IF ser_rxint' /\ left < 2 THEN left + 1 ELSE left
    BY <2>1, Zenon DEF RemoteEdge
  <2>5. unread \in {0, 1, 2} /\ unread' \in {0, 1, 2}
    BY <2>4 DEF Flag
  <2>6. ser_rxrecv' \in BOOLEAN
    BY <2>3 DEF Flag
  <2>7. CASE unread' = 2
    BY <2>2, <2>6, <2>7 DEF Flag, NothingLostOrReadTwice
  <2>8. CASE unread' = 1
    <3>1. CASE ser_rxint'
      <4>1. unread = 0 \/ (unread = 1 /\ Reads /\ ser_rxrecv)
        BY <2>4, <2>5, <2>8, <3>1
      <4>2. ~ser_rxint /\ (unread = 0 => ~ser_rxrecv)
        BY <4>1 DEF Flag, NothingLostOrReadTwice
      <4>3. ~ser_rxrecv'
        BY <2>3, <4>1, <4>2
      <4> QED
        BY <2>2, <2>6, <2>8, <3>1, <4>3 DEF Flag, NothingLostOrReadTwice
    <3>2. CASE ~ser_rxint'
      <4>1. unread = 1 /\ ~(Reads /\ ser_rxrecv)
        BY <2>4, <2>5, <2>8, <3>2
      <4>2. ser_rxrecv \/ ser_rxint
        BY <4>1 DEF Flag, NothingLostOrReadTwice
      <4>3. ser_rxrecv'
        BY <2>3, <4>1, <4>2
      <4> QED
        BY <2>2, <2>6, <2>8, <3>2, <4>3 DEF Flag, NothingLostOrReadTwice
    <3> QED
      BY <3>1, <3>2
  <2>9. CASE unread' = 0
    <3>1. ~ser_rxint' /\ (unread = 0 \/ (unread = 1 /\ Reads /\ ser_rxrecv))
      BY <2>4, <2>5, <2>9
    <3>2. ~ser_rxint /\ (unread = 0 => ~ser_rxrecv)
      BY <3>1 DEF Flag, NothingLostOrReadTwice
    <3>3. ~ser_rxrecv'
      BY <2>3, <3>1, <3>2
    <3> QED
      BY <2>2, <2>6, <2>9, <3>1, <3>3 DEF Flag, NothingLostOrReadTwice
  <2> QED
    BY <2>5, <2>7, <2>8, <2>9
<1>2. CASE UNCHANGED vars
  BY <1>2 DEF Flag, NothingLostOrReadTwice, vars, rxRegs, remoteVars
<1> QED
  BY <1>1, <1>2

LEMMA FlagAlways == Spec => []Flag
<1>1. Init => Flag
  <2>. SUFFICES ASSUME Init PROVE Flag
    OBVIOUS
  <2>1. ser_rxrecv \in BOOLEAN /\ ser_rxint \in BOOLEAN /\ ~ser_rxint
    BY Zenon DEF Init, BusInit, UartInit
  <2>2. unread = IF ser_rxrecv THEN 1 ELSE 0
    BY Zenon DEF Init, BitOf
  <2>3. CASE ser_rxrecv
    <3>1. unread = 1
      BY <2>2, <2>3
    <3> QED
      BY <2>1, <2>3, <3>1 DEF Flag, NothingLostOrReadTwice
  <2>4. CASE ~ser_rxrecv
    <3>1. unread = 0
      BY <2>2, <2>4
    <3> QED
      BY <2>1, <2>4, <3>1 DEF Flag, NothingLostOrReadTwice
  <2> QED
    BY <2>3, <2>4
<1> QED
  BY <1>1, FlagKept, HandshakeAlways, PTL DEF Spec

\* No character is lost or read twice by the CPU before the first overrun, whatever the
\* remote sender and the program do (ZPUTest.vhd:537-541 and 663-666).
THEOREM FlagIsExact == Spec => []NothingLostOrReadTwice
<1>1. Flag => NothingLostOrReadTwice
  BY DEF Flag
<1> QED
  BY <1>1, FlagAlways, PTL

-----------------------------------------------------------------------------
(***************************************************************************)
(* The transmitter.  What the program has seen of txready stays true until it   *)
(* writes, because only its own write starts a transmission.                  *)
(***************************************************************************)
SeenReady == Answered("read", "UART") /\ mem_read[2] = 1
Writes == mem_op = "write" /\ mem_addr = "UART"

Sender ==
  /\ {ser_txready, ser_txgo, knows_ready} \subseteq BOOLEAN
  /\ ser_txready => txstate = "idle"
  /\ mem_strobe => ~ser_txgo
  /\ SeenReady => ser_txready /\ ~ser_txgo
  /\ knows_ready => ser_txready /\ ~ser_txgo
  /\ mem_strobe /\ Writes => ser_txready
  /\ Writes => ~knows_ready
  /\ currentstate # "WAITING" => mem_addr # "UART"
  /\ NothingDropped

\* The transmitter stays ready unless it is told to go, and ready means idle.
LEMMA TransmitterStep ==
  ASSUME Transmit, ser_txready \in BOOLEAN, ser_txgo \in BOOLEAN, ser_txready => txstate = "idle"
  PROVE  /\ ser_txready' \in BOOLEAN
         /\ ser_txready' => txstate' = "idle"
         /\ ser_txready /\ ~ser_txgo => ser_txready'
<1>1. CASE TxIdle
  BY <1>1 DEF TxIdle
<1>2. CASE TxBits
  <2>1. ~ser_txready
    BY <1>2 DEF TxBits
  <2>2. CASE UNCHANGED <<txbuffer, txstate, ser_txready, txd>>
    BY <2>1, <2>2
  <2>3. CASE txclock = 1
    <3>1. /\ txstate' = IF TxDone THEN "idle" ELSE "bits"
          /\ ser_txready' = (ser_txready \/ TxDone)
      BY <1>2, <2>3 DEF TxBits
    <3>2. ser_txready' \in BOOLEAN /\ (ser_txready' => TxDone)
      BY <2>1, <3>1, Zenon
    <3> QED
      BY <2>1, <3>1, <3>2
  <2> QED
    BY <1>2, <2>2, <2>3 DEF TxBits
<1> QED
  BY <1>1, <1>2 DEF Transmit

\* Only a write of the UART starts a transmission, and only a read of the UART is answered
\* with its status.
LEMMA BusAndUart ==
  ASSUME BusEdge, Handshake, Sender
  PROVE  /\ ser_txgo' = (mem_strobe /\ Writes)
         /\ currentstate' # "WAITING" => mem_addr # "UART"
         /\ ~mem_busy' /\ mem_op = "read" /\ mem_addr = "UART" =>
              mem_read'[2] = BitOf(ser_txready) /\ mem_strobe
<1>1. CASE WriteUart
  <2>1. ser_txgo' = TRUE /\ mem_strobe /\ Writes /\ currentstate' = "WAITING"
    BY <1>1, Zenon DEF WriteUart, Strobe, Writes, Release
  <2>2. ser_txgo' = (mem_strobe /\ Writes)
    BY <2>1, Zenon DEF Handshake
  <2> QED
    BY <2>1, <2>2 DEF Writes
<1>2. CASE ReadUart
  <2>1. mem_read'[2] = BitOf(ser_txready)
    BY <1>2 DEF ReadUart
  <2> QED
    BY <1>2, <2>1 DEF ReadUart, Strobe, Writes, NoPeripheral, NoUart, Release, Handshake
<1>3. CASE NoStrobe
  BY <1>3 DEF NoStrobe, Block, NoPeripheral, NoUart, Handshake
<1>4. CASE VgaWrite \/ WaitSpiW \/ WaitSpiR \/ WaitLcd
  <2>1. currentstate # "WAITING" /\ NoPeripheral
    BY <1>4 DEF VgaWrite, WaitSpiW, WaitSpiR, WaitLcd
  <2> QED
    BY <2>1 DEF NoPeripheral, NoUart, Handshake, Sender
<1>5. CASE WriteDivisor \/ WriteSelect \/ WriteLcd \/ WriteVga
           \/ \E reg \in {"SPI", "SPI_PUMP"} : WriteSpi(reg)
  <2>1. ser_txgo' = FALSE /\ mem_addr # "UART"
    BY <1>5 DEF WriteDivisor, WriteSelect, WriteLcd, WriteVga, WriteSpi, Strobe, NoUart
  <2> QED
    BY <2>1 DEF Writes
<1>6. CASE ReadBusy \/ ReadSpi \/ ReadPump \/ ReadLcd \/ OtherRegister
  <2>1. ser_txgo' = FALSE /\ mem_addr # "UART"
    BY <1>6 DEF ReadBusy, ReadSpi, ReadPump, ReadLcd, OtherRegister, Strobe, NoPeripheral, NoUart
  <2> QED
    BY <2>1 DEF Writes
<1> QED
  BY <1>1, <1>2, <1>3, <1>4, <1>5, <1>6, Zenon DEF BusEdge

\* What the program knows, by the four kinds of its steps.
LEMMA ProgramStep ==
  ASSUME CpuEdge, Handshake, knows_ready \in BOOLEAN
  PROVE  \/ /\ mem_op = "none" /\ mem_strobe' = TRUE
            /\ mem_op' = "write" /\ mem_addr' = "UART" => knows_ready /\ knows_ready' = FALSE
            /\ knows_ready' \in BOOLEAN /\ (knows_ready' => knows_ready)
         \/ /\ mem_op # "none" /\ mem_strobe' = FALSE
            /\ mem_op' = mem_op /\ mem_addr' = mem_addr /\ knows_ready' = knows_ready
         \/ /\ mem_op # "none" /\ ~mem_busy /\ mem_strobe' = FALSE /\ mem_op' = "none"
            /\ mem_addr' = "OTHER"
            /\ knows_ready' \in BOOLEAN /\ (knows_ready' => knows_ready \/ SeenReady)
         \/ /\ mem_op = "none" /\ mem_strobe' = mem_strobe /\ mem_op' = mem_op
            /\ mem_addr' = mem_addr /\ knows_ready' = knows_ready
<1>1. ASSUME NEW a \in program.accesses, Issue(a[1], a[2])
      PROVE  /\ mem_op = "none" /\ mem_strobe' = TRUE
             /\ mem_op' = "write" /\ mem_addr' = "UART" => knows_ready /\ knows_ready' = FALSE
             /\ knows_ready' \in BOOLEAN /\ (knows_ready' => knows_ready)
  <2>1. CASE <<a[1], a[2]>> = <<"write", "UART">>
    <3>1. a[1] = "write" /\ a[2] = "UART"
      BY <2>1
    <3> QED
      BY <1>1, <3>1 DEF Issue, Careful
  <2>2. CASE <<a[1], a[2]>> # <<"write", "UART">>
    <3>1. ~(a[1] = "write" /\ a[2] = "UART")
      BY <2>2
    <3>2. knows_ready' = knows_ready /\ mem_op' = a[1] /\ mem_addr' = a[2]
          /\ mem_op = "none" /\ mem_strobe' = TRUE
      BY <1>1, <2>2 DEF Issue
    <3> QED
      BY <3>1, <3>2
  <2> QED
    BY <2>1, <2>2
<1>2. CASE Await
  BY <1>2 DEF Await
<1>3. CASE Continue
  BY <1>3, Zenon DEF Continue, SeenReady
<1>4. CASE Compute
  BY <1>4 DEF Compute, cpuRegs
<1> QED
  BY <1>1, <1>2, <1>3, <1>4, Zenon DEF CpuEdge

LEMMA SenderStep ==
  ASSUME Sender, Handshake, [Next]_vars
  PROVE  Sender'
<1>1. CASE Next
  <2>. BusEdge /\ CpuEdge /\ Transmit
    BY <1>1 DEF Next, UartEdge
  <2>. DEFINE go == mem_strobe /\ Writes
  <2>1. /\ ser_txready' \in BOOLEAN
        /\ ser_txready' => txstate' = "idle"
        /\ ser_txready /\ ~ser_txgo => ser_txready'
    BY TransmitterStep DEF Sender
  <2>2. /\ ser_txgo' = go
        /\ currentstate' # "WAITING" => mem_addr # "UART"
        /\ ~mem_busy' /\ mem_op = "read" /\ mem_addr = "UART" =>
             mem_read'[2] = BitOf(ser_txready) /\ mem_strobe
    BY BusAndUart
  <2>3. go \in BOOLEAN /\ (go => ser_txready /\ ~ser_txgo)
    BY DEF Sender, Handshake, Writes
  <2>4. NothingDropped'
    BY <2>1, <2>2, <2>3 DEF NothingDropped
  <2>5. mem_op = "none" => ~mem_strobe /\ currentstate' = "WAITING" /\ mem_busy'
    BY BusCases DEF Handshake, Block
  <2>6. ~mem_busy => ~mem_strobe /\ currentstate' = "WAITING"
    BY BusCases DEF Handshake, Block
  <2>7. Handshake'
    BY HandshakeStep
  <2>8. mem_strobe' => ~ser_txgo'
    BY <2>2, <2>5, ProgramStep DEF Sender, Handshake
  <2>9. SeenReady' => ser_txready' /\ ~ser_txgo'
    <3>. SUFFICES ASSUME ~mem_busy', mem_op' = "read", mem_addr' = "UART", mem_read'[2] = 1
                  PROVE  ser_txready' /\ ~ser_txgo'
      BY DEF SeenReady, Answered
    <3>1. mem_op = "read" /\ mem_addr = "UART"
      BY <2>5, ProgramStep DEF Sender
    <3>2. ser_txready /\ mem_strobe
      BY <2>2, <3>1 DEF BitOf
    <3> QED
      BY <2>1, <2>2, <3>1, <3>2 DEF Sender, Writes
  <2>10. knows_ready' \in BOOLEAN /\ (knows_ready' => ser_txready' /\ ~ser_txgo')
    <3>1. knows_ready \in BOOLEAN
      BY DEF Sender
    <3>2. ASSUME knows_ready' = knows_ready
          PROVE  knows_ready' \in BOOLEAN /\ (knows_ready' => knows_ready \/ SeenReady)
      <4>1. CASE knows_ready = TRUE
        <5>1. knows_ready' = TRUE
          BY <3>2, <4>1
        <5> QED
          BY <4>1, <5>1
      <4>2. CASE knows_ready = FALSE
        <5>1. knows_ready' = FALSE
          BY <3>2, <4>2
        <5> QED
          BY <5>1
      <4> QED
        BY <3>1, <4>1, <4>2
    <3>3. knows_ready' \in BOOLEAN /\ (knows_ready' => knows_ready \/ SeenReady)
      BY <3>1, <3>2, ProgramStep
    <3>4. knows_ready \/ SeenReady => ser_txready /\ ~ser_txgo /\ ~Writes
      BY DEF Sender, SeenReady, Answered, Writes
    <3>5. ser_txgo' => Writes
      BY <2>2, Zenon
    <3> QED
      BY <2>1, <3>3, <3>4, <3>5
  <2>11. mem_strobe' /\ Writes' => ser_txready'
    BY <2>1, <2>5, ProgramStep DEF Sender, Writes, Handshake
  <2>12. Writes' => ~knows_ready'
    BY ProgramStep, <2>5 DEF Sender, Writes, Handshake
  <2>13. currentstate' # "WAITING" => mem_addr' # "UART"
    BY <2>2, <2>5, <2>6, ProgramStep DEF Sender
  <2> QED
    BY <2>1, <2>2, <2>3, <2>4, <2>8, <2>9, <2>10, <2>11, <2>12, <2>13 DEF Sender
<1>2. CASE UNCHANGED vars
  BY <1>2 DEF Sender, SeenReady, Answered, Writes, NothingDropped, vars, cpuRegs, txRegs
<1> QED
  BY <1>1, <1>2

LEMMA SenderAlways == Spec => []Sender
<1>1. Init => Sender
  <2>. SUFFICES ASSUME Init PROVE Sender
    OBVIOUS
  <2>1. /\ ser_txready = TRUE /\ txstate = "idle" /\ knows_ready = FALSE /\ mem_strobe = FALSE
        /\ mem_op = "none" /\ currentstate = "WAITING"
    BY Zenon DEF Init, BusInit, UartInit
  <2>2. ser_txgo \in BOOLEAN
    BY ProgramAssumption DEF Init, BusInit
  <2> QED
    BY <2>1, <2>2 DEF Sender, SeenReady, Answered, Writes, NothingDropped
<1> QED
  BY <1>1, SenderStep, HandshakeAlways, PTL DEF Spec

\* A program that writes a character only after it has seen txready never has one dropped
\* (ZPUTest.vhd:474-477, simple_uart.vhd:185-204), whatever else it does.
THEOREM NoCharacterDropped == Spec => []NothingDropped
<1>1. Sender => NothingDropped
  BY DEF Sender
<1> QED
  BY <1>1, SenderAlways, PTL

-----------------------------------------------------------------------------
(***************************************************************************)
(* The LCD bridge.  An access goes through ten phases; in each the bridge is at a*)
(* known place of its delays, and with it the strobes, the panel's counters and*)
(* what the panel has taken in.                                              *)
(***************************************************************************)
At(state, next, d) == lcdstate = state /\ nextstate = next /\ delay = d
Releases(n) == PanelDrives => panel_hold <= n
Selected == cpu_to_lcd_cs = 0

\* The command of the CPU is what the bridge works from.
Command ==
  /\ mem_op \in {"read", "write"} /\ mem_addr = "LCD" /\ currentstate = "WAITLCD"
  /\ mem_op = "write" => cpu_to_lcd = Tail(mem_write) /\ cpu_to_lcd_cmd = (mem_write[1] = 1)

Cycle == <<[rs |-> (mem_write[1] = 1), driven |-> TRUE, word |-> Tail(mem_write)]>>

Resting ==
  /\ At("idle", "idle", 0) /\ ~cpu_to_lcd_req /\ ~cpu_from_lcd_ack /\ currentstate # "WAITLCD"
  /\ lcd_rd /\ ~lcd_drive /\ Releases(5)
  /\ mem_op # "none" /\ mem_addr = "LCD" => mem_busy

Requested ==
  /\ At("idle", "idle", 0) /\ cpu_to_lcd_req /\ ~cpu_from_lcd_ack /\ Command
  /\ mem_op = "read" => cpu_to_lcd_rw = TRUE
  /\ mem_op = "write" => cpu_to_lcd_rw = FALSE
  /\ lcd_rd /\ ~lcd_drive /\ Releases(4) /\ latched = << >>

\* lcd_rd has been low for k edges.
Strobed(k) ==
  /\ ~lcd_rd /\ ~lcd_drive /\ Releases(14)
  /\ Selected => panel_low >= k \/ panel_low = AccessTime
  /\ Selected => panel_hold >= 1 /\ panel_low > 0

Reading ==
  /\ Command /\ mem_op = "read" /\ ~cpu_to_lcd_req /\ ~cpu_from_lcd_ack /\ latched = << >>
  /\ \/ At("idle", "rd1", 8) /\ Strobed(1)
     \/ \E d \in 0..7 : At("waiting", "rd1", d) /\ Strobed(9 - d)
     \/ At("rd1", "rd1", 0) /\ Strobed(10)

Returning ==
  /\ Command /\ mem_op = "read" /\ ~cpu_to_lcd_req /\ ~cpu_from_lcd_ack /\ latched = << >>
  /\ lcd_rd /\ ~lcd_drive /\ (Selected => cpu_from_lcd = panel_word)
  /\ \/ At("rd1", "rd2", 2) /\ Releases(13) /\ (Selected => panel_low = AccessTime)
     \/ \E d \in 0..2 : At("waiting", "rd2", d) /\ Releases(10 + d)
     \/ At("rd2", "rd2", 0) /\ Releases(9)

Beginning ==
  /\ Command /\ mem_op = "write" /\ ~cpu_to_lcd_req /\ ~cpu_from_lcd_ack /\ latched = << >>
  /\ lcd_rd /\ ~lcd_drive /\ ~lcd_wr /\ lcd_rs = cpu_to_lcd_cmd
  /\ \/ At("idle", "wr1", 2) /\ Releases(3)
     \/ \E d \in 0..1 : At("waiting", "wr1", d) /\ Releases(d + 1)
     \/ At("wr1", "wr1", 0) /\ Releases(0)

Driving ==
  /\ Command /\ mem_op = "write" /\ ~cpu_to_lcd_req /\ ~cpu_from_lcd_ack /\ latched = << >>
  /\ lcd_rd /\ lcd_drive /\ ~lcd_wr /\ lcd_rs = cpu_to_lcd_cmd /\ ~PanelDrives
  /\ \/ At("wr1", "wr2", 8)
     \/ \E d \in 0..8 : At("waiting", "wr2", d)
     \/ At("wr2", "wr2", 0)

Written ==
  /\ Command /\ mem_op = "write" /\ ~cpu_to_lcd_req /\ ~cpu_from_lcd_ack
  /\ lcd_rd /\ lcd_drive /\ lcd_wr /\ ~PanelDrives
  /\ Selected => latched = Cycle
  /\ \/ At("wr2", "wr3", 8)
     \/ \E d \in 0..8 : At("waiting", "wr3", d)
     \/ At("wr3", "wr3", 0)

Acknowledging ==
  /\ Command /\ ~cpu_to_lcd_req /\ cpu_from_lcd_ack
  /\ lcd_rd /\ ~lcd_drive /\ Releases(8)
  /\ \/ mem_op = "read" /\ At("rd2", "idle", 1) /\ (Selected => cpu_from_lcd = panel_word /\ latched = << >>)
     \/ mem_op = "write" /\ At("wr3", "idle", 1) /\ (Selected => latched = Cycle)

Answering ==
  /\ At("waiting", "idle", 1) /\ ~cpu_to_lcd_req /\ currentstate = "WAITING"
  /\ ~mem_busy /\ mem_op \in {"read", "write"} /\ mem_addr = "LCD"
  /\ lcd_rd /\ ~lcd_drive /\ Releases(7)
  /\ Selected =>
       \/ mem_op = "read" /\ mem_read = panel_word /\ latched = << >>
       \/ mem_op = "write" /\ latched = Cycle

Ending ==
  /\ At("waiting", "idle", 0) /\ ~cpu_from_lcd_ack /\ currentstate = "WAITING"
  /\ mem_op = "none" /\ lcd_rd /\ ~lcd_drive /\ Releases(6)

\* What an edge of the CPU is to a peripheral: a rest or a new access, the wait, the end.
LEMMA AccessSteps ==
  ASSUME CpuEdge, program \in Programs
  PROVE  /\ mem_op = "none" => mem_op' = "none" \/ mem_op' \in {"read", "write"}
         /\ mem_op # "none" /\ mem_busy => UNCHANGED <<mem_op, mem_addr, mem_write>>
         /\ mem_op # "none" /\ ~mem_busy => mem_op' = "none"
<1>1. ASSUME NEW a \in program.accesses, Issue(a[1], a[2])
      PROVE  mem_op = "none" /\ mem_op' \in {"read", "write"}
  <2>1. a[1] \in {"read", "write"}
    BY <1>1, ProgramAssumption
  <2> QED
    BY <1>1, <2>1 DEF Issue
<1>2. CASE Await \/ Continue \/ Compute
  BY <1>2 DEF Await, Continue, Compute, cpuRegs
<1> QED
  BY <1>1, <1>2, Zenon DEF CpuEdge

\* A strobe at the bridge's register becomes a request of one clock with the CPU's command,
\* and the CPU is let go by the acknowledgement.
LcdAsked ==
  /\ currentstate = "WAITING" /\ mem_strobe /\ mem_op \in {"read", "write"} /\ mem_addr = "LCD"
  /\ cpu_to_lcd_req' = TRUE /\ Block("WAITLCD") /\ UNCHANGED cpu_to_lcd_cs
  /\ mem_op = "read" => cpu_to_lcd_rw' = TRUE
  /\ mem_op = "write" => /\ cpu_to_lcd_rw' = FALSE /\ cpu_to_lcd' = Tail(mem_write)
                         /\ cpu_to_lcd_cmd' = (mem_write[1] = 1)

LcdAwaited ==
  /\ currentstate = "WAITLCD" /\ cpu_to_lcd_req' = FALSE
  /\ UNCHANGED <<cpu_to_lcd, cpu_to_lcd_cmd, cpu_to_lcd_rw, cpu_to_lcd_cs>>
  /\ cpu_from_lcd_ack => Release /\ mem_read' = cpu_from_lcd
  /\ ~cpu_from_lcd_ack => Block("WAITLCD")

LcdElsewhere ==
  /\ currentstate # "WAITLCD" /\ currentstate' # "WAITLCD" /\ cpu_to_lcd_req' = FALSE
  /\ mem_addr = "LCD" => currentstate' = "WAITING" /\ mem_busy' = TRUE /\ ~mem_strobe

LEMMA LcdBusStep ==
  ASSUME BusEdge, mem_addr = "LCD" => currentstate \in {"WAITING", "WAITLCD"}
  PROVE  LcdAsked \/ LcdAwaited \/ LcdElsewhere
<1>1. CASE NoStrobe \/ VgaWrite \/ WaitSpiW \/ WaitSpiR
  <2>1. cpu_to_lcd_req' = FALSE /\ currentstate # "WAITLCD" /\ currentstate' # "WAITLCD"
    BY <1>1 DEF NoStrobe, VgaWrite, WaitSpiW, WaitSpiR, NoPeripheral, NoLcd, ReleaseWhen,
                Release, Block
  <2>2. mem_addr = "LCD" => NoStrobe
    BY <1>1 DEF VgaWrite, WaitSpiW, WaitSpiR
  <2> QED
    BY <2>1, <2>2 DEF LcdElsewhere, NoStrobe, Block
<1>2. CASE WaitLcd
  BY <1>2 DEF WaitLcd, LcdAwaited, NoPeripheral, NoLcd, NoSelect, ReleaseWhen
<1>3. CASE WriteLcd \/ ReadLcd
  BY <1>3, Zenon DEF WriteLcd, ReadLcd, LcdAsked, Strobe, NoSelect
<1>4. CASE WriteUart \/ WriteDivisor \/ WriteSelect \/ WriteVga
  BY <1>4 DEF WriteUart, WriteDivisor, WriteSelect, WriteVga, Strobe, NoLcd, LcdElsewhere,
              Release, Block
<1>5. ASSUME NEW reg \in {"SPI", "SPI_PUMP"}, WriteSpi(reg)
      PROVE  LcdElsewhere
  BY <1>5 DEF WriteSpi, Strobe, NoLcd, LcdElsewhere, Block
<1>6. CASE ReadUart \/ ReadBusy \/ ReadSpi \/ ReadPump \/ OtherRegister
  BY <1>6 DEF ReadUart, ReadBusy, ReadSpi, ReadPump, OtherRegister, Strobe, NoPeripheral, NoLcd,
              LcdElsewhere, Release, Block
<1> QED
  BY <1>1, <1>2, <1>3, <1>4, <1>5, <1>6, Zenon DEF BusEdge

\* The panel: it counts the clocks of a read strobe, and lets go of the bus in time.
LEMMA PanelStep ==
  ASSUME PanelEdge, panel_low \in 0..AccessTime, panel_hold \in 0..14
  PROVE  /\ panel_low' \in 0..AccessTime /\ panel_hold' \in 0..14
         /\ panel_low' = AccessTime => lcd_data_in' = panel_word'
         /\ lcd_rd' => /\ panel_word' = panel_word
                       /\ PanelDrives' => PanelDrives /\ panel_hold' < panel_hold
                       /\ PanelDrives /\ panel_hold > 0 => panel_low' = panel_low
         /\ Selected /\ ~lcd_rd' => /\ panel_low' > 0 /\ panel_hold' > 0
                                    /\ panel_low' = panel_low + 1 \/ panel_low' = AccessTime
         /\ ~Selected => (PanelDrives' => PanelDrives /\ panel_hold' < panel_hold)
<1>1. AccessTime \in Nat /\ AccessTime > 0 /\ \A h \in HoldTimes : h \in Nat /\ h > 0 /\ h <= 14
  BY PartnerAssumption, PanelAssumption
<1>2. ASSUME panel_low' = AccessTime
      PROVE  lcd_data_in' = panel_word'
  <2>1. ~(panel_low' < AccessTime)
    BY <1>1, <1>2
  <2>2. lcd_data_in' \in {panel_word'}
    BY <1>2, <2>1, Zenon DEF PanelEdge
  <2> QED
    BY <2>2
<1>3. CASE PanelRead
  BY <1>1, <1>2, <1>3 DEF PanelRead, Selected
<1>4. CASE PanelHolds
  BY <1>1, <1>2, <1>4 DEF PanelHolds, PanelDrives, Selected
<1> QED
  BY <1>3, <1>4 DEF PanelEdge

\* What all the phases of the bridge have in common, and what an edge is to them.
LcdShared ==
  /\ {cpu_to_lcd_req, lcd_rd, lcd_drive, lcd_wr, cpu_from_lcd_ack} \subseteq BOOLEAN
  /\ panel_low \in 0..AccessTime /\ panel_hold \in 0..14
  /\ panel_low = AccessTime => lcd_data_in = panel_word
  /\ ~(currentstate \in {"WAITING", "WAITLCD"}) => mem_addr # "LCD"
  /\ Handshake

LcdEdges == LcdEdge /\ BusEdge /\ CpuEdge /\ PanelEdge

\* What the panel has taken in changes by a rising lcd_wr and by a strobe.
LEMMA LatchedStep ==
  ASSUME PanelEdge
  PROVE  /\ Selected /\ ~lcd_wr /\ lcd_wr' =>
              latched' = Append(latched, [rs |-> lcd_rs, driven |-> lcd_drive, word |-> cpu_to_lcd])
         /\ (lcd_wr \/ ~lcd_wr') /\ ~mem_strobe => latched' = latched
         /\ (lcd_wr \/ ~lcd_wr') /\ mem_strobe => latched' = << >>
BY DEF PanelEdge, Selected

\* Without a request, or with the CPU waiting, these are what it was.
LEMMA WaitStep ==
  ASSUME LcdShared, LcdEdges, currentstate = "WAITLCD"
  PROVE  /\ ~mem_strobe /\ mem_busy
         /\ cpu_to_lcd_req' = FALSE
         /\ UNCHANGED <<cpu_to_lcd, cpu_to_lcd_cmd, cpu_to_lcd_rw, cpu_to_lcd_cs>>
         /\ cpu_from_lcd_ack => Release /\ mem_read' = cpu_from_lcd
         /\ ~cpu_from_lcd_ack => Block("WAITLCD")
         /\ mem_op # "none" => UNCHANGED <<mem_op, mem_addr, mem_write>>
<1>. BusEdge /\ CpuEdge /\ program \in Programs
  BY DEF LcdEdges, LcdShared, Handshake
<1>1. ~mem_strobe /\ mem_busy
  BY DEF LcdShared, Handshake
<1>2. LcdAwaited
  BY LcdBusStep DEF LcdAsked, LcdElsewhere, LcdShared
<1>3. mem_op # "none" => UNCHANGED <<mem_op, mem_addr, mem_write>>
  BY <1>1, AccessSteps
<1> QED
  BY <1>1, <1>2, <1>3 DEF LcdAwaited

\* A command under way stays what it is.
LEMMA CommandStep ==
  ASSUME LcdShared, LcdEdges, Command, ~cpu_from_lcd_ack
  PROVE  /\ Command' /\ cpu_to_lcd_req' = FALSE /\ ~mem_strobe
         /\ UNCHANGED <<mem_op, mem_write, cpu_to_lcd_cs, cpu_to_lcd, cpu_to_lcd_cmd>>
<1>1. mem_op # "none" /\ currentstate = "WAITLCD"
  BY DEF Command
<1>2. Block("WAITLCD")
  BY <1>1, WaitStep
<1>3. /\ UNCHANGED <<mem_op, mem_addr, mem_write, cpu_to_lcd, cpu_to_lcd_cmd, cpu_to_lcd_cs>>
      /\ cpu_to_lcd_req' = FALSE /\ ~mem_strobe
  BY <1>1, WaitStep
<1> QED
  BY <1>2, <1>3 DEF Command, Block

LEMMA FromResting ==
  ASSUME LcdShared, LcdEdges, Resting
  PROVE  Resting' \/ Requested'
<1>. BusEdge /\ CpuEdge /\ PanelEdge /\ LcdEdge /\ program \in Programs
  BY DEF LcdEdges, LcdShared, Handshake
<1>1. /\ lcdstate' = "idle" /\ nextstate' = "idle" /\ delay' = 0 /\ cpu_from_lcd_ack' = FALSE
      /\ UNCHANGED <<lcd_drive, lcd_wr, lcd_rd>>
  BY DEF LcdEdge, Resting, At, Idle, BeginRead, BeginWrite, Rd1, Rd2, Wr1, Wr2, Wr3, Waiting
<1>2. Releases(4)' /\ Releases(5)'
  BY <1>1, PanelStep DEF Resting, Releases, LcdShared
<1>3. ~(lcd_wr /\ ~lcd_wr') /\ ~(~lcd_wr /\ lcd_wr')
  BY <1>1
<1>4. CASE LcdElsewhere
  <2>1. mem_op' # "none" /\ mem_addr' = "LCD" => mem_busy'
    <3>1. CASE mem_op = "none"
      <4>1. mem_busy' = TRUE
        BY <3>1, BusCases DEF LcdShared, Handshake, Block
      <4> QED
        BY <4>1
    <3>2. CASE mem_op # "none" /\ mem_busy
      BY <1>4, <3>2, AccessSteps DEF LcdElsewhere
    <3>3. CASE mem_op # "none" /\ ~mem_busy
      BY <3>3, AccessSteps
    <3> QED
      BY <3>1, <3>2, <3>3
  <2> QED
    BY <1>1, <1>2, <1>4, <2>1 DEF Resting, At, Releases, LcdElsewhere
<1>5. CASE LcdAsked
  <2>1. latched' = << >>
    BY <1>3, <1>5, LatchedStep DEF LcdAsked, LcdShared
  <2>2. mem_busy /\ mem_op # "none"
    BY <1>5 DEF LcdAsked, LcdShared, Handshake
  <2>3. UNCHANGED <<mem_op, mem_addr, mem_write>>
    BY <2>2, AccessSteps
  <2>4. Command'
    BY <1>5, <2>3 DEF LcdAsked, Block, Command
  <2> QED
    BY <1>1, <1>2, <1>5, <2>1, <2>3, <2>4 DEF Resting, Requested, At, Releases, LcdAsked
<1> QED
  BY <1>4, <1>5, LcdBusStep DEF Resting, LcdAwaited, LcdShared

LEMMA FromRequested ==
  ASSUME LcdShared, LcdEdges, Requested
  PROVE  Reading' \/ Beginning'
<1>. PanelEdge /\ LcdEdge
  BY DEF LcdEdges
<1>1. /\ Command' /\ cpu_to_lcd_req' = FALSE /\ ~mem_strobe
      /\ UNCHANGED <<mem_op, mem_write, cpu_to_lcd_cs, cpu_to_lcd, cpu_to_lcd_cmd>>
  BY CommandStep DEF Requested
<1>2. CASE mem_op = "read"
  <2>1. /\ At("idle", "rd1", 8)' /\ lcd_rd' = FALSE /\ lcd_drive' = FALSE /\ cpu_from_lcd_ack' = FALSE
        /\ UNCHANGED lcd_wr
    BY <1>2 DEF LcdEdge, Requested, At, Idle, BeginRead, BeginWrite, Rd1, Rd2, Wr1, Wr2, Wr3,
                Waiting, Then
  <2>2. latched' = << >>
    BY <1>1, <2>1, LatchedStep DEF Requested, LcdShared
  <2>3. Strobed(1)'
    BY <1>1, <2>1, PanelStep DEF Strobed, Releases, LcdShared, Selected, PanelDrives
  <2> QED
    BY <1>1, <1>2, <2>1, <2>2, <2>3 DEF Reading
<1>3. CASE mem_op = "write"
  <2>1. /\ At("idle", "wr1", 2)' /\ lcd_wr' = FALSE /\ cpu_from_lcd_ack' = FALSE
        /\ lcd_rs' = cpu_to_lcd_cmd /\ UNCHANGED <<lcd_drive, lcd_rd>>
    BY <1>3 DEF LcdEdge, Requested, At, Idle, BeginRead, BeginWrite, Rd1, Rd2, Wr1, Wr2, Wr3,
                Waiting, Then
  <2>2. latched' = << >>
    BY <1>1, <2>1, LatchedStep DEF Requested, LcdShared
  <2>3. Releases(3)'
    BY <2>1, PanelStep DEF Requested, Releases, LcdShared
  <2> QED
    BY <1>1, <1>3, <2>1, <2>2, <2>3 DEF Beginning, Requested
<1> QED
  BY <1>2, <1>3 DEF Requested, Command

LEMMA FromReading ==
  ASSUME LcdShared, LcdEdges, Reading
  PROVE  Reading' \/ Returning'
<1>. PanelEdge /\ LcdEdge
  BY DEF LcdEdges
<1>1. /\ Command' /\ cpu_to_lcd_req' = FALSE /\ ~mem_strobe
      /\ UNCHANGED <<mem_op, mem_write, cpu_to_lcd_cs, cpu_to_lcd, cpu_to_lcd_cmd>>
  BY CommandStep DEF Reading
<1>2. /\ UNCHANGED <<lcd_drive, lcd_wr>> /\ cpu_from_lcd_ack' = FALSE
  BY DEF LcdEdge, Reading, At, Idle, BeginRead, BeginWrite, Rd1, Rd2, Wr1, Wr2, Wr3, Waiting
<1>3. latched' = << >>
  BY <1>1, <1>2, LatchedStep DEF Reading, LcdShared
<1>4. ASSUME NEW k \in 1..9, NEW next \in 2..10, next = k + 1, Strobed(k), lcd_rd' = FALSE
      PROVE  Strobed(next)'
  <2>1. /\ panel_low' \in 0..AccessTime /\ panel_hold' \in 0..14
        /\ panel_low \in 0..AccessTime /\ AccessTime \in Nat
        /\ Selected' <=> Selected
    BY <1>1, PanelStep, PartnerAssumption DEF LcdShared, Selected
  <2>2. Selected => /\ panel_low' > 0 /\ panel_hold' > 0
                    /\ panel_low' = panel_low + 1 \/ panel_low' = AccessTime
    BY <1>4, PanelStep DEF LcdShared
  <2>3. Selected => panel_low' >= next \/ panel_low' = AccessTime
    <3>. HAVE Selected
    <3>1. panel_low >= k \/ panel_low = AccessTime
      BY <1>4 DEF Strobed
    <3> QED
      BY <1>4, <2>1, <2>2, <3>1
  <2>4. ~lcd_drive'
    BY <1>2, <1>4 DEF Strobed
  <2> QED
    BY <1>4, <2>1, <2>2, <2>3, <2>4 DEF Strobed, Releases
<1>5. CASE At("idle", "rd1", 8) /\ Strobed(1)
  <2>1. At("waiting", "rd1", 7)' /\ lcd_rd' = FALSE
    BY <1>5 DEF LcdEdge, Reading, Strobed, At, Idle, BeginRead, BeginWrite, Rd1, Rd2, Wr1, Wr2, Wr3,
                Waiting, LcdShared
  <2>2. Strobed(9 - 7)'
    <3>1. 1 \in 1..9 /\ 2 \in 2..10 /\ 2 = 1 + 1 /\ Strobed(1)
      BY <1>5
    <3>2. Strobed(2)'
      BY <1>4, <2>1, <3>1 DEF Strobed, Releases
    <3> QED
      BY <3>2 DEF Strobed, Releases
  <2>3. \E d \in 0..7 : At("waiting", "rd1", d)' /\ Strobed(9 - d)'
    BY <2>1, <2>2 DEF At, Strobed, Releases
  <2> QED
    BY <1>1, <1>2, <1>3, <2>3 DEF Reading
<1>6. ASSUME NEW d \in 0..7, At("waiting", "rd1", d), Strobed(9 - d)
      PROVE  Reading'
  <2>1. /\ lcd_rd' = FALSE /\ nextstate' = "rd1"
        /\ d = 0 => lcdstate' = "rd1" /\ delay' = 0
        /\ d > 0 => lcdstate' = "waiting" /\ delay' = d - 1
    BY <1>6 DEF LcdEdge, Reading, Strobed, At, Idle, BeginRead, BeginWrite, Rd1, Rd2, Wr1, Wr2, Wr3,
                Waiting, LcdShared
  <2>2. CASE d = 0
    <3>1. 9 \in 1..9 /\ 10 \in 2..10 /\ 10 = 9 + 1 /\ Strobed(9)
      BY <1>6, <2>2 DEF Strobed, Releases
    <3>2. Strobed(10)'
      BY <1>4, <2>1, <3>1 DEF Strobed, Releases
    <3> QED
      BY <1>1, <1>2, <1>3, <2>1, <2>2, <3>2 DEF Reading, At
  <2>3. CASE d > 0
    <3>1. d - 1 \in 0..7 /\ 9 - d \in 1..9 /\ 9 - (d - 1) \in 2..10 /\ 9 - (d - 1) = (9 - d) + 1
      BY <2>3
    <3>2. Strobed(9 - (d - 1))'
      BY <1>4, <1>6, <2>1, <2>3, <3>1 DEF Strobed, Releases
    <3>3. At("waiting", "rd1", d - 1)'
      BY <2>1, <2>3 DEF At
    <3>4. \E e \in 0..7 : At("waiting", "rd1", e)' /\ Strobed(9 - e)'
      BY <3>1, <3>2, <3>3 DEF At, Strobed, Releases
    <3> QED
      BY <1>1, <1>2, <1>3, <3>4, Zenon DEF Reading
  <2> QED
    BY <2>2, <2>3
<1>7. CASE At("rd1", "rd1", 0) /\ Strobed(10)
  <2>1. At("rd1", "rd2", 2)' /\ lcd_rd' = TRUE /\ cpu_from_lcd' = lcd_data_in
    BY <1>7 DEF LcdEdge, Reading, At, Idle, BeginRead, BeginWrite, Rd1, Rd2, Wr1, Wr2, Wr3,
                Waiting, Then
  <2>2. Selected => panel_low = AccessTime /\ panel_hold > 0 /\ PanelDrives
    BY <1>7, PanelAssumption, PartnerAssumption DEF Strobed, LcdShared, PanelDrives
  <2>3. /\ panel_word' = panel_word
        /\ PanelDrives' => panel_hold' <= 13
        /\ Selected => panel_low' = AccessTime
    BY <2>1, <2>2, PanelStep DEF LcdShared
  <2>4. Selected => cpu_from_lcd' = panel_word'
    BY <2>1, <2>2, <2>3 DEF LcdShared
  <2>5. ~lcd_drive'
    BY <1>2, <1>7 DEF Strobed
  <2> QED
    BY <1>1, <1>2, <1>3, <2>1, <2>3, <2>4, <2>5 DEF Returning, Releases, Reading, Selected
<1> QED
  BY <1>5, <1>6, <1>7 DEF Reading

LEMMA FromReturning ==
  ASSUME LcdShared, LcdEdges, Returning
  PROVE  Returning' \/ Acknowledging'
<1>. PanelEdge /\ LcdEdge
  BY DEF LcdEdges
<1>1. /\ Command' /\ cpu_to_lcd_req' = FALSE /\ ~mem_strobe
      /\ UNCHANGED <<mem_op, mem_write, cpu_to_lcd_cs, cpu_to_lcd, cpu_to_lcd_cmd>>
  BY CommandStep DEF Returning
<1>2. UNCHANGED <<lcd_drive, lcd_wr, lcd_rd>>
  BY DEF LcdEdge, Returning, At, Idle, BeginRead, BeginWrite, Rd1, Rd2, Wr1, Wr2, Wr3, Waiting,
         LcdShared
<1>3. latched' = << >>
  BY <1>1, <1>2, LatchedStep DEF Returning, LcdShared
<1>4. panel_word' = panel_word /\ (Selected' <=> Selected) /\ lcd_rd' /\ ~lcd_drive'
  BY <1>1, <1>2, PanelStep DEF Returning, LcdShared, Selected
<1>5. ASSUME NEW n \in 0..13, Releases(n + 1)
      PROVE  Releases(n)'
  BY <1>4, <1>5, PanelStep DEF Releases, LcdShared
<1>6. CASE At("rd1", "rd2", 2) /\ Releases(13) /\ (Selected => panel_low = AccessTime)
  <2>1. At("waiting", "rd2", 2)' /\ cpu_from_lcd_ack' = FALSE /\ cpu_from_lcd' = lcd_data_in
    BY <1>6 DEF LcdEdge, At, Idle, BeginRead, BeginWrite, Rd1, Rd2, Wr1, Wr2, Wr3, Waiting, Then
  <2>2. Releases(10 + 2)'
    BY <1>5, <1>6
  <2>3. Selected' => cpu_from_lcd' = panel_word'
    BY <1>4, <1>6, <2>1 DEF LcdShared
  <2>4. \E d \in 0..2 : At("waiting", "rd2", d)' /\ Releases(10 + d)'
    BY <2>1, <2>2 DEF At, Releases
  <2>5. mem_op' = "read"
    BY <1>1 DEF Returning
  <2> QED
    BY <1>1, <1>3, <1>4, <2>1, <2>3, <2>4, <2>5, Zenon DEF Returning
<1>7. ASSUME ~(lcdstate = "rd1")
      PROVE  (Selected' => cpu_from_lcd' = panel_word') /\ mem_op' = "read"
  <2>1. UNCHANGED cpu_from_lcd
    BY <1>7 DEF LcdEdge, Returning, At, Idle, BeginRead, BeginWrite, Rd1, Rd2, Wr1, Wr2, Wr3, Waiting
  <2> QED
    BY <1>1, <1>4, <2>1 DEF Returning
<1>8. ASSUME NEW d \in 0..2, At("waiting", "rd2", d), Releases(10 + d)
      PROVE  Returning'
  <2>1. /\ cpu_from_lcd_ack' = FALSE /\ nextstate' = "rd2"
        /\ d = 0 => lcdstate' = "rd2" /\ delay' = 0
        /\ d > 0 => lcdstate' = "waiting" /\ delay' = d - 1
    BY <1>8 DEF LcdEdge, At, Idle, BeginRead, BeginWrite, Rd1, Rd2, Wr1, Wr2, Wr3, Waiting
  <2>2. (Selected' => cpu_from_lcd' = panel_word') /\ mem_op' = "read"
    BY <1>7, <1>8 DEF At
  <2>3. CASE d = 0
    <3>1. Releases(9)' /\ At("rd2", "rd2", 0)'
      BY <1>5, <1>8, <2>1, <2>3 DEF At
    <3> QED
      BY <1>1, <1>3, <1>4, <2>1, <2>2, <3>1, Zenon DEF Returning
  <2>4. CASE d > 0
    <3>1. 9 + d \in 0..13 /\ Releases(9 + d)'
      BY <1>5, <1>8, <2>4 DEF Releases
    <3>2. \E e \in 0..2 : At("waiting", "rd2", e)' /\ Releases(10 + e)'
      BY <2>1, <2>4, <3>1 DEF At, Releases
    <3> QED
      BY <1>1, <1>3, <1>4, <2>1, <2>2, <3>2, Zenon DEF Returning
  <2> QED
    BY <2>3, <2>4
<1>9. CASE At("rd2", "rd2", 0) /\ Releases(9)
  <2>1. At("rd2", "idle", 1)' /\ cpu_from_lcd_ack' = TRUE
    BY <1>9 DEF LcdEdge, At, Idle, BeginRead, BeginWrite, Rd1, Rd2, Wr1, Wr2, Wr3, Waiting, Then
  <2>2. Releases(8)'
    BY <1>5, <1>9
  <2>3. (Selected' => cpu_from_lcd' = panel_word') /\ mem_op' = "read"
    BY <1>7, <1>9 DEF At
  <2> QED
    BY <1>1, <1>3, <1>4, <2>1, <2>2, <2>3 DEF Acknowledging
<1> QED
  BY <1>6, <1>8, <1>9 DEF Returning

LEMMA FromBeginning ==
  ASSUME LcdShared, LcdEdges, Beginning
  PROVE  Beginning' \/ Driving'
<1>. PanelEdge /\ LcdEdge
  BY DEF LcdEdges
<1>1. /\ Command' /\ cpu_to_lcd_req' = FALSE /\ ~mem_strobe
      /\ UNCHANGED <<mem_op, mem_write, cpu_to_lcd_cs, cpu_to_lcd, cpu_to_lcd_cmd>>
  BY CommandStep DEF Beginning
<1>2. /\ UNCHANGED <<lcd_wr, lcd_rd, lcd_rs>> /\ cpu_from_lcd_ack' = FALSE
  BY DEF LcdEdge, Beginning, At, Idle, BeginRead, BeginWrite, Rd1, Rd2, Wr1, Wr2, Wr3, Waiting,
         LcdShared
<1>3. latched' = << >>
  BY <1>1, <1>2, LatchedStep DEF Beginning, LcdShared
<1>4. lcd_rd' /\ ~lcd_wr' /\ lcd_rs' = cpu_to_lcd_cmd' /\ mem_op' = "write"
  BY <1>1, <1>2 DEF Beginning
<1>5. /\ PanelDrives' => PanelDrives /\ panel_hold' < panel_hold
      /\ panel_hold \in 0..14 /\ panel_hold' \in 0..14
  BY <1>4, PanelStep DEF LcdShared
<1>6. CASE At("idle", "wr1", 2) /\ Releases(3)
  <2>1. At("waiting", "wr1", 1)' /\ UNCHANGED lcd_drive
    <3>1. ~cpu_to_lcd_req
      BY DEF Beginning
    <3> QED
      BY <1>6, <3>1 DEF LcdEdge, At, Idle, BeginRead, BeginWrite, Rd1, Rd2, Wr1, Wr2, Wr3, Waiting
  <2>2. Releases(2)'
    BY <1>5, <1>6 DEF Releases
  <2>3. \E d \in 0..1 : At("waiting", "wr1", d)' /\ Releases(d + 1)'
    BY <2>1, <2>2 DEF At, Releases
  <2>4. ~lcd_drive'
    BY <2>1 DEF Beginning
  <2> QED
    BY <1>1, <1>2, <1>3, <1>4, <2>3, <2>4 DEF Beginning
<1>7. ASSUME NEW d \in 0..1, At("waiting", "wr1", d), Releases(d + 1)
      PROVE  Beginning'
  <2>1. /\ UNCHANGED lcd_drive /\ nextstate' = "wr1"
        /\ d = 0 => lcdstate' = "wr1" /\ delay' = 0
        /\ d > 0 => lcdstate' = "waiting" /\ delay' = d - 1
    BY <1>7 DEF LcdEdge, At, Idle, BeginRead, BeginWrite, Rd1, Rd2, Wr1, Wr2, Wr3, Waiting
  <2>2. Releases(d)' /\ ~lcd_drive'
    BY <1>5, <1>7, <2>1 DEF Releases, Beginning
  <2>3. CASE d = 0
    BY <1>1, <1>2, <1>3, <1>4, <2>1, <2>2, <2>3 DEF Beginning, At
  <2>4. CASE d > 0
    <3>1. \E e \in 0..1 : At("waiting", "wr1", e)' /\ Releases(e + 1)'
      BY <2>1, <2>2, <2>4 DEF At, Releases
    <3> QED
      BY <1>1, <1>2, <1>3, <1>4, <2>2, <3>1 DEF Beginning
  <2> QED
    BY <2>3, <2>4
<1>8. CASE At("wr1", "wr1", 0) /\ Releases(0)
  <2>1. At("wr1", "wr2", 8)' /\ lcd_drive' = TRUE
    BY <1>8 DEF LcdEdge, At, Idle, BeginRead, BeginWrite, Rd1, Rd2, Wr1, Wr2, Wr3, Waiting, Then
  <2>2. ~PanelDrives'
    BY <1>5, <1>8 DEF Releases
  <2> QED
    BY <1>1, <1>2, <1>3, <1>4, <2>1, <2>2 DEF Driving
<1> QED
  BY <1>6, <1>7, <1>8 DEF Beginning

LEMMA FromDriving ==
  ASSUME LcdShared, LcdEdges, Driving
  PROVE  Driving' \/ Written'
<1>. PanelEdge /\ LcdEdge
  BY DEF LcdEdges
<1>1. /\ Command' /\ cpu_to_lcd_req' = FALSE /\ ~mem_strobe
      /\ UNCHANGED <<mem_op, mem_write, cpu_to_lcd_cs, cpu_to_lcd, cpu_to_lcd_cmd>>
  BY CommandStep DEF Driving
<1>2. /\ UNCHANGED <<lcd_drive, lcd_rd, lcd_rs>> /\ cpu_from_lcd_ack' = FALSE
  BY DEF LcdEdge, Driving, At, Idle, BeginRead, BeginWrite, Rd1, Rd2, Wr1, Wr2, Wr3, Waiting,
         LcdShared
<1>3. lcd_rd' /\ lcd_drive' /\ lcd_rs' = cpu_to_lcd_cmd' /\ mem_op' = "write" /\ ~PanelDrives'
  BY <1>1, <1>2, PanelStep DEF Driving, LcdShared
<1>4. ASSUME lcdstate # "wr2"
      PROVE  lcd_wr' = lcd_wr /\ latched' = << >>
  <2>1. lcd_wr' = lcd_wr
    BY <1>4 DEF LcdEdge, Driving, At, Idle, BeginRead, BeginWrite, Rd1, Rd2, Wr1, Wr2, Wr3, Waiting
  <2> QED
    BY <1>1, <2>1, LatchedStep DEF Driving, LcdShared
<1>5. CASE At("wr1", "wr2", 8)
  <2>1. At("waiting", "wr2", 8)'
    BY <1>5 DEF LcdEdge, At, Idle, BeginRead, BeginWrite, Rd1, Rd2, Wr1, Wr2, Wr3, Waiting, Then
  <2>2. lcd_wr' = lcd_wr /\ latched' = << >>
    BY <1>4, <1>5 DEF At
  <2> QED
    BY <1>1, <1>2, <1>3, <2>1, <2>2 DEF Driving, At
<1>6. ASSUME NEW d \in 0..8, At("waiting", "wr2", d)
      PROVE  Driving'
  <2>1. /\ nextstate' = "wr2"
        /\ d = 0 => lcdstate' = "wr2" /\ delay' = 0
        /\ d > 0 => lcdstate' = "waiting" /\ delay' = d - 1
    BY <1>6 DEF LcdEdge, At, Idle, BeginRead, BeginWrite, Rd1, Rd2, Wr1, Wr2, Wr3, Waiting
  <2>2. lcd_wr' = lcd_wr /\ latched' = << >>
    BY <1>4, <1>6 DEF At
  <2> QED
    BY <1>1, <1>2, <1>3, <2>1, <2>2 DEF Driving, At
<1>7. CASE At("wr2", "wr2", 0)
  <2>1. At("wr2", "wr3", 8)' /\ lcd_wr' = TRUE
    BY <1>7 DEF LcdEdge, At, Idle, BeginRead, BeginWrite, Rd1, Rd2, Wr1, Wr2, Wr3, Waiting, Then
  <2>2. Selected => latched' = Append(latched, [rs |-> lcd_rs, driven |-> lcd_drive, word |-> cpu_to_lcd])
    BY <2>1, LatchedStep DEF Driving
  <2>3. latched = << >> /\ lcd_drive = TRUE /\ cpu_to_lcd = Tail(mem_write) /\ lcd_rs = (mem_write[1] = 1)
    BY Zenon DEF Driving, Command, LcdShared
  <2>4. Selected' => latched' = Cycle'
    <3>. HAVE Selected'
    <3>1. latched' = Append(<< >>, [rs |-> (mem_write[1] = 1), driven |-> TRUE, word |-> Tail(mem_write)])
      BY <1>1, <2>2, <2>3, Zenon DEF Selected
    <3>2. \A r : Append(<< >>, r) = <<r>>
      OBVIOUS
    <3>3. mem_write' = mem_write
      BY <1>1
    <3> QED
      BY <3>1, <3>2, <3>3, Zenon DEF Cycle
  <2> QED
    BY <1>1, <1>2, <1>3, <2>1, <2>4 DEF Written
<1> QED
  BY <1>5, <1>6, <1>7 DEF Driving

LEMMA FromWritten ==
  ASSUME LcdShared, LcdEdges, Written
  PROVE  Written' \/ Acknowledging'
<1>. PanelEdge /\ LcdEdge
  BY DEF LcdEdges
<1>1. /\ Command' /\ cpu_to_lcd_req' = FALSE /\ ~mem_strobe
      /\ UNCHANGED <<mem_op, mem_write, cpu_to_lcd_cs, cpu_to_lcd, cpu_to_lcd_cmd>>
  BY CommandStep DEF Written
<1>2. UNCHANGED lcd_rd /\ lcd_wr' = TRUE
  BY DEF LcdEdge, Written, At, Idle, BeginRead, BeginWrite, Rd1, Rd2, Wr1, Wr2, Wr3, Waiting,
         LcdShared
<1>3. lcd_rd' /\ mem_op' = "write" /\ ~PanelDrives' /\ (Selected' => latched' = Cycle')
  BY <1>1, <1>2, PanelStep, LatchedStep DEF Written, LcdShared, Selected, Cycle
<1>4. CASE At("wr2", "wr3", 8)
  <2>1. At("waiting", "wr3", 8)' /\ cpu_from_lcd_ack' = FALSE /\ UNCHANGED lcd_drive
    BY <1>4 DEF LcdEdge, At, Idle, BeginRead, BeginWrite, Rd1, Rd2, Wr1, Wr2, Wr3, Waiting, Then
  <2> QED
    BY <1>1, <1>2, <1>3, <2>1 DEF Written, At
<1>5. ASSUME NEW d \in 0..8, At("waiting", "wr3", d)
      PROVE  Written'
  <2>1. /\ nextstate' = "wr3" /\ cpu_from_lcd_ack' = FALSE /\ UNCHANGED lcd_drive
        /\ d = 0 => lcdstate' = "wr3" /\ delay' = 0
        /\ d > 0 => lcdstate' = "waiting" /\ delay' = d - 1
    BY <1>5 DEF LcdEdge, At, Idle, BeginRead, BeginWrite, Rd1, Rd2, Wr1, Wr2, Wr3, Waiting
  <2> QED
    BY <1>1, <1>2, <1>3, <2>1 DEF Written, At
<1>6. CASE At("wr3", "wr3", 0)
  <2>1. At("wr3", "idle", 1)' /\ cpu_from_lcd_ack' = TRUE /\ lcd_drive' = FALSE
    BY <1>6 DEF LcdEdge, At, Idle, BeginRead, BeginWrite, Rd1, Rd2, Wr1, Wr2, Wr3, Waiting, Then
  <2> QED
    BY <1>1, <1>2, <1>3, <2>1 DEF Acknowledging, Releases
<1> QED
  BY <1>4, <1>5, <1>6 DEF Written

LEMMA FromAcknowledging ==
  ASSUME LcdShared, LcdEdges, Acknowledging
  PROVE  Answering'
<1>. PanelEdge /\ LcdEdge
  BY DEF LcdEdges
<1>1. /\ ~mem_strobe /\ cpu_to_lcd_req' = FALSE /\ mem_read' = cpu_from_lcd
      /\ Release /\ mem_op \in {"read", "write"} /\ mem_addr = "LCD"
      /\ UNCHANGED <<cpu_to_lcd_cs, mem_op, mem_addr, mem_write>>
  BY WaitStep DEF Acknowledging, Command
<1>2. At("waiting", "idle", 1)' /\ UNCHANGED <<lcd_rd, lcd_wr>> /\ ~lcd_drive'
  <2>1. CASE At("rd2", "idle", 1)
    <3>1. At("waiting", "idle", 1)' /\ UNCHANGED <<lcd_rd, lcd_wr, lcd_drive>>
      BY <2>1 DEF LcdEdge, At, Idle, BeginRead, BeginWrite, Rd1, Rd2, Wr1, Wr2, Wr3, Waiting, Then
    <3> QED
      BY <3>1 DEF Acknowledging
  <2>2. CASE At("wr3", "idle", 1)
    BY <2>2 DEF LcdEdge, At, Idle, BeginRead, BeginWrite, Rd1, Rd2, Wr1, Wr2, Wr3, Waiting, Then
  <2> QED
    BY <2>1, <2>2 DEF Acknowledging
<1>3. Releases(7)' /\ lcd_rd' /\ panel_word' = panel_word /\ latched' = latched
  BY <1>1, <1>2, PanelStep, LatchedStep DEF Acknowledging, LcdShared, Releases
<1> QED
  BY <1>1, <1>2, <1>3 DEF Acknowledging, Answering, Release, Selected, Cycle

LEMMA FromAnswering ==
  ASSUME LcdShared, LcdEdges, Answering
  PROVE  Ending'
<1>. PanelEdge /\ LcdEdge /\ BusEdge /\ CpuEdge /\ program \in Programs
  BY DEF LcdEdges, LcdShared, Handshake
<1>1. At("waiting", "idle", 0)' /\ cpu_from_lcd_ack' = FALSE /\ UNCHANGED <<lcd_rd, lcd_drive>>
  BY DEF LcdEdge, Answering, At, Idle, BeginRead, BeginWrite, Rd1, Rd2, Wr1, Wr2, Wr3, Waiting
<1>2. mem_op' = "none"
  BY AccessSteps DEF Answering
<1>3. currentstate' = "WAITING"
  <2>1. ~mem_strobe
    BY DEF Answering, LcdShared, Handshake
  <2> QED
    BY <2>1, BusCases DEF Answering, Block
<1>4. lcd_rd' /\ ~lcd_drive' /\ Releases(6)'
  BY <1>1, PanelStep DEF Answering, Releases, LcdShared
<1> QED
  BY <1>1, <1>2, <1>3, <1>4 DEF Ending

LEMMA FromEnding ==
  ASSUME LcdShared, LcdEdges, Ending
  PROVE  Resting'
<1>. PanelEdge /\ LcdEdge /\ BusEdge /\ CpuEdge
  BY DEF LcdEdges
<1>1. At("idle", "idle", 0)' /\ cpu_from_lcd_ack' = FALSE /\ UNCHANGED <<lcd_rd, lcd_drive>>
  BY DEF LcdEdge, Ending, At, Idle, BeginRead, BeginWrite, Rd1, Rd2, Wr1, Wr2, Wr3, Waiting
<1>2. currentstate' = "WAITING" /\ mem_busy' = TRUE /\ ~mem_strobe
  BY BusCases DEF Ending, LcdShared, Handshake, Block
<1>3. cpu_to_lcd_req' = FALSE
  BY <1>2, LcdBusStep DEF Ending, LcdShared, LcdAsked, LcdAwaited, LcdElsewhere
<1>4. lcd_rd' /\ ~lcd_drive' /\ Releases(5)'
  BY <1>1, PanelStep DEF Ending, Releases, LcdShared
<1> QED
  BY <1>1, <1>2, <1>3, <1>4 DEF Resting

\* The types, and that the bus waits for another peripheral only for another register.
LEMMA SharedStep ==
  ASSUME LcdShared, LcdEdges, [Next]_vars
  PROVE  LcdShared'
<1>. LcdEdge /\ BusEdge /\ CpuEdge /\ PanelEdge /\ program \in Programs
  BY DEF LcdEdges, LcdShared, Handshake
<1>1. Handshake'
  BY HandshakeStep DEF LcdShared
<1>2. cpu_to_lcd_req' \in BOOLEAN
  BY LcdBusStep DEF LcdShared, LcdAsked, LcdAwaited, LcdElsewhere
<1>3. lcd_rd' \in BOOLEAN /\ lcd_drive' \in BOOLEAN /\ lcd_wr' \in BOOLEAN /\ cpu_from_lcd_ack' \in BOOLEAN
  BY DEF LcdEdge, Idle, BeginRead, BeginWrite, Rd1, Rd2, Wr1, Wr2, Wr3, Waiting, LcdShared
<1>4. /\ panel_low' \in 0..AccessTime /\ panel_hold' \in 0..14
      /\ panel_low' = AccessTime => lcd_data_in' = panel_word'
  BY PanelStep DEF LcdShared
<1>5. ASSUME ~(currentstate' \in {"WAITING", "WAITLCD"})
      PROVE  mem_addr' # "LCD"
  <2>1. LcdElsewhere /\ mem_addr # "LCD"
    BY <1>5, LcdBusStep DEF LcdShared, LcdAsked, LcdAwaited, LcdElsewhere, Release, Block
  <2>2. mem_op # "none"
    BY <1>1, <1>5, BusCases DEF LcdShared, Handshake, Block
  <2>3. CASE mem_busy
    BY <2>1, <2>2, <2>3, AccessSteps
  <2>4. CASE ~mem_busy
    BY <2>2, <2>4, AccessSteps, <1>1, <1>5 DEF Handshake
  <2> QED
    BY <2>3, <2>4
<1> QED
  BY <1>1, <1>2, <1>3, <1>4, <1>5 DEF LcdShared

LcdPhase ==
  \/ Resting \/ Requested \/ Reading \/ Returning \/ Beginning \/ Driving
  \/ Written \/ Acknowledging \/ Answering \/ Ending

LcdInv == LcdShared /\ LcdPhase

LEMMA LcdInvStep ==
  ASSUME LcdInv, [Next]_vars
  PROVE  LcdInv'
<1>1. CASE Next
  <2>1. LcdEdges /\ LcdShared
    BY <1>1 DEF Next, LcdEdges, LcdInv
  <2>2. LcdShared'
    BY <2>1, SharedStep
  <2>3. LcdPhase'
    BY <2>1, FromResting, FromRequested, FromReading, FromReturning, FromBeginning, FromDriving,
       FromWritten, FromAcknowledging, FromAnswering, FromEnding, Zenon DEF LcdInv, LcdPhase
  <2> QED
    BY <2>2, <2>3 DEF LcdInv
<1>2. CASE UNCHANGED vars
  <2>1. LcdShared'
    BY <1>2, HandshakeStep DEF LcdInv, LcdShared, vars, lcdRegs, panelVars, cpuRegs
  <2>2. /\ UNCHANGED <<currentstate, mem_busy, mem_read, cpu_to_lcd_cs, mem_op, mem_addr, mem_write>>
        /\ UNCHANGED <<cpu_to_lcd, cpu_to_lcd_cmd, cpu_to_lcd_req, cpu_to_lcd_rw, lcdstate, nextstate,
                       delay, cpu_from_lcd, cpu_from_lcd_ack, lcd_drive, lcd_wr, lcd_rd, lcd_rs>>
        /\ UNCHANGED <<panel_word, panel_low, panel_hold, latched>>
    BY <1>2 DEF vars, lcdRegs, panelVars, cpuRegs
  <2>3. LcdPhase <=> LcdPhase'
    BY <2>2 DEF LcdPhase, Resting, Requested, Reading, Returning, Beginning, Driving, Written,
                Acknowledging, Answering, Ending, Command, Cycle, Selected, Strobed, Releases,
                PanelDrives, At
  <2> QED
    BY <2>1, <2>3 DEF LcdInv
<1> QED
  BY <1>1, <1>2

LEMMA LcdAlways == Spec => []LcdInv
<1>1. Init => LcdInv
  <2>. SUFFICES ASSUME Init PROVE LcdInv
    OBVIOUS
  <2>1. Handshake
    BY DEF Init, BusInit, Handshake
  <2>2. /\ At("waiting", "idle", 0) /\ cpu_from_lcd_ack = FALSE /\ currentstate = "WAITING"
        /\ mem_op = "none" /\ lcd_rd = TRUE /\ lcd_drive = FALSE /\ panel_low = 0 /\ panel_hold = 0
        /\ panel_word = lcd_data_in /\ cpu_to_lcd_req \in program.leftover
        /\ lcd_wr \in program.leftover /\ program \in Programs
    BY DEF Init, BusInit, LcdInit, At
  <2>3. cpu_to_lcd_req \in BOOLEAN /\ lcd_wr \in BOOLEAN
    BY <2>2, ProgramAssumption
  <2>4. LcdShared
    <3>1. {cpu_to_lcd_req, lcd_rd, lcd_drive, lcd_wr, cpu_from_lcd_ack} \subseteq BOOLEAN
      BY <2>2, <2>3
    <3>2. panel_low \in 0..AccessTime /\ panel_hold \in 0..14
      BY <2>2, PartnerAssumption
    <3> QED
      BY <2>1, <2>2, <3>1, <3>2 DEF LcdShared
  <2>5. Ending
    BY <2>2 DEF Ending, Releases
  <2> QED
    BY <2>4, <2>5 DEF LcdInv, LcdPhase
<1> QED
  BY <1>1, LcdInvStep, PTL DEF Spec

\* A write of the CPU is one write cycle of a selected panel with the CPU's word and register
\* select; a read returns the panel's word and writes nothing; bridge and panel never drive the
\* data bus together (lcd_bridge.vhd:67-117, ZPUTest.vhd:648-655).
THEOREM PanelAccessed == Spec => []LcdAccess
<1>1. LcdInv => LcdAccess
  <2>. SUFFICES ASSUME LcdInv PROVE LcdAccess
    OBVIOUS
  <2>1. ~(lcd_drive /\ PanelDrives)
    BY DEF LcdInv, LcdPhase, Resting, Requested, Reading, Returning, Beginning, Driving, Written,
           Acknowledging, Answering, Ending, Strobed
  <2>2. ASSUME Answered("write", "LCD") \/ Answered("read", "LCD")
        PROVE  Answering
    <3>1. currentstate = "WAITING" /\ ~mem_busy /\ mem_op # "none" /\ mem_addr = "LCD"
      BY <2>2 DEF Answered, LcdInv, LcdShared, Handshake
    <3> QED
      BY <3>1 DEF LcdInv, LcdPhase, Resting, Requested, Reading, Returning, Beginning, Driving,
                  Written, Acknowledging, Ending, Command
  <2>3. Answered("write", "LCD") /\ cpu_to_lcd_cs = 0 => latched = Cycle
    BY <2>2 DEF Answered, Answering, Selected
  <2>4. Answered("read", "LCD") /\ cpu_to_lcd_cs = 0 => mem_read = panel_word /\ latched = << >>
    BY <2>2 DEF Answered, Answering, Selected
  <2> QED
    BY <2>1, <2>3, <2>4 DEF LcdAccess, Cycle
<1> QED
  BY <1>1, LcdAlways, PTL

-----------------------------------------------------------------------------
(***************************************************************************)
(* What the program asks for.                                                *)
(***************************************************************************)
\* What the program may write to the registers that keep something of it.
LEMMA WritableCases ==
  /\ Writable("UART") = Characters
  /\ Writable("DIVISOR") = {<<d>> : d \in Divisors}
  /\ Writable("CS") = Selections
  /\ Writable("SPI") = SpiBytes /\ Writable("SPI_PUMP") = SpiBytes
  /\ Writable("LCD") = {<<cmd>> \o w : cmd \in Bit, w \in LcdWord}
BY DEF Writable

\* An access under way is one of the program's, with something it may write.
Issued ==
  /\ program \in Programs
  /\ mem_op # "none" => /\ <<mem_op, mem_addr>> \in program.accesses
                        /\ mem_op = "write" =>
                             \E reg \in Register : mem_addr = reg /\ mem_write \in Writable(reg)

LEMMA IssuedStep ==
  ASSUME Issued, [Next]_vars
  PROVE  Issued'
<1>1. ASSUME NEW a \in program.accesses, Issue(a[1], a[2]), UNCHANGED program
      PROVE  Issued'
  <2>1. a = <<a[1], a[2]>>
    BY <1>1, ProgramAssumption DEF Issued
  <2>2. mem_op' = a[1] /\ mem_addr' = a[2]
    BY <1>1 DEF Issue
  <2>3. a[2] \in Register
    BY <1>1, ProgramAssumption DEF Issued
  <2>4. mem_op' = "write" => \E reg \in Register : mem_addr' = reg /\ mem_write' \in Writable(reg)
    BY <1>1, <2>2, <2>3, Zenon DEF Issue
  <2> QED
    BY <1>1, <2>1, <2>2, <2>4, Zenon DEF Issued
<1>2. ASSUME Await \/ Continue \/ Compute, UNCHANGED program
      PROVE  Issued'
  <2>1. mem_op' = "none" \/ UNCHANGED <<mem_op, mem_addr, mem_write>>
    BY <1>2 DEF Await, Continue, Compute, cpuRegs
  <2> QED
    BY <1>2, <2>1, Zenon DEF Issued
<1>3. CASE UNCHANGED vars
  BY <1>3, Zenon DEF Issued, vars, cpuRegs
<1> QED
  BY <1>1, <1>2, <1>3, Zenon DEF Next, CpuEdge

LEMMA IssuedAlways == Spec => []Issued
<1>1. Init => Issued
  BY DEF Init, BusInit, Issued
<1> QED
  BY <1>1, IssuedStep, PTL DEF Spec

-----------------------------------------------------------------------------
(***************************************************************************)
(* The bit clock.  A program that changes it in the middle of a character     *)
(* spoils the character: the theorems about what is on the line, and about      *)
(* the width of the counters, are for programs that leave it as it is.         *)
(***************************************************************************)
Divided ==
  /\ ser_clock_divisor = program.divisor
  /\ ser_txdata \in Character

\* Of the bus, what the UART sees.
LEMMA UartBusStep ==
  ASSUME BusEdge, Issued, DivisorKept, Divided
  PROVE  ser_clock_divisor' = ser_clock_divisor /\ ser_txdata' \in Character
<1>1. CASE WriteUart
  <2>1. mem_write \in Characters /\ ser_txdata' = mem_write /\ UNCHANGED ser_clock_divisor
    BY <1>1, WritableCases, Zenon DEF WriteUart, Strobe, Issued
  <2> QED
    BY <2>1, DataAssumption
<1>2. CASE WriteDivisor
  <2>1. /\ mem_write \in {<<d>> : d \in Divisors} /\ <<"write", "DIVISOR">> \in program.accesses
        /\ ser_clock_divisor' = mem_write[1] /\ UNCHANGED ser_txdata
    BY <1>2, WritableCases, Zenon DEF WriteDivisor, Strobe, Issued
  <2>2. Divisors = {program.divisor}
    BY <2>1 DEF DivisorKept, Issued
  <2> QED
    BY <2>1, <2>2 DEF Divided
<1>3. CASE WriteSelect \/ WriteLcd \/ WriteVga \/ \E reg \in {"SPI", "SPI_PUMP"} : WriteSpi(reg)
  BY <1>3 DEF WriteSelect, WriteLcd, WriteVga, WriteSpi, NoUart, Divided
<1>4. CASE NoStrobe \/ ReadUart \/ ReadBusy \/ ReadSpi \/ ReadPump \/ ReadLcd \/ OtherRegister
  BY <1>4 DEF NoStrobe, ReadUart, ReadBusy, ReadSpi, ReadPump, ReadLcd, OtherRegister, NoPeripheral,
              NoUart, Divided
<1>5. CASE VgaWrite \/ WaitSpiW \/ WaitSpiR \/ WaitLcd
  BY <1>5 DEF VgaWrite, WaitSpiW, WaitSpiR, WaitLcd, NoPeripheral, NoUart, Divided
<1> QED
  BY <1>1, <1>2, <1>3, <1>4, <1>5, Zenon DEF BusEdge

LEMMA DividedStep ==
  ASSUME Divided, Issued, DivisorKept, [Next]_vars
  PROVE  Divided' /\ ser_clock_divisor' = ser_clock_divisor
<1>1. CASE Next
  BY <1>1, UartBusStep DEF Next, CpuEdge, Divided
<1>2. CASE UNCHANGED vars
  BY <1>2 DEF vars, Divided
<1> QED
  BY <1>1, <1>2

LEMMA OnesType == \A n \in Nat : Ones(n) \in [1..n -> Bit]
BY DEF Ones, Bit

LEMMA DividedAlways ==
  ASSUME DivisorKept
  PROVE  Spec => []Divided
<1>1. Init => Divided
  BY OnesType DEF Init, BusInit, Divided, Character
<1>2. Divided /\ Issued /\ [Next]_vars => Divided'
  BY DividedStep
<1> QED
  BY <1>1, <1>2, IssuedAlways, PTL DEF Spec

\* A place in a frame of bits of m clocks each: what is left of it by bits.
LEMMA Remainder ==
  ASSUME NEW m \in Nat, m > 0, NEW i \in 0..9, NEW r \in 0..(m - 1)
  PROVE  ((i * m) + r) % m = r
<1>1. i \in {0, 1, 2, 3, 4, 5, 6, 7, 8, 9}
  OBVIOUS
<1> QED
  BY <1>1

-----------------------------------------------------------------------------
(***************************************************************************)
(* The serial line out.  A frame is at clock r of bit i; then the line, what is*)
(* left in the register and what the listener has heard are known.           *)
(***************************************************************************)
Half == ser_clock_divisor \div 2
Period == ser_clock_divisor + 1
Whole(c) == <<0>> \o c \o <<1>>

\* Of character c, its marker of ones and the zero that ends it, what is left when i bits have
\* gone out.
Left(c, i) == [j \in 1..18 |-> IF i + j <= 8 THEN c[i + j] ELSE IF i + j <= 17 THEN 1 ELSE 0]

\* r clocks into a bit of the frame.
Clocked(r) ==
  \/ txclock = 0 /\ r <= ser_clock_divisor /\ txcounter = ser_clock_divisor - r
  \/ txclock = 1 /\ r = Period /\ txcounter = ser_clock_divisor

\* The listener counts the clocks of the frame and has heard the bits whose middle is past ...
Heeded(i, r) ==
  /\ ear = (i * Period) + r
  /\ Len(heard) = IF r > Half THEN i + 1 ELSE i

\* ... and has done with the frame in the middle of the stop bit.
Over(r) ==
  /\ ear = 0
  /\ r = Half + 2 => Len(heard) = 10
  /\ r > Half + 2 => heard = << >>

SendsBit(i, r) ==
  /\ r = 0 => i = 0
  /\ Clocked(r) /\ txd = Whole(spoken)[i + 1] /\ txbuffer = Left(spoken, i)
  /\ i = 9 /\ r > Half + 1 => Over(r)
  /\ i < 9 \/ r <= Half + 1 => Heeded(i, r)

Matches == \A k \in 1..Len(heard) : heard[k] = Whole(spoken)[k]

TransmitInv ==
  /\ txstate \in {"idle", "bits"} /\ heard \in Seq(Bit) /\ spoken \in Character
  /\ txstate = "idle" => txd = 1 /\ ear = 0 /\ heard = << >>
  /\ txstate = "bits" => \E i \in 0..9, r \in 0..Period : SendsBit(i, r)
  /\ Matches

\* A function on the first numbers is a sequence.
LEMMA FunctionIsSeq ==
  ASSUME NEW S, NEW n \in Nat, NEW f \in [1..n -> S]
  PROVE  f \in Seq(S) /\ Len(f) = n
<1>1. f \in Seq(S)
  BY SeqDef
<1>2. Len(f) \in Nat /\ 1..Len(f) = 1..n
  BY <1>1, LenProperties
<1>3. \A a, b \in Nat : 1..a = 1..b => a <= b
  <2>. SUFFICES ASSUME NEW a \in Nat, NEW b \in Nat, 1..a = 1..b, a > b PROVE FALSE
    OBVIOUS
  <2>1. a \in 1..a /\ ~(a \in 1..b)
    OBVIOUS
  <2> QED
    BY <2>1
<1> QED
  BY <1>1, <1>2, <1>3

\* The library's facts, with the result named.
LEMMA ConcatBits ==
  ASSUME NEW s \in Seq(Bit), NEW t \in Seq(Bit)
  PROVE  \E w \in Seq(Bit) :
           /\ s \o t = w /\ Len(w) = Len(s) + Len(t)
           /\ \A i \in 1..(Len(s) + Len(t)) : w[i] = IF i <= Len(s) THEN s[i] ELSE t[i - Len(s)]
<1>1. /\ s \o t \in Seq(Bit) /\ Len(s \o t) = Len(s) + Len(t)
      /\ \A i \in 1..(Len(s) + Len(t)) : (s \o t)[i] = IF i <= Len(s) THEN s[i] ELSE t[i - Len(s)]
  BY ConcatProperties, Zenon
<1> QED
  BY <1>1, Zenon

LEMMA AppendBits ==
  ASSUME NEW s \in Seq(Bit), NEW b \in Bit
  PROVE  \E w \in Seq(Bit) :
           /\ Append(s, b) = w /\ Len(w) = Len(s) + 1
           /\ \A i \in 1..Len(s) : w[i] = s[i]
           /\ w[Len(s) + 1] = b
<1>1. /\ Append(s, b) \in Seq(Bit) /\ Len(Append(s, b)) = Len(s) + 1
      /\ \A i \in 1..Len(s) : Append(s, b)[i] = s[i]
      /\ Append(s, b)[Len(s) + 1] = b
  BY AppendProperties
<1> QED
  BY <1>1, Zenon

LEMMA TailBits ==
  ASSUME NEW s \in Seq(Bit), Len(s) > 0
  PROVE  \E w \in Seq(Bit) :
           /\ Tail(s) = w /\ Len(w) = Len(s) - 1
           /\ \A i \in 1..(Len(s) - 1) : w[i] = s[i + 1]
<1>1. s # << >>
  BY EmptySeq
<1>2. /\ Tail(s) \in Seq(Bit) /\ Len(Tail(s)) = Len(s) - 1
      /\ \A i \in 1..Len(Tail(s)) : Tail(s)[i] = s[i + 1]
  BY <1>1, HeadTailProperties, Zenon
<1> QED
  BY <1>2, Zenon

\* A shift register: a bit out at the front, one in at the end.
LEMMA ShiftBits ==
  ASSUME NEW s \in Seq(Bit), NEW b \in Bit, Len(s) > 0
  PROVE  \E w \in Seq(Bit) :
           /\ Append(Tail(s), b) = w /\ Len(w) = Len(s)
           /\ \A i \in 1..Len(s) : w[i] = IF i < Len(s) THEN s[i + 1] ELSE b
<1>1. PICK t \in Seq(Bit) :
         /\ Tail(s) = t /\ Len(t) = Len(s) - 1
         /\ \A i \in 1..(Len(s) - 1) : t[i] = s[i + 1]
  BY TailBits, Zenon
<1>2. Len(t) = Len(s) - 1 /\ \A i \in 1..(Len(s) - 1) : t[i] = s[i + 1]
  BY <1>1, Zenon
<1>3. PICK w \in Seq(Bit) :
         /\ Append(t, b) = w /\ Len(w) = Len(t) + 1
         /\ \A i \in 1..Len(t) : w[i] = t[i]
         /\ w[Len(t) + 1] = b
  BY AppendBits, Zenon
<1>4. Len(w) = Len(t) + 1 /\ (\A i \in 1..Len(t) : w[i] = t[i]) /\ w[Len(t) + 1] = b
  BY <1>3, Zenon
<1>5. Len(s) \in Nat /\ Len(t) \in Nat
  BY LenProperties
<1>6. Len(w) = Len(s)
  BY <1>2, <1>4, <1>5
<1>7. \A i \in 1..Len(s) : w[i] = IF i < Len(s) THEN s[i + 1] ELSE b
  BY <1>2, <1>4, <1>5
<1> QED
  BY <1>1, <1>3, <1>6, <1>7, Zenon

LEMMA WholeBits ==
  ASSUME NEW c \in Character
  PROVE  \E w \in Seq(Bit) :
           /\ Whole(c) = w /\ Len(w) = 10 /\ w[1] = 0 /\ w[10] = 1
           /\ \A k \in 1..8 : w[k + 1] = c[k]
<1>1. c \in Seq(Bit) /\ Len(c) = 8
  BY FunctionIsSeq DEF Character
<1>2. PICK first, last : first = <<0>> /\ last = <<1>>
  OBVIOUS
<1>3. /\ first \in Seq(Bit) /\ Len(first) = 1 /\ first[1] = 0
      /\ last \in Seq(Bit) /\ Len(last) = 1 /\ last[1] = 1
  BY <1>2 DEF Bit
<1>4. PICK both \in Seq(Bit) :
         /\ first \o c = both /\ Len(both) = Len(first) + Len(c)
         /\ \A i \in 1..(Len(first) + Len(c)) : both[i] = IF i <= Len(first) THEN first[i] ELSE c[i - Len(first)]
  BY <1>1, <1>3, ConcatBits, Zenon
<1>5. /\ Len(both) = Len(first) + Len(c)
      /\ \A i \in 1..(Len(first) + Len(c)) : both[i] = IF i <= Len(first) THEN first[i] ELSE c[i - Len(first)]
  BY <1>4, Zenon
<1>6. Len(both) = 9 /\ \A i \in 1..9 : both[i] = IF i <= 1 THEN first[i] ELSE c[i - 1]
  BY <1>1, <1>3, <1>5
<1>7. PICK w \in Seq(Bit) :
         /\ both \o last = w /\ Len(w) = Len(both) + Len(last)
         /\ \A i \in 1..(Len(both) + Len(last)) : w[i] = IF i <= Len(both) THEN both[i] ELSE last[i - Len(both)]
  BY <1>3, ConcatBits, Zenon
<1>8. /\ Len(w) = Len(both) + Len(last)
      /\ \A i \in 1..(Len(both) + Len(last)) : w[i] = IF i <= Len(both) THEN both[i] ELSE last[i - Len(both)]
  BY <1>7, Zenon
<1>9. Len(w) = 10 /\ \A i \in 1..10 : w[i] = IF i <= 9 THEN both[i] ELSE last[i - 9]
  BY <1>3, <1>6, <1>8
<1>10. Len(w) = 10 /\ w[1] = 0 /\ w[10] = 1 /\ \A k \in 1..8 : w[k + 1] = c[k]
  BY <1>3, <1>6, <1>9
<1>11. Whole(c) = w
  BY <1>2, <1>4, <1>7, Zenon DEF Whole
<1> QED
  BY <1>10, <1>11, Zenon

LEMMA LeftType ==
  ASSUME NEW c \in Character, NEW i \in 0..9
  PROVE  Left(c, i) \in [1..18 -> Bit] /\ Left(c, i) \in Seq(Bit) /\ Len(Left(c, i)) = 18
<1>1. \A j \in 1..18 : i + j <= 8 => c[i + j] \in Bit
  BY DEF Character
<1>2. Left(c, i) \in [1..18 -> Bit]
  BY <1>1 DEF Left, Bit
<1> QED
  BY <1>2, FunctionIsSeq

\* The register shifts a bit out and a zero in ...
LEMMA LeftShifted ==
  ASSUME NEW c \in Character, NEW i \in 0..8
  PROVE  Append(Tail(Left(c, i)), 0) = Left(c, i + 1)
<1>1. PICK f, g : f = Left(c, i) /\ g = Left(c, i + 1)
  OBVIOUS
<1>2. i \in 0..9 /\ i + 1 \in 0..9
  OBVIOUS
<1>3. f \in Seq(Bit) /\ Len(f) = 18 /\ g \in Seq(Bit) /\ Len(g) = 18
  BY <1>1, <1>2, LeftType
<1>4. \A j \in 1..18 : g[j] = IF j < 18 THEN f[j + 1] ELSE 0
  BY <1>1 DEF Left
<1>5. 0 \in Bit /\ Len(f) > 0
  BY <1>3 DEF Bit
<1>6. PICK w \in Seq(Bit) :
         /\ Append(Tail(f), 0) = w /\ Len(w) = Len(f)
         /\ \A j \in 1..Len(f) : w[j] = IF j < Len(f) THEN f[j + 1] ELSE 0
  BY <1>3, <1>5, ShiftBits, Zenon
<1>7. Len(w) = Len(f) /\ \A j \in 1..Len(f) : w[j] = IF j < Len(f) THEN f[j + 1] ELSE 0
  BY <1>6, Zenon
<1>8. w = g
  <2>1. Len(w) = Len(g) /\ \A j \in 1..Len(w) : w[j] = g[j]
    BY <1>3, <1>4, <1>7
  <2> QED
    BY <1>3, <2>1, SeqEqual, Zenon
<1> QED
  BY <1>1, <1>6, <1>8, Zenon

\* ... and the zero of the marker is in place 9 when nine bits are out.
LEMMA LeftBits ==
  ASSUME NEW c \in Character, NEW i \in 0..9
  PROVE  /\ i < 9 => Left(c, i)[1] = Whole(c)[i + 2]
         /\ i = 9 => Left(c, i)[1] = 1
         /\ Left(c, i)[9] = 0 <=> i = 9
<1>1. PICK w : Whole(c) = w /\ w[10] = 1 /\ \A k \in 1..8 : w[k + 1] = c[k]
  BY WholeBits, Zenon
<1>2. w[10] = 1 /\ \A k \in 1..8 : w[k + 1] = c[k]
  BY <1>1, Zenon
<1>3. i < 9 => Left(c, i)[1] = w[i + 2]
  <2>1. CASE i < 8
    <3>1. Left(c, i)[1] = c[i + 1] /\ i + 1 \in 1..8 /\ (i + 1) + 1 = i + 2
      BY <2>1 DEF Left
    <3> QED
      BY <1>2, <3>1
  <2>2. CASE i = 8
    BY <1>2, <2>2 DEF Left
  <2> QED
    BY <2>1, <2>2
<1>4. (i = 9 => Left(c, i)[1] = 1) /\ (Left(c, i)[9] = 0 <=> i = 9)
  BY DEF Left
<1> QED
  BY <1>1, <1>3, <1>4, Zenon

LEMMA LeftBegins ==
  ASSUME NEW c \in Character
  PROVE  c \o Ones(9) \o <<0>> = Left(c, 0)
<1>1. c \in Seq(Bit) /\ Len(c) = 8
  BY FunctionIsSeq DEF Character
<1>2. PICK ones, zero : ones = Ones(9) /\ zero = <<0>>
  OBVIOUS
<1>3. ones \in Seq(Bit) /\ Len(ones) = 9
  <2>1. ones \in [1..9 -> Bit] /\ 9 \in Nat
    BY <1>2, OnesType
  <2> QED
    BY <2>1, FunctionIsSeq
<1>4. \A k \in 1..9 : ones[k] = 1
  BY <1>2 DEF Ones
<1>5. zero \in Seq(Bit) /\ Len(zero) = 1 /\ zero[1] = 0
  BY <1>2 DEF Bit
<1>6. PICK both \in Seq(Bit) :
         /\ c \o ones = both /\ Len(both) = Len(c) + Len(ones)
         /\ \A i \in 1..(Len(c) + Len(ones)) : both[i] = IF i <= Len(c) THEN c[i] ELSE ones[i - Len(c)]
  BY <1>1, <1>3, ConcatBits, Zenon
<1>7. /\ Len(both) = Len(c) + Len(ones)
      /\ \A i \in 1..(Len(c) + Len(ones)) : both[i] = IF i <= Len(c) THEN c[i] ELSE ones[i - Len(c)]
  BY <1>6, Zenon
<1>8. Len(both) = 17 /\ \A i \in 1..17 : both[i] = IF i <= 8 THEN c[i] ELSE 1
  BY <1>1, <1>3, <1>4, <1>7
<1>9. PICK w \in Seq(Bit) :
         /\ both \o zero = w /\ Len(w) = Len(both) + Len(zero)
         /\ \A i \in 1..(Len(both) + Len(zero)) : w[i] = IF i <= Len(both) THEN both[i] ELSE zero[i - Len(both)]
  BY <1>5, ConcatBits, Zenon
<1>10. /\ Len(w) = Len(both) + Len(zero)
       /\ \A i \in 1..(Len(both) + Len(zero)) : w[i] = IF i <= Len(both) THEN both[i] ELSE zero[i - Len(both)]
  BY <1>9, Zenon
<1>11. Len(w) = 18 /\ \A j \in 1..18 : w[j] = IF j <= 8 THEN c[j] ELSE IF j <= 17 THEN 1 ELSE 0
  BY <1>5, <1>8, <1>10
<1>12. PICK f : f = Left(c, 0)
  OBVIOUS
<1>13. /\ f \in Seq(Bit) /\ Len(f) = 18
       /\ \A j \in 1..18 : f[j] = IF j <= 8 THEN c[j] ELSE IF j <= 17 THEN 1 ELSE 0
  BY <1>12, LeftType DEF Left
<1>14. w = f
  <2>1. Len(w) = Len(f) /\ \A j \in 1..Len(w) : w[j] = f[j]
    BY <1>11, <1>13
  <2> QED
    BY <1>13, <2>1, SeqEqual, Zenon
<1> QED
  BY <1>2, <1>6, <1>9, <1>12, <1>14, Zenon

LEMMA DivisorRange ==
  ASSUME Divided, Issued
  PROVE  ser_clock_divisor \in Nat /\ ser_clock_divisor > 1
BY ProgramAssumption, DivisorAssumption DEF Divided, Issued

LEMMA HalfRange ==
  ASSUME NEW d \in Nat, d > 1
  PROVE  d \div 2 \in Nat /\ d \div 2 >= 1 /\ (d \div 2) + 1 <= d
OBVIOUS

\* The listener: waiting, done with a frame, in the middle of a bit, elsewhere in it.
LEMMA ListenerCases ==
  ASSUME ListenerEdge
  PROVE  /\ ear = 0 => ear' = (IF txd = 0 THEN 1 ELSE 0) /\ heard' = << >>
         /\ ear > 0 /\ ear # 0 /\ Len(heard) = 10 /\ ~(Len(heard) < 10) /\ txd = 1 => ear' = 0 /\ heard' = heard
         /\ ear > 0 /\ ear # 0 /\ Len(heard) # 10 /\ Len(heard) < 10 =>
              /\ ear' = ear + 1
              /\ ear % Period = Half => heard' = Append(heard, txd)
              /\ ear % Period # Half => heard' = heard
<1>1. ear = 0 => ear' = (IF txd = 0 THEN 1 ELSE 0) /\ heard' = << >>
  BY DEF ListenerEdge
<1>2. ASSUME ear > 0, ear # 0, Len(heard) = 10, ~(Len(heard) < 10), txd = 1
      PROVE  ear' = 0 /\ heard' = heard
  BY <1>2, Zenon DEF ListenerEdge
<1>3. ASSUME ear > 0, ear # 0, Len(heard) # 10, Len(heard) < 10
      PROVE  /\ ear' = ear + 1
             /\ ear % Period = Half => heard' = Append(heard, txd)
             /\ ear % Period # Half => heard' = heard
  BY <1>3, Zenon DEF ListenerEdge, Period, Half
<1> QED
  BY <1>1, <1>2, <1>3, Zenon

\* One clock of the listener in a frame, before it has heard all of it.
LEMMA Listens ==
  ASSUME ListenerEdge, NEW d \in Nat, d > 1, ser_clock_divisor = d, heard \in Seq(Bit), txd \in Bit,
         NEW i \in 0..9, NEW r \in 1..(d + 1), Heeded(i, r), i < 9 \/ r <= Half
  PROVE  /\ ear' = ear + 1 /\ heard' \in Seq(Bit)
         /\ Len(heard') = IF r + 1 > Half THEN i + 1 ELSE i
         /\ \/ heard' = heard
            \/ Len(heard) = i /\ heard'[i + 1] = txd /\ \A k \in 1..i : heard'[k] = heard[k]
<1>1. Half \in Nat /\ Half >= 1 /\ Half + 1 <= d /\ Period = d + 1
  BY HalfRange DEF Half, Period
<1>2. i * Period \in Nat
  BY <1>1
<1>3. ear = (i * Period) + r /\ Len(heard) = IF r > Half THEN i + 1 ELSE i
  BY DEF Heeded
<1>4. ear > 0 /\ ear # 0
  BY <1>2, <1>3
<1>5. Len(heard) # 10 /\ Len(heard) < 10
  BY <1>1, <1>3
<1>6. ear % Period = Half <=> r = Half
  <2>1. CASE r <= d
    <3>1. r \in 0..(Period - 1) /\ Period \in Nat /\ Period > 0
      BY <1>1, <2>1
    <3>2. ear % Period = r
      BY <1>3, <3>1, Remainder
    <3> QED
      BY <3>2
  <2>2. CASE r = d + 1
    <3>1. ear = ((i + 1) * Period) + 0
      BY <1>1, <1>2, <1>3, <2>2
    <3>2. ear % Period = 0
      <4>1. CASE i < 9
        <5>1. i + 1 \in 0..9 /\ 0 \in 0..(Period - 1) /\ Period \in Nat /\ Period > 0
          BY <1>1, <4>1
        <5> QED
          BY <3>1, <5>1, Remainder
      <4>2. CASE i = 9
        BY <1>1, <2>2, <4>2
      <4> QED
        BY <4>1, <4>2
    <3> QED
      BY <1>1, <2>2, <3>2
  <2> QED
    BY <2>1, <2>2
<1>7. /\ ear' = ear + 1
      /\ ear % Period = Half => heard' = Append(heard, txd)
      /\ ear % Period # Half => heard' = heard
  BY <1>4, <1>5, ListenerCases, Zenon
<1>8. CASE r = Half
  <2>1. heard' = Append(heard, txd) /\ ear' = ear + 1
    BY <1>6, <1>7, <1>8, Zenon
  <2>2. PICK w \in Seq(Bit) :
           /\ Append(heard, txd) = w /\ Len(w) = Len(heard) + 1
           /\ \A k \in 1..Len(heard) : w[k] = heard[k]
           /\ w[Len(heard) + 1] = txd
    BY AppendBits, Zenon
  <2>3. heard' = w /\ ear' = ear + 1
    BY <2>1, <2>2, Zenon
  <2>4. /\ Len(w) = Len(heard) + 1
        /\ \A k \in 1..Len(heard) : w[k] = heard[k]
        /\ w[Len(heard) + 1] = txd
    BY <2>2, Zenon
  <2>5. Len(heard) = i
    BY <1>3, <1>8
  <2> QED
    BY <1>1, <1>8, <2>3, <2>4, <2>5
<1>9. CASE r # Half
  <2>1. heard' = heard /\ ear' = ear + 1
    BY <1>6, <1>7, <1>9, Zenon
  <2> QED
    BY <1>1, <1>3, <1>9, <2>1
<1> QED
  BY <1>8, <1>9

\* One clock of the transmitter in a frame: it goes on in the bit, or ends it.
LEMMA BitsClock ==
  ASSUME Transmit, txstate = "bits", NEW d \in Nat, d > 1, ser_clock_divisor = d, ser_clock_divisor' = d,
         NEW r \in 0..(d + 1), Clocked(r), NEW n \in Nat, n = r + 1
  PROVE  \/ /\ r <= d /\ Clocked(n)' /\ UNCHANGED <<txd, txbuffer, txstate>>
         \/ /\ r = d + 1 /\ Clocked(1)'
            /\ txd' = txbuffer[1] /\ txbuffer' = Append(Tail(txbuffer), 0)
            /\ txstate' = IF txbuffer[9] = 0 THEN "idle" ELSE "bits"
<1>1. TxClock /\ TxBits
  BY DEF Transmit, TxIdle
<1>2. CASE txclock = 0
  <2>1. r <= d /\ txcounter = d - r
    BY <1>2 DEF Clocked
  <2>2. UNCHANGED <<txd, txbuffer, txstate>>
    BY <1>1, <1>2 DEF TxBits
  <2>3. CASE r = d
    <3>1. txclock' = 1 /\ txcounter' = d
      BY <1>1, <2>1, <2>3 DEF TxClock
    <3> QED
      BY <2>1, <2>2, <2>3, <3>1 DEF Clocked, Period
  <2>4. CASE r # d
    <3>1. txclock' = 0 /\ txcounter' = d - n
      BY <1>1, <2>1, <2>4 DEF TxClock
    <3> QED
      BY <2>1, <2>2, <2>4, <3>1 DEF Clocked, Period
  <2> QED
    BY <2>3, <2>4
<1>3. CASE txclock = 1
  <2>1. r = d + 1 /\ txcounter = d
    BY <1>3 DEF Clocked, Period
  <2>2. txclock' = 0 /\ txcounter' = d - 1
    BY <1>1, <2>1 DEF TxClock
  <2>3. Clocked(1)'
    BY <2>2 DEF Clocked
  <2>4. /\ txd' = txbuffer[1] /\ txbuffer' = Append(Tail(txbuffer), 0)
        /\ txstate' = IF txbuffer[9] = 0 THEN "idle" ELSE "bits"
    <3>1. txclock # 0
      BY <1>3
    <3> QED
      BY <1>1, <3>1, Zenon DEF TxBits, TxDone
  <2> QED
    BY <2>1, <2>3, <2>4, Zenon
<1> QED
  BY <1>2, <1>3 DEF Clocked

\* What the frame of a character has in a place.
LEMMA WholeType ==
  ASSUME NEW c \in Character, NEW i \in 0..9
  PROVE  /\ Whole(c)[i + 1] \in Bit
         /\ i = 0 => Whole(c)[i + 1] = 0
         /\ i = 9 => Whole(c)[i + 1] = 1
<1>1. PICK w : /\ Whole(c) = w /\ Len(w) = 10 /\ w[1] = 0 /\ w[10] = 1
               /\ \A k \in 1..8 : w[k + 1] = c[k]
  BY WholeBits, Zenon
<1>2. w[1] = 0 /\ w[10] = 1 /\ \A k \in 1..8 : w[k + 1] = c[k]
  BY <1>1, Zenon
<1>3. /\ w[i + 1] \in Bit
      /\ i = 0 => w[i + 1] = 0
      /\ i = 9 => w[i + 1] = 1
  <2>1. CASE i \in 1..8
    BY <1>2, <2>1 DEF Character
  <2>2. CASE i = 0 \/ i = 9
    BY <1>2, <2>2 DEF Bit
  <2> QED
    BY <2>1, <2>2
<1> QED
  BY <1>1, <1>3, Zenon

\* What the listener has after a clock of a frame: the bits before, and perhaps this one.
LEMMA MatchesKept ==
  ASSUME Matches, spoken' = spoken, NEW i \in 0..9, txd = Whole(spoken)[i + 1],
         Len(heard') \in 0..10, Len(heard) \in 0..10, Len(heard') <= i + 1,
         \/ heard' = heard
         \/ Len(heard) = i /\ heard'[i + 1] = txd /\ \A k \in 1..i : heard'[k] = heard[k]
  PROVE  Matches'
<1>1. PICK w : w = Whole(spoken)
  OBVIOUS
<1>2. Whole(spoken)' = w
  BY <1>1 DEF Whole
<1>3. txd = w[i + 1] /\ \A k \in 1..Len(heard) : heard[k] = w[k]
  BY <1>1 DEF Matches
<1>4. \A k \in 1..Len(heard') : heard'[k] = w[k]
  <2>1. CASE heard' = heard
    BY <1>3, <2>1
  <2>2. CASE Len(heard) = i /\ heard'[i + 1] = txd /\ \A k \in 1..i : heard'[k] = heard[k]
    <3>1. \A k \in 1..Len(heard') : k \in 1..i \/ k = i + 1
      OBVIOUS
    <3> QED
      BY <1>3, <2>2, <3>1
  <2> QED
    BY <2>1, <2>2
<1> QED
  BY <1>2, <1>4, Zenon DEF Matches

LEMMA Products == \A m \in Nat : \A i \in 0..9 : (i + 1) * m = (i * m) + m
OBVIOUS

\* One clock of the listener in a frame, to its end and after it.
LEMMA ListenerFrame ==
  ASSUME ListenerEdge, ser_clock_divisor \in Nat, ser_clock_divisor > 1, heard \in Seq(Bit), Matches,
         spoken \in Character, spoken' = spoken,
         NEW i \in 0..9, NEW r \in 0..Period, SendsBit(i, r), NEW n \in Nat, n = r + 1
  PROVE  /\ heard' \in Seq(Bit) /\ Matches'
         /\ i = 9 /\ n > Half + 1 =>
              ear' = 0 /\ (n = Half + 2 => Len(heard') = 10) /\ (n > Half + 2 => heard' = << >>)
         /\ i < 9 \/ n <= Half + 1 =>
              ear' = (i * Period) + n /\ Len(heard') = IF n > Half THEN i + 1 ELSE i
<1>. PICK d \in Nat : d > 1 /\ ser_clock_divisor = d
  OBVIOUS
<1>1. /\ Half \in Nat /\ Half >= 1 /\ Half + 1 <= d /\ Period = d + 1 /\ i * Period \in Nat
      /\ r \in 0..(d + 1)
  BY HalfRange DEF Half, Period
<1>2. txd = Whole(spoken)[i + 1]
  BY DEF SendsBit
<1>3. txd \in Bit /\ (i = 0 => txd = 0) /\ (i = 9 => txd = 1)
  BY <1>2, WholeType
<1>4. << >> \in Seq(Bit) /\ Len(<< >>) = 0
  BY EmptySeq
<1>5. ASSUME heard' = << >>
      PROVE  Matches' /\ heard' \in Seq(Bit) /\ Len(heard') = 0
  BY <1>4, <1>5 DEF Matches
<1>6. CASE r = 0
  <2>1. i = 0 /\ Heeded(i, r)
    BY <1>1, <1>6 DEF SendsBit
  <2>2. ear = 0
    BY <2>1, <1>1, <1>6 DEF Heeded
  <2>3. ear' = 1 /\ heard' = << >>
    BY <1>3, <2>1, <2>2, ListenerCases
  <2>4. n = 1 /\ ear' = (i * Period) + n
    BY <1>1, <1>6, <2>1, <2>3
  <2> QED
    BY <1>1, <1>5, <2>1, <2>3, <2>4
<1>7. CASE r > 0 /\ (i < 9 \/ r <= Half)
  <2>1. Heeded(i, r) /\ r \in 1..(d + 1)
    BY <1>1, <1>7 DEF SendsBit
  <2>2. /\ ear' = ear + 1 /\ heard' \in Seq(Bit)
        /\ Len(heard') = IF r + 1 > Half THEN i + 1 ELSE i
        /\ \/ heard' = heard
           \/ Len(heard) = i /\ heard'[i + 1] = txd /\ \A k \in 1..i : heard'[k] = heard[k]
    BY <1>1, <1>3, <1>7, <2>1, Listens
  <2>3. ear = (i * Period) + r /\ Len(heard) = IF r > Half THEN i + 1 ELSE i
    BY <2>1 DEF Heeded
  <2>4. Matches'
    <3>1. Len(heard') \in 0..10 /\ Len(heard) \in 0..10 /\ Len(heard') <= i + 1
      BY <2>2, <2>3
    <3>2. \/ heard' = heard
          \/ Len(heard) = i /\ heard'[i + 1] = txd /\ \A k \in 1..i : heard'[k] = heard[k]
      BY <2>2
    <3> QED
      BY <1>2, <3>1, <3>2, MatchesKept
  <2>5. ear' = (i * Period) + n
    BY <1>1, <2>2, <2>3
  <2>6. ~(i = 9 /\ n > Half + 1)
    BY <1>1, <1>7
  <2> QED
    BY <2>2, <2>4, <2>5, <2>6
<1>8. CASE i = 9 /\ r = Half + 1
  <2>1. Heeded(i, r)
    BY <1>1, <1>8 DEF SendsBit
  <2>2. ear > 0 /\ ear # 0 /\ Len(heard) = 10 /\ ~(Len(heard) < 10)
    BY <1>1, <1>8, <2>1 DEF Heeded
  <2>3. ear' = 0 /\ heard' = heard
    BY <1>3, <1>8, <2>2, ListenerCases
  <2>4. Matches'
    BY <2>3 DEF Matches, Whole
  <2> QED
    BY <1>1, <1>8, <2>2, <2>3, <2>4
<1>9. CASE i = 9 /\ r > Half + 1
  <2>1. ear = 0
    BY <1>1, <1>9 DEF SendsBit, Over
  <2>2. ear' = 0 /\ heard' = << >>
    BY <1>3, <1>9, <2>1, ListenerCases
  <2> QED
    BY <1>1, <1>5, <1>9, <2>2
<1> QED
  BY <1>1, <1>6, <1>7, <1>8, <1>9

\* The register and the line after the end of bit i.
LEMMA BitEnds ==
  ASSUME NEW c \in Character, NEW i \in 0..9, txbuffer = Left(c, i), txbuffer' = Append(Tail(txbuffer), 0),
         txd' = txbuffer[1], txstate' = IF txbuffer[9] = 0 THEN "idle" ELSE "bits"
  PROVE  /\ i = 9 => txd' = 1 /\ txstate' = "idle"
         /\ i < 9 => txd' = Whole(c)[i + 2] /\ txstate' = "bits" /\ txbuffer' = Left(c, i + 1)
<1>1. txbuffer' = Append(Tail(Left(c, i)), 0) /\ txd' = Left(c, i)[1]
      /\ txstate' = IF Left(c, i)[9] = 0 THEN "idle" ELSE "bits"
  BY Zenon
<1>2. /\ i < 9 => Left(c, i)[1] = Whole(c)[i + 2]
      /\ i = 9 => Left(c, i)[1] = 1
      /\ Left(c, i)[9] = 0 <=> i = 9
  BY LeftBits, Zenon
<1>3. i < 9 => txbuffer' = Left(c, i + 1)
  <2>1. ASSUME i < 9 PROVE i \in 0..8
    BY <2>1
  <2>2. ASSUME i < 9 PROVE Append(Tail(Left(c, i)), 0) = Left(c, i + 1)
    BY <2>1, <2>2, LeftShifted, Zenon
  <2> QED
    BY <1>1, <2>2, Zenon
<1>4. i < 9 => i # 9
  OBVIOUS
<1> QED
  BY <1>1, <1>2, <1>3, <1>4, Zenon

\* A clock of a frame.
LEMMA FrameStep ==
  ASSUME Transmit, ListenerEdge, txstate = "bits", spoken \in Character, spoken' = spoken,
         NEW d \in Nat, d > 1, ser_clock_divisor = d, ser_clock_divisor' = d,
         heard \in Seq(Bit), Matches, NEW i \in 0..9, NEW r \in 0..(d + 1), SendsBit(i, r)
  PROVE  /\ heard' \in Seq(Bit) /\ Matches'
         /\ \/ txstate' = "idle" /\ txd' = 1 /\ ear' = 0 /\ heard' = << >>
            \/ txstate' = "bits" /\ (\E j \in 0..9, q \in 0..Period : SendsBit(j, q))'
<1>1. /\ Half \in Nat /\ Half >= 1 /\ Half + 1 <= d /\ Period = d + 1 /\ i * Period \in Nat
      /\ Half' = Half /\ Period' = d + 1
  BY HalfRange DEF Half, Period
<1>2. PICK n \in Nat : n = r + 1
  OBVIOUS
<1>3. Clocked(r) /\ txd = Whole(spoken)[i + 1] /\ txbuffer = Left(spoken, i)
  BY DEF SendsBit
<1>4. /\ heard' \in Seq(Bit) /\ Matches'
      /\ i = 9 /\ n > Half + 1 =>
           ear' = 0 /\ (n = Half + 2 => Len(heard') = 10) /\ (n > Half + 2 => heard' = << >>)
      /\ i < 9 \/ n <= Half + 1 =>
           ear' = (i * Period) + n /\ Len(heard') = IF n > Half THEN i + 1 ELSE i
  <2>1. r \in 0..Period /\ ser_clock_divisor \in Nat /\ ser_clock_divisor > 1
    BY <1>1
  <2> QED
    BY <1>2, <2>1, ListenerFrame, Zenon
<1>5. \/ /\ r <= d /\ Clocked(n)' /\ UNCHANGED <<txd, txbuffer, txstate>>
      \/ /\ r = d + 1 /\ Clocked(1)'
         /\ txd' = txbuffer[1] /\ txbuffer' = Append(Tail(txbuffer), 0)
         /\ txstate' = IF txbuffer[9] = 0 THEN "idle" ELSE "bits"
  BY <1>2, <1>3, BitsClock
<1>6. CASE r <= d
  <2>1. Clocked(n)' /\ UNCHANGED <<txd, txbuffer, txstate>>
    BY <1>5, <1>6
  <2>2. txd' = Whole(spoken)'[i + 1] /\ txbuffer' = Left(spoken, i)'
    <3>1. Whole(spoken)' = Whole(spoken) /\ Left(spoken, i)' = Left(spoken, i)
      BY Zenon DEF Whole, Left
    <3> QED
      BY <1>3, <2>1, <3>1, Zenon
  <2>3. i = 9 /\ n > (Half + 1)' => Over(n)'
    BY <1>1, <1>2, <1>4 DEF Over
  <2>4. i < 9 \/ n <= (Half + 1)' => Heeded(i, n)'
    BY <1>1, <1>2, <1>4 DEF Heeded
  <2>5. SendsBit(i, n)'
    BY <1>2, <2>1, <2>2, <2>3, <2>4 DEF SendsBit
  <2>6. n \in 0..Period'
    BY <1>1, <1>2, <1>6
  <2> QED
    BY <1>4, <2>1, <2>5, <2>6
<1>7. CASE r = d + 1
  <2>1. Clocked(1)'
    BY <1>5, <1>7
  <2>2. /\ i = 9 => txd' = 1 /\ txstate' = "idle"
        /\ i < 9 => txd' = Whole(spoken)[i + 2] /\ txstate' = "bits" /\ txbuffer' = Left(spoken, i + 1)
    <3>1. /\ txd' = txbuffer[1] /\ txbuffer' = Append(Tail(txbuffer), 0)
          /\ txstate' = IF txbuffer[9] = 0 THEN "idle" ELSE "bits"
      <4>1. ~(r <= d)
        BY <1>7
      <4> QED
        BY <1>5, <4>1, Zenon
    <3> QED
      BY <1>3, <3>1, BitEnds
  <2>3. CASE i = 9
    <3>1. ear' = 0 /\ heard' = << >>
      BY <1>1, <1>2, <1>4, <1>7, <2>3
    <3> QED
      BY <1>4, <2>2, <2>3, <3>1
  <2>4. CASE i < 9
    <3>1. PICK j \in 0..9 : j = i + 1
      BY <2>4
    <3>2. txd' = Whole(spoken)'[j + 1] /\ txbuffer' = Left(spoken, j)'
      <4>1. Whole(spoken)' = Whole(spoken) /\ Left(spoken, j)' = Left(spoken, j)
        BY Zenon DEF Whole, Left
      <4>2. j + 1 = i + 2
        BY <3>1
      <4> QED
        BY <2>2, <2>4, <3>1, <4>1, <4>2, Zenon
    <3>3. Heeded(j, 1)'
      <4>1. ear' = (j * Period) + 1
        <5>1. (i + 1) * Period = (i * Period) + Period
          BY <1>1, Products
        <5> QED
          BY <1>1, <1>2, <1>4, <1>7, <2>4, <3>1, <5>1
      <4>2. Len(heard') = j
        BY <1>1, <1>2, <1>4, <1>7, <2>4, <3>1
      <4> QED
        BY <1>1, <4>1, <4>2 DEF Heeded
    <3>4. ~(1 > (Half + 1)')
      BY <1>1
    <3>5. SendsBit(j, 1)'
      BY <2>1, <3>2, <3>3, <3>4 DEF SendsBit
    <3>6. 1 \in 0..Period' /\ txstate' = "bits"
      BY <1>1, <2>2, <2>4
    <3> QED
      BY <1>4, <3>5, <3>6
  <2> QED
    BY <2>3, <2>4
<1> QED
  BY <1>6, <1>7

LEMMA TransmitStep ==
  ASSUME TransmitInv, Divided, Issued, Sender, DivisorKept, Next
  PROVE  TransmitInv'
<1>. PICK d \in Nat : d > 1 /\ ser_clock_divisor = d
  BY DivisorRange
<1>1. ser_clock_divisor' = d
  BY DividedStep, Zenon
<1>2. Transmit /\ ListenerEdge
  BY DEF Next, UartEdge
<1>3. Half \in Nat /\ Half >= 1 /\ Half + 1 <= d /\ Period = d + 1 /\ Half' = Half /\ Period' = d + 1
  BY <1>1, HalfRange DEF Half, Period
<1>4. spoken' = IF ser_txgo THEN ser_txdata ELSE spoken
  BY <1>2 DEF ListenerEdge
<1>5. /\ << >> \in Seq(Bit) /\ Len(<< >>) = 0
  BY EmptySeq
<1>6. CASE txstate = "idle"
  <2>1. ear' = 0 /\ heard' = << >>
    <3>1. txd = 1 /\ ear = 0
      BY <1>6 DEF TransmitInv
    <3> QED
      BY <1>2, <3>1, ListenerCases
  <2>2. Matches' /\ heard' \in Seq(Bit)
    BY <1>5, <2>1 DEF Matches
  <2>3. spoken' \in Character
    BY <1>4 DEF Divided, TransmitInv
  <2>4. TxClock /\ TxIdle
    BY <1>2, <1>6 DEF Transmit, TxBits
  <2>5. CASE ~ser_txgo
    <3>1. UNCHANGED <<txd, txstate>>
      BY <2>4, <2>5 DEF TxIdle
    <3> QED
      BY <1>6, <2>1, <2>2, <2>3, <3>1 DEF TransmitInv
  <2>6. CASE ser_txgo
    <3>1. txstate' = "bits" /\ txd' = 0 /\ spoken' = ser_txdata /\ ser_txdata \in Character
      BY <1>4, <2>4, <2>6 DEF TxIdle, Divided
    <3>2. txbuffer' = Left(spoken, 0)'
      <4>1. txbuffer' = ser_txdata \o Ones(9) \o <<0>>
        BY <2>4, <2>6, Zenon DEF TxIdle
      <4>2. Left(spoken, 0)' = Left(ser_txdata, 0)
        BY <3>1, Zenon DEF Left
      <4> QED
        BY <3>1, <4>1, <4>2, LeftBegins, Zenon
    <3>3. txd' = Whole(spoken)'[0 + 1]
      <4>1. Whole(spoken)' = Whole(ser_txdata)
        BY <3>1, Zenon DEF Whole
      <4>2. Whole(ser_txdata)[0 + 1] = 0
        <5>1. 0 \in 0..9
          OBVIOUS
        <5> QED
          BY <3>1, <5>1, WholeType, Zenon
      <4> QED
        BY <3>1, <4>1, <4>2, Zenon
    <3>4. Clocked(0)'
      <4>1. txclock' = 0 /\ txcounter' = d
        BY <1>6, <2>4 DEF TxClock
      <4> QED
        BY <1>1, <4>1 DEF Clocked
    <3>5. Heeded(0, 0)'
      BY <1>3, <1>5, <2>1 DEF Heeded
    <3>6. ~(0 = 9)
      OBVIOUS
    <3>7. SendsBit(0, 0)'
      BY <3>2, <3>3, <3>4, <3>5, <3>6, Zenon DEF SendsBit
    <3>8. 0 \in 0..9 /\ 0 \in 0..Period'
      BY <1>3
    <3>9. (\E i \in 0..9, r \in 0..Period : SendsBit(i, r))'
      BY <3>7, <3>8
    <3> QED
      BY <2>2, <2>3, <3>1, <3>9 DEF TransmitInv
  <2> QED
    BY <2>5, <2>6
<1>7. CASE txstate = "bits"
  <2>1. PICK i \in 0..9, r \in 0..Period : SendsBit(i, r)
    BY <1>7 DEF TransmitInv
  <2>2. ~ser_txgo
    BY <1>7 DEF Sender, NothingDropped
  <2>3. spoken' = spoken /\ spoken \in Character /\ heard \in Seq(Bit) /\ Matches
    BY <1>4, <2>2 DEF TransmitInv
  <2>4. r \in 0..(d + 1)
    BY <1>3
  <2>5. /\ heard' \in Seq(Bit) /\ Matches'
        /\ \/ txstate' = "idle" /\ txd' = 1 /\ ear' = 0 /\ heard' = << >>
           \/ txstate' = "bits" /\ (\E j \in 0..9, q \in 0..Period : SendsBit(j, q))'
    BY <1>1, <1>2, <1>7, <2>1, <2>3, <2>4, FrameStep
  <2>6. spoken' \in Character
    BY <2>3
  <2>7. CASE txstate' = "idle" /\ txd' = 1 /\ ear' = 0 /\ heard' = << >>
    BY <2>5, <2>6, <2>7 DEF TransmitInv
  <2>8. CASE txstate' = "bits" /\ (\E j \in 0..9, q \in 0..Period : SendsBit(j, q))'
    BY <2>5, <2>6, <2>8 DEF TransmitInv
  <2> QED
    BY <2>5, <2>7, <2>8
<1> QED
  BY <1>6, <1>7 DEF TransmitInv

\* In the middle of each bit the line shows start bit, character and stop bit of the character
\* accepted last (simple_uart.vhd:176-209), whatever the divisor, for programs that do not change it
\* once they have set it.
THEOREM CharactersSent ==
  ASSUME DivisorKept
  PROVE  Spec => []Transmission
<1>1. Init => TransmitInv
  <2>. SUFFICES ASSUME Init PROVE TransmitInv
    OBVIOUS
  <2>1. txstate = "idle" /\ txd = 1 /\ ear = 0 /\ heard = << >> /\ spoken = Ones(8)
    BY DEF Init, UartInit
  <2>2. spoken \in Character
    BY <2>1, OnesType DEF Character
  <2>3. << >> \in Seq(Bit) /\ Len(<< >>) = 0
    BY EmptySeq
  <2> QED
    BY <2>1, <2>2, <2>3 DEF TransmitInv, Matches
<1>2. TransmitInv /\ Divided /\ Issued /\ Sender /\ [Next]_vars => TransmitInv'
  <2>1. CASE Next
    BY <2>1, TransmitStep
  <2>2. CASE UNCHANGED vars
    <3>1. UNCHANGED <<txstate, txd, txbuffer, txclock, txcounter, ser_clock_divisor, ear, heard, spoken>>
      BY <2>2, Zenon DEF vars, txRegs
    <3> QED
      <4>1. Half' = Half /\ Period' = Period /\ Whole(spoken)' = Whole(spoken)
        BY <3>1, Zenon DEF Half, Period, Whole
      <4>2. ASSUME TransmitInv, NEW i \in 0..9, NEW r \in 0..Period, SendsBit(i, r)
            PROVE  SendsBit(i, r)'
        <5>1. Left(spoken, i)' = Left(spoken, i)
          BY <3>1, Zenon DEF Left
        <5>2. Clocked(r)' <=> Clocked(r)
          BY <3>1, <4>1, Zenon DEF Clocked
        <5>3. (Heeded(i, r)' <=> Heeded(i, r)) /\ (Over(r)' <=> Over(r))
          BY <3>1, <4>1, Zenon DEF Heeded, Over
        <5> QED
          BY <3>1, <4>1, <4>2, <5>1, <5>2, <5>3, Zenon DEF SendsBit
      <4>3. Matches' <=> Matches
        BY <3>1, <4>1, Zenon DEF Matches
      <4> QED
        BY <3>1, <4>1, <4>2, <4>3, Zenon DEF TransmitInv
  <2> QED
    BY <2>1, <2>2
<1>3. TransmitInv => Transmission
  BY Zenon DEF TransmitInv, Matches, Transmission, Whole
<1> QED
  BY <1>1, <1>2, <1>3, DividedAlways, IssuedAlways, SenderAlways, PTL DEF Spec

-----------------------------------------------------------------------------
(***************************************************************************)
(* The SPI host and the card.  Before the first exchange nobody is selected; *)
(* afterwards the two are at rest, triggered, or k bits into an exchange, and the*)
(* register holds what has not gone out yet and what has come in.            *)
(***************************************************************************)
\* The word an exchange sends, and how many of its bits.
Outgoing32 == host_to_spi \o High(24)
Count == LastBit + 1

\* The host has put the CPU's bits into the register.
Ordered ==
  \/ mem_op = "write" /\ mem_addr = "SPI" /\ ~spi_wide /\ host_to_spi = mem_write
  \/ mem_op = "write" /\ mem_addr = "SPI_PUMP" /\ spi_wide /\ host_to_spi = mem_write
  \/ mem_op = "read" /\ mem_addr = "SPI_PUMP" /\ spi_wide /\ host_to_spi = High(8)

SpiRegister == mem_addr \in {"SPI", "SPI_PUMP"}
SpiWaits == currentstate \in {"WAITSPIW", "WAITSPIR"}
Looks == mem_op = "read" /\ mem_addr = "SPI"         \* the read that starts nothing
Still == ~shifting /\ ~spi_trigger /\ sck = 1

\* The card's bits are the last of the register.
Tailed ==
  \A j \in 1..Len(card_out) : sd_shift[(32 - Len(card_out)) + j] = card_out[j]

\* After k bits the register holds the rest of what goes out, and what has come in.
Places(s, out, in, k) ==
  \A j \in 1..32 : s[j] = IF j + k <= 32 THEN out[j + k] ELSE in[(j + k) - 32]
Same(s, t, k) == \A j \in 1..k : s[j] = t[j]

\* k bits have gone both ways; with the clock low, one more is on each of the lines.
Shifted(k) ==
  /\ (shifting <=> k < Count) /\ ~spi_trigger
  /\ k < Count => shiftcnt = LastBit - k
  /\ Places(sd_shift, Outgoing32, card_out, k)
  /\ Len(card_in) = k /\ Same(card_in, Outgoing32, k)
  /\ \/ sck = 1 /\ Len(card_out) = k
     \/ sck = 0 /\ k < Count /\ Len(card_out) = k + 1 /\ mosi = Outgoing32[k + 1] /\ miso = card_out[k + 1]

SpiShared ==
  /\ Handshake
  /\ {spi_trigger, shifting, warm, spi_wide} \subseteq BOOLEAN /\ spi_cs \in Bit
  /\ shiftcnt \in 0..31 /\ {sck, mosi, miso} \subseteq Bit
  /\ sd_shift \in [1..32 -> Bit] /\ host_to_spi \in [1..8 -> Bit]
  /\ position \in 0..(Len(Stream) - 1)
  /\ {card_in, card_out} \subseteq Seq(Bit) /\ Len(card_in) <= 32 /\ Len(card_out) <= 32
  /\ mem_strobe /\ mem_op = "write" /\ mem_addr = "CS" => warm \/ mem_write[2] = 0
  /\ currentstate = "WAITSPIW" => mem_op = "write" /\ SpiRegister
  /\ currentstate = "WAITSPIR" => mem_op = "read" /\ SpiRegister
  /\ SpiRegister => currentstate \in {"WAITING", "WAITSPIW", "WAITSPIR"}
  /\ ~mem_busy /\ mem_op = "read" /\ SpiRegister => mem_read = sd_shift

\* Before the first exchange has ended nobody is selected.
Cold ==
  /\ ~warm /\ spi_cs = 1 /\ card_in = << >> /\ card_out = << >>
  /\ SpiWaits /\ ~Looks => spi_trigger \/ shifting \/ sck = 1
  /\ SpiRegister /\ ~mem_busy /\ mem_op # "none" /\ ~Looks => Still

Settled ==
  /\ warm /\ Still /\ Tailed /\ (SpiWaits => Looks)
  /\ SpiRegister /\ ~mem_busy /\ ~Looks /\ mem_op # "none" /\ spi_cs = 0 => Ordered /\ Shifted(Count)

Triggered ==
  /\ warm /\ SpiWaits /\ Ordered /\ spi_trigger /\ ~shifting /\ sck = 1

Exchanges ==
  /\ warm /\ SpiWaits /\ Ordered /\ ~spi_trigger
  /\ spi_cs = 0 => \E k \in 0..Count : Shifted(k)
  /\ spi_cs = 1 => card_out = << >> /\ (shifting \/ sck = 1)

SpiPhase == Cold \/ Settled \/ Triggered \/ Exchanges
SpiInv == SpiShared /\ SpiPhase

\* What an edge of the bus is to the SPI host: the CPU's order, a look at the register, the wait, or
\* something else.
SpiAsked ==
  /\ currentstate = "WAITING" /\ mem_strobe /\ SpiRegister /\ ~Looks /\ mem_busy' = TRUE
  /\ \/ mem_op = "write" /\ currentstate' = "WAITSPIW"
     \/ mem_op = "read" /\ currentstate' = "WAITSPIR"
  /\ spi_trigger' = TRUE /\ UNCHANGED spi_cs
  /\ mem_op = "write" => host_to_spi' = mem_write
  /\ mem_op = "read" => host_to_spi' = High(8)
  /\ spi_wide' = (mem_addr = "SPI_PUMP")

SpiLookedAt ==
  /\ currentstate = "WAITING" /\ mem_strobe /\ Looks /\ Block("WAITSPIR")
  /\ spi_trigger' = FALSE /\ spi_wide' = FALSE /\ UNCHANGED <<spi_cs, host_to_spi>>

SpiAwaited ==
  /\ SpiWaits /\ spi_trigger' = FALSE /\ UNCHANGED <<spi_wide, host_to_spi, spi_cs>>
  /\ spi_busy => Block(currentstate)
  /\ ~spi_busy => Release
  /\ currentstate = "WAITSPIR" => mem_read' = sd_shift

SpiElsewhere ==
  /\ ~SpiWaits /\ ~SpiWaits' /\ spi_trigger' = FALSE /\ UNCHANGED <<spi_wide, host_to_spi>>
  /\ \/ UNCHANGED spi_cs
     \/ mem_strobe /\ mem_op = "write" /\ mem_addr = "CS" /\ spi_cs' = 1 - mem_write[2]
  /\ SpiRegister => currentstate' = "WAITING" /\ mem_busy' = TRUE /\ ~mem_strobe

LEMMA SpiBusStep ==
  ASSUME BusEdge, SpiRegister => currentstate \in {"WAITING", "WAITSPIW", "WAITSPIR"}
  PROVE  SpiAsked \/ SpiLookedAt \/ SpiAwaited \/ SpiElsewhere
<1>1. CASE NoStrobe \/ VgaWrite \/ WaitLcd
  <2>1. /\ spi_trigger' = FALSE /\ UNCHANGED <<spi_wide, host_to_spi, spi_cs>>
        /\ ~SpiWaits /\ ~SpiWaits'
    BY <1>1 DEF NoStrobe, VgaWrite, WaitLcd, NoPeripheral, NoSpi, NoSelect, ReleaseWhen, Release, Block,
                SpiWaits
  <2>2. SpiRegister => NoStrobe
    BY <1>1 DEF VgaWrite, WaitLcd
  <2> QED
    BY <2>1, <2>2 DEF SpiElsewhere, NoStrobe, Block
<1>2. CASE WaitSpiW \/ WaitSpiR
  BY <1>2 DEF WaitSpiW, WaitSpiR, SpiAwaited, SpiWaits, NoPeripheral, NoSpi, NoSelect, ReleaseWhen
<1>3. ASSUME NEW reg \in {"SPI", "SPI_PUMP"}, WriteSpi(reg)
      PROVE  SpiAsked
  <2>1. /\ currentstate = "WAITING" /\ mem_strobe /\ mem_op = "write" /\ mem_addr = reg
        /\ spi_trigger' = TRUE /\ host_to_spi' = mem_write /\ UNCHANGED spi_cs
        /\ mem_busy' = TRUE /\ currentstate' = "WAITSPIW"
    BY <1>3, Zenon DEF WriteSpi, Strobe, NoSelect, Block
  <2>2. spi_wide' = (mem_addr = "SPI_PUMP")
    BY <1>3, Zenon DEF WriteSpi, Strobe
  <2>3. SpiRegister /\ ~Looks /\ mem_op # "read"
    BY <2>1 DEF SpiRegister, Looks
  <2> QED
    BY <2>1, <2>2, <2>3, Zenon DEF SpiAsked
<1>4. CASE ReadPump
  <2>1. /\ currentstate = "WAITING" /\ mem_strobe /\ mem_op = "read" /\ mem_addr = "SPI_PUMP"
        /\ spi_trigger' = TRUE /\ spi_wide' = TRUE /\ host_to_spi' = High(8) /\ UNCHANGED spi_cs
        /\ mem_busy' = TRUE /\ currentstate' = "WAITSPIR"
    BY <1>4, Zenon DEF ReadPump, Strobe, NoSelect, Block
  <2>2. spi_wide' = (mem_addr = "SPI_PUMP")
    BY <2>1, Zenon
  <2>3. SpiRegister /\ ~Looks /\ mem_op # "write"
    BY <2>1 DEF SpiRegister, Looks
  <2> QED
    BY <2>1, <2>2, <2>3, Zenon DEF SpiAsked
<1>5. CASE ReadSpi
  BY <1>5, Zenon DEF ReadSpi, Strobe, NoSelect, SpiLookedAt, Looks
<1>6. CASE WriteUart \/ WriteDivisor \/ WriteLcd \/ WriteVga \/ ReadUart \/ ReadBusy \/ ReadLcd
           \/ OtherRegister
  <2>1. /\ spi_trigger' = FALSE /\ UNCHANGED <<spi_wide, host_to_spi, spi_cs>>
        /\ currentstate = "WAITING" /\ currentstate' \in {"WAITING", "WAITLCD", "VGAWRITE"} /\ ~SpiRegister
    BY <1>6 DEF WriteUart, WriteDivisor, WriteLcd, WriteVga, ReadUart, ReadBusy, ReadLcd, OtherRegister,
                Strobe, NoPeripheral, NoSpi, NoSelect, Release, Block, SpiRegister
  <2> QED
    BY <2>1 DEF SpiElsewhere, SpiWaits
<1>7. CASE WriteSelect
  BY <1>7 DEF WriteSelect, Strobe, NoSpi, SpiElsewhere, SpiWaits, SpiRegister, Release
<1> QED
  BY <1>1, <1>2, <1>3, <1>4, <1>5, <1>6, <1>7, Zenon DEF BusEdge

\* The host: it starts, it shifts, it rests.
LEMMA HostCases ==
  ASSUME SpiEdge, {spi_trigger, shifting} \subseteq BOOLEAN, sck \in Bit, shiftcnt \in 0..31
  PROVE  \/ /\ spi_trigger /\ shifting' = TRUE /\ shiftcnt' = LastBit /\ sck' = 1
            /\ sd_shift' = Outgoing32 /\ mosi' = mosi
         \/ /\ ~spi_trigger /\ shifting /\ sck = 1 /\ sck' = 0 /\ mosi' = sd_shift[1]
            /\ UNCHANGED <<sd_shift, shiftcnt, shifting>>
         \/ /\ ~spi_trigger /\ shifting /\ sck = 0 /\ sck' = 1 /\ mosi' = mosi
            /\ sd_shift' = Append(Tail(sd_shift), miso)
            /\ shiftcnt' = IF shiftcnt = 0 THEN 31 ELSE shiftcnt - 1
            /\ shifting' = (shiftcnt # 0)
         \/ ~spi_trigger /\ UNCHANGED <<sck, sd_shift, shiftcnt, shifting, mosi>>
<1>1. CASE Start
  BY <1>1, Zenon DEF Start, Outgoing32
<1>2. CASE Fall
  BY <1>2, Zenon DEF Fall, spi_busy
<1>3. CASE Rise
  <2>1. (shiftcnt + 31) % 32 = IF shiftcnt = 0 THEN 31 ELSE shiftcnt - 1
    OBVIOUS
  <2> QED
    BY <1>3, <2>1, Zenon DEF Rise, spi_busy
<1>4. CASE Rest
  BY <1>4, Zenon DEF Rest
<1> QED
  BY <1>1, <1>2, <1>3, <1>4, Zenon DEF SpiEdge

LEMMA StreamBit ==
  ASSUME position \in 0..(Len(Stream) - 1)
  PROVE  Len(Stream) \in Nat /\ Len(Stream) > 0 /\ Stream[position + 1] \in Bit
<1>1. Stream \in Seq(Bit) /\ Stream # << >>
  BY PartnerAssumption
<1>2. Len(Stream) \in Nat /\ Len(Stream) # 0
  BY <1>1, EmptySeq, LenProperties
<1>3. position + 1 \in 1..Len(Stream)
  BY <1>2
<1> QED
  BY <1>1, <1>2, <1>3, ElementOfSeq

\* The card: as the clock falls, as it rises, and otherwise; a trigger makes it begin anew.
LEMMA CardCases ==
  ASSUME CardEdge, spi_cs \in Bit, {sck, sck'} \subseteq Bit, spi_trigger \in BOOLEAN,
         position \in 0..(Len(Stream) - 1)
  PROVE  /\ position' \in 0..(Len(Stream) - 1)
         /\ spi_cs = 1 \/ sck' = sck =>
              /\ position' = position
              /\ card_out' = (IF spi_trigger THEN << >> ELSE card_out)
              /\ card_in' = (IF spi_trigger THEN << >> ELSE card_in)
         /\ spi_cs = 1 => miso' = 1
         /\ spi_cs = 0 /\ ~(sck = 1 /\ sck' = 0) => miso' = miso
         /\ spi_cs = 0 /\ sck = 1 /\ sck' = 0 /\ ~spi_trigger =>
              /\ miso' \in Bit /\ card_out' = Append(card_out, miso') /\ card_in' = card_in
         /\ spi_cs = 0 /\ sck = 0 /\ sck' = 1 /\ ~spi_trigger =>
              /\ card_out' = card_out /\ card_in' = Append(card_in, mosi)
<1>1. Len(Stream) \in Nat /\ Len(Stream) > 0 /\ Stream[position + 1] \in Bit
  BY StreamBit
<1>2. position' \in 0..(Len(Stream) - 1)
  <2>1. position' = position \/ position' = (position + 1) % Len(Stream)
    BY Zenon DEF CardEdge
  <2> QED
    BY <1>1, <2>1
<1>3. CASE spi_cs = 1
  <2>1. ~(spi_cs = 0)
    BY <1>3
  <2> QED
    BY <1>2, <1>3, <2>1, Zenon DEF CardEdge
<1>4. CASE spi_cs = 0 /\ sck = 1 /\ sck' = 0
  <2>1. ~(spi_cs = 1) /\ ~(sck = 0) /\ ~(sck' = 1) /\ ~(sck' = sck)
    BY <1>4
  <2>2. miso' = Stream[position + 1] /\ miso' \in Bit
    BY <1>1, <1>4, <2>1, Zenon DEF CardEdge
  <2> QED
    BY <1>2, <1>4, <2>1, <2>2, Zenon DEF CardEdge
<1>5. CASE spi_cs = 0 /\ sck = 0 /\ sck' = 1
  <2>1. ~(spi_cs = 1) /\ ~(sck = 1) /\ ~(sck' = 0) /\ ~(sck' = sck)
    BY <1>5
  <2> QED
    BY <1>2, <1>5, <2>1, Zenon DEF CardEdge
<1>6. CASE spi_cs = 0 /\ sck' = sck
  <2>1. ~(spi_cs = 1) /\ ~(sck = 1 /\ sck' = 0) /\ ~(sck = 0 /\ sck' = 1)
    BY <1>6
  <2> QED
    BY <1>2, <1>6, <2>1, Zenon DEF CardEdge
<1>7. (spi_cs = 0 \/ spi_cs = 1) /\ (sck = 0 \/ sck = 1) /\ (sck' = 0 \/ sck' = 1)
  BY DEF Bit
<1> QED
  BY <1>3, <1>4, <1>5, <1>6, <1>7, Zenon

LEMMA HighType == \A n \in Nat : High(n) \in [1..n -> Bit] /\ \A j \in 1..n : High(n)[j] = 1
BY DEF High, Bit

LEMMA HighSeq == High(24) \in Seq(Bit) /\ Len(High(24)) = 24
<1>. DEFINE n == 24
<1>1. n \in Nat /\ High(n) \in [1..n -> Bit]
  BY HighType
<1>. HIDE DEF n
<1>2. High(n) \in Seq(Bit) /\ Len(High(n)) = n
  BY <1>1, FunctionIsSeq
<1> QED
  BY <1>2 DEF n

LEMMA SeqIsFunction ==
  ASSUME NEW S, NEW s \in Seq(S)
  PROVE  Len(s) \in Nat /\ s \in [1..Len(s) -> S]
BY LenProperties

\* What the register is loaded with.
LEMMA OutgoingBits ==
  ASSUME host_to_spi \in [1..8 -> Bit]
  PROVE  \E w \in Seq(Bit) :
           /\ Outgoing32 = w /\ Len(w) = 32 /\ w \in [1..32 -> Bit]
           /\ \A j \in 1..8 : w[j] = host_to_spi[j]
           /\ \A j \in 9..32 : w[j] = 1
<1>1. host_to_spi \in Seq(Bit) /\ Len(host_to_spi) = 8
  BY FunctionIsSeq
<1>2. PICK h : h = High(24)
  OBVIOUS
<1>3. h \in [1..24 -> Bit] /\ \A j \in 1..24 : h[j] = 1
  BY <1>2, HighType
<1>4. h \in Seq(Bit) /\ Len(h) = 24
  BY <1>2, HighSeq
<1>5. PICK w \in Seq(Bit) :
         /\ host_to_spi \o h = w /\ Len(w) = Len(host_to_spi) + Len(h)
         /\ \A i \in 1..(Len(host_to_spi) + Len(h)) :
              w[i] = IF i <= Len(host_to_spi) THEN host_to_spi[i] ELSE h[i - Len(host_to_spi)]
  BY <1>1, <1>4, ConcatBits, Zenon
<1>6. /\ Len(w) = Len(host_to_spi) + Len(h)
      /\ \A i \in 1..(Len(host_to_spi) + Len(h)) :
           w[i] = IF i <= Len(host_to_spi) THEN host_to_spi[i] ELSE h[i - Len(host_to_spi)]
  BY <1>5, Zenon
<1>7. /\ Len(w) = 32
      /\ \A j \in 1..8 : w[j] = host_to_spi[j]
      /\ \A j \in 9..32 : w[j] = 1
  BY <1>1, <1>3, <1>4, <1>6
<1>8. w \in [1..32 -> Bit]
  <2>1. w \in [1..Len(w) -> Bit]
    BY SeqIsFunction
  <2> QED
    BY <1>7, <2>1
<1>9. Outgoing32 = w
  BY <1>2, <1>5, Zenon DEF Outgoing32
<1> QED
  BY <1>7, <1>8, <1>9, Zenon

LEMMA CountRange ==
  ASSUME spi_wide \in BOOLEAN
  PROVE  /\ LastBit \in 0..31 /\ Count = LastBit + 1 /\ Count \in 1..32
         /\ spi_wide => Count = 32
         /\ ~spi_wide => Count = 8
BY DEF LastBit, Count

\* A function of 32 places shifts as a register does.
LEMMA RegisterShifts ==
  ASSUME NEW s \in [1..32 -> Bit], NEW b \in Bit
  PROVE  \E w \in [1..32 -> Bit] :
           Append(Tail(s), b) = w /\ \A j \in 1..32 : w[j] = IF j < 32 THEN s[j + 1] ELSE b
<1>1. s \in Seq(Bit) /\ Len(s) = 32 /\ Len(s) > 0
  <2>1. 32 \in Nat
    OBVIOUS
  <2>2. s \in Seq(Bit) /\ Len(s) = 32
    BY <2>1, FunctionIsSeq, Zenon
  <2> QED
    BY <2>2
<1>2. PICK w \in Seq(Bit) :
         /\ Append(Tail(s), b) = w /\ Len(w) = Len(s)
         /\ \A i \in 1..Len(s) : w[i] = IF i < Len(s) THEN s[i + 1] ELSE b
  BY <1>1, ShiftBits, Zenon
<1>3. Len(w) = Len(s) /\ \A i \in 1..Len(s) : w[i] = IF i < Len(s) THEN s[i + 1] ELSE b
  BY <1>2, Zenon
<1>4. Len(w) = 32 /\ \A j \in 1..32 : w[j] = IF j < 32 THEN s[j + 1] ELSE b
  BY <1>1, <1>3
<1>5. w \in [1..32 -> Bit]
  <2>1. w \in [1..Len(w) -> Bit]
    BY SeqIsFunction
  <2> QED
    BY <1>4, <2>1
<1> QED
  BY <1>2, <1>4, <1>5, Zenon

\* What holds of the CPU's order does not change while it is being carried out.
OrderStays ==
  spi_trigger' = FALSE /\ spi_wide' = spi_wide /\ host_to_spi' = host_to_spi

LEMMA OrderedWord ==
  ASSUME OrderStays
  PROVE  Outgoing32' = Outgoing32 /\ Count' = Count /\ LastBit' = LastBit
BY Zenon DEF OrderStays, Outgoing32, Count, LastBit

\* The places of the register while the card has put out one bit more, and when it is in.
LEMMA PlacesFall ==
  ASSUME NEW s, NEW o, NEW c, NEW w, NEW k \in Nat, k < 32, Places(s, o, c, k), Same(w, c, k)
  PROVE  Places(s, o, w, k) /\ s[1] = o[k + 1]
<1>1. \A j \in 1..32 : j + k > 32 => (j + k) - 32 \in 1..k
  OBVIOUS
<1>2. 1 \in 1..32 /\ 1 + k <= 32 /\ 1 + k = k + 1
  OBVIOUS
<1> QED
  BY <1>1, <1>2 DEF Places, Same

LEMMA PlacesRise ==
  ASSUME NEW s, NEW o, NEW c, NEW t, NEW k \in Nat, k < 32, NEW m \in Nat, m = k + 1, Places(s, o, c, k),
         \A j \in 1..32 : t[j] = IF j < 32 THEN s[j + 1] ELSE c[k + 1]
  PROVE  Places(t, o, c, m)
<1>. SUFFICES ASSUME NEW j \in 1..32
              PROVE  t[j] = IF j + m <= 32 THEN o[j + m] ELSE c[(j + m) - 32]
  BY DEF Places
<1>1. CASE j < 32
  <2>1. j + 1 \in 1..32 /\ (j + 1) + k = j + m
    BY <1>1
  <2> QED
    BY <1>1, <2>1 DEF Places
<1>2. CASE j = 32
  <2>1. ~(j + m <= 32) /\ (j + m) - 32 = k + 1 /\ ~(j < 32)
    BY <1>2
  <2> QED
    BY <2>1
<1> QED
  BY <1>1, <1>2

\* The beginning of a word, with its next bit appended.
LEMMA SameLonger ==
  ASSUME NEW s, NEW o, NEW w, NEW k \in Nat, NEW m \in Nat, m = k + 1, Same(s, o, k), Same(w, s, k),
         w[k + 1] = o[k + 1]
  PROVE  Same(w, o, m)
<1>1. \A i \in 1..m : i \in 1..k \/ i = k + 1
  OBVIOUS
<1> QED
  BY <1>1 DEF Same

\* A bit more of what a partner has put out or taken in.
LEMMA OneMore ==
  ASSUME NEW s \in Seq(Bit), NEW b \in Bit, NEW k \in Nat, Len(s) = k
  PROVE  /\ Append(s, b) \in Seq(Bit) /\ Len(Append(s, b)) = k + 1
         /\ Same(Append(s, b), s, k) /\ Append(s, b)[k + 1] = b
<1>1. PICK w \in Seq(Bit) :
         /\ Append(s, b) = w /\ Len(w) = Len(s) + 1
         /\ \A i \in 1..Len(s) : w[i] = s[i]
         /\ w[Len(s) + 1] = b
  BY AppendBits, Zenon
<1> QED
  BY <1>1, Zenon DEF Same

\* One bit of an exchange out, on the falling clock ...
Falls ==
  /\ sck = 1 /\ sck' = 0 /\ mosi' = sd_shift[1] /\ UNCHANGED <<sd_shift, shiftcnt, shifting>>

\* ... and one in, on the rising one.
ShiftsIn == sd_shift' = Append(Tail(sd_shift), miso)
Rises ==
  /\ sck = 0 /\ sck' = 1 /\ mosi' = mosi /\ ShiftsIn
  /\ shiftcnt' = IF shiftcnt = 0 THEN 31 ELSE shiftcnt - 1
  /\ shifting' = (shiftcnt # 0)

LEMMA ShiftedFacts ==
  ASSUME NEW k \in 0..Count, Shifted(k), shifting, spi_wide \in BOOLEAN
  PROVE  /\ k < Count /\ shiftcnt = LastBit - k /\ k \in Nat /\ k < 32 /\ k + 1 \in Nat
         /\ Places(sd_shift, Outgoing32, card_out, k) /\ Same(card_in, Outgoing32, k) /\ Len(card_in) = k
         /\ sck = 1 => Len(card_out) = k
         /\ sck = 0 => Len(card_out) = k + 1 /\ mosi = Outgoing32[k + 1] /\ miso = card_out[k + 1]
         /\ ~spi_trigger
<1>1. k < Count /\ shiftcnt = LastBit - k /\ ~spi_trigger
  BY Zenon DEF Shifted
<1>2. k \in Nat /\ k < 32 /\ k + 1 \in Nat
  BY <1>1, CountRange
<1>3. /\ Places(sd_shift, Outgoing32, card_out, k) /\ Same(card_in, Outgoing32, k) /\ Len(card_in) = k
      /\ sck = 1 => sck # 0
      /\ sck = 0 => sck # 1
  BY DEF Shifted
<1>4. /\ sck = 1 => Len(card_out) = k
      /\ sck = 0 => Len(card_out) = k + 1 /\ mosi = Outgoing32[k + 1] /\ miso = card_out[k + 1]
  BY <1>3, Zenon DEF Shifted
<1> QED
  BY <1>1, <1>2, <1>3, <1>4, Zenon

LEMMA FallsOne ==
  ASSUME SpiShared, CardEdge, spi_cs = 0, OrderStays, sck' \in Bit,
         NEW k \in 0..Count, Shifted(k), shifting, Falls
  PROVE  Shifted(k)'
<1>1. Outgoing32' = Outgoing32 /\ Count' = Count /\ LastBit' = LastBit
  BY OrderedWord
<1>2. /\ k < Count /\ shiftcnt = LastBit - k /\ k \in Nat /\ k < 32 /\ k + 1 \in Nat
      /\ Places(sd_shift, Outgoing32, card_out, k) /\ Same(card_in, Outgoing32, k) /\ Len(card_in) = k
      /\ Len(card_out) = k /\ ~spi_trigger
  BY ShiftedFacts DEF SpiShared, Falls
<1>3. miso' \in Bit /\ card_out' = Append(card_out, miso') /\ card_in' = card_in
  BY <1>2, CardCases DEF SpiShared, Falls
<1>4. /\ card_out' \in Seq(Bit) /\ Len(card_out') = k + 1 /\ Same(card_out', card_out, k)
      /\ card_out'[k + 1] = miso'
  <2>1. card_out \in Seq(Bit)
    BY DEF SpiShared
  <2>2. /\ Append(card_out, miso') \in Seq(Bit) /\ Len(Append(card_out, miso')) = k + 1
        /\ Same(Append(card_out, miso'), card_out, k) /\ Append(card_out, miso')[k + 1] = miso'
    BY <1>2, <1>3, <2>1, OneMore, Zenon
  <2> QED
    BY <1>3, <2>2, Zenon
<1>5. Places(sd_shift, Outgoing32, card_out', k) /\ sd_shift[1] = Outgoing32[k + 1]
  BY <1>2, <1>4, PlacesFall, Zenon
<1>6. sd_shift' = sd_shift /\ mosi' = sd_shift[1] /\ shifting' = shifting /\ shiftcnt' = shiftcnt /\ sck' = 0
  BY DEF Falls
<1>7. Places(sd_shift, Outgoing32, card_out, k)' /\ Same(card_in, Outgoing32, k)'
  BY <1>1, <1>2, <1>3, <1>5, <1>6, Zenon DEF Places, Same
<1>8. ~spi_trigger'
  BY DEF OrderStays
<1> QED
  BY <1>1, <1>2, <1>3, <1>4, <1>5, <1>6, <1>7, <1>8, Zenon DEF Shifted

LEMMA RisesOne ==
  ASSUME SpiShared, CardEdge, spi_cs = 0, OrderStays, sck' \in Bit,
         NEW k \in 0..Count, Shifted(k), shifting, Rises, NEW m \in Nat, m = k + 1
  PROVE  m \in 0..Count /\ Shifted(m)'
<1>1. Outgoing32' = Outgoing32 /\ Count' = Count /\ LastBit' = LastBit
  BY OrderedWord
<1>2. /\ k < Count /\ shiftcnt = LastBit - k /\ k \in Nat /\ k < 32 /\ k + 1 \in Nat
      /\ Places(sd_shift, Outgoing32, card_out, k) /\ Same(card_in, Outgoing32, k) /\ Len(card_in) = k
      /\ Len(card_out) = k + 1 /\ mosi = Outgoing32[k + 1] /\ miso = card_out[k + 1] /\ ~spi_trigger
  BY ShiftedFacts DEF SpiShared, Rises
<1>3. card_out' = card_out /\ card_in' = Append(card_in, mosi)
  BY <1>2, CardCases DEF SpiShared, Rises
<1>4. /\ card_in' \in Seq(Bit) /\ Len(card_in') = m /\ Same(card_in', card_in, k)
      /\ card_in'[k + 1] = mosi
  <2>1. card_in \in Seq(Bit) /\ mosi \in Bit
    BY DEF SpiShared
  <2>2. /\ Append(card_in, mosi) \in Seq(Bit) /\ Len(Append(card_in, mosi)) = k + 1
        /\ Same(Append(card_in, mosi), card_in, k) /\ Append(card_in, mosi)[k + 1] = mosi
    BY <1>2, <2>1, OneMore, Zenon
  <2> QED
    BY <1>3, <2>2, Zenon
<1>5. Same(card_in', Outgoing32, m)
  BY <1>2, <1>4, SameLonger, Zenon
<1>6. Places(sd_shift', Outgoing32, card_out, m)
  <2>1. sd_shift \in [1..32 -> Bit] /\ miso \in Bit
    BY DEF SpiShared
  <2>2. PICK s \in [1..32 -> Bit] :
           Append(Tail(sd_shift), miso) = s /\ \A j \in 1..32 : s[j] = IF j < 32 THEN sd_shift[j + 1] ELSE miso
    BY <2>1, RegisterShifts, Zenon
  <2>3. \A j \in 1..32 : s[j] = IF j < 32 THEN sd_shift[j + 1] ELSE card_out[k + 1]
    BY <1>2, <2>2, Zenon
  <2>4. Places(s, Outgoing32, card_out, m)
    BY <1>2, <2>3, PlacesRise, Zenon
  <2>5. sd_shift' = s
    BY <2>2, Zenon DEF Rises, ShiftsIn
  <2> QED
    BY <2>4, <2>5, Zenon
<1>7. Count = LastBit + 1 /\ Count \in 1..32 /\ LastBit \in 0..31
  BY CountRange DEF SpiShared
<1>8. shiftcnt # 0 <=> m < Count
  BY <1>2, <1>7
<1>9. (shifting' <=> m < Count) /\ mosi' = mosi /\ sck' = 1
  BY <1>8 DEF Rises
<1>10. m < Count => shiftcnt' = LastBit - m
  BY <1>2, <1>7 DEF Rises
<1>11. m \in 0..Count
  BY <1>2, <1>7
<1>12. ~spi_trigger'
  BY DEF OrderStays
<1>13. Len(card_out) = m
  BY <1>2
<1>14. Places(sd_shift, Outgoing32, card_out, m)' /\ Same(card_in, Outgoing32, m)'
  BY <1>1, <1>3, <1>5, <1>6, Zenon DEF Places, Same
<1> QED
  BY <1>1, <1>3, <1>4, <1>9, <1>10, <1>11, <1>12, <1>13, <1>14, Zenon DEF Shifted

\* What an edge of the CPU means to the SPI host and to the card's select line.
LEMMA SpiCpuStep ==
  ASSUME CpuEdge, program \in Programs, warm \in BOOLEAN
  PROVE  \/ /\ mem_op = "none" /\ warm' = warm /\ mem_strobe' = TRUE
            /\ mem_op' = "write" /\ mem_addr' = "CS" => warm \/ mem_write'[2] = 0
         \/ /\ mem_op # "none" /\ mem_busy /\ warm' = warm /\ mem_strobe' = FALSE
            /\ UNCHANGED <<mem_op, mem_addr, mem_write>>
         \/ /\ mem_op # "none" /\ ~mem_busy /\ mem_strobe' = FALSE /\ mem_op' = "none" /\ mem_addr' = "OTHER"
            /\ SpiRegister /\ ~Looks => warm' = TRUE
            /\ ~(SpiRegister /\ ~Looks) => warm' = warm
         \/ mem_op = "none" /\ UNCHANGED <<mem_strobe, mem_op, mem_addr, mem_write>> /\ warm' = warm
<1>1. ASSUME NEW a \in program.accesses, Issue(a[1], a[2])
      PROVE  /\ mem_op = "none" /\ warm' = warm /\ mem_strobe' = TRUE
             /\ mem_op' = "write" /\ mem_addr' = "CS" => warm \/ mem_write'[2] = 0
  <2>1. mem_op = "none" /\ warm' = warm /\ mem_strobe' = TRUE /\ mem_op' = a[1] /\ mem_addr' = a[2]
    BY <1>1, Zenon DEF Issue
  <2>2. ASSUME a[1] = "write", a[2] = "CS"
        PROVE  warm \/ mem_write'[2] = 0
    <3>1. <<a[1], a[2]>> = <<"write", "CS">>
      BY <2>2
    <3> QED
      BY <1>1, <2>2, <3>1, Zenon DEF Issue, Careful
  <2> QED
    BY <2>1, <2>2
<1>2. CASE Await
  BY <1>2, Zenon DEF Await
<1>3. CASE Continue
  <2>1. mem_op # "none" /\ ~mem_busy /\ mem_strobe' = FALSE /\ mem_op' = "none" /\ mem_addr' = "OTHER"
    BY <1>3, Zenon DEF Continue
  <2>2. warm' = (warm \/ (mem_addr \in {"SPI", "SPI_PUMP"} /\ <<mem_op, mem_addr>> # <<"read", "SPI">>))
    BY <1>3, Zenon DEF Continue
  <2>3. Looks <=> <<mem_op, mem_addr>> = <<"read", "SPI">>
    BY DEF Looks
  <2>4. SpiRegister /\ ~Looks => warm' = TRUE
    BY <2>2, <2>3 DEF SpiRegister
  <2>5. ~(SpiRegister /\ ~Looks) => warm' = warm
    BY <2>2, <2>3, Zenon DEF SpiRegister
  <2> QED
    BY <2>1, <2>4, <2>5, Zenon
<1>4. CASE Compute
  BY <1>4, Zenon DEF Compute, cpuRegs
<1> QED
  BY <1>1, <1>2, <1>3, <1>4, Zenon DEF CpuEdge

\* What the handshake says of a step, for an access of the SPI registers.
LEMMA SpiHandshake ==
  ASSUME BusEdge, CpuEdge, SpiShared
  PROVE  /\ mem_op = "none" => SpiElsewhere /\ currentstate' = "WAITING" /\ mem_busy' = TRUE
         /\ ~mem_busy => SpiElsewhere /\ currentstate' = "WAITING" /\ mem_busy' = TRUE
         /\ mem_strobe => mem_op # "none" /\ mem_busy /\ currentstate = "WAITING"
<1>1. SpiAsked \/ SpiLookedAt \/ SpiAwaited \/ SpiElsewhere
  BY SpiBusStep DEF SpiShared
<1>2. \/ currentstate = "WAITING" /\ ~mem_strobe /\ Block("WAITING")
      \/ currentstate = "WAITING" /\ mem_strobe /\ (Release \/ \E state : Block(state))
      \/ currentstate # "WAITING" /\ (Release \/ Block(currentstate))
  BY BusCases
<1>3. /\ mem_op = "none" => ~mem_strobe /\ currentstate = "WAITING"
      /\ mem_strobe => mem_op # "none" /\ mem_busy /\ currentstate = "WAITING"
      /\ ~mem_busy => currentstate = "WAITING" /\ ~mem_strobe
  BY DEF SpiShared, Handshake
<1>4. ASSUME currentstate = "WAITING", ~mem_strobe
      PROVE  SpiElsewhere /\ currentstate' = "WAITING" /\ mem_busy' = TRUE
  BY <1>1, <1>2, <1>4 DEF SpiAsked, SpiLookedAt, SpiAwaited, SpiWaits, Block
<1> QED
  BY <1>3, <1>4, Zenon

\* The types: what the host and the card keep, and how an access is matched to the bus's state.
LEMMA SpiWritten ==
  ASSUME Issued, mem_op = "write"
  PROVE  /\ mem_addr \in {"SPI", "SPI_PUMP"} => mem_write \in [1..8 -> Bit]
         /\ mem_addr = "CS" => mem_write \in [1..3 -> Bit]
<1>1. PICK reg \in Register : mem_addr = reg /\ mem_write \in Writable(reg)
  BY DEF Issued
<1>2. mem_addr = "SPI" \/ mem_addr = "SPI_PUMP" => mem_write \in SpiBytes
  BY <1>1, WritableCases, Zenon
<1>3. mem_addr = "CS" => mem_write \in Selections
  BY <1>1, WritableCases, Zenon
<1> QED
  BY <1>2, <1>3, DataAssumption

LEMMA CardTypes ==
  ASSUME CardEdge, position \in 0..(Len(Stream) - 1), card_in \in Seq(Bit), card_out \in Seq(Bit),
         mosi \in Bit, miso \in Bit
  PROVE  miso' \in Bit /\ card_in' \in Seq(Bit) /\ card_out' \in Seq(Bit)
<1>1. Stream[position + 1] \in Bit
  BY StreamBit
<1>2. \A s \in Seq(Bit), b \in Bit : Append(s, b) \in Seq(Bit)
  BY AppendProperties, Zenon
<1>3. << >> \in Seq(Bit) /\ 1 \in Bit
  BY EmptySeq DEF Bit
<1>4. \/ miso' = Stream[position + 1]
      \/ miso' = miso
      \/ miso' = 1
  <2>1. \/ spi_cs = 0 /\ sck = 1 /\ sck' = 0
        \/ spi_cs = 0 /\ ~(spi_cs = 0 /\ sck = 1 /\ sck' = 0)
        \/ ~(spi_cs = 0)
    OBVIOUS
  <2> QED
    BY <2>1, Zenon DEF CardEdge
<1>5. \/ card_out' = << >> \/ card_out' = card_out
      \/ card_out' = Append(card_out, Stream[position + 1])
  BY Zenon DEF CardEdge
<1>6. \/ card_in' = << >> \/ card_in' = card_in
      \/ card_in' = Append(<< >>, mosi) \/ card_in' = Append(card_in, mosi)
  BY Zenon DEF CardEdge
<1>7. miso' \in Bit
  BY <1>1, <1>3, <1>4, Zenon
<1>8. card_out' \in Seq(Bit)
  BY <1>1, <1>2, <1>3, <1>5, Zenon
<1>9. card_in' \in Seq(Bit)
  BY <1>2, <1>3, <1>6, Zenon
<1> QED
  BY <1>7, <1>8, <1>9

LEMMA SpiTypesStep ==
  ASSUME SpiShared, Issued, BusEdge, CpuEdge, SpiEdge, CardEdge
  PROVE  /\ {spi_trigger', shifting', warm', spi_wide'} \subseteq BOOLEAN /\ spi_cs' \in Bit
         /\ shiftcnt' \in 0..31 /\ {sck', mosi', miso'} \subseteq Bit
         /\ sd_shift' \in [1..32 -> Bit] /\ host_to_spi' \in [1..8 -> Bit]
         /\ position' \in 0..(Len(Stream) - 1)
         /\ {card_in', card_out'} \subseteq Seq(Bit)
<1>1. /\ {spi_trigger, shifting, warm, spi_wide} \subseteq BOOLEAN /\ spi_cs \in Bit
      /\ shiftcnt \in 0..31 /\ {sck, mosi, miso} \subseteq Bit
      /\ sd_shift \in [1..32 -> Bit] /\ host_to_spi \in [1..8 -> Bit]
      /\ position \in 0..(Len(Stream) - 1)
      /\ {card_in, card_out} \subseteq Seq(Bit) /\ program \in Programs
  BY DEF SpiShared, Handshake
<1>2. spi_trigger' \in BOOLEAN /\ spi_wide' \in BOOLEAN /\ spi_cs' \in Bit /\ host_to_spi' \in [1..8 -> Bit]
  <2>1. SpiAsked \/ SpiLookedAt \/ SpiAwaited \/ SpiElsewhere
    BY SpiBusStep DEF SpiShared
  <2>2. CASE SpiAsked
    <3>1. spi_wide' \in BOOLEAN
      BY <2>2, Zenon DEF SpiAsked
    <3>2. mem_op = "write" => mem_write \in [1..8 -> Bit]
      BY <2>2, SpiWritten DEF SpiAsked, SpiRegister
    <3>3. High(8) \in [1..8 -> Bit]
      BY HighType
    <3> QED
      BY <1>1, <2>2, <3>1, <3>2, <3>3 DEF SpiAsked
  <2>3. CASE SpiLookedAt \/ SpiAwaited
    BY <1>1, <2>3 DEF SpiLookedAt, SpiAwaited
  <2>4. CASE SpiElsewhere
    <3>1. ASSUME mem_strobe /\ mem_op = "write" /\ mem_addr = "CS" /\ spi_cs' = 1 - mem_write[2]
          PROVE  spi_cs' \in Bit
      <4>1. mem_write \in [1..3 -> Bit]
        BY <3>1, SpiWritten
      <4>2. mem_write[2] \in Bit
        BY <4>1
      <4> QED
        BY <3>1, <4>2 DEF Bit
    <3> QED
      BY <1>1, <2>4, <3>1 DEF SpiElsewhere
  <2> QED
    BY <2>1, <2>2, <2>3, <2>4
<1>3. warm' \in BOOLEAN
  <2>1. warm' = warm \/ warm' = TRUE
    BY <1>1, SpiCpuStep, Zenon
  <2> QED
    BY <1>1, <2>1
<1>4. shifting' \in BOOLEAN /\ shiftcnt' \in 0..31 /\ sck' \in Bit /\ mosi' \in Bit /\ sd_shift' \in [1..32 -> Bit]
  <2>1. LastBit \in 0..31 /\ 0 \in Bit /\ 1 \in Bit
    BY <1>1, CountRange DEF Bit
  <2>2. CASE /\ spi_trigger /\ shifting' = TRUE /\ shiftcnt' = LastBit /\ sck' = 1
             /\ sd_shift' = Outgoing32 /\ mosi' = mosi
    <3>1. Outgoing32 \in [1..32 -> Bit]
      BY <1>1, OutgoingBits, Zenon
    <3> QED
      BY <1>1, <2>1, <2>2, <3>1
  <2>3. CASE /\ ~spi_trigger /\ shifting /\ sck = 1 /\ sck' = 0 /\ mosi' = sd_shift[1]
             /\ UNCHANGED <<sd_shift, shiftcnt, shifting>>
    <3>1. sd_shift[1] \in Bit
      BY <1>1
    <3> QED
      BY <1>1, <2>1, <2>3, <3>1
  <2>4. ASSUME sck' = 1, mosi' = mosi, sd_shift' = Append(Tail(sd_shift), miso),
               shiftcnt' = IF shiftcnt = 0 THEN 31 ELSE shiftcnt - 1, shifting' = (shiftcnt # 0)
        PROVE  shifting' \in BOOLEAN /\ shiftcnt' \in 0..31 /\ sck' \in Bit /\ mosi' \in Bit /\ sd_shift' \in [1..32 -> Bit]
    <3>1. sd_shift' \in [1..32 -> Bit]
      <4>1. miso \in Bit /\ sd_shift \in [1..32 -> Bit]
        BY <1>1
      <4>2. Append(Tail(sd_shift), miso) \in [1..32 -> Bit]
        BY <4>1, RegisterShifts, Zenon
      <4> QED
        BY <2>4, <4>2, Zenon
    <3>2. shifting' \in BOOLEAN
      BY <2>4, Zenon
    <3>3. shiftcnt' \in 0..31
      <4>1. shiftcnt \in 0..31 /\ (shiftcnt' = IF shiftcnt = 0 THEN 31 ELSE shiftcnt - 1)
        BY <1>1, <2>4, Zenon
      <4>2. \A n \in 0..31 : (IF n = 0 THEN 31 ELSE n - 1) \in 0..31
        OBVIOUS
      <4> QED
        BY <4>1, <4>2, Zenon
    <3>4. sck' \in Bit /\ mosi' \in Bit
      <4>1. mosi \in Bit
        BY <1>1
      <4> QED
        BY <2>1, <2>4, <4>1, Zenon
    <3> QED
      BY <3>1, <3>2, <3>3, <3>4, Zenon
  <2>5. CASE UNCHANGED <<sck, sd_shift, shiftcnt, shifting, mosi>>
    BY <1>1, <2>5
  <2>6. sck \in Bit /\ {spi_trigger, shifting} \subseteq BOOLEAN
    BY <1>1
  <2> QED
    BY <1>1, <2>2, <2>3, <2>4, <2>5, <2>6, HostCases, Zenon
<1>5. miso' \in Bit /\ position' \in 0..(Len(Stream) - 1) /\ card_in' \in Seq(Bit) /\ card_out' \in Seq(Bit)
  <2>1. /\ spi_trigger \in BOOLEAN /\ {sck, sck'} \subseteq Bit /\ mosi \in Bit /\ miso \in Bit
        /\ card_in \in Seq(Bit) /\ card_out \in Seq(Bit)
    BY <1>1, <1>4
  <2> QED
    BY <1>1, <2>1, CardTypes, CardCases, Zenon
<1> QED
  BY <1>2, <1>3, <1>4, <1>5

\* How the CPU's access and the bus's state belong together.
SpiMatched ==
  /\ mem_strobe /\ mem_op = "write" /\ mem_addr = "CS" => warm \/ mem_write[2] = 0
  /\ currentstate = "WAITSPIW" => mem_op = "write" /\ SpiRegister
  /\ currentstate = "WAITSPIR" => mem_op = "read" /\ SpiRegister
  /\ SpiRegister => currentstate \in {"WAITING", "WAITSPIW", "WAITSPIR"}
  /\ ~mem_busy /\ mem_op = "read" /\ SpiRegister => mem_read = sd_shift

LEMMA SpiMatchedStep ==
  ASSUME SpiShared, BusEdge, CpuEdge, SpiEdge
  PROVE  SpiMatched'
<1>1. SpiAsked \/ SpiLookedAt \/ SpiAwaited \/ SpiElsewhere
  BY SpiBusStep DEF SpiShared
<1>2. /\ mem_op = "none" => SpiElsewhere /\ currentstate' = "WAITING" /\ mem_busy' = TRUE
      /\ ~mem_busy => SpiElsewhere /\ currentstate' = "WAITING" /\ mem_busy' = TRUE
      /\ mem_strobe => mem_op # "none" /\ mem_busy /\ currentstate = "WAITING"
  BY SpiHandshake
<1>3. SpiMatched
  BY DEF SpiShared, SpiMatched
<1>4. program \in Programs /\ warm \in BOOLEAN
  BY DEF SpiShared, Handshake
<1>5. \/ /\ mem_op = "none" /\ warm' = warm /\ mem_strobe' = TRUE
         /\ mem_op' = "write" /\ mem_addr' = "CS" => warm \/ mem_write'[2] = 0
      \/ /\ mem_op # "none" /\ mem_busy /\ warm' = warm /\ mem_strobe' = FALSE
         /\ UNCHANGED <<mem_op, mem_addr, mem_write>>
      \/ /\ mem_op # "none" /\ ~mem_busy /\ mem_strobe' = FALSE /\ mem_op' = "none" /\ mem_addr' = "OTHER"
      \/ mem_op = "none" /\ UNCHANGED <<mem_strobe, mem_op, mem_addr, mem_write>> /\ warm' = warm
  BY <1>4, SpiCpuStep, Zenon
<1>6. CASE mem_op = "none" \/ ~mem_busy
  <2>1. currentstate' = "WAITING" /\ mem_busy' = TRUE
    BY <1>2, <1>6
  <2>2. mem_strobe' /\ mem_op' = "write" /\ mem_addr' = "CS" => warm' \/ mem_write'[2] = 0
    <3>1. ASSUME mem_strobe', mem_op' = "write", mem_addr' = "CS"
          PROVE  warm' = warm /\ (warm \/ mem_write'[2] = 0)
      <4>1. mem_strobe' # FALSE
        BY <3>1
      <4>2. mem_op = "none" => mem_strobe # mem_strobe'
        BY <1>2, <3>1
      <4>3. mem_op = "none" /\ ~(mem_op # "none")
        BY <1>5, <1>6, <4>1, Zenon
      <4> QED
        BY <1>5, <3>1, <4>1, <4>2, <4>3, Zenon
    <3>2. warm' = warm => (warm => warm')
      <4>1. CASE warm = TRUE
        BY <4>1
      <4>2. CASE warm = FALSE
        BY <4>2
      <4> QED
        BY <1>4, <4>1, <4>2
    <3> QED
      BY <3>1, <3>2
  <2> QED
    BY <2>1, <2>2 DEF SpiMatched, SpiRegister
<1>7. CASE mem_op # "none" /\ mem_busy
  <2>1. mem_strobe' = FALSE /\ UNCHANGED <<mem_op, mem_addr, mem_write>>
    BY <1>5, <1>7
  <2>2. SpiRegister' = SpiRegister
    BY <2>1 DEF SpiRegister
  <2>3. CASE SpiAsked \/ SpiLookedAt
    BY <2>1, <2>2, <2>3 DEF SpiAsked, SpiLookedAt, Looks, SpiRegister, Block, SpiMatched
  <2>4. CASE SpiAwaited
    <3>1. currentstate' = currentstate \/ currentstate' = "WAITING"
      BY <2>4 DEF SpiAwaited, Block, Release
    <3>2. ASSUME ~mem_busy', mem_op = "read", SpiRegister
          PROVE  mem_read' = sd_shift'
      <4>1. ~spi_busy /\ currentstate = "WAITSPIR"
        BY <1>3, <2>4, <3>2 DEF SpiAwaited, Block, SpiMatched, SpiWaits
      <4>2. sd_shift' = sd_shift
        BY <4>1 DEF SpiEdge, Start, Fall, Rise, Rest, spi_busy
      <4> QED
        BY <2>4, <4>1, <4>2 DEF SpiAwaited
    <3> QED
      BY <1>3, <2>1, <2>2, <3>1, <3>2 DEF SpiMatched
  <2>5. CASE SpiElsewhere
    <3>1. SpiRegister => currentstate' = "WAITING" /\ mem_busy' = TRUE
      BY <2>5 DEF SpiElsewhere
    <3>2. currentstate' # "WAITSPIW" /\ currentstate' # "WAITSPIR"
      BY <2>5 DEF SpiElsewhere, SpiWaits
    <3> QED
      BY <2>1, <2>2, <3>1, <3>2 DEF SpiMatched
  <2> QED
    BY <1>1, <2>3, <2>4, <2>5
<1> QED
  BY <1>6, <1>7

\* A step of CPU and bus together: nothing for the SPI host, the end of an exchange, and, with the
\* CPU waiting, the order, the look, the wait, and an access to something else.
GoesOn == mem_op # "none" /\ mem_busy /\ UNCHANGED <<mem_op, mem_addr, mem_write>> /\ (warm' <=> warm)
Unasked == spi_trigger' = FALSE /\ UNCHANGED <<spi_wide, host_to_spi>> /\ ~SpiWaits /\ ~SpiWaits'

Idles == Unasked /\ spi_cs' = spi_cs /\ mem_busy' = TRUE /\ (warm' <=> warm)
Finishes ==
  /\ Unasked /\ spi_cs' = spi_cs /\ mem_busy' = TRUE
  /\ mem_op # "none" /\ ~mem_busy /\ SpiRegister /\ ~Looks /\ warm' = TRUE
Elsewhere ==
  /\ GoesOn /\ Unasked
  /\ SpiRegister => mem_busy' = TRUE
  /\ spi_cs' = spi_cs \/ spi_cs' = 1 \/ warm

LEMMA SpiJoint ==
  ASSUME SpiShared, Issued, BusEdge, CpuEdge
  PROVE  \/ Idles \/ Finishes \/ (GoesOn /\ SpiAsked) \/ (GoesOn /\ SpiLookedAt) \/ (GoesOn /\ SpiAwaited)
         \/ Elsewhere
<1>1. SpiAsked \/ SpiLookedAt \/ SpiAwaited \/ SpiElsewhere
  BY SpiBusStep DEF SpiShared
<1>2. /\ mem_op = "none" => SpiElsewhere /\ currentstate' = "WAITING" /\ mem_busy' = TRUE
      /\ ~mem_busy => SpiElsewhere /\ currentstate' = "WAITING" /\ mem_busy' = TRUE
      /\ mem_strobe => mem_op # "none" /\ mem_busy /\ currentstate = "WAITING"
  BY SpiHandshake
<1>3. program \in Programs /\ warm \in BOOLEAN
  BY DEF SpiShared, Handshake
<1>4. warm' = warm => (warm' <=> warm)
  BY <1>3
<1>5. \/ mem_op = "none" /\ (warm' <=> warm)
      \/ /\ mem_op # "none" /\ mem_busy /\ (warm' <=> warm) /\ UNCHANGED <<mem_op, mem_addr, mem_write>>
      \/ /\ mem_op # "none" /\ ~mem_busy
         /\ SpiRegister /\ ~Looks => warm' = TRUE
         /\ ~(SpiRegister /\ ~Looks) => (warm' <=> warm)
  BY <1>3, <1>4, SpiCpuStep, Zenon
<1>6. ASSUME SpiElsewhere
      PROVE  /\ Unasked
             /\ ~mem_strobe => spi_cs' = spi_cs
             /\ SpiRegister => mem_busy' = TRUE
             /\ spi_cs' = spi_cs \/ spi_cs' = 1 \/ warm
  <2>1. Unasked /\ (SpiRegister => mem_busy' = TRUE)
    BY <1>6 DEF SpiElsewhere, Unasked
  <2>2. ~mem_strobe => spi_cs' = spi_cs
    BY <1>6 DEF SpiElsewhere
  <2>3. ASSUME mem_strobe /\ mem_op = "write" /\ mem_addr = "CS" /\ spi_cs' = 1 - mem_write[2]
        PROVE  spi_cs' = 1 \/ warm
    <3>1. warm \/ mem_write[2] = 0
      BY <2>3, Zenon DEF SpiShared
    <3>2. mem_write[2] = 0 => spi_cs' = 1
      BY <2>3
    <3> QED
      BY <3>1, <3>2, Zenon
  <2>4. spi_cs' = spi_cs \/ spi_cs' = 1 \/ warm
    BY <1>6, <2>3 DEF SpiElsewhere
  <2> QED
    BY <2>1, <2>2, <2>4
<1>7. CASE mem_op = "none" \/ ~mem_busy
  <2>1. SpiElsewhere /\ mem_busy' = TRUE /\ ~mem_strobe
    BY <1>2, <1>7
  <2>2. Unasked /\ spi_cs' = spi_cs
    BY <1>6, <2>1
  <2>3. (warm' <=> warm) \/ (mem_op # "none" /\ ~mem_busy /\ SpiRegister /\ ~Looks /\ warm' = TRUE)
    BY <1>5, <1>7, Zenon
  <2> QED
    BY <2>1, <2>2, <2>3, Zenon DEF Idles, Finishes
<1>8. CASE mem_op # "none" /\ mem_busy
  <2>1. GoesOn
    BY <1>5, <1>8, Zenon DEF GoesOn
  <2> QED
    BY <1>1, <1>6, <2>1, Zenon DEF Elsewhere
<1> QED
  BY <1>7, <1>8

Short == Len(card_in) <= 32 /\ Len(card_out) <= 32

\* What the host does when nobody has triggered it and it is not shifting, and when it is shifting for
\* nobody.
LEMMA HostRests ==
  ASSUME SpiShared, SpiEdge, ~spi_trigger, ~shifting
  PROVE  UNCHANGED <<sck, sd_shift, shiftcnt, shifting, mosi>> /\ ~shifting'
<1>1. {spi_trigger, shifting} \subseteq BOOLEAN /\ sck \in Bit /\ shiftcnt \in 0..31
  BY DEF SpiShared
<1>2. UNCHANGED <<sck, sd_shift, shiftcnt, shifting, mosi>>
  BY <1>1, HostCases, Zenon
<1>3. ~shifting'
  BY <1>2
<1> QED
  BY <1>2, <1>3

LEMMA HostShifts ==
  ASSUME SpiShared, SpiEdge, spi_trigger \/ shifting \/ sck = 1
  PROVE  shifting' \/ sck' = 1
<1>1. {spi_trigger, shifting} \subseteq BOOLEAN /\ sck \in Bit /\ shiftcnt \in 0..31
  BY DEF SpiShared
<1>2. \/ shifting' = TRUE
      \/ shifting /\ shifting' = shifting
      \/ sck' = 1
      \/ ~spi_trigger /\ sck' = sck /\ shifting' = shifting
  BY <1>1, HostCases, Zenon
<1> QED
  BY <1>1, <1>2

\* A card that is not selected, or whose clock stands still.
LEMMA CardRests ==
  ASSUME SpiShared, CardEdge, sck' \in Bit, spi_cs = 1 \/ sck' = sck
  PROVE  /\ card_out' = (IF spi_trigger THEN << >> ELSE card_out)
         /\ card_in' = (IF spi_trigger THEN << >> ELSE card_in)
<1>1. spi_cs \in Bit /\ {sck, sck'} \subseteq Bit /\ spi_trigger \in BOOLEAN /\ position \in 0..(Len(Stream) - 1)
  BY DEF SpiShared
<1> QED
  BY <1>1, CardCases, Zenon

LEMMA NothingTailed ==
  ASSUME card_out' = << >>
  PROVE  Tailed'
<1>1. Len(<< >>) = 0
  BY EmptySeq
<1>2. Len(card_out') = 0
  BY <1>1, Zenon
<1> QED
  BY <1>2 DEF Tailed

LEMMA FromCold ==
  ASSUME SpiShared, Issued, BusEdge, CpuEdge, SpiEdge, CardEdge, sck' \in Bit, Cold
  PROVE  (Cold' \/ Settled') /\ Short'
<1>1. /\ {spi_trigger, shifting, warm, mem_busy} \subseteq BOOLEAN
  BY DEF SpiShared, Handshake
<1>2. card_in' = << >> /\ card_out' = << >> /\ Short'
  <2>1. card_in' = << >> /\ card_out' = << >>
    BY CardRests, Zenon DEF Cold
  <2>2. Len(<< >>) = 0 /\ 0 <= 32
    BY EmptySeq
  <2> QED
    BY <2>1, <2>2, Zenon DEF Short
<1>3. CASE Idles
  <2>1. ~warm' /\ spi_cs' = 1 /\ ~SpiWaits' /\ mem_busy'
    BY <1>3 DEF Idles, Unasked, Cold
  <2> QED
    BY <1>2, <2>1, Zenon DEF Cold
<1>4. CASE Finishes
  <2>1. Still
    BY <1>4 DEF Finishes, Cold
  <2>2. sck' = sck /\ ~shifting' /\ spi_trigger' = FALSE
    BY <2>1, <1>4, HostRests DEF Still, Finishes, Unasked
  <2>3. Still'
    BY <2>1, <2>2 DEF Still
  <2>4. warm' /\ ~SpiWaits' /\ mem_busy'
    BY <1>4 DEF Finishes, Unasked
  <2>5. Tailed'
    BY <1>2, NothingTailed
  <2> QED
    BY <1>2, <2>3, <2>4, <2>5, Zenon DEF Settled
<1>5. CASE GoesOn /\ (SpiAsked \/ SpiLookedAt)
  <2>1. ~warm' /\ spi_cs' = 1 /\ mem_busy'
    BY <1>5 DEF GoesOn, Cold, SpiAsked, SpiLookedAt, Block
  <2>2. spi_trigger' \/ Looks'
    BY <1>5 DEF GoesOn, SpiAsked, SpiLookedAt, Looks
  <2> QED
    BY <1>2, <2>1, <2>2, Zenon DEF Cold
<1>6. CASE GoesOn /\ SpiAwaited
  <2>1. ~warm' /\ spi_cs' = 1 /\ SpiWaits /\ (Looks' <=> Looks) /\ spi_trigger' = FALSE
    BY <1>6 DEF GoesOn, Cold, SpiAwaited, Looks
  <2>2. ~Looks => spi_trigger \/ shifting \/ sck = 1
    BY <2>1 DEF Cold
  <2>3. ~Looks => shifting' \/ sck' = 1
    BY <2>2, HostShifts
  <2>4. ASSUME ~mem_busy', ~Looks
        PROVE  Still'
    <3>1. ~spi_busy
      BY <1>6, <2>4 DEF SpiAwaited, Block
    <3>2. ~spi_trigger /\ ~shifting
      BY <1>1, <3>1 DEF spi_busy
    <3>3. sck' = sck /\ ~shifting'
      BY <3>2, HostRests
    <3> QED
      BY <2>1, <2>2, <2>4, <3>2, <3>3 DEF Still
  <2> QED
    BY <1>2, <2>1, <2>3, <2>4, Zenon DEF Cold
<1>7. CASE Elsewhere
  <2>1. ~warm' /\ spi_cs' = 1 /\ ~SpiWaits'
    BY <1>7 DEF Elsewhere, GoesOn, Unasked, Cold
  <2>2. SpiRegister' => mem_busy'
    BY <1>7 DEF Elsewhere, GoesOn, SpiRegister
  <2> QED
    BY <1>2, <2>1, <2>2, Zenon DEF Cold
<1> QED
  BY <1>3, <1>4, <1>5, <1>6, <1>7, SpiJoint, Zenon

\* Where the word of the CPU's order is kept.
LEMMA OrderKept ==
  ASSUME GoesOn, OrderStays
  PROVE  Ordered' <=> Ordered
BY Zenon DEF GoesOn, OrderStays, Ordered

\* An exchange that is over stays as it is.
LEMMA ShiftedStays ==
  ASSUME SpiShared, OrderStays, NEW k \in 0..Count, Shifted(k), k = Count,
         UNCHANGED <<sck, sd_shift, shiftcnt, shifting, mosi, card_in, card_out>>
  PROVE  k \in 0..Count' /\ k = Count' /\ Shifted(k)'
<1>1. Outgoing32' = Outgoing32 /\ Count' = Count /\ LastBit' = LastBit
  BY OrderedWord
<1>2. ~(k < Count)
  BY CountRange DEF SpiShared
<1>3. ~shifting /\ sck = 1 /\ Len(card_out) = k /\ ~spi_trigger /\ Len(card_in) = k
      /\ Places(sd_shift, Outgoing32, card_out, k) /\ Same(card_in, Outgoing32, k)
  BY <1>2, Zenon DEF Shifted
<1>4. Places(sd_shift, Outgoing32, card_out, k)' /\ Same(card_in, Outgoing32, k)'
  BY <1>1, <1>3, Zenon DEF Places, Same
<1>5. (~spi_trigger)'
  BY DEF OrderStays
<1>6. /\ ~shifting' /\ sck' = 1 /\ Len(card_out') = k /\ Len(card_in') = k /\ ~(k < Count')
  BY <1>1, <1>2, <1>3, Zenon
<1> QED
  BY <1>1, <1>4, <1>5, <1>6, Zenon DEF Shifted

LEMMA TailedStays ==
  ASSUME Tailed, UNCHANGED <<sd_shift, card_out>>
  PROVE  Tailed'
BY Zenon DEF Tailed

\* When all bits have gone, the card's are the last of the register.
LEMMA ShiftedTailed ==
  ASSUME SpiShared, NEW k \in 0..Count, Shifted(k), k = Count
  PROVE  Tailed
<1>1. ~(k < Count) /\ k \in 1..32
  BY CountRange DEF SpiShared
<1>2. Len(card_out) = k /\ Places(sd_shift, Outgoing32, card_out, k)
  BY <1>1, Zenon DEF Shifted
<1>3. \A j \in 1..k : /\ (32 - k) + j \in 1..32 /\ ~(((32 - k) + j) + k <= 32)
                      /\ (((32 - k) + j) + k) - 32 = j
  BY <1>1
<1>4. \A j \in 1..k : sd_shift[(32 - k) + j] = card_out[j]
  <2>. SUFFICES ASSUME NEW j \in 1..k PROVE sd_shift[(32 - k) + j] = card_out[j]
    OBVIOUS
  <2>1. PICK n : n = (32 - k) + j
    OBVIOUS
  <2>2. n \in 1..32 /\ ~(n + k <= 32) /\ (n + k) - 32 = j
    BY <1>3, <2>1
  <2>3. sd_shift[n] = IF n + k <= 32 THEN Outgoing32[n + k] ELSE card_out[(n + k) - 32]
    BY <1>2, <2>2, Zenon DEF Places
  <2>4. sd_shift[n] = card_out[j]
    BY <2>2, <2>3, Zenon
  <2> QED
    BY <2>1, <2>4, Zenon
<1> QED
  BY <1>2, <1>4, Zenon DEF Tailed

LEMMA FromSettled ==
  ASSUME SpiShared, Issued, BusEdge, CpuEdge, SpiEdge, CardEdge, sck' \in Bit, Settled
  PROVE  (Settled' \/ Triggered') /\ Short'
<1>1. {spi_trigger, shifting, warm, mem_busy} \subseteq BOOLEAN /\ Len(card_in) <= 32 /\ Len(card_out) <= 32
  BY DEF SpiShared, Handshake
<1>2. /\ UNCHANGED <<sck, sd_shift, shiftcnt, shifting, mosi>> /\ ~shifting' /\ sck' = 1
      /\ ~spi_trigger
  BY HostRests DEF Settled, Still
<1>3. card_in' = card_in /\ card_out' = card_out
  BY <1>2, CardRests, Zenon
<1>4. Short' /\ Tailed'
  <2>1. Tailed'
    BY <1>2, <1>3, TailedStays DEF Settled
  <2> QED
    BY <1>1, <1>3, <2>1, Zenon DEF Short
<1>5. ASSUME spi_trigger' = FALSE, warm', ~SpiWaits' \/ Looks', mem_busy' \/ Looks' \/ ~SpiRegister'
      PROVE  Settled'
  BY <1>2, <1>4, <1>5, Zenon DEF Settled, Still
<1>6. CASE Idles
  <2>1. spi_trigger' = FALSE /\ warm' /\ ~SpiWaits' /\ mem_busy'
    BY <1>6 DEF Idles, Unasked, Settled
  <2> QED
    BY <1>4, <1>5, <2>1, Zenon
<1>7. CASE Finishes
  <2>1. spi_trigger' = FALSE /\ warm' /\ ~SpiWaits' /\ mem_busy'
    BY <1>7 DEF Finishes, Unasked
  <2> QED
    BY <1>4, <1>5, <2>1, Zenon
<1>8. CASE GoesOn /\ SpiAsked
  <2>1. warm' /\ SpiWaits' /\ spi_trigger'
    BY <1>8 DEF GoesOn, SpiAsked, SpiWaits, Settled
  <2>2. Ordered'
    <3>1. CASE mem_op = "write"
      <4>1. mem_op' = "write" /\ host_to_spi' = mem_write' /\ mem_addr' = mem_addr /\ SpiRegister
        BY <1>8, <3>1 DEF GoesOn, SpiAsked
      <4>2. spi_wide' = (mem_addr' = "SPI_PUMP")
        BY <1>8, <4>1, Zenon DEF SpiAsked
      <4>3. CASE mem_addr = "SPI_PUMP"
        <5>1. spi_wide' = TRUE
          BY <4>1, <4>2, <4>3
        <5> QED
          BY <4>1, <4>3, <5>1, Zenon DEF Ordered
      <4>4. CASE mem_addr = "SPI"
        <5>1. spi_wide' = FALSE
          BY <4>1, <4>2, <4>4
        <5> QED
          BY <4>1, <4>4, <5>1, Zenon DEF Ordered
      <4> QED
        BY <4>1, <4>3, <4>4 DEF SpiRegister
    <3>2. CASE mem_op = "read"
      <4>1. mem_op' = "read" /\ host_to_spi' = High(8) /\ mem_addr' = "SPI_PUMP"
        BY <1>8, <3>2 DEF GoesOn, SpiAsked, SpiRegister, Looks
      <4>2. spi_wide' = TRUE
        <5>1. spi_wide' = (mem_addr = "SPI_PUMP") /\ mem_addr = "SPI_PUMP"
          BY <1>8, <4>1, Zenon DEF GoesOn, SpiAsked
        <5> QED
          BY <5>1
      <4> QED
        BY <4>1, <4>2, Zenon DEF Ordered
    <3> QED
      BY <1>8, <3>1, <3>2 DEF SpiAsked
  <2> QED
    BY <1>2, <1>4, <2>1, <2>2, Zenon DEF Triggered
<1>9. CASE GoesOn /\ SpiLookedAt
  <2>1. spi_trigger' = FALSE /\ warm' /\ Looks'
    BY <1>9 DEF GoesOn, SpiLookedAt, Looks, Settled
  <2> QED
    BY <1>4, <1>5, <2>1, Zenon
<1>10. CASE GoesOn /\ SpiAwaited
  <2>1. spi_trigger' = FALSE /\ warm' /\ Looks'
    BY <1>10 DEF GoesOn, SpiAwaited, Looks, Settled
  <2> QED
    BY <1>4, <1>5, <2>1, Zenon
<1>11. CASE Elsewhere
  <2>1. spi_trigger' = FALSE /\ warm' /\ ~SpiWaits' /\ (mem_busy' \/ ~SpiRegister')
    BY <1>11 DEF Elsewhere, GoesOn, Unasked, SpiRegister, Settled
  <2> QED
    BY <1>4, <1>5, <2>1, Zenon
<1> QED
  BY <1>6, <1>7, <1>8, <1>9, <1>10, <1>11, SpiJoint, Zenon

\* While the bus waits for an exchange, only that goes on.
LEMMA WaitsAlone ==
  ASSUME SpiShared, Issued, BusEdge, CpuEdge, SpiWaits
  PROVE  GoesOn /\ SpiAwaited /\ OrderStays
<1>1. GoesOn /\ SpiAwaited
  <2>1. currentstate # "WAITING"
    BY DEF SpiWaits
  <2> QED
    BY <2>1, SpiJoint DEF Idles, Finishes, SpiAsked, SpiLookedAt, Elsewhere, Unasked
<1> QED
  BY <1>1 DEF SpiAwaited, OrderStays

LEMMA FromTriggered ==
  ASSUME SpiShared, Issued, BusEdge, CpuEdge, SpiEdge, CardEdge, sck' \in Bit, Triggered
  PROVE  Exchanges' /\ Short'
<1>1. {spi_trigger, shifting, warm, mem_busy} \subseteq BOOLEAN /\ spi_wide \in BOOLEAN /\ sck \in Bit
      /\ shiftcnt \in 0..31 /\ spi_cs \in Bit
  BY DEF SpiShared, Handshake
<1>2. GoesOn /\ SpiAwaited /\ OrderStays
  BY WaitsAlone DEF Triggered
<1>3. spi_busy /\ spi_trigger
  BY DEF spi_busy, Triggered
<1>4. warm' /\ SpiWaits' /\ ~spi_trigger' /\ spi_cs' = spi_cs
  BY <1>2, <1>3 DEF GoesOn, SpiAwaited, Triggered, Block, SpiWaits, OrderStays
<1>5. Ordered'
  BY <1>2, OrderKept DEF Triggered
<1>6. shifting' = TRUE /\ shiftcnt' = LastBit /\ sck' = 1 /\ sd_shift' = Outgoing32
  BY <1>1, <1>3, HostCases, Zenon
<1>7. card_out' = << >> /\ card_in' = << >>
  <2>1. sck' = sck
    BY <1>6 DEF Triggered
  <2> QED
    BY <1>3, <2>1, CardRests, Zenon
<1>8. Len(card_out') = 0 /\ Len(card_in') = 0
  <2>1. Len(<< >>) = 0
    BY EmptySeq
  <2> QED
    BY <1>7, <2>1, Zenon
<1>9. Outgoing32' = Outgoing32 /\ Count' = Count /\ LastBit' = LastBit
  BY <1>2, OrderedWord
<1>10. LastBit \in 0..31 /\ Count \in 1..32 /\ 0 < Count /\ LastBit - 0 = LastBit /\ 0 \in 0..Count
  BY <1>1, CountRange
<1>11. Places(sd_shift, Outgoing32, card_out, 0)' /\ Same(card_in, Outgoing32, 0)'
  <2>1. \A j \in 1..32 : j + 0 <= 32 /\ j + 0 = j
    OBVIOUS
  <2>2. \A j \in 1..32 : sd_shift'[j] = IF j + 0 <= 32 THEN Outgoing32'[j + 0] ELSE card_out'[(j + 0) - 32]
    BY <1>6, <1>9, <2>1, Zenon
  <2>3. Same(card_in, Outgoing32, 0)'
    BY DEF Same
  <2> QED
    BY <2>2, <2>3, Zenon DEF Places
<1>12. Shifted(0)'
  BY <1>4, <1>6, <1>8, <1>9, <1>10, <1>11, Zenon DEF Shifted
<1>13. (\E k \in 0..Count : Shifted(k))'
  BY <1>9, <1>10, <1>12, Zenon
<1>14. Short'
  BY <1>8 DEF Short
<1> QED
  BY <1>4, <1>5, <1>6, <1>7, <1>13, <1>14, Zenon DEF Exchanges

LEMMA FromExchanges ==
  ASSUME SpiShared, Issued, BusEdge, CpuEdge, SpiEdge, CardEdge, sck' \in Bit, Exchanges
  PROVE  (Exchanges' \/ Settled') /\ Short'
<1>1. {spi_trigger, shifting, warm, mem_busy} \subseteq BOOLEAN /\ spi_wide \in BOOLEAN /\ sck \in Bit
      /\ shiftcnt \in 0..31 /\ spi_cs \in Bit /\ Len(card_in) <= 32 /\ Len(card_out) <= 32
  BY DEF SpiShared, Handshake
<1>2. GoesOn /\ SpiAwaited /\ OrderStays
  BY WaitsAlone DEF Exchanges
<1>3. warm' /\ ~spi_trigger' /\ spi_cs' = spi_cs /\ ~spi_trigger
  BY <1>2 DEF GoesOn, SpiAwaited, Exchanges, OrderStays
<1>4. Ordered'
  BY <1>2, OrderKept DEF Exchanges
<1>5. shifting => SpiWaits'
  BY <1>2 DEF SpiAwaited, spi_busy, Block, SpiWaits
<1>6. ~shifting => ~SpiWaits'
  BY <1>2, <1>3 DEF SpiAwaited, spi_busy, Release, SpiWaits
<1>7. Count' = Count /\ Count \in 1..32
  BY <1>1, <1>2, OrderedWord, CountRange
<1>8. CASE spi_cs = 1
  <2>1. card_out' = << >> /\ card_in' = card_in
    BY <1>3, <1>8, CardRests, Zenon DEF Exchanges
  <2>2. Short'
    <3>1. Len(<< >>) = 0 /\ 0 <= 32
      BY EmptySeq
    <3> QED
      BY <1>1, <2>1, <3>1, Zenon DEF Short
  <2>3. spi_cs' = 1 /\ spi_cs' # 0
    BY <1>3, <1>8
  <2>4. shifting' \/ sck' = 1
    <3>1. spi_trigger \/ shifting \/ sck = 1
      BY <1>8 DEF Exchanges
    <3> QED
      BY <3>1, HostShifts
  <2>5. CASE shifting
    BY <1>3, <1>4, <1>5, <2>1, <2>2, <2>3, <2>4, <2>5, Zenon DEF Exchanges
  <2>6. CASE ~shifting
    <3>1. ~shifting' /\ sck' = 1
      BY <1>3, <2>4, <2>6, HostRests
    <3>2. Tailed'
      BY <2>1, NothingTailed
    <3> QED
      BY <1>3, <1>6, <2>2, <2>3, <2>6, <3>1, <3>2, Zenon DEF Settled, Still
  <2> QED
    BY <2>5, <2>6
<1>9. CASE spi_cs = 0
  <2>1. PICK k \in 0..Count : Shifted(k)
    BY <1>9 DEF Exchanges
  <2>2. spi_cs' = 0 /\ spi_cs' # 1
    BY <1>3, <1>9
  <2>3. CASE shifting
    <3>1. ASSUME NEW m \in 0..Count, Shifted(m)'
          PROVE  Exchanges' /\ Short'
      <4>1. m <= 32 /\ m + 1 \in Nat
        BY <1>7
      <4>2. m < Count => m + 1 <= 32
        BY <1>7
      <4>3. Len(card_in') = m /\ (Len(card_out') = m \/ (m < Count /\ Len(card_out') = m + 1))
        BY <1>7, <3>1, Zenon DEF Shifted
      <4>4. Short'
        BY <4>1, <4>2, <4>3, Zenon DEF Short
      <4>5. (\E n \in 0..Count : Shifted(n))'
        BY <1>7, <3>1, Zenon
      <4> QED
        BY <1>3, <1>4, <1>5, <2>2, <2>3, <4>4, <4>5, Zenon DEF Exchanges
    <3>2. CASE Falls
      <4>1. Shifted(k)'
        BY <1>2, <1>9, <2>1, <2>3, <3>2, FallsOne
      <4> QED
        BY <3>1, <4>1
    <3>3. CASE Rises
      <4>1. PICK m \in Nat : m = k + 1
        BY <1>7
      <4>2. m \in 0..Count /\ Shifted(m)'
        BY <1>2, <1>9, <2>1, <2>3, <3>3, <4>1, RisesOne
      <4> QED
        BY <3>1, <4>2
    <3>4. CASE UNCHANGED <<sck, sd_shift, shiftcnt, shifting, mosi>>
      <4>1. card_in' = card_in /\ card_out' = card_out /\ miso' = miso
        <5>1. card_in' = card_in /\ card_out' = card_out
          BY <1>3, <3>4, CardRests, Zenon
        <5>2. ~(sck = 1 /\ sck' = 0)
          BY <3>4
        <5>3. {sck, sck'} \subseteq Bit /\ position \in 0..(Len(Stream) - 1)
          BY DEF SpiShared
        <5> QED
          BY <1>1, <1>9, <5>1, <5>2, <5>3, CardCases, Zenon
      <4>2. Outgoing32' = Outgoing32 /\ Count' = Count /\ LastBit' = LastBit
        BY <1>2, OrderedWord
      <4>3. Places(sd_shift, Outgoing32, card_out, k)' /\ Same(card_in, Outgoing32, k)'
        <5>1. Places(sd_shift, Outgoing32, card_out, k) /\ Same(card_in, Outgoing32, k)
          BY <2>1, Zenon DEF Shifted
        <5> QED
          BY <3>4, <4>1, <4>2, <5>1, Zenon DEF Places, Same
      <4>4. Shifted(k)'
        BY <1>3, <2>1, <3>4, <4>1, <4>2, <4>3, Zenon DEF Shifted
      <4> QED
        BY <3>1, <4>4
    <3> QED
      BY <1>1, <1>3, <2>3, <3>2, <3>3, <3>4, HostCases, Zenon DEF Falls, Rises, ShiftsIn
  <2>4. CASE ~shifting
    <3>1. k = Count
      <4>1. ~(k < Count)
        BY <2>1, <2>4, Zenon DEF Shifted
      <4> QED
        BY <1>7, <4>1
    <3>2. UNCHANGED <<sck, sd_shift, shiftcnt, shifting, mosi>> /\ ~shifting'
      BY <1>3, <2>4, HostRests
    <3>3. card_in' = card_in /\ card_out' = card_out
      BY <1>3, <3>2, CardRests, Zenon
    <3>4. k = Count' /\ Shifted(k)'
      BY <1>2, <2>1, <3>1, <3>2, <3>3, ShiftedStays
    <3>5. Tailed'
      <4>1. Tailed
        BY <2>1, <3>1, ShiftedTailed
      <4> QED
        BY <3>2, <3>3, <4>1, TailedStays
    <3>6. sck' = 1
      <4>1. ~(k < Count)
        BY <1>7, <3>1
      <4> QED
        BY <2>1, <3>2, <4>1, Zenon DEF Shifted
    <3>7. Shifted(Count)'
      BY <3>4, Zenon
    <3>8. Short'
      BY <1>1, <3>3, Zenon DEF Short
    <3> QED
      BY <1>3, <1>4, <1>6, <2>4, <3>2, <3>5, <3>6, <3>7, <3>8, Zenon DEF Settled, Still
  <2> QED
    BY <2>3, <2>4
<1> QED
  BY <1>1, <1>8, <1>9 DEF Bit

LEMMA SpiInvStep ==
  ASSUME SpiInv, Issued, [Next]_vars
  PROVE  SpiInv'
<1>1. CASE Next
  <2>1. BusEdge /\ CpuEdge /\ SpiEdge /\ CardEdge /\ SpiShared /\ SpiPhase
    BY <1>1, Zenon DEF Next, SpiInv
  <2>2. /\ {spi_trigger', shifting', warm', spi_wide'} \subseteq BOOLEAN /\ spi_cs' \in Bit
        /\ shiftcnt' \in 0..31 /\ {sck', mosi', miso'} \subseteq Bit
        /\ sd_shift' \in [1..32 -> Bit] /\ host_to_spi' \in [1..8 -> Bit]
        /\ position' \in 0..(Len(Stream) - 1)
        /\ {card_in', card_out'} \subseteq Seq(Bit)
    BY <2>1, SpiTypesStep
  <2>3. Handshake'
    BY <1>1, <2>1, HandshakeStep, Zenon DEF SpiShared
  <2>4. SpiMatched'
    BY <2>1, SpiMatchedStep
  <2>5. sck' \in Bit
    BY <2>2
  <2>6. SpiPhase' /\ Short'
    BY <2>1, <2>5, FromCold, FromSettled, FromTriggered, FromExchanges, Zenon DEF SpiPhase
  <2>7. SpiShared'
    BY <2>2, <2>3, <2>4, <2>6, Zenon DEF SpiShared, SpiMatched, Short
  <2> QED
    BY <2>6, <2>7, Zenon DEF SpiInv
<1>2. CASE UNCHANGED vars
  <2>1. /\ UNCHANGED <<mem_strobe, mem_op, mem_addr, mem_write, currentstate, mem_busy, mem_read, spi_cs>>
        /\ UNCHANGED <<program, warm, position, card_in, card_out, miso, host_to_spi, spi_wide, spi_trigger>>
        /\ UNCHANGED <<sck, sd_shift, shiftcnt, shifting, mosi>>
    BY <1>2, Zenon DEF vars, cpuRegs, spiRegs
  <2>2. SpiShared'
    <3>1. Handshake' /\ (SpiRegister' <=> SpiRegister)
      BY <2>1 DEF SpiInv, SpiShared, Handshake, SpiRegister
    <3> QED
      BY <2>1, <3>1, Zenon DEF SpiInv, SpiShared
  <2>3. Outgoing32' = Outgoing32 /\ Count' = Count /\ (Ordered' <=> Ordered) /\ (SpiWaits' <=> SpiWaits)
        /\ (Looks' <=> Looks) /\ (SpiRegister' <=> SpiRegister) /\ (Still' <=> Still) /\ LastBit' = LastBit
        /\ (Tailed' <=> Tailed)
    BY <2>1, Zenon DEF Outgoing32, Count, LastBit, Ordered, SpiWaits, Looks, SpiRegister, Still, Tailed
  <2>4. \A k : Shifted(k) => Shifted(k)'
    BY <2>1, <2>3, Zenon DEF Shifted, Places, Same
  <2>5. CASE Cold
    BY <2>1, <2>2, <2>3, <2>5, Zenon DEF Cold, SpiInv, SpiPhase
  <2>6. CASE Settled
    <3>1. Shifted(Count) => Shifted(Count)'
      <4>1. PICK k : k = Count
        OBVIOUS
      <4> QED
        BY <2>3, <2>4, <4>1, Zenon DEF Shifted
    <3> QED
      BY <2>1, <2>2, <2>3, <2>6, <3>1, Zenon DEF Settled, SpiInv, SpiPhase
  <2>7. CASE Triggered
    BY <2>1, <2>2, <2>3, <2>7, Zenon DEF Triggered, SpiInv, SpiPhase
  <2>8. CASE Exchanges
    BY <2>1, <2>2, <2>3, <2>4, <2>8, Zenon DEF Exchanges, SpiInv, SpiPhase
  <2> QED
    BY <2>5, <2>6, <2>7, <2>8, Zenon DEF SpiInv, SpiPhase
<1> QED
  BY <1>1, <1>2

LEMMA SpiAlways == Spec => []SpiInv
<1>1. Init => SpiInv
  <2>. SUFFICES ASSUME Init PROVE SpiInv
    OBVIOUS
  <2>1. /\ program \in Programs /\ currentstate = "WAITING" /\ mem_busy = TRUE /\ mem_strobe = FALSE
        /\ mem_op = "none" /\ mem_addr = "OTHER" /\ spi_cs = 1 /\ host_to_spi = High(8)
        /\ sck = 0 /\ sd_shift = High(32) /\ shiftcnt = 0 /\ shifting = FALSE /\ mosi = 1
        /\ warm = FALSE /\ miso = 1 /\ position = 0 /\ card_in = << >> /\ card_out = << >>
    BY Zenon DEF Init, BusInit, SpiInit
  <2>2. spi_trigger \in BOOLEAN /\ spi_wide \in BOOLEAN
    <3>1. program.leftover \subseteq BOOLEAN
      BY <2>1, ProgramAssumption
    <3> QED
      BY <3>1 DEF Init, BusInit
  <2>3. sd_shift \in [1..32 -> Bit] /\ host_to_spi \in [1..8 -> Bit]
    BY <2>1, HighType
  <2>4. Len(Stream) \in Nat /\ Len(Stream) > 0
    <3>1. Stream \in Seq(Bit) /\ Stream # << >>
      BY PartnerAssumption
    <3> QED
      BY <3>1, EmptySeq, LenProperties
  <2>5. position \in 0..(Len(Stream) - 1)
    BY <2>1, <2>4
  <2>6. Len(<< >>) = 0 /\ << >> \in Seq(Bit)
    BY EmptySeq
  <2>7. card_in \in Seq(Bit) /\ card_out \in Seq(Bit) /\ Len(card_in) <= 32 /\ Len(card_out) <= 32
    <3>1. Len(card_in) = 0 /\ Len(card_out) = 0
      BY <2>1, <2>6, Zenon
    <3> QED
      BY <2>1, <2>6, <3>1
  <2>8. Handshake
    BY <2>1 DEF Handshake
  <2>9. /\ {spi_trigger, shifting, warm, spi_wide} \subseteq BOOLEAN /\ spi_cs \in Bit
        /\ shiftcnt \in 0..31 /\ {sck, mosi, miso} \subseteq Bit
    <3>1. shifting = FALSE /\ warm = FALSE /\ spi_cs = 1 /\ shiftcnt = 0 /\ sck = 0 /\ mosi = 1 /\ miso = 1
      BY <2>1
    <3>2. shifting \in BOOLEAN /\ warm \in BOOLEAN
      BY <3>1
    <3>3. spi_cs \in Bit /\ shiftcnt \in 0..31 /\ {sck, mosi, miso} \subseteq Bit
      BY <3>1 DEF Bit
    <3> QED
      BY <2>2, <3>2, <3>3
  <2>10. ~SpiRegister
    BY <2>1 DEF SpiRegister
  <2>11. currentstate # "WAITSPIW" /\ currentstate # "WAITSPIR" /\ ~mem_strobe
    BY <2>1
  <2>12. {card_in, card_out} \subseteq Seq(Bit)
    BY <2>7
  <2>13. SpiShared
    BY <2>3, <2>5, <2>7, <2>8, <2>9, <2>10, <2>11, <2>12, Zenon DEF SpiShared
  <2>14. Cold
    BY <2>1, <2>10 DEF Cold, SpiWaits
  <2> QED
    BY <2>13, <2>14 DEF SpiInv, SpiPhase
<1>2. SpiInv /\ Issued /\ [Next]_vars => SpiInv'
  BY SpiInvStep
<1> QED
  BY <1>1, <1>2, IssuedAlways, PTL DEF Spec

\* A part of a sequence.
LEMMA PartBits ==
  ASSUME NEW s, NEW m \in Int, NEW l \in Int, \A i \in m..l : s[i] \in Bit
  PROVE  /\ SubSeq(s, m, l) \in Seq(Bit)
         /\ Len(SubSeq(s, m, l)) = (IF m <= l THEN (l - m) + 1 ELSE 0)
         /\ \A i \in 1..((l - m) + 1) : SubSeq(s, m, l)[i] = s[(m + i) - 1]
<1>1. SubSeq(s, m, l) \in Seq(Bit) /\ Len(SubSeq(s, m, l)) = (IF m <= l THEN (l - m) + 1 ELSE 0)
  BY SubSeqProperties, Zenon
<1>2. \A i \in 1..((l - m) + 1) : SubSeq(s, m, l)[i] = s[(m + i) - 1]
  BY SubSeqProperties, SMT
<1> QED
  BY <1>1, <1>2, Zenon

\* The end of a word of the register.
EndsIn(s, t) == \A j \in 1..Len(t) : s[(32 - Len(t)) + j] = t[j]

LEMMA EndOfWord ==
  ASSUME NEW s \in [1..32 -> Bit], NEW t \in Seq(Bit), Len(t) <= 32, EndsIn(s, t)
  PROVE  LastBits(s, Len(t)) = t
<1>1. s \in Seq(Bit) /\ Len(s) = 32
  BY FunctionIsSeq
<1>2. Len(t) \in Nat
  BY LenProperties
<1>3. PICK n \in Nat : n = Len(t)
  BY <1>2
<1>3a. PICK m \in Int : m = (32 - n) + 1
  <2>1. (32 - n) + 1 \in Int
    BY <1>3
  <2> QED
    BY <2>1, Zenon
<1>4. m \in Int /\ 32 \in Int /\ n \in Nat /\ \A i \in m..32 : s[i] \in Bit
  <2>1. m > 0
    BY <1>3, <1>3a
  <2>2. \A i \in m..32 : i \in 1..32
    BY <2>1
  <2>3. \A i \in m..32 : s[i] \in Bit
    BY <2>2, Zenon
  <2> QED
    BY <2>3
<1>5. LastBits(s, Len(t)) = SubSeq(s, m, 32)
  BY <1>1, <1>3, <1>3a, Zenon DEF LastBits
<1>6. /\ SubSeq(s, m, 32) \in Seq(Bit)
      /\ Len(SubSeq(s, m, 32)) = IF m <= 32 THEN (32 - m) + 1 ELSE 0
      /\ \A i \in 1..((32 - m) + 1) : SubSeq(s, m, 32)[i] = s[(m + i) - 1]
  <2>1. \A i \in m..32 : s[i] \in Bit
    BY <1>4
  <2>2. m \in Int /\ 32 \in Int
    BY <1>4
  <2>3. PICK l \in Int : l = 32
    BY <2>2
  <2>4. \A i \in m..l : s[i] \in Bit
    BY <2>1, <2>3, Zenon
  <2>5. /\ SubSeq(s, m, l) \in Seq(Bit)
        /\ Len(SubSeq(s, m, l)) = (IF m <= l THEN (l - m) + 1 ELSE 0)
        /\ \A i \in 1..((l - m) + 1) : SubSeq(s, m, l)[i] = s[(m + i) - 1]
    BY <2>2, <2>4, PartBits
  <2> QED
    BY <2>3, <2>5, Zenon
<1>7. PICK w : w = SubSeq(s, m, 32)
  OBVIOUS
<1>8. /\ w \in Seq(Bit)
      /\ Len(w) = IF m <= 32 THEN (32 - m) + 1 ELSE 0
      /\ \A i \in 1..((32 - m) + 1) : w[i] = s[(m + i) - 1]
  BY <1>6, <1>7, Zenon
<1>9. Len(w) = Len(t) /\ \A i \in 1..Len(w) : w[i] = t[i]
  <2>1. Len(w) = n /\ (32 - m) + 1 = n
    <3>1. n <= 32
      BY <1>3
    <3>2. m <= 32 \/ n = 0
      BY <1>3a, <3>1
    <3> QED
      BY <1>3a, <1>8, <3>2
  <2>2. \A i \in 1..n : w[i] = s[(32 - n) + i]
    <3>1. \A i \in 1..n : (m + i) - 1 = (32 - n) + i
      BY <1>3a
    <3> QED
      BY <1>8, <2>1, <3>1, Zenon
  <2> QED
    BY <1>3, <2>1, <2>2, Zenon DEF EndsIn
<1>10. w = t
  BY <1>8, <1>9, SeqEqual, Zenon
<1> QED
  BY <1>5, <1>7, <1>10, Zenon

\* What is left of SpiExchange without the types.
Exchanged ==
  spi_cs = 0 =>
    /\ Answered("write", "SPI") => card_in = mem_write
    /\ Answered("write", "SPI_PUMP") => card_in = mem_write \o High(24)
    /\ Answered("read", "SPI_PUMP") => card_in = High(32) /\ mem_read = card_out
    /\ Answered("read", "SPI") => LastBits(mem_read, Len(card_out)) = card_out
    /\ (\E op \in {"read", "write"}, reg \in {"SPI", "SPI_PUMP"} : Answered(op, reg)) =>
          LastBits(sd_shift, Len(card_out)) = card_out

\* The CPU goes on: an exchange that is over has the word of its order.
LEMMA GoneOut ==
  ASSUME SpiShared, Ordered, Shifted(Count)
  PROVE  /\ mem_op = "write" /\ mem_addr = "SPI" => card_in = mem_write
         /\ mem_op = "write" /\ mem_addr = "SPI_PUMP" => card_in = mem_write \o High(24)
         /\ mem_op = "read" /\ mem_addr = "SPI_PUMP" => card_in = High(32)
<1>1. host_to_spi \in [1..8 -> Bit] /\ spi_wide \in BOOLEAN /\ card_in \in Seq(Bit)
  BY DEF SpiShared
<1>2. PICK w \in Seq(Bit) :
         /\ Outgoing32 = w /\ Len(w) = 32 /\ w \in [1..32 -> Bit]
         /\ \A j \in 1..8 : w[j] = host_to_spi[j]
         /\ \A j \in 9..32 : w[j] = 1
  BY <1>1, OutgoingBits, Zenon
<1>3. PICK k : k = Count
  OBVIOUS
<1>4. Len(card_in) = k /\ \A j \in 1..k : card_in[j] = w[j]
  BY <1>2, <1>3, Zenon DEF Shifted, Same
<1>5. CASE ~spi_wide
  <2>1. k = 8
    BY <1>1, <1>3, <1>5, CountRange
  <2>2. k = 8 /\ host_to_spi \in Seq(Bit) /\ Len(host_to_spi) = 8
    <3>1. host_to_spi \in [1..8 -> Bit] /\ 8 \in Nat
      BY <1>1
    <3> QED
      BY <2>1, <3>1, FunctionIsSeq, Zenon
  <2>3. Len(card_in) = Len(host_to_spi) /\ \A j \in 1..Len(card_in) : card_in[j] = host_to_spi[j]
    BY <1>2, <1>4, <2>2, Zenon
  <2>4. card_in = host_to_spi
    BY <1>1, <2>2, <2>3, SeqEqual, Zenon
  <2> QED
    BY <1>5, <2>4 DEF Ordered
<1>6. CASE spi_wide
  <2>1. k = 32
    BY <1>1, <1>3, <1>6, CountRange
  <2>2. Len(card_in) = Len(w) /\ \A j \in 1..Len(card_in) : card_in[j] = w[j]
    BY <1>2, <1>4, <2>1, Zenon
  <2>3. card_in = w
    BY <1>1, <2>2, SeqEqual, Zenon
  <2>4. ASSUME mem_op = "write", mem_addr = "SPI_PUMP"
        PROVE  card_in = mem_write \o High(24)
    <3>1. host_to_spi = mem_write
      BY <2>4 DEF Ordered
    <3> QED
      BY <1>2, <2>3, <3>1, Zenon DEF Outgoing32
  <2>5. ASSUME mem_op = "read", mem_addr = "SPI_PUMP"
        PROVE  card_in = High(32)
    <3>1. host_to_spi = High(8)
      BY <2>5 DEF Ordered
    <3>2. \A j \in 1..8 : host_to_spi[j] = 1
      BY <3>1, HighType
    <3>3. PICK h : h = High(32)
      OBVIOUS
    <3>4. h \in [1..32 -> Bit] /\ \A j \in 1..32 : h[j] = 1
      BY <3>3, HighType
    <3>5. h \in Seq(Bit) /\ Len(h) = 32
      <4>1. h \in [1..32 -> Bit] /\ 32 \in Nat
        BY <3>4
      <4> QED
        BY <4>1, FunctionIsSeq, Zenon
    <3>6. \A j \in 1..32 : w[j] = 1
      <4>1. \A j \in 1..8 : w[j] = 1
        BY <1>2, <3>2, Zenon
      <4>2. \A j \in 9..32 : w[j] = 1
        BY <1>2, Zenon
      <4>3. \A j \in 1..32 : j \in 1..8 \/ j \in 9..32
        OBVIOUS
      <4> QED
        BY <4>1, <4>2, <4>3, Zenon
    <3>7. Len(w) = Len(h) /\ \A j \in 1..Len(w) : w[j] = h[j]
      BY <1>2, <3>4, <3>5, <3>6, Zenon
    <3>8. w = h
      BY <1>2, <3>5, <3>7, SeqEqual, Zenon
    <3> QED
      BY <2>3, <3>3, <3>8, Zenon
  <2>6. ~(mem_op = "write" /\ mem_addr = "SPI")
    BY <1>6 DEF Ordered
  <2> QED
    BY <2>4, <2>5, <2>6
<1> QED
  BY <1>1, <1>5, <1>6

\* The end of a wide exchange: the whole register is the card's.
LEMMA ComeIn ==
  ASSUME SpiShared, Ordered, Shifted(Count), Tailed, mem_op = "read", mem_addr = "SPI_PUMP"
  PROVE  sd_shift = card_out
<1>1. sd_shift \in [1..32 -> Bit] /\ spi_wide \in BOOLEAN /\ card_out \in Seq(Bit)
  BY DEF SpiShared
<1>2. Count = 32
  <2>1. spi_wide
    BY DEF Ordered
  <2> QED
    BY <1>1, <2>1, CountRange
<1>3. Len(card_out) = 32
  <2>1. ~(Count < Count)
    BY <1>2
  <2> QED
    BY <1>2, <2>1, Zenon DEF Shifted
<1>4. \A j \in 1..32 : sd_shift[j] = card_out[j]
  <2>1. PICK n : n = Len(card_out)
    OBVIOUS
  <2>2. \A j \in 1..n : sd_shift[(32 - n) + j] = card_out[j]
    BY <2>1, Zenon DEF Tailed
  <2>3. n = 32
    BY <1>3, <2>1
  <2> QED
    BY <2>2, <2>3
<1>5. sd_shift \in Seq(Bit) /\ Len(sd_shift) = 32
  BY <1>1, FunctionIsSeq
<1>6. Len(sd_shift) = Len(card_out) /\ \A j \in 1..Len(sd_shift) : sd_shift[j] = card_out[j]
  BY <1>3, <1>4, <1>5, Zenon
<1> QED
  BY <1>1, <1>5, <1>6, SeqEqual, Zenon

LEMMA SpiInvExchanged ==
  ASSUME SpiInv
  PROVE  Exchanged
<1>. SUFFICES ASSUME spi_cs = 0, ~mem_busy, mem_op \in {"read", "write"}, SpiRegister
     PROVE  /\ mem_op = "write" /\ mem_addr = "SPI" => card_in = mem_write
            /\ mem_op = "write" /\ mem_addr = "SPI_PUMP" => card_in = mem_write \o High(24)
            /\ mem_op = "read" /\ mem_addr = "SPI_PUMP" => card_in = High(32) /\ mem_read = card_out
            /\ mem_op = "read" => mem_read = sd_shift
            /\ LastBits(sd_shift, Len(card_out)) = card_out
  <2>1. \A op \in {"read", "write"}, reg \in {"SPI", "SPI_PUMP"} :
           Answered(op, reg) => ~mem_busy /\ mem_op = op /\ mem_addr = reg /\ SpiRegister
    BY DEF Answered, SpiRegister
  <2>2. "read" \in {"read", "write"} /\ "write" \in {"read", "write"}
        /\ "SPI" \in {"SPI", "SPI_PUMP"} /\ "SPI_PUMP" \in {"SPI", "SPI_PUMP"}
    OBVIOUS
  <2> QED
    BY <2>1, <2>2, Zenon DEF Exchanged
<1>1. SpiShared /\ Handshake
  BY DEF SpiInv, SpiShared
<1>2. ~SpiWaits
  BY <1>1 DEF Handshake, SpiWaits
<1>3. Settled
  BY <1>2 DEF SpiInv, SpiPhase, Cold, Triggered, Exchanges
<1>4. Tailed /\ sd_shift \in [1..32 -> Bit] /\ card_out \in Seq(Bit) /\ Len(card_out) <= 32
  BY <1>1, <1>3 DEF Settled, SpiShared
<1>5. LastBits(sd_shift, Len(card_out)) = card_out
  BY <1>4, EndOfWord, Zenon DEF Tailed, EndsIn
<1>6. mem_op = "read" => mem_read = sd_shift
  BY <1>1, Zenon DEF SpiShared
<1>7. CASE ~Looks
  <2>1. Ordered /\ Shifted(Count)
    <3>1. mem_op # "none"
      OBVIOUS
    <3> QED
      BY <1>3, <1>7, <3>1, Zenon DEF Settled
  <2> QED
    BY <1>1, <1>4, <1>5, <1>6, <2>1, GoneOut, ComeIn, Zenon
<1>8. CASE Looks
  <2>1. ~(mem_op = "write") /\ ~(mem_addr = "SPI_PUMP")
    BY <1>8 DEF Looks
  <2> QED
    BY <1>5, <1>6, <2>1, Zenon
<1> QED
  BY <1>7, <1>8

-----------------------------------------------------------------------------
(***************************************************************************)
(* The types.  Every register keeps its width, with the divisor as it is.      *)
(***************************************************************************)
\* A shift register keeps its length.
LEMMA ShiftType ==
  ASSUME NEW n \in Nat, n > 0, NEW s \in [1..n -> Bit], NEW b \in Bit
  PROVE  Append(Tail(s), b) \in [1..n -> Bit]
<1>1. s \in Seq(Bit) /\ Len(s) = n /\ Len(s) > 0
  <2>1. s \in Seq(Bit) /\ Len(s) = n
    BY FunctionIsSeq
  <2> QED
    BY <2>1
<1>2. PICK w \in Seq(Bit) :
         /\ Append(Tail(s), b) = w /\ Len(w) = Len(s)
         /\ \A i \in 1..Len(s) : w[i] = IF i < Len(s) THEN s[i + 1] ELSE b
  BY <1>1, ShiftBits, Zenon
<1>3. Len(w) = n
  BY <1>1, <1>2, Zenon
<1>4. w \in [1..Len(w) -> Bit]
  BY SeqIsFunction
<1> QED
  BY <1>2, <1>3, <1>4, Zenon

\* The transmitter.
TxTypes ==
  /\ txclock \in Bit /\ txcounter \in 0..ser_clock_divisor /\ txstate \in {"idle", "bits"}
  /\ txbuffer \in [1..18 -> Bit] /\ txd \in Bit

LEMMA TxTypesStep ==
  ASSUME TxTypes, Transmit, ser_clock_divisor' = ser_clock_divisor, ser_clock_divisor \in Nat,
         ser_txdata \in Character
  PROVE  TxTypes'
<1>1. 0 \in Bit /\ 1 \in Bit
  BY DEF Bit
<1>2. txclock' \in Bit /\ txcounter' \in 0..ser_clock_divisor'
  BY <1>1 DEF Transmit, TxClock, TxTypes
<1>3. CASE TxIdle
  <2>1. txstate' \in {"idle", "bits"} /\ txd' \in Bit
    BY <1>1, <1>3, Zenon DEF TxIdle, TxTypes
  <2>2. txbuffer' \in [1..18 -> Bit]
    <3>1. txbuffer' = txbuffer \/ txbuffer' = ser_txdata \o Ones(9) \o <<0>>
      BY <1>3, Zenon DEF TxIdle
    <3>2. ser_txdata \o Ones(9) \o <<0>> = Left(ser_txdata, 0)
      BY LeftBegins
    <3>3. 0 \in 0..9
      OBVIOUS
    <3>4. Left(ser_txdata, 0) \in [1..18 -> Bit]
      BY <3>3, LeftType, Zenon
    <3> QED
      BY <3>1, <3>2, <3>4, Zenon DEF TxTypes
  <2> QED
    BY <1>2, <2>1, <2>2, Zenon DEF TxTypes
<1>4. CASE TxBits
  <2>1. txstate' \in {"idle", "bits"}
    BY <1>4, Zenon DEF TxBits, TxTypes
  <2>2. txd' \in Bit
    <3>1. txd' = txd \/ txd' = txbuffer[1]
      BY <1>4, Zenon DEF TxBits
    <3> QED
      BY <3>1 DEF TxTypes
  <2>3. txbuffer' \in [1..18 -> Bit]
    <3>1. txbuffer' = txbuffer \/ txbuffer' = Append(Tail(txbuffer), 0)
      BY <1>4, Zenon DEF TxBits
    <3>2. 18 \in Nat /\ 18 > 0
      OBVIOUS
    <3>3. txbuffer \in [1..18 -> Bit]
      BY DEF TxTypes
    <3>4. Append(Tail(txbuffer), 0) \in [1..18 -> Bit]
      BY <1>1, <3>2, <3>3, ShiftType, Zenon
    <3> QED
      BY <3>1, <3>3, <3>4, Zenon
  <2> QED
    BY <1>2, <2>1, <2>2, <2>3, Zenon DEF TxTypes
<1> QED
  BY <1>3, <1>4 DEF Transmit

\* The remote sender and the receiver.
RxTypes ==
  /\ {rxd, rxd_sync, rxd_sync2, rxclock} \subseteq Bit
  /\ rxcounter \in 0..ser_clock_divisor /\ rxstate \in {"idle", "start", "bits", "stop"}
  /\ rxbuffer \in [1..9 -> Bit] /\ ser_rxdata \in Character
  /\ wire \in Seq(Bit) /\ Len(wire) <= 10

LEMMA RemoteTypes ==
  ASSUME RemoteEdge, program \in Programs, wire \in Seq(Bit), Len(wire) <= 10
  PROVE  rxd' \in Bit /\ wire' \in Seq(Bit) /\ Len(wire') <= 10
<1>1. 0 \in Bit /\ 1 \in Bit /\ << >> \in Seq(Bit) /\ Len(<< >>) = 0
  BY EmptySeq DEF Bit
<1>2. CASE Quiet
  <2>1. Len(<< >>) <= 10
    BY <1>1
  <2> QED
    BY <1>1, <1>2, <2>1, Zenon DEF Quiet
<1>3. ASSUME NEW c \in program.arriving, Begin(c)
      PROVE  rxd' \in Bit /\ wire' \in Seq(Bit) /\ Len(wire') <= 10
  <2>1. c \in Character
    BY <1>3, ProgramAssumption
  <2>2. PICK w \in Seq(Bit) : Whole(c) = w /\ Len(w) = 10
    BY <2>1, WholeBits, Zenon
  <2>3. wire' = w /\ rxd' = 0
    BY <1>3, <2>2, Zenon DEF Begin, Whole
  <2>4. Len(w) <= 10
    BY <2>2
  <2> QED
    BY <1>1, <2>3, <2>4, Zenon
<1>4. CASE Send
  <2>1. rxd' = wire'[1] /\ ~LineFree /\ (wire' = IF wire_left = 0 THEN Tail(wire) ELSE wire)
    BY <1>4, Zenon DEF Send
  <2>2. Len(wire) \in Nat /\ Len(wire) # 0
    BY <2>1, EmptySeq, LenProperties DEF LineFree
  <2>3. CASE wire_left = 0
    <3>1. Len(wire) > 1
      <4>1. Len(wire) # 1
        BY <2>1, <2>3, Zenon DEF LineFree
      <4>2. PICK n \in Nat : n = Len(wire)
        BY <2>2
      <4>3. n > 1
        BY <2>2, <4>1, <4>2
      <4> QED
        BY <4>2, <4>3, Zenon
    <3>2. Len(wire) > 0
      BY <3>1, <2>2
    <3>3. PICK w \in Seq(Bit) : Tail(wire) = w /\ Len(w) = Len(wire) - 1
      BY <3>2, TailBits, Zenon
    <3>4. Len(w) <= 10 /\ 1 \in 1..Len(w)
      BY <2>2, <3>1, <3>3
    <3>5. w[1] \in Bit
      BY <3>4, ElementOfSeq
    <3> QED
      BY <2>1, <2>3, <3>3, <3>4, <3>5, Zenon
  <2>4. CASE wire_left # 0
    <3>1. 1 \in 1..Len(wire)
      BY <2>2
    <3>2. wire[1] \in Bit
      BY <3>1, ElementOfSeq
    <3> QED
      BY <2>1, <2>4, <3>2, Zenon
  <2> QED
    BY <2>3, <2>4
<1> QED
  BY <1>2, <1>3, <1>4, Zenon DEF RemoteEdge

LEMMA ReceiverTypes ==
  ASSUME Receive, ser_clock_divisor \in Nat, RxTypes
  PROVE  /\ rxd_sync' \in Bit /\ rxd_sync2' \in Bit /\ rxclock' \in Bit
         /\ rxcounter' \in 0..ser_clock_divisor /\ rxstate' \in {"idle", "start", "bits", "stop"}
         /\ rxbuffer' \in [1..9 -> Bit] /\ ser_rxdata' \in Character
<1>1. 0 \in Bit /\ 1 \in Bit
  BY DEF Bit
<1>2. rxd_sync' \in Bit /\ rxd_sync2' \in Bit /\ rxclock' \in Bit
  BY <1>1 DEF Receive, RxClock, RxTypes
<1>3. rxcounter' \in 0..ser_clock_divisor
  <2>1. RxClock
    BY DEF Receive
  <2>2. rxd_sync = 0 \/ rxd_sync = 1
    BY DEF RxTypes, Bit
  <2>3. \/ rxcounter' = HalfBit
        \/ rxcounter' = rxcounter
        \/ rxcounter' = ser_clock_divisor
        \/ rxcounter # 0 /\ rxcounter' = rxcounter - 1
    <3>1. CASE rxstate = "idle" /\ rxd_sync = 0
      <4>1. ~(rxstate # "idle") /\ ~(rxd_sync = 1)
        BY <3>1
      <4> QED
        BY <2>1, <3>1, <4>1, Zenon DEF RxClock
    <3>2. CASE rxstate = "idle" /\ rxd_sync = 1
      <4>1. ~(rxstate # "idle") /\ ~(rxd_sync = 0)
        BY <3>2
      <4> QED
        BY <2>1, <3>2, <4>1, Zenon DEF RxClock
    <3>3. CASE rxstate # "idle"
      BY <2>1, <3>3, Zenon DEF RxClock
    <3> QED
      BY <2>2, <3>1, <3>2, <3>3
  <2> QED
    BY <2>3 DEF HalfBit, RxTypes
<1>4. rxstate' \in {"idle", "start", "bits", "stop"}
  BY Zenon DEF Receive, RxIdle, RxStart, RxBits, RxStop
<1>5. rxbuffer' \in [1..9 -> Bit]
  <2>1. rxbuffer' = rxbuffer \/ rxbuffer' = Marker \/ rxbuffer' = Append(Tail(rxbuffer), rxd_sync)
    BY Zenon DEF Receive, RxIdle, RxStart, RxBits, RxStop
  <2>2. Marker \in [1..9 -> Bit]
    BY DEF Marker, Bit
  <2>3. 9 \in Nat /\ 9 > 0
    OBVIOUS
  <2>4. rxbuffer \in [1..9 -> Bit] /\ rxd_sync \in Bit
    BY DEF RxTypes
  <2>5. Append(Tail(rxbuffer), rxd_sync) \in [1..9 -> Bit]
    BY <2>3, <2>4, ShiftType, Zenon
  <2> QED
    BY <2>1, <2>2, <2>4, <2>5, Zenon
<1>6. ser_rxdata' \in Character
  <2>1. ser_rxdata' = ser_rxdata \/ ser_rxdata' = Tail(rxbuffer)
    BY Zenon DEF Receive, RxIdle, RxStart, RxBits, RxStop
  <2>2. rxbuffer \in [1..9 -> Bit] /\ 9 \in Nat
    BY DEF RxTypes
  <2>3. rxbuffer \in Seq(Bit) /\ Len(rxbuffer) = 9
    BY <2>2, FunctionIsSeq, Zenon
  <2>4. Len(rxbuffer) > 0
    BY <2>3
  <2>5. PICK w \in Seq(Bit) : Tail(rxbuffer) = w /\ Len(w) = Len(rxbuffer) - 1
    BY <2>3, <2>4, TailBits, Zenon
  <2>6. Len(w) = 8
    BY <2>3, <2>5
  <2>7. w \in [1..Len(w) -> Bit]
    BY SeqIsFunction
  <2>8. w \in Character
    BY <2>6, <2>7 DEF Character
  <2> QED
    BY <2>1, <2>5, <2>8, Zenon DEF RxTypes
<1> QED
  BY <1>2, <1>3, <1>4, <1>5, <1>6, Zenon

LEMMA RxTypesStep ==
  ASSUME RxTypes, Receive, RemoteEdge, program \in Programs, ser_clock_divisor' = ser_clock_divisor,
         ser_clock_divisor \in Nat
  PROVE  RxTypes'
<1>1. rxd' \in Bit /\ wire' \in Seq(Bit) /\ Len(wire') <= 10
  BY RemoteTypes DEF RxTypes
<1>2. /\ rxd_sync' \in Bit /\ rxd_sync2' \in Bit /\ rxclock' \in Bit
      /\ rxcounter' \in 0..ser_clock_divisor' /\ rxstate' \in {"idle", "start", "bits", "stop"}
      /\ rxbuffer' \in [1..9 -> Bit] /\ ser_rxdata' \in Character
  BY ReceiverTypes, Zenon
<1>3. {rxd', rxd_sync', rxd_sync2', rxclock'} \subseteq Bit
  BY <1>1, <1>2
<1> QED
  BY <1>1, <1>2, <1>3, Zenon DEF RxTypes

\* The listener.
LEMMA HeardStep ==
  ASSUME ListenerEdge, heard \in Seq(Bit), Len(heard) <= 10, txd \in Bit
  PROVE  heard' \in Seq(Bit) /\ Len(heard') <= 10
<1>1. \/ heard' = << >> \/ heard' = heard
      \/ Len(heard) < 10 /\ heard' = Append(heard, txd)
  <2>1. CASE ear = 0
    <3>1. ~(ear > 0)
      BY <2>1
    <3> QED
      BY <2>1, <3>1, Zenon DEF ListenerEdge
  <2>2. CASE ear # 0 /\ ear > 0 /\ ear % (ser_clock_divisor + 1) = ser_clock_divisor \div 2 /\ Len(heard) < 10
    BY <2>2, Zenon DEF ListenerEdge
  <2>3. CASE ear # 0 /\ ~(ear > 0 /\ ear % (ser_clock_divisor + 1) = ser_clock_divisor \div 2 /\ Len(heard) < 10)
    BY <2>3, Zenon DEF ListenerEdge
  <2> QED
    BY <2>1, <2>2, <2>3, Zenon
<1>2. << >> \in Seq(Bit) /\ Len(<< >>) <= 10
  BY EmptySeq
<1>3. PICK w \in Seq(Bit) : Append(heard, txd) = w /\ Len(w) = Len(heard) + 1
  BY AppendBits, Zenon
<1>4. Len(heard) < 10 => Len(w) <= 10
  <2>1. Len(heard) \in Nat
    BY LenProperties
  <2> QED
    BY <1>3, <2>1
<1> QED
  BY <1>1, <1>2, <1>3, <1>4, Zenon

\* The bus.
BusStates == {"WAITING", "VGAWRITE", "WAITSPIW", "WAITSPIR", "WAITLCD"}

BusTypes ==
  /\ currentstate \in BusStates /\ {vga_reg_req, vga_reg_dtack, spi_fast} \subseteq BOOLEAN
  /\ cpu_to_lcd_cs \in Bit /\ mem_op \in {"none", "read", "write"} /\ mem_addr \in Register
  /\ cpu_to_lcd \in LcdWord /\ {cpu_to_lcd_cmd, cpu_to_lcd_rw} \subseteq BOOLEAN

\* What an edge of the bus puts into the registers that are not the UART's or the SPI host's.
BusPuts ==
  /\ currentstate' = currentstate \/ currentstate' \in BusStates
  /\ cpu_to_lcd_cs' = cpu_to_lcd_cs
     \/ (mem_op = "write" /\ mem_addr = "CS" /\ mem_strobe /\ cpu_to_lcd_cs' = 1 - mem_write[1])
  /\ spi_fast' = spi_fast \/ spi_fast' = (mem_write[3] = 1)
  /\ cpu_to_lcd' = cpu_to_lcd
     \/ (mem_op = "write" /\ mem_addr = "LCD" /\ mem_strobe /\ cpu_to_lcd' = Tail(mem_write))
  /\ cpu_to_lcd_cmd' = cpu_to_lcd_cmd \/ cpu_to_lcd_cmd' = TRUE \/ cpu_to_lcd_cmd' = (mem_write[1] = 1)
  /\ cpu_to_lcd_rw' = cpu_to_lcd_rw \/ cpu_to_lcd_rw' = TRUE \/ cpu_to_lcd_rw' = FALSE
  /\ vga_reg_req' = TRUE \/ vga_reg_req' = FALSE

LEMMA BusTypeSteps ==
  ASSUME BusEdge
  PROVE  BusPuts
<1>1. /\ "WAITING" \in BusStates /\ "VGAWRITE" \in BusStates /\ "WAITSPIW" \in BusStates
      /\ "WAITSPIR" \in BusStates /\ "WAITLCD" \in BusStates
  BY DEF BusStates
<1>2. CASE WriteUart \/ WriteDivisor \/ WriteVga \/ \E reg \in {"SPI", "SPI_PUMP"} : WriteSpi(reg)
  BY <1>1, <1>2 DEF WriteUart, WriteDivisor, WriteVga, WriteSpi, NoUart, NoSpi, NoLcd, NoVga, NoSelect,
                           Release, Block, BusPuts
<1>3. CASE WriteSelect
  BY <1>1, <1>3 DEF WriteSelect, Strobe, NoLcd, NoVga, Release, BusPuts
<1>4. CASE WriteLcd
  BY <1>1, <1>4 DEF WriteLcd, Strobe, NoVga, NoSelect, Block, BusPuts
<1>5. CASE NoStrobe \/ ReadUart \/ ReadBusy \/ OtherRegister
  BY <1>1, <1>5 DEF NoStrobe, ReadUart, ReadBusy, OtherRegister, NoPeripheral, NoLcd, NoVga, NoSelect,
                           Release, Block, BusPuts
<1>6. CASE ReadSpi \/ ReadPump \/ ReadLcd
  BY <1>1, <1>6 DEF ReadSpi, ReadPump, ReadLcd, NoLcd, NoVga, NoSelect, Block, BusPuts
<1>7. CASE VgaWrite \/ WaitSpiW \/ WaitSpiR \/ WaitLcd
  BY <1>1, <1>7 DEF VgaWrite, WaitSpiW, WaitSpiR, WaitLcd, NoPeripheral, NoLcd, NoVga, NoSelect,
                           ReleaseWhen, Release, Block, BusPuts
<1> QED
  BY <1>2, <1>3, <1>4, <1>5, <1>6, <1>7, Zenon DEF BusEdge

Framed(cmd, w) == <<cmd>> \o w

LEMMA FramedWords == Writable("LCD") = {Framed(cmd, w) : cmd \in Bit, w \in LcdWord}
BY DEF Writable, Framed

\* A word the bus takes out of what the CPU writes.
LEMMA LcdWordWritten ==
  ASSUME Issued, mem_op = "write", mem_addr = "LCD"
  PROVE  Tail(mem_write) \in LcdWord
<1>1. PICK reg \in Register : mem_addr = reg /\ mem_write \in Writable(reg)
  BY DEF Issued
<1>2. PICK cmd \in Bit, w \in LcdWord : mem_write = Framed(cmd, w)
  <2>1. mem_write \in Writable("LCD")
    BY <1>1
  <2>2. mem_write \in {Framed(cmd, w) : cmd \in Bit, w \in LcdWord}
    BY <2>1, FramedWords
  <2> QED
    BY <2>2
<1>3. w \in Seq(Bit)
  BY DataAssumption
<1>4. PICK first : first = <<cmd>>
  OBVIOUS
<1>5. first \in Seq(Bit) /\ Len(first) = 1
  BY <1>4
<1>6. PICK s \in Seq(Bit) :
         /\ first \o w = s /\ Len(s) = Len(first) + Len(w)
         /\ \A i \in 1..(Len(first) + Len(w)) : s[i] = IF i <= Len(first) THEN first[i] ELSE w[i - Len(first)]
  BY <1>3, <1>5, ConcatBits, Zenon
<1>7. PICK n \in Nat : n = Len(w)
  BY <1>3, LenProperties
<1>8. Len(s) = n + 1 /\ \A i \in 2..(n + 1) : s[i] = w[i - 1]
  <2>1. Len(s) = 1 + n /\ \A i \in 1..(1 + n) : s[i] = IF i <= 1 THEN first[i] ELSE w[i - 1]
    BY <1>5, <1>6, <1>7, Zenon
  <2> QED
    BY <2>1
<1>9. Len(s) > 0
  BY <1>8
<1>10. PICK t \in Seq(Bit) :
          /\ Tail(s) = t /\ Len(t) = Len(s) - 1
          /\ \A i \in 1..(Len(s) - 1) : t[i] = s[i + 1]
  BY <1>9, TailBits, Zenon
<1>11. Len(t) = n /\ \A i \in 1..n : t[i] = w[i]
  <2>1. Len(t) = (n + 1) - 1 /\ \A i \in 1..((n + 1) - 1) : t[i] = s[i + 1]
    BY <1>8, <1>10, Zenon
  <2>2. \A i \in 1..n : i + 1 \in 2..(n + 1) /\ (i + 1) - 1 = i
    OBVIOUS
  <2>3. (n + 1) - 1 = n
    OBVIOUS
  <2> QED
    BY <1>8, <2>1, <2>2, <2>3, Zenon
<1>12. t = w
  <2>1. Len(t) = Len(w) /\ \A i \in 1..Len(t) : t[i] = w[i]
    BY <1>7, <1>11, Zenon
  <2> QED
    BY <1>3, <2>1, SeqEqual, Zenon
<1> QED
  BY <1>2, <1>4, <1>6, <1>10, <1>12, Zenon DEF Framed

\* What the CPU asks for.
LEMMA AskedTypes ==
  ASSUME CpuEdge, program \in Programs, mem_op \in {"none", "read", "write"}, mem_addr \in Register
  PROVE  mem_op' \in {"none", "read", "write"} /\ mem_addr' \in Register
<1>1. ASSUME NEW a \in program.accesses, Issue(a[1], a[2])
      PROVE  mem_op' \in {"none", "read", "write"} /\ mem_addr' \in Register
  <2>1. a[1] \in {"read", "write"} /\ a[2] \in Register
    BY <1>1, ProgramAssumption
  <2> QED
    BY <1>1, <2>1 DEF Issue
<1>2. CASE Await \/ Continue \/ Compute
  BY <1>2 DEF Await, Continue, Compute, cpuRegs, Register
<1> QED
  BY <1>1, <1>2, Zenon DEF CpuEdge

LEMMA BusTypesStep ==
  ASSUME BusTypes, Issued, BusEdge, CpuEdge
  PROVE  BusTypes'
<1>1. BusPuts
  BY BusTypeSteps
<1>2. currentstate' \in BusStates
  BY <1>1, Zenon DEF BusPuts, BusTypes
<1>3. vga_reg_req' \in BOOLEAN /\ vga_reg_dtack' \in BOOLEAN
  <2>1. vga_reg_req' = TRUE \/ vga_reg_req' = FALSE
    BY <1>1, Zenon DEF BusPuts
  <2>2. (~vga_reg_req) \in BOOLEAN
    OBVIOUS
  <2>3. vga_reg_dtack' = ~vga_reg_req
    BY Zenon DEF BusEdge, VgaDtack
  <2> QED
    BY <2>1, <2>2, <2>3, Zenon
<1>4. spi_fast' \in BOOLEAN
  <2>1. (mem_write[3] = 1) \in BOOLEAN
    OBVIOUS
  <2>2. spi_fast \in BOOLEAN
    BY DEF BusTypes
  <2> QED
    BY <1>1, <2>1, <2>2, Zenon DEF BusPuts
<1>5. cpu_to_lcd_cs' \in Bit
  <2>1. ASSUME mem_op = "write", mem_addr = "CS", cpu_to_lcd_cs' = 1 - mem_write[1]
        PROVE  cpu_to_lcd_cs' \in Bit
    <3>1. mem_write \in [1..3 -> Bit]
      BY <2>1, SpiWritten
    <3>2. mem_write[1] \in Bit
      BY <3>1
    <3> QED
      BY <2>1, <3>2 DEF Bit
  <2> QED
    BY <1>1, <2>1, Zenon DEF BusPuts, BusTypes
<1>6. mem_op' \in {"none", "read", "write"} /\ mem_addr' \in Register
  BY AskedTypes DEF BusTypes, Issued
<1>7. cpu_to_lcd' \in LcdWord
  BY <1>1, LcdWordWritten, Zenon DEF BusPuts, BusTypes
<1>8. cpu_to_lcd_cmd' \in BOOLEAN /\ cpu_to_lcd_rw' \in BOOLEAN
  <2>1. (mem_write[1] = 1) \in BOOLEAN /\ TRUE \in BOOLEAN /\ FALSE \in BOOLEAN
    OBVIOUS
  <2>2. cpu_to_lcd_cmd \in BOOLEAN /\ cpu_to_lcd_rw \in BOOLEAN
    BY DEF BusTypes
  <2> QED
    BY <1>1, <2>1, <2>2, Zenon DEF BusPuts
<1> QED
  BY <1>2, <1>3, <1>4, <1>5, <1>6, <1>7, <1>8 DEF BusTypes

\* The SPI host's tick.
TickTypes == spi_tick \in 0..SlowTick /\ spiclk_in \in BOOLEAN

LEMMA TickTypesStep ==
  ASSUME TickTypes, SpiTick
  PROVE  TickTypes'
<1>1. PICK pulse : /\ pulse \in BOOLEAN /\ spiclk_in' = pulse /\ (spi_tick >= SlowTick => pulse)
                   /\ spi_tick' = IF pulse THEN 0 ELSE spi_tick + 1
  BY Zenon DEF SpiTick
<1>2. pulse => spi_tick' = 0
  BY <1>1
<1>3. ~pulse => spi_tick' = spi_tick + 1 /\ ~(spi_tick >= SlowTick)
  BY <1>1
<1>4. SlowTick \in Nat /\ spi_tick \in 0..SlowTick
  BY TickAssumption DEF TickTypes
<1>5. spi_tick' \in 0..SlowTick
  BY <1>2, <1>3, <1>4
<1> QED
  BY <1>1, <1>5, Zenon DEF TickTypes

\* The bridge and the panel.
LcdTypes ==
  /\ lcdstate \in {"idle", "waiting", "wr1", "wr2", "wr3", "rd1", "rd2"}
  /\ nextstate \in {"idle", "wr1", "wr2", "wr3", "rd1", "rd2"} /\ delay \in 0..8
  /\ cpu_from_lcd \in LcdWord /\ lcd_data_in \in LcdWord /\ panel_word \in LcdWord
  /\ lcd_rs \in BOOLEAN

LEMMA LcdTypesStep ==
  ASSUME LcdTypes, BusTypes, LcdEdge, PanelEdge
  PROVE  LcdTypes'
<1>1. lcdstate' \in {"idle", "waiting", "wr1", "wr2", "wr3", "rd1", "rd2"}
  BY DEF LcdEdge, LcdTypes
<1>2. nextstate' \in {"idle", "wr1", "wr2", "wr3", "rd1", "rd2"} /\ delay' \in 0..8
  BY DEF LcdEdge, Idle, BeginRead, BeginWrite, Rd1, Rd2, Wr1, Wr2, Wr3, Waiting, Then, LcdTypes
<1>3. cpu_from_lcd' \in LcdWord
  BY Zenon DEF LcdEdge, Idle, BeginRead, BeginWrite, Rd1, Rd2, Wr1, Wr2, Wr3, Waiting, LcdTypes
<1>4. lcd_rs' \in BOOLEAN
  <2>1. lcd_rs' = lcd_rs \/ lcd_rs' = cpu_to_lcd_cmd
    BY Zenon DEF LcdEdge, Idle, BeginRead, BeginWrite, Rd1, Rd2, Wr1, Wr2, Wr3, Waiting
  <2>2. lcd_rs \in BOOLEAN /\ cpu_to_lcd_cmd \in BOOLEAN
    BY DEF LcdTypes, BusTypes
  <2> QED
    BY <2>1, <2>2
<1>5. panel_word' \in LcdWord
  BY DEF PanelEdge, PanelRead, PanelHolds, LcdTypes
<1>6. lcd_data_in' \in LcdWord
  <2>1. CASE panel_low' = AccessTime
    <3>1. ~(panel_low' < AccessTime)
      BY <2>1, PartnerAssumption
    <3>2. lcd_data_in' = panel_word'
      BY <2>1, <3>1 DEF PanelEdge
    <3> QED
      BY <1>5, <3>2
  <2>2. CASE panel_low' # AccessTime /\ panel_low' < AccessTime /\ ~(lcd_rd /\ lcd_rd')
    BY <2>2, Zenon DEF PanelEdge
  <2>3. CASE panel_low' # AccessTime /\ ~(panel_low' < AccessTime /\ ~(lcd_rd /\ lcd_rd'))
    <3>1. lcd_data_in' \in {lcd_data_in}
      BY <2>3, Zenon DEF PanelEdge
    <3> QED
      BY <3>1 DEF LcdTypes
  <2> QED
    BY <2>1, <2>2, <2>3
<1> QED
  BY <1>1, <1>2, <1>3, <1>4, <1>5, <1>6, Zenon DEF LcdTypes

Types ==
  /\ TxTypes /\ RxTypes /\ BusTypes /\ TickTypes /\ LcdTypes
  /\ heard \in Seq(Bit) /\ Len(heard) <= 10

LEMMA TypesStep ==
  ASSUME Types, Divided, Issued, DivisorKept, [Next]_vars
  PROVE  Types'
<1>1. ser_clock_divisor' = ser_clock_divisor /\ ser_clock_divisor \in Nat /\ ser_txdata \in Character
  BY DividedStep, DivisorRange DEF Divided
<1>2. CASE Next
  <2>1. /\ CpuEdge /\ BusEdge /\ Receive /\ Transmit /\ SpiTick /\ LcdEdge
        /\ RemoteEdge /\ ListenerEdge /\ PanelEdge
    BY <1>2, Zenon DEF Next, UartEdge, SpiEdge
  <2>2. TxTypes /\ RxTypes /\ BusTypes /\ TickTypes /\ LcdTypes /\ program \in Programs
    BY Zenon DEF Types, Issued
  <2>3. TxTypes'
    BY <1>1, <2>1, <2>2, TxTypesStep
  <2>4. RxTypes'
    BY <1>1, <2>1, <2>2, RxTypesStep
  <2>5. BusTypes'
    BY <2>1, <2>2, BusTypesStep
  <2>6. TickTypes'
    BY <2>1, <2>2, TickTypesStep
  <2>7. LcdTypes'
    BY <2>1, <2>2, LcdTypesStep
  <2>8. heard' \in Seq(Bit) /\ Len(heard') <= 10
    BY <2>1, <2>2, HeardStep, Zenon DEF Types, TxTypes
  <2> QED
    BY <2>3, <2>4, <2>5, <2>6, <2>7, <2>8, Zenon DEF Types
<1>3. CASE UNCHANGED vars
  <2>1. /\ UNCHANGED <<txclock, txcounter, ser_clock_divisor, txstate, txbuffer, txd, heard>>
        /\ UNCHANGED <<rxd, rxd_sync, rxd_sync2, rxclock, rxcounter, rxstate, rxbuffer, ser_rxdata, wire>>
        /\ UNCHANGED <<currentstate, vga_reg_req, vga_reg_dtack, spi_fast, cpu_to_lcd_cs, mem_op, mem_addr>>
        /\ UNCHANGED <<cpu_to_lcd, cpu_to_lcd_cmd, cpu_to_lcd_rw, spi_tick, spiclk_in>>
        /\ UNCHANGED <<lcdstate, nextstate, delay, cpu_from_lcd, lcd_data_in, panel_word, lcd_rs>>
    BY <1>3, Zenon DEF vars, txRegs, rxRegs, cpuRegs, spiRegs, lcdRegs, remoteVars, panelVars
  <2>2. TxTypes' /\ RxTypes'
    BY <2>1, Zenon DEF Types, TxTypes, RxTypes
  <2>3. BusTypes' /\ TickTypes' /\ LcdTypes'
    BY <2>1, Zenon DEF Types, BusTypes, TickTypes, LcdTypes
  <2> QED
    BY <2>1, <2>2, <2>3, Zenon DEF Types
<1> QED
  BY <1>2, <1>3

LEMMA TypesAlways ==
  ASSUME DivisorKept
  PROVE  Spec => []Types
<1>1. Init => Types
  <2>. SUFFICES ASSUME Init PROVE Types
    OBVIOUS
  <2>1. program \in Programs /\ ser_clock_divisor = program.divisor /\ lcd_data_in \in LcdWord
    BY DEF Init
  <2>2. program.leftover \subseteq BOOLEAN /\ ser_clock_divisor \in Nat
    BY <2>1, ProgramAssumption, DivisorAssumption
  <2>3. TxTypes
    <3>1. 18 \in Nat
      OBVIOUS
    <3>2. txbuffer \in [1..18 -> Bit]
      BY <3>1, OnesType DEF Init, UartInit
    <3>3. txclock = 0 /\ txcounter = ser_clock_divisor /\ txstate = "idle" /\ txd = 1
      BY DEF Init, UartInit
    <3> QED
      BY <2>2, <3>2, <3>3 DEF TxTypes, Bit
  <2>4. RxTypes
    <3>1. /\ rxd = 1 /\ rxd_sync = 1 /\ rxd_sync2 = 1 /\ rxclock = 0 /\ rxcounter = 0 /\ rxstate = "idle"
          /\ rxbuffer = Marker /\ ser_rxdata = Ones(8) /\ wire = << >>
      BY DEF Init, UartInit
    <3>2. rxbuffer \in [1..9 -> Bit]
      BY <3>1 DEF Marker, Bit
    <3>3. ser_rxdata \in Character
      BY <3>1, OnesType DEF Character
    <3>4. wire \in Seq(Bit) /\ Len(wire) <= 10
      BY <3>1, EmptySeq
    <3>5. {rxd, rxd_sync, rxd_sync2, rxclock} \subseteq Bit /\ rxcounter \in 0..ser_clock_divisor
      BY <2>2, <3>1 DEF Bit
    <3> QED
      BY <3>1, <3>2, <3>3, <3>4, <3>5 DEF RxTypes
  <2>5. BusTypes
    <3>1. /\ currentstate = "WAITING" /\ vga_reg_req = FALSE /\ vga_reg_dtack = TRUE
          /\ mem_op = "none" /\ mem_addr = "OTHER" /\ cpu_to_lcd_cmd = TRUE /\ cpu_to_lcd_rw = TRUE
          /\ cpu_to_lcd = cpu_from_lcd /\ cpu_from_lcd = lcd_data_in
      BY DEF Init, BusInit, LcdInit
    <3>2. spi_fast \in BOOLEAN
      BY <2>2 DEF Init, BusInit
    <3>3. cpu_to_lcd_cs \in Bit
      BY DEF Init, BusInit, BitOf, Bit
    <3>4. vga_reg_req \in BOOLEAN /\ vga_reg_dtack \in BOOLEAN /\ cpu_to_lcd_cmd \in BOOLEAN
          /\ cpu_to_lcd_rw \in BOOLEAN
      BY <3>1
    <3>5. currentstate \in BusStates /\ mem_op \in {"none", "read", "write"} /\ mem_addr \in Register
      BY <3>1 DEF BusStates, Register
    <3>6. cpu_to_lcd \in LcdWord
      BY <2>1, <3>1
    <3> QED
      BY <3>2, <3>3, <3>4, <3>5, <3>6 DEF BusTypes
  <2>6. TickTypes
    <3>1. spi_tick \in 0..FastTick /\ spiclk_in = FALSE
      BY DEF Init, SpiInit
    <3> QED
      <4>1. spi_tick \in 0..SlowTick
        BY <3>1, TickAssumption
      <4>2. spiclk_in \in BOOLEAN
        BY <3>1
      <4> QED
        BY <4>1, <4>2 DEF TickTypes
  <2>7. LcdTypes
    <3>1. /\ lcdstate = "waiting" /\ nextstate = "idle" /\ delay = 0 /\ cpu_from_lcd = lcd_data_in
          /\ panel_word = lcd_data_in /\ lcd_rs = TRUE
      BY DEF Init, LcdInit
    <3>2. lcd_rs \in BOOLEAN
      BY <3>1
    <3> QED
      BY <2>1, <3>1, <3>2 DEF LcdTypes
  <2>8. heard \in Seq(Bit) /\ Len(heard) <= 10
    <3>1. heard = << >>
      BY DEF Init
    <3> QED
      BY <3>1, EmptySeq
  <2> QED
    BY <2>3, <2>4, <2>5, <2>6, <2>7, <2>8, Zenon DEF Types
<1>2. Types /\ Divided /\ Issued /\ [Next]_vars => Types'
  BY TypesStep
<1> QED
  BY <1>1, <1>2, DividedAlways, IssuedAlways, PTL DEF Spec

LEMMA InvariantsType ==
  ASSUME Types, Divided, Issued, Sender, Flag, SpiInv, LcdInv
  PROVE  TypeOK
<1>1. BusTypeOK
  <2>1. {mem_busy, ser_rxrecv, vga_reg_req, vga_reg_dtack, mem_strobe} \subseteq BOOLEAN /\ spi_cs \in Bit
    BY DEF SpiInv, SpiShared, Handshake, Flag, Types, BusTypes
  <2> QED
    BY <2>1, Zenon DEF Types, BusTypes, BusStates, BusTypeOK
<1>2. UartTypeOK
  <2>1. ser_clock_divisor \in Divisors /\ ser_txdata \in Character
    BY ProgramAssumption DEF Divided, Issued
  <2>2. {rxd, rxd_sync, rxd_sync2, rxclock, txclock, txd} \subseteq Bit
    BY DEF Types, TxTypes, RxTypes
  <2>3. {ser_rxint, ser_txready, ser_txgo} \subseteq BOOLEAN
    BY DEF Flag, Sender
  <2> QED
    BY <2>1, <2>2, <2>3, Zenon DEF Types, TxTypes, RxTypes, UartTypeOK
<1>3. SpiTypeOK
  <2>1. {sck, mosi, miso} \subseteq {0, 1} /\ shiftcnt \in 0..31
        /\ sd_shift \in [1..32 -> {0, 1}] /\ host_to_spi \in [1..8 -> {0, 1}]
    BY DEF SpiInv, SpiShared, Bit
  <2>2. {spiclk_in, shifting, spi_wide, spi_trigger, spi_fast} \subseteq BOOLEAN
    BY DEF SpiInv, SpiShared, Types, TickTypes, BusTypes
  <2> QED
    BY <2>1, <2>2, Zenon DEF Types, TickTypes, SpiTypeOK
<1>4. LcdTypeOK
  <2>1. {cpu_to_lcd, cpu_from_lcd, lcd_data_in} \subseteq LcdWord
    BY DEF Types, BusTypes, LcdTypes
  <2>2. {cpu_to_lcd_cmd, cpu_to_lcd_req, cpu_to_lcd_rw, cpu_from_lcd_ack,
         lcd_drive, lcd_wr, lcd_rd, lcd_rs} \subseteq BOOLEAN
    BY DEF Types, BusTypes, LcdTypes, LcdInv, LcdShared
  <2> QED
    BY <2>1, <2>2, Zenon DEF Types, LcdTypes, LcdTypeOK
<1>5. /\ Len(wire) <= 10 /\ unread \in 0..2 /\ Len(heard) <= 10
      /\ Len(card_in) <= 32 /\ Len(card_out) <= 32 /\ panel_low \in 0..AccessTime
  BY Zenon DEF Types, RxTypes, Flag, SpiInv, SpiShared, LcdInv, LcdShared
<1> QED
  BY <1>1, <1>2, <1>3, <1>4, <1>5, Zenon DEF TypeOK

\* When the CPU goes on after an exchange with a selected card, the card has exactly its bits and
\* the host exactly the card's (spi.vhd:45-68), whatever the ticks, the speed and the stream; and
\* every register on the way and of the other peripherals keeps its width, for programs that leave
\* the UART's divisor as they have set it.
THEOREM BitsExchanged ==
  ASSUME DivisorKept
  PROVE  Spec => []SpiExchange
<1>1. Types /\ Divided /\ Issued /\ Sender /\ Flag /\ SpiInv /\ LcdInv => SpiExchange
  <2>. SUFFICES ASSUME Types, Divided, Issued, Sender, Flag, SpiInv, LcdInv PROVE SpiExchange
    OBVIOUS
  <2>1. TypeOK
    BY InvariantsType
  <2>2. Exchanged
    BY SpiInvExchanged
  <2> QED
    BY <2>1, <2>2, Zenon DEF SpiExchange, Exchanged
<1> QED
  BY <1>1, TypesAlways, DividedAlways, IssuedAlways, SenderAlways, FlagAlways, SpiAlways, LcdAlways, PTL

-----------------------------------------------------------------------------
(***************************************************************************)
(* The serial line in.  The sender is t clocks into its frame, and the receiver *)
(* at a place of its own that follows from t, whatever the two widths of a bit.*)
(***************************************************************************)
\* Bit k of the frame of a character.
FrameBit(c, k) == IF k = 0 THEN 0 ELSE IF k = 9 THEN 1 ELSE c[k]

\* What the line carried s clocks into the frame; before it, nothing.
Carried(v, s) ==
  /\ s < 0 => v = 1
  /\ \A k \in 0..9 : k * bit_width <= s /\ s < (k + 1) * bit_width => v = FrameBit(frame, k)

\* The sender is r clocks into bit i.
OnWire(i, r) ==
  /\ Len(wire) = 10 - i /\ wire_left = (bit_width - 1) - r
  /\ \A k \in 1..(10 - i) : wire[k] = FrameBit(frame, (i + k) - 1)
  /\ rxd = FrameBit(frame, i)

\* The tick of bit k is to come, or it is now.
TickAt(k, t) ==
  \/ rxclock = 0 /\ (t + rxcounter) + 1 = (4 + Half) + (k * Period)
  \/ rxclock = 1 /\ rxcounter = ser_clock_divisor /\ t = (4 + Half) + (k * Period)

\* The buffer after n bits of the character.
Gathered(n) ==
  \A j \in 1..9 : rxbuffer[j] = IF j + n < 9 THEN 0 ELSE IF j + n = 9 THEN 1 ELSE frame[(j + n) - 9]

AtRest == rxstate = "idle" /\ rxclock = 0
Follows(t) ==
  \/ AtRest /\ awaited /\ t <= 2
  \/ rxstate = "start" /\ awaited /\ TickAt(0, t)
  \/ \E n \in 0..7 : rxstate = "bits" /\ awaited /\ TickAt(n + 1, t) /\ Gathered(n)
  \/ rxstate = "bits" /\ awaited /\ TickAt(9, t) /\ Gathered(8) /\ rxclock = 0 /\ rxcounter > 0
  \/ rxstate = "stop" /\ awaited /\ TickAt(9, t) /\ Gathered(8)
  \/ AtRest /\ ~awaited /\ (5 + Half) + (9 * Period) <= t

LineQuiet == wire = << >> /\ rxd = 1 /\ rxd_sync2 = 1 /\ rxd_sync = 1 /\ AtRest /\ ~awaited
InFrame(i, r) ==
  /\ program.arriving # {} /\ OnWire(i, r)
  /\ \E t \in {(i * bit_width) + r} :
       Carried(rxd, t) /\ Carried(rxd_sync2, t - 1) /\ Carried(rxd_sync, t - 2) /\ Follows(t)
ReceiveInv ==
  /\ bit_width \in Nat \ {0} /\ (program.arriving # {} => bit_width \in Widths) /\ frame \in Character
  /\ LineQuiet \/ \E i \in 0..9 : \E r \in 0..(bit_width - 1) : InFrame(i, r)

\* The sender's clock counts on, into the next bit where the last is over.
LEMMA InOneBit ==
  ASSUME NEW m \in Nat \ {0}, NEW i \in 0..9, NEW k \in 0..9, NEW r \in 0..(m - 1),
         k * m <= (i * m) + r, (i * m) + r < (k + 1) * m
  PROVE  i = k
<1>1. i \in {0, 1, 2, 3, 4, 5, 6, 7, 8, 9} /\ k \in {0, 1, 2, 3, 4, 5, 6, 7, 8, 9}
  OBVIOUS
<1> QED
  BY <1>1

LEMMA BitsInOrder ==
  ASSUME NEW m \in Nat \ {0}, NEW i \in 0..9, NEW r \in 0..(m - 1)
  PROVE  (i * m) + r \in 0..((10 * m) - 1)
<1>1. i \in {0, 1, 2, 3, 4, 5, 6, 7, 8, 9}
  OBVIOUS
<1> QED
  BY <1>1

\* What is sampled in the middle of a bit is that bit.
LEMMA MiddleOfBit ==
  ASSUME NEW w \in Nat, NEW d \in Nat, NEW h \in Nat, NEW k \in 0..9,
         h + 3 <= w, 9 * w <= (9 * (d + 1)) + h + 2, (9 * (d + 1)) + h + 6 <= 10 * w
  PROVE  k * w <= (2 + h) + (k * (d + 1)) /\ (2 + h) + (k * (d + 1)) < (k + 1) * w
<1>1. k \in {0, 1, 2, 3, 4, 5, 6, 7, 8, 9}
  OBVIOUS
<1> QED
  BY <1>1


\* A character begins.
LEMMA FrameBegins ==
  ASSUME NEW c \in Character, Begin(c), bit_width' = bit_width, bit_width \in Nat \ {0}
  PROVE  OnWire(0, 0)' /\ frame' = c /\ wire' # << >>
<1>1. PICK w \in Seq(Bit) : /\ Whole(c) = w /\ Len(w) = 10 /\ w[1] = 0 /\ w[10] = 1
                            /\ \A k \in 1..8 : w[k + 1] = c[k]
  BY WholeBits, Zenon
<1>2. wire' = w /\ wire_left' = bit_width - 1 /\ rxd' = 0 /\ frame' = c
  BY <1>1, Zenon DEF Begin, Whole
<1>3. \A k \in 1..10 : w[k] = FrameBit(c, k - 1)
  <2>. SUFFICES ASSUME NEW k \in 1..10 PROVE w[k] = FrameBit(c, k - 1)
    OBVIOUS
  <2>1. CASE k = 1 \/ k = 10
    BY <1>1, <2>1 DEF FrameBit
  <2>2. CASE k \in 2..9
    <3>1. w[(k - 1) + 1] = c[k - 1]
      BY <1>1, <2>2
    <3> QED
      BY <2>2, <3>1 DEF FrameBit
  <2> QED
    BY <2>1, <2>2
<1>4. w # << >>
  <2>1. Len(w) = 10
    BY <1>1
  <2> QED
    BY <2>1, EmptySeq
<1>5. Len(w) = 10 - 0 /\ wire_left' = (bit_width' - 1) - 0 /\ rxd' = FrameBit(frame', 0)
  BY <1>1, <1>2 DEF FrameBit
<1>6. \A k \in 1..(10 - 0) : wire'[k] = FrameBit(frame', (0 + k) - 1)
  BY <1>2, <1>3
<1> QED
  BY <1>2, <1>4, <1>5, <1>6, Zenon DEF OnWire

\* A character goes on.
LEMMA FrameGoesOn ==
  ASSUME NEW i \in 0..9, NEW r \in 0..(bit_width - 1), OnWire(i, r), bit_width \in Nat \ {0},
         wire \in Seq(Bit), RemoteEdge, ~(i = 9 /\ r = bit_width - 1)
  PROVE  /\ frame' = frame /\ ~Begins
         /\ \E j \in 0..9 : \E q \in 0..(bit_width - 1) :
              OnWire(j, q)' /\ (j * bit_width) + q = ((i * bit_width) + r) + 1
<1>1. /\ Len(wire) = 10 - i /\ wire_left = (bit_width - 1) - r
      /\ \A k \in 1..(10 - i) : wire[k] = FrameBit(frame, (i + k) - 1)
  BY DEF OnWire
<1>2. ~LineFree
  <2>1. wire # << >>
    BY <1>1, EmptySeq
  <2>2. ~(Len(wire) = 1 /\ wire_left = 0)
    BY <1>1
  <2> QED
    BY <2>1, <2>2 DEF LineFree
<1>3. bit_width' = bit_width
  BY DEF RemoteEdge
<1>4. Send
  BY <1>2, Zenon DEF RemoteEdge, Quiet, Begin
<1>5. /\ wire' = (IF wire_left = 0 THEN Tail(wire) ELSE wire)
      /\ wire_left' = (IF wire_left = 0 THEN bit_width - 1 ELSE wire_left - 1)
      /\ rxd' = wire'[1] /\ frame' = frame
  BY <1>4, Zenon DEF Send
<1>6. CASE r = bit_width - 1
  <2>1. i # 9 /\ i + 1 \in 0..9 /\ Len(wire) > 0 /\ wire_left = 0
    BY <1>1, <1>6
  <2>2. PICK w \in Seq(Bit) : /\ Tail(wire) = w /\ Len(w) = Len(wire) - 1
                              /\ \A k \in 1..(Len(wire) - 1) : w[k] = wire[k + 1]
    BY <2>1, TailBits, Zenon
  <2>3. wire' = w /\ wire_left' = (bit_width' - 1) - 0
    BY <1>3, <1>5, <2>1, <2>2
  <2>4. Len(w) = 10 - (i + 1)
    BY <1>1, <2>2
  <2>5. \A k \in 1..(10 - (i + 1)) : w[k] = FrameBit(frame, ((i + 1) + k) - 1)
    <3>. SUFFICES ASSUME NEW k \in 1..(10 - (i + 1)) PROVE w[k] = FrameBit(frame, ((i + 1) + k) - 1)
      OBVIOUS
    <3>1. k \in 1..(Len(wire) - 1) /\ k + 1 \in 1..(10 - i) /\ (i + (k + 1)) - 1 = ((i + 1) + k) - 1
      BY <1>1
    <3>2. w[k] = wire[k + 1]
      BY <2>2, <3>1, Zenon
    <3>3. wire[k + 1] = FrameBit(frame, (i + (k + 1)) - 1)
      BY <1>1, <3>1, Zenon
    <3> QED
      BY <3>1, <3>2, <3>3, Zenon
  <2>6. 1 \in 1..(10 - (i + 1)) /\ ((i + 1) + 1) - 1 = i + 1
    BY <2>1
  <2>7. rxd' = FrameBit(frame, i + 1)
    BY <1>5, <2>3, <2>5, <2>6, Zenon
  <2>8. OnWire(i + 1, 0)'
    BY <1>5, <2>3, <2>4, <2>5, <2>7, Zenon DEF OnWire
  <2>9. ((i + 1) * bit_width) + 0 = ((i * bit_width) + r) + 1 /\ 0 \in 0..(bit_width - 1)
    <3>1. (i + 1) * bit_width = (i * bit_width) + bit_width
      BY Products
    <3>2. PICK p \in Nat : p = i * bit_width
      BY BitsInOrder
    <3> QED
      BY <1>6, <3>1, <3>2
  <2>10. ~Begins
    BY <1>2 DEF Begins
  <2> QED
    BY <1>5, <2>1, <2>8, <2>9, <2>10, Zenon
<1>7. CASE r # bit_width - 1
  <2>1. wire_left # 0 /\ r + 1 \in 0..(bit_width - 1)
    BY <1>1, <1>7
  <2>2. wire' = wire /\ wire_left' = (bit_width' - 1) - (r + 1)
    BY <1>1, <1>3, <1>5, <2>1
  <2>3. 1 \in 1..(10 - i) /\ (i + 1) - 1 = i
    OBVIOUS
  <2>4. rxd' = FrameBit(frame, i)
    BY <1>1, <1>5, <2>2, <2>3, Zenon
  <2>5. OnWire(i, r + 1)'
    BY <1>1, <1>5, <2>2, <2>4, Zenon DEF OnWire
  <2>6. (i * bit_width) + (r + 1) = ((i * bit_width) + r) + 1
    <3>1. PICK p \in Nat : p = i * bit_width
      BY BitsInOrder
    <3> QED
      BY <3>1
  <2>7. ~Begins
    BY <1>2 DEF Begins
  <2> QED
    BY <1>5, <2>1, <2>5, <2>6, <2>7, Zenon
<1> QED
  BY <1>6, <1>7

-----------------------------------------------------------------------------
\* The receiver's clock, busy.
LEMMA RxCounts ==
  ASSUME RxClock, rxstate # "idle"
  PROVE  /\ rxcounter = 0 => rxclock' = 1 /\ rxcounter' = ser_clock_divisor
         /\ rxcounter # 0 => rxclock' = 0 /\ rxcounter' = rxcounter - 1
BY Zenon DEF RxClock

\* The tick comes nearer, or it is there and the next one is to come.
LEMMA TickNearer ==
  ASSUME NEW k \in 0..9, NEW t \in Nat, RxClock, rxstate # "idle", rxclock = 0, TickAt(k, t),
         rxcounter \in Nat, ser_clock_divisor \in Nat, ser_clock_divisor' = ser_clock_divisor
  PROVE  TickAt(k, t + 1)' /\ (rxcounter > 0 => rxclock' = 0)
<1>1. Half' = Half /\ Period' = Period
  BY Zenon DEF Half, Period
<1>2. PICK x : x = (4 + Half) + (k * Period)
  OBVIOUS
<1>3. (t + rxcounter) + 1 = x
  BY <1>2 DEF TickAt
<1>4. \/ rxclock' = 0 /\ ((t + 1) + rxcounter') + 1 = x
      \/ rxclock' = 1 /\ rxcounter' = ser_clock_divisor' /\ t + 1 = x
  BY <1>3, RxCounts
<1>5. rxcounter > 0 => rxclock' = 0
  BY RxCounts
<1> QED
  BY <1>1, <1>2, <1>4, <1>5, Zenon DEF TickAt

LEMMA TickPassed ==
  ASSUME NEW k \in 0..8, NEW t \in Nat, RxClock, rxstate # "idle", rxclock = 1, TickAt(k, t),
         ser_clock_divisor \in Nat, ser_clock_divisor > 1, ser_clock_divisor' = ser_clock_divisor
  PROVE  TickAt(k + 1, t + 1)' /\ rxclock' = 0 /\ rxcounter' > 0
<1>1. Half' = Half /\ Period' = Period
  BY Zenon DEF Half, Period
<1>2. rxcounter = ser_clock_divisor /\ t = (4 + Half) + (k * Period)
  BY DEF TickAt
<1>3. rxclock' = 0 /\ rxcounter' = ser_clock_divisor - 1
  BY <1>2, RxCounts
<1>4. (k + 1) * Period = (k * Period) + Period
  BY Products DEF Period
<1>5. ((t + 1) + (ser_clock_divisor - 1)) + 1 = (4 + Half) + ((k * Period) + Period)
  <2>1. Half \in Nat /\ k * Period \in Nat
    <3>1. k \in {0, 1, 2, 3, 4, 5, 6, 7, 8}
      OBVIOUS
    <3> QED
      BY <3>1 DEF Half, Period
  <2>2. PICK h \in Nat, p \in Nat : h = Half /\ p = k * Period
    BY <2>1
  <2>3. t = (4 + h) + p
    BY <1>2, <2>2, Zenon
  <2>4. ((t + 1) + (ser_clock_divisor - 1)) + 1 = (4 + h) + (p + (ser_clock_divisor + 1))
    BY <2>2, <2>3
  <2> QED
    BY <2>2, <2>4, Zenon DEF Period
<1>6. rxcounter' > 0
  BY <1>3
<1>7. rxclock' = 0 /\ ((t + 1) + rxcounter') + 1 = (4 + Half) + ((k + 1) * Period)
  BY <1>3, <1>4, <1>5, Zenon
<1>8. TickAt(k + 1, t + 1)'
  BY <1>1, <1>7, Zenon DEF TickAt
<1> QED
  BY <1>3, <1>6, <1>8, Zenon

\* What the receiver sees at the tick of a bit.
LEMMA SampledRight ==
  ASSUME NEW k \in 0..9, NEW t \in Nat, rxclock = 1, TickAt(k, t), Carried(rxd_sync, t - 2),
         bit_width \in Nat, ser_clock_divisor \in Nat, Tolerated(bit_width, ser_clock_divisor)
  PROVE  rxd_sync = FrameBit(frame, k)
<1>1. t = (4 + Half) + (k * Period)
  BY DEF TickAt
<1>2. PICK h \in Nat : h = ser_clock_divisor \div 2
  OBVIOUS
<1>3. /\ h + 3 <= bit_width /\ 9 * bit_width <= (9 * (ser_clock_divisor + 1)) + h + 2
      /\ (9 * (ser_clock_divisor + 1)) + h + 6 <= 10 * bit_width
  BY <1>2 DEF Tolerated
<1>4. /\ k * bit_width <= (2 + h) + (k * (ser_clock_divisor + 1))
      /\ (2 + h) + (k * (ser_clock_divisor + 1)) < (k + 1) * bit_width
  BY <1>3, MiddleOfBit
<1>5. t - 2 = (2 + h) + (k * (ser_clock_divisor + 1))
  <2>1. t = (4 + h) + (k * (ser_clock_divisor + 1))
    BY <1>1, <1>2, Zenon DEF Half, Period
  <2>2. k * (ser_clock_divisor + 1) \in Nat
    <3>1. k \in {0, 1, 2, 3, 4, 5, 6, 7, 8, 9}
      OBVIOUS
    <3> QED
      BY <3>1
  <2>3. PICK p \in Nat : p = k * (ser_clock_divisor + 1)
    BY <2>2
  <2>4. t - 2 = (2 + h) + p
    <3>1. t = (4 + h) + p
      BY <2>1, <2>3, Zenon
    <3> QED
      BY <3>1
  <2> QED
    BY <2>3, <2>4, Zenon
<1> QED
  BY <1>4, <1>5, Zenon DEF Carried

\* The buffer takes in a bit.
LEMMA GathersOne ==
  ASSUME NEW n \in 0..7, Gathered(n), rxbuffer \in [1..9 -> Bit], rxd_sync \in Bit,
         rxd_sync = FrameBit(frame, n + 1), rxbuffer' = Append(Tail(rxbuffer), rxd_sync), frame' = frame
  PROVE  Gathered(n + 1)'
<1>1. rxbuffer \in Seq(Bit) /\ Len(rxbuffer) = 9
  <2>1. 9 \in Nat
    OBVIOUS
  <2> QED
    BY <2>1, FunctionIsSeq
<1>2. Len(rxbuffer) > 0
  BY <1>1
<1>3. PICK w \in Seq(Bit) : /\ Append(Tail(rxbuffer), rxd_sync) = w /\ Len(w) = Len(rxbuffer)
                            /\ \A i \in 1..Len(rxbuffer) : w[i] = IF i < Len(rxbuffer) THEN rxbuffer[i + 1] ELSE rxd_sync
  BY <1>1, <1>2, ShiftBits, Zenon
<1>4. \A i \in 1..9 : w[i] = IF i < 9 THEN rxbuffer[i + 1] ELSE rxd_sync
  BY <1>1, <1>3, Zenon
<1>5. rxd_sync = frame[n + 1]
  BY DEF FrameBit
<1>6. \A j \in 1..9 : w[j] = IF j + (n + 1) < 9 THEN 0 ELSE IF j + (n + 1) = 9 THEN 1 ELSE frame[(j + (n + 1)) - 9]
  <2>. SUFFICES ASSUME NEW j \in 1..9
                PROVE  w[j] = IF j + (n + 1) < 9 THEN 0 ELSE IF j + (n + 1) = 9 THEN 1 ELSE frame[(j + (n + 1)) - 9]
    OBVIOUS
  <2>1. CASE j < 9
    <3>1. w[j] = rxbuffer[j + 1] /\ j + 1 \in 1..9
      BY <1>4, <2>1
    <3>2. rxbuffer[j + 1] = IF (j + 1) + n < 9 THEN 0 ELSE IF (j + 1) + n = 9 THEN 1 ELSE frame[((j + 1) + n) - 9]
      BY <3>1, Zenon DEF Gathered
    <3>3. (j + 1) + n = j + (n + 1)
      OBVIOUS
    <3> QED
      BY <3>1, <3>2, <3>3, Zenon
  <2>2. CASE j = 9
    <3>1. w[j] = frame[n + 1]
      BY <1>4, <1>5, <2>2
    <3>2. ~(j + (n + 1) < 9) /\ j + (n + 1) # 9 /\ (j + (n + 1)) - 9 = n + 1
      BY <2>2
    <3> QED
      BY <3>1, <3>2, Zenon
  <2> QED
    BY <2>1, <2>2
<1>7. rxbuffer' = w
  BY <1>3, Zenon
<1> QED
  BY <1>6, <1>7, Zenon DEF Gathered

LEMMA GatheredKept ==
  ASSUME NEW n, Gathered(n), UNCHANGED <<rxbuffer, frame>>
  PROVE  Gathered(n)'
BY Zenon DEF Gathered

LEMMA NothingGathered ==
  ASSUME rxbuffer' = Marker
  PROVE  Gathered(0)'
<1>1. \A j \in 1..9 : Marker[j] = IF j < 9 THEN 0 ELSE 1
  BY DEF Marker
<1>2. \A j \in 1..9 : rxbuffer'[j] = IF j + 0 < 9 THEN 0 ELSE IF j + 0 = 9 THEN 1 ELSE frame'[(j + 0) - 9]
  BY <1>1
<1> QED
  BY <1>2, Zenon DEF Gathered

\* The marker reaches the first place with the last bit, and then the rest is the character.
LEMMA MarkerShows ==
  ASSUME NEW n \in 0..8, Gathered(n)
  PROVE  rxbuffer[1] = 1 <=> n = 8
<1>1. rxbuffer[1] = IF 1 + n < 9 THEN 0 ELSE IF 1 + n = 9 THEN 1 ELSE frame[(1 + n) - 9]
  BY DEF Gathered
<1> QED
  BY <1>1

LEMMA CharacterGathered ==
  ASSUME Gathered(8), rxbuffer \in [1..9 -> Bit], frame \in Character
  PROVE  Tail(rxbuffer) = frame
<1>1. rxbuffer \in Seq(Bit) /\ Len(rxbuffer) = 9
  <2>1. 9 \in Nat
    OBVIOUS
  <2> QED
    BY <2>1, FunctionIsSeq
<1>2. Len(rxbuffer) > 0
  BY <1>1
<1>3. PICK w \in Seq(Bit) : /\ Tail(rxbuffer) = w /\ Len(w) = Len(rxbuffer) - 1
                            /\ \A i \in 1..(Len(rxbuffer) - 1) : w[i] = rxbuffer[i + 1]
  BY <1>1, <1>2, TailBits, Zenon
<1>4. Len(w) = 8 /\ \A i \in 1..8 : w[i] = rxbuffer[i + 1]
  BY <1>1, <1>3
<1>5. \A i \in 1..8 : w[i] = frame[i]
  <2>. SUFFICES ASSUME NEW i \in 1..8 PROVE w[i] = frame[i]
    OBVIOUS
  <2>1. i + 1 \in 1..9 /\ ~((i + 1) + 8 < 9) /\ (i + 1) + 8 # 9 /\ ((i + 1) + 8) - 9 = i
    OBVIOUS
  <2>2. rxbuffer[i + 1] = frame[i]
    BY <2>1, Zenon DEF Gathered
  <2> QED
    BY <1>4, <2>2, Zenon
<1>6. w \in [1..8 -> Bit]
  <2>1. w \in [1..Len(w) -> Bit]
    BY SeqIsFunction
  <2> QED
    BY <1>4, <2>1
<1>7. w = frame
  BY <1>5, <1>6 DEF Character
<1> QED
  BY <1>3, <1>7, Zenon

-----------------------------------------------------------------------------
\* What the receiver's lemmas take for granted.
Listening ==
  /\ RxTypes /\ frame \in Character /\ bit_width \in Nat \ {0}
  /\ ser_clock_divisor \in Nat /\ ser_clock_divisor > 1
Clocks == ser_clock_divisor' = ser_clock_divisor /\ frame' = frame /\ Receive
Reports == ser_rxint' => awaited /\ ser_rxdata' = frame

\* Nothing comes: the receiver stays at rest.
LEMMA StaysAtRest ==
  ASSUME Receive, AtRest, rxd_sync = 1
  PROVE  AtRest' /\ ser_rxint' = FALSE
<1>1. RxIdle /\ RxClock
  BY Zenon DEF Receive, RxIdle, RxStart, RxBits, RxStop, AtRest
<1>2. rxclock' = 0
  BY <1>1, Zenon DEF RxClock, AtRest
<1>3. rxstate' = "idle" /\ ser_rxint' = FALSE
  BY <1>1 DEF RxIdle
<1> QED
  BY <1>2, <1>3 DEF AtRest

\* The start bit shows.
LEMMA FromRest ==
  ASSUME Listening, Clocks, AtRest, rxd_sync = 0, NEW t \in Nat, t = 2
  PROVE  rxstate' = "start" /\ TickAt(0, t + 1)' /\ ser_rxint' = FALSE
<1>1. RxIdle /\ RxClock
  BY Zenon DEF Clocks, Receive, RxIdle, RxStart, RxBits, RxStop, AtRest
<1>2. rxstate' = "start" /\ ser_rxint' = FALSE
  BY <1>1 DEF RxIdle
<1>3. rxclock' = 0
  BY <1>1, Zenon DEF RxClock, AtRest
<1>4. rxcounter' = HalfBit
  <2>1. rxstate = "idle" /\ rxd_sync = 0 /\ ~(rxstate # "idle") /\ ~(rxd_sync = 1)
    BY DEF AtRest
  <2> QED
    BY <1>1, <2>1, Zenon DEF RxClock
<1>5. Half' = Half /\ Period' = Period /\ HalfBit = Half
  BY Zenon DEF Half, Period, HalfBit, Clocks
<1>6. PICK h \in Nat, p \in Nat : h = Half /\ p = Period
  BY DEF Half, Period, Listening
<1>7. ((t + 1) + rxcounter') + 1 = (4 + h) + (0 * p)
  BY <1>4, <1>5, <1>6
<1> QED
  BY <1>2, <1>3, <1>5, <1>6, <1>7, Zenon DEF TickAt

\* In the start bit.
LEMMA FromStart ==
  ASSUME Listening, Clocks, rxstate = "start", NEW t \in Nat, TickAt(0, t), Carried(rxd_sync, t - 2),
         Tolerated(bit_width, ser_clock_divisor)
  PROVE  /\ ser_rxint' = FALSE
         /\ \/ rxstate' = "start" /\ TickAt(0, t + 1)'
            \/ rxstate' = "bits" /\ TickAt(1, t + 1)' /\ Gathered(0)'
<1>1. RxStart /\ RxClock
  BY Zenon DEF Clocks, Receive, RxIdle, RxStart, RxBits, RxStop
<1>2. ser_rxint' = FALSE
  BY <1>1 DEF RxStart
<1>3. rxcounter \in Nat
  BY DEF Listening, RxTypes
<1>4. CASE rxclock = 0
  <2>1. rxstate' = "start"
    BY <1>1, <1>4 DEF RxStart
  <2>2. TickAt(0, t + 1)'
    BY <1>1, <1>3, <1>4, TickNearer DEF Listening, Clocks
  <2> QED
    BY <1>2, <2>1, <2>2
<1>5. CASE rxclock = 1
  <2>1. rxd_sync = FrameBit(frame, 0)
    BY <1>5, SampledRight DEF Listening
  <2>2. rxd_sync = 0
    BY <2>1 DEF FrameBit
  <2>3. rxstate' = "bits" /\ rxbuffer' = Marker
    BY <1>1, <1>5, <2>2 DEF RxStart
  <2>4. TickAt(0 + 1, t + 1)'
    BY <1>1, <1>5, TickPassed DEF Listening, Clocks
  <2>5. Gathered(0)'
    BY <2>3, NothingGathered
  <2>6. 0 + 1 = 1
    OBVIOUS
  <2> QED
    BY <1>2, <2>3, <2>4, <2>5, <2>6, Zenon
<1> QED
  BY <1>4, <1>5 DEF Listening, RxTypes, Bit

\* In a bit of the character.
LEMMA FromBits ==
  ASSUME Listening, Clocks, rxstate = "bits", NEW t \in Nat, Carried(rxd_sync, t - 2),
         Tolerated(bit_width, ser_clock_divisor), NEW n \in 0..7, TickAt(n + 1, t), Gathered(n)
  PROVE  /\ ser_rxint' = FALSE /\ rxstate' = "bits"
         /\ \/ TickAt(n + 1, t + 1)' /\ Gathered(n)'
            \/ TickAt((n + 1) + 1, t + 1)' /\ Gathered(n + 1)' /\ rxclock' = 0 /\ rxcounter' > 0
<1>1. RxBits /\ RxClock
  BY Zenon DEF Clocks, Receive, RxIdle, RxStart, RxBits, RxStop
<1>2. ser_rxint' = FALSE /\ rxbuffer' = (IF rxclock = 1 THEN Append(Tail(rxbuffer), rxd_sync) ELSE rxbuffer)
      /\ rxstate' = (IF rxbuffer[1] = 1 THEN "stop" ELSE "bits")
  BY <1>1, Zenon DEF RxBits
<1>3. rxstate' = "bits"
  <2>1. n \in 0..8 /\ n # 8
    OBVIOUS
  <2>2. rxbuffer[1] # 1
    BY <2>1, MarkerShows
  <2> QED
    BY <1>2, <2>2
<1>4. rxcounter \in Nat /\ n + 1 \in 0..8 /\ n + 1 \in 0..9
  BY DEF Listening, RxTypes
<1>5. CASE rxclock = 0
  <2>1. TickAt(n + 1, t + 1)'
    BY <1>1, <1>4, <1>5, TickNearer DEF Listening, Clocks
  <2>2. UNCHANGED <<rxbuffer, frame>>
    BY <1>2, <1>5 DEF Clocks
  <2>3. Gathered(n)'
    BY <2>2, GatheredKept
  <2> QED
    BY <1>2, <1>3, <2>1, <2>3
<1>6. CASE rxclock = 1
  <2>1. rxd_sync = FrameBit(frame, n + 1)
    BY <1>4, <1>6, SampledRight DEF Listening
  <2>2. TickAt((n + 1) + 1, t + 1)' /\ rxclock' = 0 /\ rxcounter' > 0
    BY <1>1, <1>4, <1>6, TickPassed DEF Listening, Clocks
  <2>3. Gathered(n + 1)'
    <3>1. rxbuffer \in [1..9 -> Bit] /\ rxd_sync \in Bit /\ frame' = frame
      BY DEF Listening, RxTypes, Clocks
    <3>2. rxbuffer' = Append(Tail(rxbuffer), rxd_sync)
      BY <1>2, <1>6
    <3> QED
      BY <2>1, <3>1, <3>2, GathersOne, Zenon
  <2> QED
    BY <1>2, <1>3, <2>2, <2>3
<1> QED
  BY <1>5, <1>6 DEF Listening, RxTypes, Bit

\* The marker is there.
LEMMA FromLastBit ==
  ASSUME Listening, Clocks, rxstate = "bits", NEW t \in Nat, TickAt(9, t), Gathered(8), rxclock = 0, rxcounter > 0
  PROVE  ser_rxint' = FALSE /\ rxstate' = "stop" /\ TickAt(9, t + 1)' /\ Gathered(8)'
<1>1. RxBits /\ RxClock
  BY Zenon DEF Clocks, Receive, RxIdle, RxStart, RxBits, RxStop
<1>2. ser_rxint' = FALSE /\ rxbuffer' = (IF rxclock = 1 THEN Append(Tail(rxbuffer), rxd_sync) ELSE rxbuffer)
      /\ rxstate' = (IF rxbuffer[1] = 1 THEN "stop" ELSE "bits")
  BY <1>1, Zenon DEF RxBits
<1>3. rxstate' = "stop"
  <2>1. 8 \in 0..8
    OBVIOUS
  <2>2. rxbuffer[1] = 1
    BY <2>1, MarkerShows
  <2> QED
    BY <1>2, <2>2
<1>4. rxcounter \in Nat /\ 9 \in 0..9
  BY DEF Listening, RxTypes
<1>5. TickAt(9, t + 1)'
  BY <1>1, <1>4, TickNearer DEF Listening, Clocks
<1>6. UNCHANGED <<rxbuffer, frame>>
  BY <1>2 DEF Clocks
<1> QED
  BY <1>2, <1>3, <1>5, <1>6, GatheredKept

\* In the stop bit.
LEMMA FromStop ==
  ASSUME Listening, Clocks, rxstate = "stop", NEW t \in Nat, TickAt(9, t), Gathered(8),
         Carried(rxd_sync, t - 2), Tolerated(bit_width, ser_clock_divisor)
  PROVE  \/ ser_rxint' = FALSE /\ rxstate' = "stop" /\ TickAt(9, t + 1)' /\ Gathered(8)'
         \/ ser_rxint' = TRUE /\ ser_rxdata' = frame /\ AtRest' /\ t = (4 + Half) + (9 * Period)
<1>1. RxStop /\ RxClock
  BY Zenon DEF Clocks, Receive, RxIdle, RxStart, RxBits, RxStop
<1>2. /\ rxstate' = (IF rxclock = 1 THEN "idle" ELSE "stop")
      /\ ser_rxint' = (rxclock = 1 /\ rxd_sync = 1)
      /\ ser_rxdata' = (IF ser_rxint' THEN Tail(rxbuffer) ELSE ser_rxdata) /\ rxbuffer' = rxbuffer
  BY <1>1, Zenon DEF RxStop
<1>3. rxcounter \in Nat /\ 9 \in 0..9
  BY DEF Listening, RxTypes
<1>4. CASE rxclock = 0
  <2>1. TickAt(9, t + 1)'
    BY <1>1, <1>3, <1>4, TickNearer DEF Listening, Clocks
  <2>2. UNCHANGED <<rxbuffer, frame>>
    BY <1>2 DEF Clocks
  <2>3. Gathered(8)'
    BY <2>2, GatheredKept
  <2>4. ser_rxint' = FALSE /\ rxstate' = "stop"
    <3>1. ~(rxclock = 1)
      BY <1>4
    <3> QED
      BY <1>2, <3>1, Zenon
  <2> QED
    BY <2>1, <2>3, <2>4
<1>5. CASE rxclock = 1
  <2>1. rxd_sync = FrameBit(frame, 9)
    BY <1>3, <1>5, SampledRight DEF Listening
  <2>2. rxd_sync = 1
    BY <2>1 DEF FrameBit
  <2>3. ser_rxint' = TRUE /\ rxstate' = "idle" /\ ser_rxdata' = Tail(rxbuffer)
    BY <1>2, <1>5, <2>2
  <2>4. Tail(rxbuffer) = frame
    BY CharacterGathered DEF Listening, RxTypes
  <2>5. rxcounter = ser_clock_divisor /\ t = (4 + Half) + (9 * Period)
    BY <1>5 DEF TickAt
  <2>6. rxclock' = 0
    <3>1. rxcounter # 0
      BY <2>5 DEF Listening
    <3> QED
      BY <1>1, <3>1, RxCounts
  <2> QED
    BY <2>3, <2>4, <2>5, <2>6 DEF AtRest
<1> QED
  BY <1>4, <1>5 DEF Listening, RxTypes, Bit

-----------------------------------------------------------------------------
\* While a frame is on the line the receiver follows it.
LEMMA FollowsOn ==
  ASSUME Listening, Clocks, NEW t \in Nat, t < 10 * bit_width, Follows(t), Carried(rxd_sync, t - 2),
         Tolerated(bit_width, ser_clock_divisor), awaited' = (awaited /\ ~ser_rxint')
  PROVE  Follows(t + 1)' /\ Reports
<1>1. t + 1 \in Nat
  OBVIOUS
<1>2. CASE AtRest /\ awaited /\ t <= 2
  <2>1. CASE t = 2
    <3>1. rxd_sync = 0
      <4>1. 0 * bit_width <= t - 2 /\ t - 2 < (0 + 1) * bit_width /\ 0 \in 0..9
        BY <2>1 DEF Listening
      <4>2. rxd_sync = FrameBit(frame, 0)
        BY <4>1, Zenon DEF Carried
      <4> QED
        BY <4>2 DEF FrameBit
    <3>2. rxstate' = "start" /\ TickAt(0, t + 1)' /\ ser_rxint' = FALSE
      BY <1>2, <2>1, <3>1, FromRest
    <3> QED
      BY <1>2, <3>2, Zenon DEF Follows, Reports
  <2>2. CASE t # 2
    <3>1. rxd_sync = 1
      <4>1. t - 2 < 0
        BY <1>2, <2>2
      <4> QED
        BY <4>1, Zenon DEF Carried
    <3>2. AtRest' /\ ser_rxint' = FALSE
      BY <1>2, <3>1, StaysAtRest DEF Clocks
    <3>3. t + 1 <= 2
      BY <1>2, <2>2
    <3> QED
      BY <1>2, <3>2, <3>3, Zenon DEF Follows, Reports
  <2> QED
    BY <2>1, <2>2
<1>3. CASE rxstate = "start" /\ awaited /\ TickAt(0, t)
  <2>1. /\ ser_rxint' = FALSE
        /\ \/ rxstate' = "start" /\ TickAt(0, t + 1)'
           \/ rxstate' = "bits" /\ TickAt(1, t + 1)' /\ Gathered(0)'
    BY <1>3, FromStart
  <2>2. 0 \in 0..7 /\ 0 + 1 = 1
    OBVIOUS
  <2> QED
    BY <1>3, <2>1, <2>2, Zenon DEF Follows, Reports
<1>4. ASSUME NEW n \in 0..7, rxstate = "bits", awaited, TickAt(n + 1, t), Gathered(n)
      PROVE  Follows(t + 1)' /\ Reports
  <2>1. /\ ser_rxint' = FALSE /\ rxstate' = "bits"
        /\ \/ TickAt(n + 1, t + 1)' /\ Gathered(n)'
           \/ TickAt((n + 1) + 1, t + 1)' /\ Gathered(n + 1)' /\ rxclock' = 0 /\ rxcounter' > 0
    BY <1>4, FromBits
  <2>2. CASE TickAt(n + 1, t + 1)' /\ Gathered(n)'
    BY <1>4, <2>1, <2>2, Zenon DEF Follows, Reports
  <2>3. CASE TickAt((n + 1) + 1, t + 1)' /\ Gathered(n + 1)' /\ rxclock' = 0 /\ rxcounter' > 0
    <3>1. CASE n = 7
      <4>1. n + 1 = 8 /\ (n + 1) + 1 = 9
        BY <3>1
      <4> QED
        BY <1>4, <2>1, <2>3, <4>1, Zenon DEF Follows, Reports
    <3>2. CASE n # 7
      <4>1. n + 1 \in 0..7
        BY <3>2
      <4> QED
        BY <1>4, <2>1, <2>3, <4>1, Zenon DEF Follows, Reports
    <3> QED
      BY <3>1, <3>2
  <2> QED
    BY <2>1, <2>2, <2>3
<1>5. CASE rxstate = "bits" /\ awaited /\ TickAt(9, t) /\ Gathered(8) /\ rxclock = 0 /\ rxcounter > 0
  <2>1. ser_rxint' = FALSE /\ rxstate' = "stop" /\ TickAt(9, t + 1)' /\ Gathered(8)'
    BY <1>5, FromLastBit
  <2> QED
    BY <1>5, <2>1, Zenon DEF Follows, Reports
<1>6. CASE rxstate = "stop" /\ awaited /\ TickAt(9, t) /\ Gathered(8)
  <2>1. \/ ser_rxint' = FALSE /\ rxstate' = "stop" /\ TickAt(9, t + 1)' /\ Gathered(8)'
        \/ ser_rxint' = TRUE /\ ser_rxdata' = frame /\ AtRest' /\ t = (4 + Half) + (9 * Period)
    BY <1>6, FromStop
  <2>2. CASE ser_rxint' = FALSE /\ rxstate' = "stop" /\ TickAt(9, t + 1)' /\ Gathered(8)'
    BY <1>6, <2>2, Zenon DEF Follows, Reports
  <2>3. CASE ser_rxint' = TRUE /\ ser_rxdata' = frame /\ AtRest' /\ t = (4 + Half) + (9 * Period)
    <3>1. Half' = Half /\ Period' = Period
      BY Zenon DEF Half, Period, Clocks
    <3>2. (5 + Half) + (9 * Period) <= t + 1
      <4>1. Half \in Nat /\ 9 * Period \in Nat
        BY DEF Half, Period, Listening
      <4> QED
        BY <2>3, <4>1
    <3>3. ~awaited'
      BY <2>3, Zenon
    <3>4. (5 + Half') + (9 * Period') <= t + 1
      BY <3>1, <3>2, Zenon
    <3> QED
      BY <1>6, <2>3, <3>3, <3>4, Zenon DEF Follows, Reports
  <2> QED
    BY <2>1, <2>2, <2>3
<1>7. CASE AtRest /\ ~awaited /\ (5 + Half) + (9 * Period) <= t
  <2>1. PICK h \in Nat : h = Half
    BY DEF Half, Listening
  <2>2. rxd_sync = 1
    <3>1. 9 * bit_width <= (9 * (ser_clock_divisor + 1)) + h + 2
      BY <2>1, Zenon DEF Tolerated, Half
    <3>2. (5 + h) + (9 * (ser_clock_divisor + 1)) <= t
      BY <1>7, <2>1, Zenon DEF Period
    <3>3. 9 * bit_width <= t - 2 /\ t - 2 < (9 + 1) * bit_width /\ 9 \in 0..9
      BY <3>1, <3>2 DEF Listening
    <3>4. rxd_sync = FrameBit(frame, 9)
      BY <3>3, Zenon DEF Carried
    <3> QED
      BY <3>4 DEF FrameBit
  <2>3. AtRest' /\ ser_rxint' = FALSE
    BY <1>7, <2>2, StaysAtRest DEF Clocks
  <2>4. Half' = Half /\ Period' = Period
    BY Zenon DEF Half, Period, Clocks
  <2>5. (5 + Half) + (9 * Period) <= t + 1
    <3>1. Half \in Nat /\ 9 * Period \in Nat
      BY DEF Half, Period, Listening
    <3> QED
      BY <1>7, <3>1
  <2>6. (5 + Half') + (9 * Period') <= t + 1
    BY <2>4, <2>5, Zenon
  <2>7. ~awaited'
    BY <1>7, Zenon
  <2> QED
    BY <2>3, <2>6, <2>7, Zenon DEF Follows, Reports
<1> QED
  BY <1>2, <1>3, <1>4, <1>5, <1>6, <1>7, Zenon DEF Follows

\* At the end of a frame it is at rest.
LEMMA DoneInTime ==
  ASSUME Listening, NEW t \in Nat, t = (10 * bit_width) - 1, Follows(t), Tolerated(bit_width, ser_clock_divisor)
  PROVE  AtRest /\ ~awaited
<1>1. PICK h \in Nat, p \in Nat : h = Half /\ p = Period
  BY DEF Half, Period, Listening
<1>2. h + 3 <= bit_width /\ (9 * p) + h + 6 <= 10 * bit_width
  BY <1>1, Zenon DEF Tolerated, Half, Period
<1>3. ~(t <= 2)
  BY <1>2 DEF Listening
<1>4. ASSUME NEW k \in 0..9, TickAt(k, t)
      PROVE  FALSE
  <2>1. t <= (4 + Half) + (k * Period)
    <3>1. \/ (t + rxcounter) + 1 = (4 + Half) + (k * Period)
          \/ t = (4 + Half) + (k * Period)
      BY <1>4 DEF TickAt
    <3>2. PICK x \in Int : x = (4 + Half) + (k * Period)
      <4>1. k \in {0, 1, 2, 3, 4, 5, 6, 7, 8, 9}
        OBVIOUS
      <4> QED
        BY <1>1, <4>1
    <3>3. rxcounter \in Nat
      BY DEF Listening, RxTypes
    <3>4. (t + rxcounter) + 1 = x \/ t = x
      BY <3>1, <3>2, Zenon
    <3>5. t <= x
      BY <3>3, <3>4
    <3> QED
      BY <3>2, <3>5, Zenon
  <2>2. t <= (4 + h) + (k * p)
    BY <1>1, <2>1, Zenon
  <2>3. k * p <= 9 * p
    <3>1. k \in {0, 1, 2, 3, 4, 5, 6, 7, 8, 9}
      OBVIOUS
    <3> QED
      BY <3>1
  <2>4. PICK y \in Nat : y = k * p
    <3>1. k \in {0, 1, 2, 3, 4, 5, 6, 7, 8, 9}
      OBVIOUS
    <3> QED
      BY <3>1
  <2>5. t <= (4 + h) + y /\ y <= 9 * p
    BY <2>2, <2>3, <2>4, Zenon
  <2> QED
    BY <1>2, <2>5 DEF Listening
<1>5. 0 \in 0..9 /\ 9 \in 0..9 /\ \A n \in 0..7 : n + 1 \in 0..9
  OBVIOUS
<1> QED
  BY <1>3, <1>4, <1>5, Zenon DEF Follows

LEMMA ReceiveStep ==
  ASSUME ReceiveInv, RxTypes, Divided, Issued, DivisorKept, DriftTolerated, Next
  PROVE  ReceiveInv' /\ Reports /\ (Begins => ~awaited)
<1>1. /\ RemoteEdge /\ Receive /\ program' = program /\ bit_width' = bit_width
      /\ rxd_sync2' = rxd /\ rxd_sync' = rxd_sync2 /\ awaited' = (Begins \/ (awaited /\ ~ser_rxint'))
  BY DEF Next, UartEdge, RemoteEdge, Receive, CpuEdge
<1>2. ser_clock_divisor' = ser_clock_divisor
  BY DividedStep
<1>3. Listening
  BY DivisorRange DEF ReceiveInv, Listening
<1>4. ASSUME NEW c \in program.arriving, Begin(c), rxd = 1, rxd_sync2 = 1, AtRest', ~awaited
      PROVE  ReceiveInv' /\ (Begins => ~awaited)
  <2>1. c \in Character /\ program.arriving # {}
    BY <1>4, ProgramAssumption DEF Issued
  <2>2. OnWire(0, 0)' /\ frame' = c /\ wire' # << >> /\ LineFree
    BY <1>1, <1>3, <1>4, <2>1, FrameBegins DEF Listening, Begin
  <2>3. awaited'
    BY <1>1, <2>2 DEF Begins
  <2>4. 0 \in 0..9 /\ 0 \in 0..(bit_width' - 1) /\ (0 * bit_width') + 0 = 0 /\ 0 <= 2
    BY <1>1, <1>3 DEF Listening
  <2>5. Carried(rxd, 0)'
    <3>1. \A k \in 0..9 : k * bit_width' <= 0 /\ 0 < (k + 1) * bit_width' => k = 0
      <4>1. PICK m \in Nat \ {0} : m = bit_width'
        BY <1>1, <1>3 DEF Listening
      <4>2. \A k \in 0..9 : k * m <= 0 => k = 0
        <5>. SUFFICES ASSUME NEW k \in 0..9, k * m <= 0 PROVE k = 0
          OBVIOUS
        <5>1. k \in {0, 1, 2, 3, 4, 5, 6, 7, 8, 9}
          OBVIOUS
        <5> QED
          BY <5>1
      <4> QED
        BY <4>1, <4>2, Zenon
    <3>2. rxd' = FrameBit(frame', 0)
      BY <2>2 DEF OnWire
    <3>3. ~(0 < 0)
      OBVIOUS
    <3> QED
      BY <3>1, <3>2, <3>3, Zenon DEF Carried
  <2>6. ASSUME NEW s \in Int, s < 0, NEW v, v = 1
        PROVE  /\ s < 0 => v = 1
               /\ \A k \in 0..9 : k * bit_width' <= s /\ s < (k + 1) * bit_width' => v = FrameBit(frame', k)
    <3>1. \A k \in 0..9 : ~(k * bit_width' <= s)
      <4>1. PICK m \in Nat \ {0} : m = bit_width'
        BY <1>1, <1>3 DEF Listening
      <4>2. \A k \in 0..9 : ~(k * m <= s)
        <5>. SUFFICES ASSUME NEW k \in 0..9, k * m <= s PROVE FALSE
          OBVIOUS
        <5>1. k \in {0, 1, 2, 3, 4, 5, 6, 7, 8, 9}
          OBVIOUS
        <5> QED
          BY <2>6, <5>1
      <4> QED
        BY <4>1, <4>2, Zenon
    <3> QED
      BY <2>6, <3>1, Zenon
  <2>7. Carried(rxd_sync2, 0 - 1)' /\ Carried(rxd_sync, 0 - 2)'
    <3>1. 0 - 1 \in Int /\ 0 - 1 < 0 /\ 0 - 2 \in Int /\ 0 - 2 < 0
      OBVIOUS
    <3>2. rxd_sync2' = 1 /\ rxd_sync' = 1
      BY <1>1, <1>4
    <3> QED
      BY <2>6, <3>1, <3>2, Zenon DEF Carried
  <2>8. Follows(0)'
    BY <1>4, <2>3, <2>4, Zenon DEF Follows
  <2>9. InFrame(0, 0)'
    BY <1>1, <2>1, <2>2, <2>4, <2>5, <2>7, <2>8, Zenon DEF InFrame
  <2>10. /\ bit_width' \in Nat \ {0} /\ (program'.arriving # {} => bit_width' \in Widths) /\ frame' \in Character
    BY <1>1, <2>1, <2>2 DEF ReceiveInv
  <2> QED
    BY <1>4, <2>4, <2>9, <2>10, Zenon DEF ReceiveInv
<1>5. ASSUME Quiet, rxd = 1, rxd_sync2 = 1, AtRest', ~awaited
      PROVE  ReceiveInv' /\ (Begins => ~awaited)
  <2>1. wire' = << >> /\ rxd' = 1 /\ frame' = frame
    BY <1>5 DEF Quiet
  <2>2. ~awaited'
    BY <1>1, <1>5, <2>1, Zenon DEF Begins
  <2>3. LineQuiet'
    BY <1>1, <1>5, <2>1, <2>2, Zenon DEF LineQuiet
  <2>4. /\ bit_width' \in Nat \ {0} /\ (program'.arriving # {} => bit_width' \in Widths) /\ frame' \in Character
    BY <1>1, <2>1, Zenon DEF ReceiveInv
  <2> QED
    BY <1>5, <2>3, <2>4, Zenon DEF ReceiveInv
<1>6. CASE LineQuiet
  <2>1. AtRest' /\ ser_rxint' = FALSE
    BY <1>1, <1>6, StaysAtRest DEF LineQuiet
  <2>2. ~Send
    BY <1>6 DEF LineQuiet, Send, LineFree
  <2>3. Quiet \/ \E c \in program.arriving : Begin(c)
    BY <1>1, <2>2, Zenon DEF RemoteEdge
  <2>4. rxd = 1 /\ rxd_sync2 = 1 /\ ~awaited
    BY <1>6 DEF LineQuiet
  <2>5. Reports
    BY <2>1 DEF Reports
  <2> QED
    BY <1>4, <1>5, <2>1, <2>3, <2>4, <2>5, Zenon
<1>7. ASSUME NEW i \in 0..9, NEW r \in 0..(bit_width - 1), InFrame(i, r)
      PROVE  ReceiveInv' /\ Reports /\ (Begins => ~awaited)
  <2>1. PICK t : t = (i * bit_width) + r
    OBVIOUS
  <2>2. /\ program.arriving # {} /\ OnWire(i, r)
        /\ Carried(rxd, t) /\ Carried(rxd_sync2, t - 1) /\ Carried(rxd_sync, t - 2) /\ Follows(t)
    BY <1>7, <2>1, Zenon DEF InFrame
  <2>3. t \in 0..((10 * bit_width) - 1)
    BY <1>3, <2>1, BitsInOrder DEF Listening
  <2>4. Tolerated(bit_width, ser_clock_divisor)
    <3>1. bit_width \in Widths /\ program \in Programs /\ ser_clock_divisor = program.divisor
      BY <2>2 DEF ReceiveInv, Issued, Divided
    <3> QED
      BY <2>2, <3>1, Zenon DEF DriftTolerated
  <2>5. CASE i = 9 /\ r = bit_width - 1
    <3>1. t = (10 * bit_width) - 1
      BY <1>3, <2>1, <2>5 DEF Listening
    <3>2. t \in Nat
      BY <2>3
    <3>3. AtRest /\ ~awaited
      BY <1>3, <2>2, <2>4, <3>1, <3>2, DoneInTime
    <3>4. rxd = 1
      BY <2>2, <2>5 DEF OnWire, FrameBit
    <3>5. \A x \in {1, 2} : 9 * bit_width <= t - x /\ t - x < (9 + 1) * bit_width /\ 9 \in 0..9
      <4>1. bit_width >= 3
        <5>1. PICK h \in Nat : h = Half
          BY <1>3 DEF Half, Listening
        <5>2. h + 3 <= bit_width
          BY <2>4, <5>1, Zenon DEF Tolerated, Half
        <5> QED
          BY <1>3, <5>2 DEF Listening
      <4> QED
        BY <1>3, <3>1, <4>1 DEF Listening
    <3>6. rxd_sync2 = 1 /\ rxd_sync = 1
      <4>1. 9 * bit_width <= t - 1 /\ t - 1 < (9 + 1) * bit_width /\ 9 * bit_width <= t - 2 /\ t - 2 < (9 + 1) * bit_width
        BY <3>5
      <4>2. rxd_sync2 = FrameBit(frame, 9) /\ rxd_sync = FrameBit(frame, 9)
        BY <2>2, <3>5, <4>1, Zenon DEF Carried
      <4> QED
        BY <4>2 DEF FrameBit
    <3>7. AtRest' /\ ser_rxint' = FALSE
      BY <1>1, <3>3, <3>6, StaysAtRest
    <3>8. Quiet \/ \E c \in program.arriving : Begin(c)
      <4>1. Len(wire) = 1 /\ wire_left = 0
        BY <1>3, <2>2, <2>5 DEF OnWire, Listening
      <4>2. ~Send
        BY <4>1 DEF Send, LineFree
      <4> QED
        BY <1>1, <4>2, Zenon DEF RemoteEdge
    <3>9. Reports
      BY <3>7 DEF Reports
    <3> QED
      BY <1>4, <1>5, <3>3, <3>4, <3>6, <3>7, <3>8, <3>9, Zenon
  <2>6. CASE ~(i = 9 /\ r = bit_width - 1)
    <3>1. wire \in Seq(Bit) /\ bit_width \in Nat \ {0}
      BY <1>3 DEF RxTypes, Listening
    <3>2. /\ frame' = frame /\ ~Begins
          /\ \E j \in 0..9 : \E q \in 0..(bit_width - 1) :
               OnWire(j, q)' /\ (j * bit_width) + q = ((i * bit_width) + r) + 1
      BY <1>1, <2>2, <2>6, <3>1, FrameGoesOn
    <3>3. PICK j \in 0..9, q \in 0..(bit_width - 1) : OnWire(j, q)' /\ (j * bit_width) + q = t + 1
      BY <2>1, <3>2, Zenon
    <3>4. t \in Nat /\ t < 10 * bit_width /\ (t + 1) - 1 = t /\ (t + 1) - 2 = t - 1
      BY <2>3, <3>1
    <3>5. awaited' = (awaited /\ ~ser_rxint')
      BY <1>1, <3>2, Zenon
    <3>6. Clocks
      BY <1>1, <1>2, <3>2, Zenon DEF Clocks
    <3>7. Follows(t + 1)' /\ Reports
      BY <1>3, <2>2, <2>4, <3>4, <3>5, <3>6, FollowsOn
    <3>8. Carried(rxd_sync2, (t + 1) - 1)' /\ Carried(rxd_sync, (t + 1) - 2)'
      BY <1>1, <2>2, <3>2, <3>4, Zenon DEF Carried
    <3>9. Carried(rxd, t + 1)'
      <4>1. Carried(rxd, (j * bit_width) + q)'
        <5>1. j \in 0..9 /\ q \in 0..(bit_width' - 1) /\ bit_width' \in Nat \ {0} /\ (j * bit_width') + q = t + 1
          BY <1>1, <3>1, <3>3, Zenon
        <5>2. t + 1 \in Nat
          BY <3>4
        <5>3. ASSUME NEW k \in 0..9, k * bit_width' <= t + 1, t + 1 < (k + 1) * bit_width'
              PROVE  rxd' = FrameBit(frame', k)
          <6>1. j = k
            BY <5>1, <5>3, InOneBit, Zenon
          <6> QED
            BY <3>3, <6>1, Zenon DEF OnWire
        <5>4. ~(t + 1 < 0)
          BY <5>2
        <5> QED
          BY <5>1, <5>3, <5>4, <1>1, Zenon DEF Carried
      <4> QED
        BY <1>1, <3>3, <4>1, Zenon
    <3>10. InFrame(j, q)'
      BY <1>1, <2>2, <3>3, <3>7, <3>8, <3>9, Zenon DEF InFrame
    <3>11. /\ bit_width' \in Nat \ {0} /\ (program'.arriving # {} => bit_width' \in Widths) /\ frame' \in Character
      BY <1>1, <3>2, Zenon DEF ReceiveInv
    <3>12. q \in 0..(bit_width' - 1)
      BY <1>1, <3>3
    <3> QED
      BY <3>2, <3>7, <3>10, <3>11, <3>12, Zenon DEF ReceiveInv
  <2> QED
    BY <2>5, <2>6
<1> QED
  BY <1>6, <1>7, Zenon DEF ReceiveInv

LEMMA ReceiveAlways ==
  ASSUME DivisorKept, DriftTolerated
  PROVE  Spec => []ReceiveInv
<1>1. Init => ReceiveInv
  <2>. SUFFICES ASSUME Init PROVE ReceiveInv
    OBVIOUS
  <2>1. /\ wire = << >> /\ rxd = 1 /\ rxd_sync2 = 1 /\ rxd_sync = 1 /\ rxstate = "idle" /\ rxclock = 0
        /\ awaited = FALSE /\ frame = Ones(8) /\ program \in Programs /\ ser_clock_divisor = program.divisor
        /\ bit_width \in (IF program.arriving = {} THEN {ser_clock_divisor + 1} ELSE Widths)
    BY DEF Init, UartInit
  <2>2. frame \in Character
    BY <2>1, OnesType DEF Character
  <2>3. bit_width \in Nat \ {0} /\ (program.arriving # {} => bit_width \in Widths)
    <3>1. CASE program.arriving = {}
      <4>1. bit_width = ser_clock_divisor + 1 /\ ser_clock_divisor \in Nat
        BY <2>1, <3>1, ProgramAssumption, DivisorAssumption
      <4> QED
        BY <3>1, <4>1
    <3>2. CASE program.arriving # {}
      BY <2>1, <3>2, PartnerAssumption
    <3> QED
      BY <3>1, <3>2
  <2> QED
    BY <2>1, <2>2, <2>3, Zenon DEF ReceiveInv, LineQuiet, AtRest
<1>2. ReceiveInv /\ Types /\ Divided /\ Issued /\ [Next]_vars => ReceiveInv'
  <2>1. CASE UNCHANGED vars
    <3>1. UNCHANGED <<bit_width, program, frame, wire, wire_left, rxd, rxd_sync, rxd_sync2, rxstate, rxclock, rxcounter,
                      rxbuffer, awaited, ser_clock_divisor>>
      BY <2>1, Zenon DEF vars, rxRegs, remoteVars
    <3>2. Half' = Half /\ Period' = Period /\ (AtRest' <=> AtRest) /\ (LineQuiet' <=> LineQuiet)
      BY <3>1, Zenon DEF Half, Period, AtRest, LineQuiet
    <3>3. \A i, r : OnWire(i, r)' <=> OnWire(i, r)
      BY <3>1, Zenon DEF OnWire
    <3>4. \A n : Gathered(n)' <=> Gathered(n)
      BY <3>1, Zenon DEF Gathered
    <3>5. \A k, t : TickAt(k, t)' <=> TickAt(k, t)
      BY <3>1, <3>2, Zenon DEF TickAt
    <3>6. \A t : Follows(t)' <=> Follows(t)
      BY <3>1, <3>2, <3>4, <3>5, Zenon DEF Follows
    <3>7. \A s : /\ Carried(rxd, s)' <=> Carried(rxd, s)
                 /\ Carried(rxd_sync2, s)' <=> Carried(rxd_sync2, s)
                 /\ Carried(rxd_sync, s)' <=> Carried(rxd_sync, s)
      BY <3>1, Zenon DEF Carried
    <3>8. \A i, r : InFrame(i, r)' <=> InFrame(i, r)
      BY <3>1, <3>3, <3>6, <3>7, Zenon DEF InFrame
    <3> QED
      BY <3>1, <3>2, <3>8, Zenon DEF ReceiveInv
  <2>2. CASE Next
    BY <2>2, ReceiveStep DEF Types
  <2> QED
    BY <2>1, <2>2
<1> QED
  BY <1>1, <1>2, TypesAlways, DividedAlways, IssuedAlways, PTL DEF Spec

\* Each character the remote end sends is reported once, with its bits, before the next one begins
\* (simple_uart.vhd:103-169), whatever the divisor, the phase and the programs that leave the divisor,
\* for bits whose length ten of them tolerate: the receiver samples each, up to the stop bit, within
\* its bounds and is at rest again before the next start edge can come.
THEOREM CharactersReceived ==
  ASSUME DivisorKept, DriftTolerated
  PROVE  Spec => ReceivedOnce
<1>1. ReceiveInv /\ Types /\ Divided /\ Issued /\ [Next]_vars =>
        [/\ ser_rxint' => awaited /\ ser_rxdata' = frame
         /\ Begins => ~awaited]_vars
  BY ReceiveStep DEF Types, Reports
<1> QED
  BY <1>1, ReceiveAlways, TypesAlways, DividedAlways, IssuedAlways, PTL DEF Spec, ReceivedOnce
=============================================================================
