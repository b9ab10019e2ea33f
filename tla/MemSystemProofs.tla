--------------------------- MODULE MemSystemProofs ---------------------------
(***************************************************************************)
(* Theorems about MemSystem, for every geometry of the memory, every set of  *)
(* CPU accesses and VGA lines, and every choice of phases of the VGA client. *)
(***************************************************************************)
EXTENDS MemSystem, TLAPS

USE DEF Bank, Port, Op

-----------------------------------------------------------------------------
(***************************************************************************)
(* The type invariant, one lemma per component.                            *)
(***************************************************************************)
LEMMA AnyLineType == AnyLine \in Line
<1>1. PICK r \in Row, c \in Col : TRUE
  BY GeometryAssumption
<1>2. [bank |-> 0, row |-> r, col |-> c] \in Line
  BY DEF Line
<1> QED
  BY <1>2 DEF AnyLine

LEMMA AnyHalfType == AnyHalf \in Half
BY GeometryAssumption DEF AnyHalf, Half

LEMMA HalfOfType == \A a \in Addr : HalfOf(a) \in HalfAddr /\ a.line.bank \in Bank
BY DEF Addr, HalfOf, HalfAddr, Line

LEMMA LineStartType == \A l \in Line : LineStart(l) \in HalfAddr /\ l.bank \in Bank
BY DEF LineStart, HalfAddr, Line

LEMMA HalfWordType == \A w \in Word, i \in 0..1 : HalfWord(w, i) \in Half
BY DEF Word, HalfWord, Half

LEMMA ActiveType == \A a \in HalfAddr : Active(a.line) \in Command /\ a.line.bank \in Bank
BY DEF Active, HalfAddr, Line, Command

LEMMA CasType ==
  \A a \in HalfAddr, c \in {"read", "write"} : Cas(c, a) \in Command
BY DEF Cas, HalfAddr, Line, Command

LEMMA WriteCacheType ==
  ASSUME SdramTypeOK, CpuPortTypeOK, WriteCache
  PROVE  /\ writecache_req' \in BOOLEAN /\ writecache_dtack' \in BOOLEAN
         /\ writecache_addr' \in HalfAddr
         /\ writecache_word' \in [0..1 -> Half] /\ writecache_dqm' \in [0..1 -> Mask]
<1>1. BurstStart(Addr1) \in HalfAddr
  BY HalfOfType DEF CpuPortTypeOK, BurstStart, Addr, HalfAddr
<1>2. CASE WriteLatched
  <2>1. writecache_word' \in [0..1 -> Half]
    BY <1>2, HalfWordType DEF WriteCache, CpuPortTypeOK
  <2>2. writecache_dqm' \in [0..1 -> Mask]
    BY <1>2 DEF WriteCache, CpuPortTypeOK, Mask
  <2> QED
    BY <1>1, <1>2, <2>1, <2>2, Zenon DEF WriteCache, SdramTypeOK
<1>3. CASE ~WriteLatched
  BY <1>3 DEF WriteCache, SdramTypeOK
<1> QED
  BY <1>2, <1>3

LEMMA PhaseType ==
  ASSUME SdramTypeOK, chip_q \in Half, vga_refresh \in BOOLEAN, Phase
  PROVE  /\ sdram_state' \in 0..15 /\ initstate' \in 0..15 /\ init_done' \in BOOLEAN
         /\ sdwrite' \in BOOLEAN /\ vga_fill' \in BOOLEAN /\ sdata_reg' \in Half
<1>1. sdata_reg' \in Half
  BY DEF SdramTypeOK, Phase, sdata
<1>2. sdram_state' \in 0..15 /\ initstate' \in 0..15 /\ init_done' \in BOOLEAN
  BY DEF SdramTypeOK, Phase
<1>3. sdwrite' \in BOOLEAN /\ vga_fill' \in BOOLEAN
  BY Zenon DEF Phase, BusEnable
<1> QED
  BY <1>1, <1>2, <1>3

LEMMA ArbitrationType ==
  ASSUME SdramTypeOK, Addr1 \in Addr, vga_addr \in Line, Arbitration
  PROVE  /\ sdram_slot1' \in Port /\ sdram_slot2' \in Port \ {"refresh", "port0"}
         /\ slot1_bank' \in Bank /\ slot2_bank' \in Bank
         /\ casaddr' \in HalfAddr /\ cas_cmd' \in {"nop", "read", "write"} /\ sd_cmd' \in Command
<1> USE DEF SdramTypeOK
<1>1. CASE Slot1Arbitration
  <2>1. CASE Slot1Refresh
    BY <1>1, <2>1 DEF Slot1Arbitration, Slot1Refresh, OpenNone, Command
  <2>2. CASE Slot1Vga
    BY <1>1, <2>2, LineStartType, ActiveType DEF Slot1Arbitration, Slot1Vga, Slot1, OpenRow
  <2>3. CASE Slot1Write
    BY <1>1, <2>3, ActiveType DEF Slot1Arbitration, Slot1Write, Slot1, OpenRow
  <2>4. CASE Slot1Read
    BY <1>1, <2>4, HalfOfType, ActiveType DEF Slot1Arbitration, Slot1Read, Slot1, OpenRow
  <2>5. CASE Slot1Idle
    BY <1>1, <2>5 DEF Slot1Arbitration, Slot1Idle, OpenNone, Command
  <2> QED
    BY <1>1, <2>1, <2>2, <2>3, <2>4, <2>5 DEF Slot1Arbitration
<1>2. CASE Slot2Arbitration
  <2>1. CASE Slot2Write
    BY <1>2, <2>1, ActiveType DEF Slot2Arbitration, Slot2Write, Slot2, OpenRow
  <2>2. CASE Slot2Read
    BY <1>2, <2>2, HalfOfType, ActiveType DEF Slot2Arbitration, Slot2Read, Slot2, OpenRow
  <2>3. CASE Slot2Idle
    BY <1>2, <2>3 DEF Slot2Arbitration, Slot2Idle, OpenNone, Command
  <2> QED
    BY <1>2, <2>1, <2>2, <2>3 DEF Slot2Arbitration
<1>3. CASE OtherPhase
  <2>1. ColumnCommand \in Command
    BY CasType DEF ColumnCommand, Command
  <2>2. InitCommand \in Command
    BY DEF InitCommand, Command
  <2>3. sd_cmd' \in {InitCommand, ColumnCommand, Nop}
    BY <1>3 DEF OtherPhase
  <2> QED
    BY <1>3, <2>1, <2>2, <2>3 DEF OtherPhase, Command
<1> QED
  BY <1>1, <1>2, <1>3 DEF Arbitration

LEMMA SlotDataType ==
  ASSUME SdramTypeOK, WriteData, ReadData
  PROVE  /\ datain' \in Half /\ dqm' \in Mask /\ dataout1' \in [0..1 -> Half]
         /\ writecache_ack' \in BOOLEAN /\ zpu_ack' \in BOOLEAN
<1>1. Beat \in 0..7
  BY DEF SdramTypeOK, Beat
<1>2. datain' \in Half
  BY <1>1 DEF SdramTypeOK, WriteData
<1>3. dqm' \in Mask
  BY <1>1 DEF SdramTypeOK, WriteData, NoMask, FullMask, Mask
<1>4. dataout1' \in [0..1 -> Half]
  BY DEF SdramTypeOK, ReadData
<1>5. writecache_ack' \in BOOLEAN /\ zpu_ack' \in BOOLEAN
  BY Zenon DEF SdramTypeOK, WriteData, ReadData, BeatAcknowledged, Writing, ReadWord
<1> QED
  BY <1>2, <1>3, <1>4, <1>5

LEMMA SdramStepType ==
  ASSUME SdramTypeOK, CpuPortTypeOK, VgaPortTypeOK, chip_q \in Half, SdramEdge
  PROVE  SdramTypeOK'
<1>1. /\ WriteCache /\ Phase /\ Arbitration /\ WriteData /\ ReadData
      /\ Addr1 \in Addr /\ vga_addr \in Line /\ vga_refresh \in BOOLEAN
  BY DEF SdramEdge, Slots, CpuPortTypeOK, VgaPortTypeOK
<1>2. refreshpending' \in BOOLEAN
  BY Zenon DEF SdramEdge, Slots
<1>3. vga_ack' \in BOOLEAN
  BY Zenon DEF SdramEdge, Slots, SdramTypeOK, VgaWins1
<1> QED
  BY <1>1, <1>2, <1>3, WriteCacheType, PhaseType, ArbitrationType, SlotDataType DEF SdramTypeOK

LEMMA ColumnCommandType ==
  ASSUME sd_cmd \in Command, ColumnOp, row \in [Bank -> Row]
  PROVE  /\ Started \in Burst
         /\ Started.op = sd_cmd.op /\ Started.n = 1
BY DEF Command, ColumnOp, Started, Burst, Line, Nop, Refresh, Precharge, LoadMode

LEMMA StoreType ==
  ASSUME NEW l \in Line, NEW pos \in 0..3,
         mem \in [Line -> [0..7 -> Byte]], dqm \in Mask, sdata \in Half, Store(l, pos)
  PROVE  mem' \in [Line -> [0..7 -> Byte]]
BY DEF Store, Mask, Half

LEMMA ChipStepType ==
  ASSUME SdramTypeOK, ChipTypeOK, ChipEdge
  PROVE  ChipTypeOK'
<1> USE DEF ChipTypeOK
<1>1. sdata \in Half /\ dqm \in Mask /\ sd_cmd \in Command
  BY DEF SdramTypeOK, sdata
<1>2. mem' \in [Line -> [0..7 -> Byte]]
  <2>1. CASE sd_cmd.op = "write" /\ Store(Started.line, Started.half)
    <3>1. Started.line \in Line /\ Started.half \in 0..3
      BY <1>1, <2>1, ColumnCommandType DEF ColumnOp, Burst
    <3> QED
      BY <1>1, <2>1, <3>1, StoreType
  <2>2. CASE burst.op = "write" /\ Store(burst.line, Position(burst, burst.n))
    <3>1. burst \in Burst
      BY <2>2 DEF NoBurst
    <3>2. burst.line \in Line /\ Position(burst, burst.n) \in 0..3
      BY <3>1 DEF Burst, Position
    <3> QED
      BY <1>1, <2>2, <3>2, StoreType
  <2> QED
    BY <2>1, <2>2 DEF ChipEdge, ChipMemory
<1>3. burst' \in {NoBurst} \cup Burst
  <2>1. CASE ColumnOp
    BY <1>1, <2>1, ColumnCommandType, Zenon DEF ChipEdge, ChipBurst
  <2>2. CASE ~ColumnOp
    <3>1. \/ burst' = NoBurst
          \/ burst.op = "read" /\ burst.n < 6 /\ burst' = [burst EXCEPT !.n = @ + 1]
          \/ burst.op = "write" /\ burst.n < 3 /\ burst' = [burst EXCEPT !.n = @ + 1]
      BY <2>2 DEF ChipEdge, ChipBurst
    <3> QED
      BY <3>1 DEF NoBurst, Burst
  <2> QED
    BY <2>1, <2>2
<1>4. chip_q' \in Half
  <2>1. CASE burst'.op = "read" /\ burst'.n \in 3..6
    <3>1. burst'.line \in Line /\ Position(burst', burst'.n - 3) \in 0..3
      BY <1>3, <2>1 DEF NoBurst, Burst, Position
    <3> QED
      BY <2>1, <3>1 DEF ChipEdge, ChipOutput, Half
  <2>2. CASE ~(burst'.op = "read" /\ burst'.n \in 3..6)
    BY <2>2, AnyHalfType DEF ChipEdge, ChipOutput
  <2> QED
    BY <2>1, <2>2
<1>5. row' \in [Bank -> Row]
  BY <1>1 DEF ChipEdge, ChipRows, Opens, Command, Nop, Refresh, Precharge, LoadMode
<1>6. timer' \in [Bank -> Nat]
  <2>1. \A t \in Nat : Elapsed(t) \in Nat
    BY DEF Elapsed
  <2>2. \A b \in Bank : Elapsed(timer[b]) \in Nat
    BY <2>1
  <2> QED
    BY <2>2, ChipAssumption DEF ChipEdge, ChipRows
<1>7. mode_set' \in BOOLEAN
  BY Zenon DEF ChipEdge, ChipRows
<1> QED
  BY <1>2, <1>3, <1>4, <1>5, <1>6, <1>7

LEMMA BusStepType ==
  ASSUME BusTypeOK, CpuTypeOK, CpuPortTypeOK, SdramTypeOK, BusEdge
  PROVE  BusTypeOK' /\ CpuPortTypeOK'
<1> USE DEF BusTypeOK, CpuTypeOK, CpuPortTypeOK
<1>1. sdram_read \in Word
  BY DEF SdramTypeOK, sdram_read, Word, Half
<1>2. ByteLanes(mem_write) \in Word
  BY DEF ByteLanes, Word
<1>3. dtack1 \in BOOLEAN
  BY Zenon DEF dtack1, SdramTypeOK
<1>4. reset' \in BOOLEAN
  BY DEF BusEdge, SdramTypeOK
<1>5. CASE BusIdle \/ BusRead
  BY <1>4, <1>5 DEF BusIdle, BusRead, cpuPort
<1>6. CASE BusWrite
  <2>1. /\ wrL1' = (mem_op = "writeb" /\ mem_addr.byte % 2 = 0)
        /\ wrU1' = (mem_op = "writeb" /\ mem_addr.byte % 2 = 1)
        /\ wrU2' = (mem_op \in {"writeh", "writeb"})
    BY <1>6, Zenon DEF BusWrite
  <2>2. wrL1' \in BOOLEAN /\ wrU1' \in BOOLEAN /\ wrU2' \in BOOLEAN
    BY <2>1
  <2> QED
    BY <1>4, <1>6, <2>2 DEF BusWrite
<1>7. CASE Read1
  BY <1>1, <1>3, <1>4, <1>7 DEF Read1, Request, Release
<1>8. CASE Write1
  BY <1>3, <1>4, <1>8 DEF Write1, Request, Release
<1>9. CASE WriteB
  BY <1>2, <1>3, <1>4, <1>9 DEF WriteB, Request, Release
<1>10. CASE UNCHANGED <<bus_state, mem_busy, mem_read, cpuPort>>
  BY <1>4, <1>10 DEF cpuPort
<1> QED
  BY <1>5, <1>6, <1>7, <1>8, <1>9, <1>10 DEF BusEdge

LEMMA CpuStepType ==
  ASSUME CpuTypeOK, CpuEdge
  PROVE  CpuTypeOK'
<1> USE DEF CpuTypeOK
<1>1. ASSUME NEW op \in CpuOps, NEW a \in CpuAddrs, Issue(op, a)
      PROVE  CpuTypeOK'
  BY <1>1, CpuAssumption DEF Issue
<1>2. CASE Await \/ Continue \/ Compute
  BY <1>2 DEF Await, Continue, Compute, cpuRegs
<1> QED
  BY <1>1, <1>2 DEF CpuEdge

LEMMA VgaStepType ==
  ASSUME VgaPortTypeOK, SdramTypeOK, vga_state \in {"idle", "wait"}, VgaEdge
  PROVE  VgaPortTypeOK' /\ vga_state' \in {"idle", "wait"}
<1> USE DEF VgaPortTypeOK
<1>1. /\ vga_reserveaddr' \in Line /\ vga_reservebank' \in BOOLEAN /\ vga_refresh' \in BOOLEAN
  BY VgaAssumption DEF VgaEdge
<1>2. CASE VgaIdle
  BY <1>1, <1>2 DEF VgaIdle
<1>3. CASE VgaAsk
  BY <1>1, <1>3, VgaAssumption DEF VgaAsk
<1>4. CASE VgaWait
  <2>1. vga_req' \in BOOLEAN
    BY <1>4, Zenon DEF VgaWait
  <2> QED
    BY <1>1, <1>4, <2>1 DEF VgaWait
<1> QED
  BY <1>2, <1>3, <1>4 DEF VgaEdge

LEMMA InitType == Init => TypeOK
<1> SUFFICES ASSUME Init PROVE TypeOK
  OBVIOUS
<1>1. SdramTypeOK
  <2>1. LineStart(AnyLine) \in HalfAddr
    BY AnyLineType, LineStartType
  <2>2. NoMask \in Mask /\ Nop \in Command
    BY DEF NoMask, Mask, Command
  <2>3. /\ writecache_word \in [0..1 -> Half] /\ dataout1 \in [0..1 -> Half]
        /\ writecache_dqm \in [0..1 -> Mask]
    BY <2>2, AnyHalfType DEF Init, SdramInit
  <2>4. /\ init_done \in BOOLEAN /\ sdwrite \in BOOLEAN /\ vga_fill \in BOOLEAN
        /\ writecache_req \in BOOLEAN /\ writecache_dtack \in BOOLEAN
        /\ refreshpending \in BOOLEAN /\ vga_ack \in BOOLEAN
        /\ writecache_ack \in BOOLEAN /\ zpu_ack \in BOOLEAN
    BY Zenon DEF Init, SdramInit
  <2>5. /\ sdram_state \in 0..15 /\ initstate \in 0..15 /\ sdata_reg \in Half
        /\ writecache_addr \in HalfAddr /\ casaddr \in HalfAddr
        /\ sdram_slot1 \in Port /\ sdram_slot2 \in Port \ {"refresh", "port0"}
        /\ slot1_bank \in Bank /\ slot2_bank \in Bank
        /\ cas_cmd \in {"nop", "read", "write"} /\ sd_cmd \in Command
        /\ datain \in Half /\ dqm \in Mask
    BY <2>1, <2>2, AnyHalfType DEF Init, SdramInit
  <2> QED
    BY <2>3, <2>4, <2>5, Zenon DEF SdramTypeOK
<1>2. ChipTypeOK
  BY AnyLineType, AnyHalfType, ChipAssumption DEF Init, ChipInit, ChipTypeOK, Line
<1>3. AnyAddr \in Addr /\ AnyWord \in Word
  BY AnyLineType, GeometryAssumption DEF AnyAddr, Addr, AnyWord, Word
<1>4. BusTypeOK /\ CpuTypeOK /\ CpuPortTypeOK
  BY <1>3 DEF Init, BusInit, BusTypeOK, CpuTypeOK, CpuPortTypeOK
<1>5. VgaPortTypeOK /\ vga_state \in {"idle", "wait"}
  BY VgaAssumption DEF Init, VgaInit, VgaPortTypeOK
<1> QED
  BY <1>1, <1>2, <1>4, <1>5 DEF TypeOK

LEMMA StepType == TypeOK /\ [Next]_vars => TypeOK'
<1> SUFFICES ASSUME TypeOK, [Next]_vars PROVE TypeOK'
  OBVIOUS
<1>1. CASE Next
  <2>1. SdramTypeOK'
    BY <1>1, SdramStepType DEF Next, TypeOK, ChipTypeOK
  <2>2. ChipTypeOK'
    BY <1>1, ChipStepType DEF Next, TypeOK
  <2>3. BusTypeOK' /\ CpuPortTypeOK'
    BY <1>1, BusStepType DEF Next, TypeOK
  <2>4. CpuTypeOK'
    BY <1>1, CpuStepType DEF Next, TypeOK
  <2>5. VgaPortTypeOK' /\ vga_state' \in {"idle", "wait"}
    BY <1>1, VgaStepType DEF Next, TypeOK
  <2> QED
    BY <2>1, <2>2, <2>3, <2>4, <2>5 DEF TypeOK
<1>2. CASE UNCHANGED vars
  <2>1. SdramTypeOK'
    BY <1>2 DEF TypeOK, vars, sdramRegs, phaseRegs, writecacheRegs, slotRegs, SdramTypeOK
  <2>2. ChipTypeOK'
    BY <1>2 DEF TypeOK, vars, chipRegs, ChipTypeOK
  <2>3. BusTypeOK' /\ CpuTypeOK' /\ CpuPortTypeOK'
    BY <1>2 DEF TypeOK, vars, busRegs, cpuRegs, cpuPort, BusTypeOK, CpuTypeOK, CpuPortTypeOK
  <2>4. VgaPortTypeOK' /\ vga_state' \in {"idle", "wait"}
    BY <1>2 DEF TypeOK, vars, vgaPort, VgaPortTypeOK
  <2> QED
    BY <2>1, <2>2, <2>3, <2>4 DEF TypeOK
<1> QED
  BY <1>1, <1>2

(***************************************************************************)
(* Every register of the controller, the bus, the CPU, the device and the    *)
(* VGA client keeps its type: no burst position, phase or timer leaves its   *)
(* range, whatever the clients do.                                         *)
(***************************************************************************)
THEOREM TypeCorrect == Spec => []TypeOK
BY InitType, StepType, PTL DEF Spec

-----------------------------------------------------------------------------
(***************************************************************************)
(* The two slots.  The invariant is inductive by itself.                    *)
(***************************************************************************)
LEMMA SlotsStep ==
  ASSUME SdramTypeOK, SlotsDisjoint, Arbitration
  PROVE  SlotsDisjoint'
<1> USE DEF SlotsDisjoint, Accessing, SdramTypeOK
<1>1. CASE Slot1Arbitration
  <2>1. CASE Slot1Refresh \/ Slot1Idle
    BY <1>1, <2>1 DEF Slot1Arbitration, Slot1Refresh, Slot1Idle, RefreshWins, VgaWins1
  <2>2. CASE Slot1Vga
    BY <1>1, <2>2 DEF Slot1Arbitration, Slot1Vga, VgaWins1, BankFree1, Slot1, LineStart
  <2>3. CASE Slot1Write
    BY <1>1, <2>3 DEF Slot1Arbitration, Slot1Write, WriteWins1, BankFree1, Slot1
  <2>4. CASE Slot1Read
    BY <1>1, <2>4 DEF Slot1Arbitration, Slot1Read, ReadWins1, BankFree1, Slot1, HalfOf
  <2> QED
    BY <1>1, <2>1, <2>2, <2>3, <2>4 DEF Slot1Arbitration
<1>2. CASE Slot2Arbitration
  <2>1. CASE Slot2Write
    BY <1>2, <2>1 DEF Slot2Arbitration, Slot2Write, Slot2Closed, WriteWins2, BankFree2, Slot2
  <2>2. CASE Slot2Read
    BY <1>2, <2>2 DEF Slot2Arbitration, Slot2Read, Slot2Closed, ReadWins2, BankFree2, Slot2, HalfOf
  <2>3. CASE Slot2Idle
    BY <1>2, <2>3 DEF Slot2Arbitration, Slot2Idle
  <2> QED
    BY <1>2, <2>1, <2>2, <2>3 DEF Slot2Arbitration
<1>3. CASE OtherPhase
  BY <1>3 DEF OtherPhase
<1> QED
  BY <1>1, <1>2, <1>3 DEF Arbitration

(***************************************************************************)
(* The accesses in flight never collide: two slots never hold one bank, one  *)
(* client never holds two slots, and a refresh is alone.  This is what lets  *)
(* sdram.vhd overlap them without checking anything after arbitration.      *)
(***************************************************************************)
THEOREM SlotsAlwaysDisjoint == Spec => []SlotsDisjoint
<1>1. Init => SlotsDisjoint
  BY DEF Init, SdramInit, SlotsDisjoint, Accessing
<1>2. TypeOK /\ SlotsDisjoint /\ [Next]_vars => SlotsDisjoint'
  <2>1. ASSUME TypeOK, SlotsDisjoint, Next PROVE SlotsDisjoint'
    BY <2>1, SlotsStep DEF TypeOK, Next, SdramEdge, Slots
  <2>2. ASSUME SlotsDisjoint, UNCHANGED vars PROVE SlotsDisjoint'
    BY <2>2 DEF SlotsDisjoint, Accessing, vars, sdramRegs, slotRegs
  <2> QED
    BY <2>1, <2>2
<1> QED
  BY <1>1, <1>2, TypeCorrect, PTL DEF Spec

-----------------------------------------------------------------------------
(***************************************************************************)
(* The write cache.  PostedWriteKept is not inductive: that the entry is     *)
(* still held when its second beat comes depends on the slot having been     *)
(* given to it while it was held (WriteHeld) and on no acknowledgement      *)
(* coming in between (AckPhase).                                            *)
(***************************************************************************)
AckPhase == init_done /\ sdram_state # 0 /\ writecache_ack => sdram_state \in {7, 15}

WriteHeld ==
  /\ sdram_slot1 = "writecache" /\ sdram_state \in 3..6 => writecache_req
  /\ sdram_slot2 = "writecache" /\ sdram_state \in 11..14 => writecache_req

IdleUntilReady == ~init_done => sdram_slot1 = "refresh" /\ sdram_slot2 = "idle"

PostedInv == AckPhase /\ WriteHeld /\ IdleUntilReady /\ PostedWriteKept

LEMMA PostedStep ==
  ASSUME SdramTypeOK, PostedInv, SdramEdge
  PROVE  PostedInv'
<1> USE DEF SdramTypeOK
<1>1. CASE ~init_done
  <2>1. OtherPhase
    BY <1>1 DEF SdramEdge, Slots, Arbitration
  <2>2. sdram_slot1' = "refresh" /\ sdram_slot2' = "idle"
    BY <1>1, <2>1 DEF OtherPhase, PostedInv, IdleUntilReady
  <2>3. init_done' => sdram_state' = 0
    BY <1>1 DEF SdramEdge, Phase
  <2> QED
    BY <2>2, <2>3 DEF PostedInv, AckPhase, WriteHeld, IdleUntilReady, PostedWriteKept
<1>2. CASE init_done
  <2>1. init_done' /\ sdram_state' = (sdram_state + 1) % 16
    <3>1. Phase
      BY DEF SdramEdge
    <3>2. UNCHANGED init_done
      BY <1>2, <3>1, Zenon DEF Phase
    <3>3. \/ sdram_state' = (sdram_state + 1) % 16
          \/ sdram_state = 14 /\ sdram_state' = 15
      BY <1>2, <3>1, Zenon DEF Phase
    <3>4. sdram_state' = (sdram_state + 1) % 16
      BY <3>3
    <3> QED
      BY <1>2, <3>2, <3>4, Zenon
  <2>2. /\ writecache_ack' = BeatAcknowledged
        /\ writecache_req' = (~writecache_ack /\ (writecache_req \/ WriteLatched))
    BY <1>2 DEF SdramEdge, Slots, WriteData, WriteCache
  <2>3. BeatAcknowledged => sdram_state \in {6, 14} /\ Writing
    BY DEF BeatAcknowledged, Beat, Writing
  <2>4. AckPhase'
    BY <2>1, <2>2, <2>3 DEF AckPhase
  <2>5. writecache_ack /\ sdram_state # 0 => sdram_state \in {7, 15}
    BY <1>2 DEF PostedInv, AckPhase
  <2>6. writecache_req /\ sdram_state \notin {0, 7, 15} => writecache_req'
    BY <2>2, <2>5
  <2>7. PostedWriteKept'
    BY <2>1, <2>2, <2>3, <2>6 DEF PostedInv, WriteHeld, Writing, PostedWriteKept
  <2>8. WriteHeld'
    <3>1. CASE sdram_state = 2
      <4>1. sdram_slot1' = "writecache" => writecache_req
        BY <1>2, <3>1 DEF SdramEdge, Slots, Arbitration, Slot1Arbitration, Slot1Refresh,
          Slot1Vga, Slot1Write, Slot1Read, Slot1Idle, Slot1, WriteWins1
      <4> QED
        BY <2>1, <2>6, <3>1, <4>1 DEF WriteHeld
    <3>2. CASE sdram_state = 10
      <4>1. sdram_slot2' = "writecache" => writecache_req
        BY <1>2, <3>2 DEF SdramEdge, Slots, Arbitration, Slot2Arbitration, Slot2Write,
          Slot2Read, Slot2Idle, Slot2, WriteWins2
      <4> QED
        BY <2>1, <2>6, <3>2, <4>1 DEF WriteHeld
    <3>3. CASE sdram_state \notin {2, 10}
      <4>1. UNCHANGED <<sdram_slot1, sdram_slot2>>
        BY <1>2, <3>3 DEF SdramEdge, Slots, Arbitration, OtherPhase
      <4> QED
        BY <2>1, <2>6, <3>3, <4>1 DEF PostedInv, WriteHeld
    <3> QED
      BY <3>1, <3>2, <3>3
  <2> QED
    BY <2>1, <2>4, <2>7, <2>8 DEF PostedInv, IdleUntilReady
<1> QED
  BY <1>1, <1>2

(***************************************************************************)
(* No acknowledgement ever meets an empty write cache, so none can swallow   *)
(* the write latched on the same edge.                                      *)
(***************************************************************************)
THEOREM PostedWriteAlwaysKept == Spec => []PostedWriteKept
<1>1. Init => PostedInv
  BY DEF Init, SdramInit, PostedInv, AckPhase, WriteHeld, IdleUntilReady, PostedWriteKept
<1>2. TypeOK /\ PostedInv /\ [Next]_vars => PostedInv'
  <2>1. ASSUME TypeOK, PostedInv, Next PROVE PostedInv'
    BY <2>1, PostedStep DEF TypeOK, Next
  <2>2. ASSUME PostedInv, UNCHANGED vars PROVE PostedInv'
    BY <2>2 DEF PostedInv, AckPhase, WriteHeld, IdleUntilReady, PostedWriteKept,
      vars, sdramRegs, phaseRegs, writecacheRegs, slotRegs
  <2> QED
    BY <2>1, <2>2
<1>3. PostedInv => PostedWriteKept
  BY DEF PostedInv
<1> QED
  BY <1>1, <1>2, <1>3, TypeCorrect, PTL DEF Spec

-----------------------------------------------------------------------------
(***************************************************************************)
(* What a step does to the phase and the slots, for the proofs that follow.  *)
(***************************************************************************)
NextPhase(s) == IF s = 15 THEN 0 ELSE s + 1

\* The column command of an access of a client.
CasOf(p) ==
  IF p = "writecache" THEN "write" ELSE IF p \in {"port0", "zpu"} THEN "read" ELSE "nop"

\* The address of the client a slot was given to.
Target(p) ==
  IF p = "port0" THEN LineStart(vga_addr)
  ELSE IF p = "zpu" THEN HalfOf(Addr1) ELSE writecache_addr

\* Once the controller is ready the phases go round without a break.
LEMMA RoundStep ==
  ASSUME SdramTypeOK, init_done, SdramEdge
  PROVE  init_done' /\ sdram_state' = NextPhase(sdram_state)
<1>1. Phase
  BY DEF SdramEdge
<1>2. UNCHANGED init_done
  BY <1>1, Zenon DEF Phase
<1>3. \/ sdram_state' = (sdram_state + 1) % 16
      \/ sdram_state = 14 /\ sdram_state' = 15
  BY <1>1, Zenon DEF Phase
<1>4. sdram_state' = NextPhase(sdram_state)
  BY <1>3 DEF SdramTypeOK, NextPhase
<1> QED
  BY <1>2, <1>4, Zenon

\* Until then the slots stay empty, ph2 sends the start-up sequence and ph14 counts.
LEMMA StartUpStep ==
  ASSUME SdramTypeOK, ~init_done, SdramEdge
  PROVE  /\ UNCHANGED <<sdram_slot1, sdram_slot2, slot1_bank, slot2_bank, casaddr, cas_cmd>>
         /\ sd_cmd' = IF sdram_state = 2 THEN InitCommand ELSE Nop
         /\ \/ /\ sdram_state # 14 /\ sdram_state' = NextPhase(sdram_state)
               /\ initstate' = initstate /\ ~init_done'
            \/ /\ sdram_state = 14 /\ initstate # 15 /\ sdram_state' = 15
               /\ initstate' = initstate + 1 /\ ~init_done'
            \/ /\ sdram_state = 14 /\ initstate = 15 /\ initstate' = 15
               /\ \/ ~init_done' /\ sdram_state' = 14
                  \/ init_done' /\ sdram_state' = 0
<1>1. OtherPhase /\ Phase
  BY DEF SdramEdge, Slots, Arbitration
<1>2. UNCHANGED <<sdram_slot1, sdram_slot2, slot1_bank, slot2_bank, casaddr, cas_cmd>>
  BY <1>1 DEF OtherPhase
<1>3. sd_cmd' = IF sdram_state = 2 THEN InitCommand ELSE Nop
  BY <1>1 DEF OtherPhase
<1>4. CASE sdram_state # 14
  <2>1. sdram_state' = (sdram_state + 1) % 16 /\ UNCHANGED <<initstate, init_done>>
    BY <1>1, <1>4, Zenon DEF Phase
  <2>2. sdram_state' = NextPhase(sdram_state)
    BY <2>1 DEF SdramTypeOK, NextPhase
  <2> QED
    BY <1>2, <1>3, <1>4, <2>1, <2>2, Zenon
<1>5. CASE sdram_state = 14 /\ initstate # 15
  <2>1. initstate' = initstate + 1 /\ sdram_state' = 15 /\ UNCHANGED init_done
    BY <1>1, <1>5, Zenon DEF Phase
  <2> QED
    BY <1>2, <1>3, <1>5, <2>1, Zenon
<1>6. CASE sdram_state = 14 /\ initstate = 15
  <2>1. /\ init_done' = vga_refresh /\ UNCHANGED initstate
        /\ sdram_state' = IF vga_refresh THEN 0 ELSE 14
    BY <1>1, <1>6, Zenon DEF Phase
  <2> QED
    BY <1>2, <1>3, <1>6, <2>1, Zenon
<1> QED
  BY <1>4, <1>5, <1>6

\* A slot changes in its own arbitration phase only; outside both phases nothing is
\* sent but the column commands.
LEMMA SlotsHeldStep ==
  ASSUME init_done, SdramEdge
  PROVE  /\ sdram_state # 2 => UNCHANGED <<sdram_slot1, slot1_bank>>
         /\ sdram_state # 10 => UNCHANGED <<sdram_slot2, slot2_bank>>
         /\ sdram_state \notin {2, 10} =>
              /\ UNCHANGED <<casaddr, cas_cmd>>
              /\ sd_cmd' = IF sdram_state = 5 \/ (sdram_state = 13 /\ sdram_slot2 # "idle")
                           THEN ColumnCommand ELSE Nop
<1>1. Arbitration
  BY DEF SdramEdge, Slots
<1>2. CASE sdram_state = 2
  BY <1>1, <1>2 DEF Arbitration, Slot1Arbitration
<1>3. CASE sdram_state = 10
  BY <1>1, <1>3 DEF Arbitration, Slot2Arbitration
<1>4. CASE sdram_state \notin {2, 10}
  <2>1. OtherPhase
    BY <1>1, <1>4 DEF Arbitration
  <2>2. sd_cmd' = IF sdram_state = 5 \/ (sdram_state = 13 /\ sdram_slot2 # "idle")
                  THEN ColumnCommand ELSE Nop
    BY <2>1 DEF OtherPhase
  <2> QED
    BY <1>4, <2>1, <2>2 DEF OtherPhase
<1> QED
  BY <1>2, <1>3, <1>4

\* What ph2 leaves for the winner of slot 1. A read is granted past a posted write only
\* when that is to another line, or when slot 2 is writing it.
LEMMA Grant1Step ==
  ASSUME SdramTypeOK, CpuPortTypeOK, VgaPortTypeOK, init_done, sdram_state = 2, SdramEdge
  PROVE  /\ cas_cmd' = CasOf(sdram_slot1')
         /\ Accessing(sdram_slot1') =>
              /\ casaddr' = Target(sdram_slot1') /\ casaddr'.line.bank = slot1_bank'
              /\ sd_cmd' = Active(casaddr'.line)
         /\ sdram_slot1' = "refresh" => sd_cmd' = Refresh
         /\ sdram_slot1' = "idle" => sd_cmd' = Nop
         /\ sdram_slot1' = "port0" => vga_req /\ vga_ack'
         /\ sdram_slot1' = "writecache" => writecache_req /\ sdram_slot2 # "writecache"
         /\ sdram_slot1' = "zpu" =>
              /\ req1 /\ wr1 /\ sdram_slot2 # "zpu"
              /\ writecache_req /\ sdram_slot2 # "writecache" => writecache_addr.line # Addr1.line
<1> USE DEF CasOf, Accessing, Target, Slot1, OpenRow, OpenNone
<1>1. Slot1Arbitration
  BY DEF SdramEdge, Slots, Arbitration
<1>2. CASE Slot1Refresh \/ Slot1Idle
  BY <1>2, Zenon DEF Slot1Refresh, Slot1Idle
<1>3. CASE Slot1Vga
  <2>1. VgaWins1 /\ vga_ack'
    BY <1>3, Zenon DEF Slot1Vga, SdramEdge, Slots
  <2> QED
    BY <1>3, <2>1 DEF Slot1Vga, VgaWins1
<1>4. CASE Slot1Write
  BY <1>4 DEF Slot1Write, WriteWins1
<1>5. CASE Slot1Read
  <2>1. req1 /\ wr1 /\ sdram_slot2 # "zpu" /\ BankFree1(Addr1.line.bank) /\ ~WriteWins1
    BY <1>5 DEF Slot1Read, ReadWins1
  <2>2. writecache_req /\ sdram_slot2 # "writecache" => writecache_addr.line # Addr1.line
    BY <2>1 DEF WriteWins1
  <2> QED
    BY <1>5, <2>1, <2>2 DEF Slot1Read
<1> QED
  BY <1>1, <1>2, <1>3, <1>4, <1>5 DEF Slot1Arbitration

\* The same for ph10 and slot 2.
LEMMA Grant2Step ==
  ASSUME SdramTypeOK, CpuPortTypeOK, init_done, sdram_state = 10, SdramEdge
  PROVE  /\ cas_cmd' = CasOf(sdram_slot2')
         /\ Accessing(sdram_slot2') =>
              /\ casaddr' = Target(sdram_slot2') /\ casaddr'.line.bank = slot2_bank'
              /\ sd_cmd' = Active(casaddr'.line)
         /\ ~Accessing(sdram_slot2') => sd_cmd' = Nop
         /\ sdram_slot2' \in {"idle", "zpu", "writecache"}
         /\ sdram_slot2' = "writecache" => writecache_req /\ sdram_slot1 # "writecache"
         /\ sdram_slot2' = "zpu" =>
              /\ req1 /\ wr1 /\ sdram_slot1 # "zpu"
              /\ writecache_req /\ sdram_slot1 # "writecache" => writecache_addr.line # Addr1.line
<1> USE DEF CasOf, Accessing, Target, Slot2, OpenRow, OpenNone
<1>1. Slot2Arbitration
  BY DEF SdramEdge, Slots, Arbitration
<1>2. CASE Slot2Idle
  BY <1>2 DEF Slot2Idle
<1>3. CASE Slot2Write
  BY <1>3 DEF Slot2Write, WriteWins2
<1>4. CASE Slot2Read
  <2>1. /\ req1 /\ wr1 /\ sdram_slot1 # "zpu" /\ BankFree2(Addr1.line.bank)
        /\ Unreserved(Addr1.line.bank) /\ ~WriteWins2
    BY <1>4 DEF Slot2Read, ReadWins2
  <2>2. writecache_req /\ sdram_slot1 # "writecache" => writecache_addr.line # Addr1.line
    BY <2>1 DEF WriteWins2
  <2> QED
    BY <1>4, <2>1, <2>2 DEF Slot2Read
<1> QED
  BY <1>1, <1>2, <1>3, <1>4 DEF Slot2Arbitration

-----------------------------------------------------------------------------
(***************************************************************************)
(* The timing of the device.  The invariant says which command is on the     *)
(* pins in which phase (CommandInv), for which slot it was prepared           *)
(* (GrantInv), that an opened row waits for its column command (RowInv), who  *)
(* keeps a bank busy and for how long (TimerInv), that the mode is set before *)
(* the start-up ends (ModeInv), which burst runs in which phase (BurstInv)    *)
(* and when the write enable is up (WriteEnableInv).                          *)
(***************************************************************************)
GrantInv ==
  /\ ~init_done => cas_cmd = "nop"
  /\ init_done /\ sdram_state \in 3..10 =>
       /\ cas_cmd = CasOf(sdram_slot1)
       /\ Accessing(sdram_slot1) => casaddr.line.bank = slot1_bank
  /\ init_done /\ sdram_state \notin 3..10 =>
       /\ cas_cmd = CasOf(sdram_slot2)
       /\ Accessing(sdram_slot2) => casaddr.line.bank = slot2_bank

Opening == IF cas_cmd = "nop" THEN Nop ELSE Active(casaddr.line)

CommandInv ==
  /\ ~init_done => sd_cmd = IF sdram_state = 3 THEN InitCommand ELSE Nop
  /\ init_done =>
       /\ sdram_state = 3 => sd_cmd = IF sdram_slot1 = "refresh" THEN Refresh ELSE Opening
       /\ sdram_state = 11 => sd_cmd = Opening
       /\ sdram_state \in {6, 14} => sd_cmd = ColumnCommand
       /\ sdram_state \notin {3, 6, 11, 14} => sd_cmd = Nop

\* GrantInv and CommandInv are kept.
LEMMA CommandStep ==
  ASSUME SdramTypeOK, SdramTypeOK', CpuPortTypeOK, VgaPortTypeOK,
         IdleUntilReady, SlotsDisjoint, GrantInv, CommandInv, SdramEdge
  PROVE  GrantInv' /\ CommandInv'
<1>1. CASE ~init_done
  <2>1. GrantInv'
    BY <1>1, StartUpStep DEF GrantInv, IdleUntilReady, CasOf, Accessing
  <2>2. sdram_state = 2 => ~init_done' /\ InitCommand' = InitCommand
    BY <1>1, StartUpStep DEF InitCommand
  <2>3. CommandInv'
    BY <1>1, <2>2, StartUpStep DEF CommandInv, NextPhase, SdramTypeOK
  <2> QED
    BY <2>1, <2>3
<1>2. CASE init_done
  <2>1. init_done' /\ sdram_state' = NextPhase(sdram_state) /\ sdram_state \in 0..15
    BY <1>2, RoundStep DEF SdramTypeOK
  <2>2. CASE sdram_state = 2
    <3>1. sdram_state' = 3
      BY <2>1, <2>2 DEF NextPhase
    <3>2. Accessing(sdram_slot1') <=> CasOf(sdram_slot1') # "nop"
      BY DEF Accessing, CasOf
    <3>3. GrantInv'
      BY <1>2, <2>1, <2>2, <3>1, Grant1Step DEF GrantInv
    <3>4. sdram_slot1' \in Port
      BY DEF SdramTypeOK
    <3>5. CommandInv'
      BY <1>2, <2>1, <2>2, <3>1, <3>2, <3>4, Grant1Step DEF CommandInv, Opening, Accessing
    <3> QED
      BY <3>3, <3>5
  <2>3. CASE sdram_state = 10
    <3>1. sdram_state' = 11
      BY <2>1, <2>3 DEF NextPhase
    <3>2. Accessing(sdram_slot2') <=> CasOf(sdram_slot2') # "nop"
      BY DEF Accessing, CasOf
    <3>3. GrantInv'
      BY <1>2, <2>1, <2>3, <3>1, Grant2Step DEF GrantInv
    <3>4. CommandInv'
      BY <1>2, <2>1, <2>3, <3>1, <3>2, Grant2Step DEF CommandInv, Opening
    <3> QED
      BY <3>3, <3>4
  <2>4. CASE sdram_state \notin {2, 10}
    <3>1. UNCHANGED <<sdram_slot1, sdram_slot2, slot1_bank, slot2_bank, casaddr, cas_cmd>>
      BY <1>2, <2>4, SlotsHeldStep
    <3>2. sd_cmd' = IF sdram_state = 5 \/ (sdram_state = 13 /\ sdram_slot2 # "idle")
                    THEN ColumnCommand ELSE Nop
      BY <1>2, <2>4, SlotsHeldStep
    <3>3. GrantInv'
      BY <1>2, <2>1, <2>4, <3>1 DEF GrantInv, NextPhase
    <3>4. sdram_state = 13 /\ sdram_slot2 = "idle" => ColumnCommand = Nop
      BY <1>2 DEF GrantInv, CasOf, ColumnCommand
    <3>5. ColumnCommand' = ColumnCommand
      BY <3>1 DEF ColumnCommand
    <3>6. CommandInv'
      BY <1>2, <2>1, <2>4, <3>2, <3>4, <3>5 DEF CommandInv, NextPhase
    <3> QED
      BY <3>3, <3>6
  <2> QED
    BY <2>2, <2>3, <2>4
<1> QED
  BY <1>1, <1>2

-----------------------------------------------------------------------------
\* The rows: what the chip does with the command on its pins.
LEMMA ActiveNow ==
  ASSUME SdramTypeOK, SlotsDisjoint, IdleUntilReady, GrantInv, CommandInv, sd_cmd.op = "active"
  PROVE  /\ init_done /\ sd_cmd.bank = casaddr.line.bank /\ sd_cmd.row = casaddr.line.row
         /\ \/ sdram_state = 3 /\ Accessing(sdram_slot1) /\ sd_cmd.bank = slot1_bank
            \/ sdram_state = 11 /\ Accessing(sdram_slot2) /\ sd_cmd.bank = slot2_bank
<1> USE DEF Nop, Refresh, Precharge, LoadMode, Active, Cas
<1>1. InitCommand.op # "active"
  BY DEF InitCommand
<1>2. ColumnCommand.op # "active"
  BY DEF ColumnCommand, SdramTypeOK
<1>3. init_done /\ sdram_state \in {3, 11} /\ sd_cmd = Opening /\ cas_cmd # "nop"
  BY <1>1, <1>2 DEF CommandInv, Opening
<1>4. sd_cmd.bank = casaddr.line.bank /\ sd_cmd.row = casaddr.line.row
  BY <1>3 DEF Opening
<1> QED
  BY <1>3, <1>4 DEF GrantInv, CasOf, Accessing

\* A column command is on the pins in ph6 and ph14 only, for the slot that won.
LEMMA ColumnNow ==
  ASSUME SdramTypeOK, SlotsDisjoint, IdleUntilReady, GrantInv, CommandInv, ColumnOp
  PROVE  /\ init_done /\ sd_cmd = Cas(cas_cmd, casaddr) /\ sd_cmd.op = cas_cmd
         /\ sd_cmd.bank = casaddr.line.bank
         /\ \/ /\ sdram_state = 6 /\ Accessing(sdram_slot1) /\ sd_cmd.bank = slot1_bank
               /\ cas_cmd = CasOf(sdram_slot1)
            \/ /\ sdram_state = 14 /\ Accessing(sdram_slot2) /\ sd_cmd.bank = slot2_bank
               /\ cas_cmd = CasOf(sdram_slot2)
<1> USE DEF Nop, Refresh, Precharge, LoadMode, Active, Cas, ColumnOp
<1>1. InitCommand.op \notin {"read", "write"}
  BY DEF InitCommand
<1>2. init_done /\ sdram_state \in {6, 14} /\ sd_cmd = ColumnCommand
  BY <1>1 DEF CommandInv, Opening
<1>3. cas_cmd # "nop" /\ sd_cmd = Cas(cas_cmd, casaddr)
  BY <1>2 DEF ColumnCommand
<1> QED
  BY <1>2, <1>3 DEF GrantInv, CasOf, Accessing

\* In the other phases nothing is sent that opens, closes or refreshes a row.
LEMMA QuietNow ==
  ASSUME SdramTypeOK, IdleUntilReady, GrantInv, CommandInv,
         sd_cmd.op \in {"refresh", "precharge", "mode"}
  PROVE  /\ sdram_state = 3 /\ sdram_slot1 = "refresh"
         /\ init_done => sd_cmd.op = "refresh"
         /\ ~init_done => /\ initstate \in 2..13
                          /\ sd_cmd.op = "refresh" => initstate \in 3..12
<1> USE DEF Nop, Refresh, Precharge, LoadMode, Active, Cas
<1>1. CASE init_done
  <2>1. ColumnCommand.op \in {"nop", "read", "write"}
    BY DEF ColumnCommand, SdramTypeOK
  <2> QED
    BY <1>1, <2>1 DEF CommandInv, Opening
<1>2. CASE ~init_done
  <2>1. sdram_state = 3 /\ sd_cmd = InitCommand
    BY <1>2 DEF CommandInv
  <2>2. InitCommand.op # "nop" => /\ initstate \in 2..13
                                  /\ InitCommand.op = "refresh" => initstate \in 3..12
    BY DEF InitCommand, SdramTypeOK
  <2> QED
    BY <1>2, <2>1, <2>2 DEF IdleUntilReady
<1> QED
  BY <1>1, <1>2

\* Clocks since the chip saw a row opened for the slot.
SinceOpen1 == IF sdram_state < 4 THEN sdram_state + 12 ELSE sdram_state - 4
SinceOpen2 == IF sdram_state < 12 THEN sdram_state + 4 ELSE sdram_state - 12

Busy1(b) == Accessing(sdram_slot1) /\ slot1_bank = b /\ timer[b] + SinceOpen1 <= 15
Busy2(b) == Accessing(sdram_slot2) /\ slot2_bank = b /\ timer[b] + SinceOpen2 <= 15
BusyRefresh(b) == sdram_slot1 = "refresh" /\ timer[b] + SinceOpen1 <= 15

\* The last refresh of the start-up is over before the phase is restarted.
StartUpOver == initstate \in 14..15 \/ (initstate = 13 /\ sdram_state \in 3..14)

TimerInv ==
  /\ \A b \in Bank : timer[b] > 0 => Busy1(b) \/ Busy2(b) \/ BusyRefresh(b)
  /\ ~init_done /\ StartUpOver => \A b \in Bank : timer[b] = 0

RowInv ==
  init_done =>
    /\ Accessing(sdram_slot1) /\ sdram_state \in 4..6 =>
         /\ timer[slot1_bank] + (sdram_state - 4) = RowCycle
         /\ row[slot1_bank] = casaddr.line.row
    /\ Accessing(sdram_slot2) /\ sdram_state \in 12..14 =>
         /\ timer[slot2_bank] + (sdram_state - 12) = RowCycle
         /\ row[slot2_bank] = casaddr.line.row

ModeInv ==
  init_done \/ initstate \in 14..15 \/ (initstate = 13 /\ sdram_state \in 4..14) => mode_set

\* What the chip does to one bank.
LEMMA BankStep ==
  ASSUME ChipTypeOK, ChipEdge, NEW b \in Bank
  PROVE  /\ row'[b] = IF Opens(b) THEN sd_cmd.row ELSE row[b]
         /\ sd_cmd.op = "refresh" => timer'[b] = RefreshCycle
         /\ Opens(b) => timer'[b] = RowCycle
         /\ sd_cmd.op # "refresh" /\ ~Opens(b) =>
              timer'[b] = IF timer[b] = 0 THEN 0 ELSE timer[b] - 1
BY DEF ChipEdge, ChipRows, Opens, Elapsed

\* A bank stays busy for as long as the slot that opened it remembers it, no longer.
LEMMA TimerStep ==
  ASSUME SdramTypeOK, SdramTypeOK', ChipTypeOK, SlotsDisjoint, IdleUntilReady,
         GrantInv, CommandInv, TimerInv, SdramEdge, ChipEdge
  PROVE  TimerInv'
<1>0. /\ sdram_state \in 0..15 /\ initstate \in 0..15 /\ RowCycle \in 2..15
      /\ RefreshCycle \in 0..15 /\ \A b \in Bank : timer[b] \in Nat
  BY TimingAssumption DEF SdramTypeOK, ChipTypeOK
<1>1. CASE ~init_done
  <2>1. /\ sdram_slot1 = "refresh" /\ sdram_slot1' = "refresh" /\ sd_cmd.op # "active"
        /\ sd_cmd.op = "refresh" => sdram_state = 3 /\ initstate \in 3..12
    BY <1>1, StartUpStep, ActiveNow, QuietNow DEF IdleUntilReady
  <2>2. \A b \in Bank : timer[b] + SinceOpen1 <= 15 \/ timer[b] = 0
    BY <1>0, <1>1 DEF TimerInv, Busy1, Busy2, BusyRefresh, IdleUntilReady, Accessing
  <2>3. \/ sdram_state' = NextPhase(sdram_state)
        \/ sdram_state = 14 /\ initstate = 15
    BY <1>1, StartUpStep DEF NextPhase
  <2>4. ASSUME NEW b \in Bank, timer'[b] > 0 PROVE BusyRefresh(b)'
    <3>1. CASE sd_cmd.op = "refresh"
      <4>1. sdram_state' = 4 /\ timer'[b] = RefreshCycle
        BY <2>1, <2>3, <3>1, BankStep DEF NextPhase
      <4> QED
        BY <1>0, <2>1, <4>1 DEF BusyRefresh, SinceOpen1
    <3>2. CASE sd_cmd.op # "refresh"
      <4>1. timer'[b] = IF timer[b] = 0 THEN 0 ELSE timer[b] - 1
        BY <2>1, <3>2, BankStep DEF Opens
      <4>2. timer[b] + SinceOpen1 <= 15 /\ timer[b] >= 2 /\ ~StartUpOver
        BY <1>0, <1>1, <2>2, <2>4, <4>1 DEF TimerInv
      <4>3. sdram_state' = NextPhase(sdram_state)
        BY <2>3, <4>2 DEF StartUpOver
      <4> QED
        BY <1>0, <2>1, <4>1, <4>2, <4>3 DEF BusyRefresh, SinceOpen1, NextPhase
    <3> QED
      BY <3>1, <3>2
  <2>5. ASSUME NEW b \in Bank, ~init_done', StartUpOver' PROVE timer'[b] = 0
    <3>1. timer'[b] = IF timer[b] = 0 THEN 0 ELSE timer[b] - 1
      <4>1. sd_cmd.op # "refresh"
        BY <1>0, <1>1, <2>1, <2>5, StartUpStep DEF StartUpOver, NextPhase
      <4> QED
        BY <2>1, <4>1, BankStep DEF Opens
    <3>2. StartUpOver \/ sdram_state = 2
      BY <1>0, <1>1, <2>5, StartUpStep DEF StartUpOver, NextPhase
    <3> QED
      BY <1>0, <1>1, <2>2, <3>1, <3>2 DEF TimerInv, SinceOpen1
  <2> QED
    BY <2>4, <2>5 DEF TimerInv
<1>2. CASE init_done
  <2>1. init_done' /\ sdram_state' = NextPhase(sdram_state)
    BY <1>2, RoundStep
  <2>2. ASSUME NEW b \in Bank, timer'[b] > 0
        PROVE  Busy1(b)' \/ Busy2(b)' \/ BusyRefresh(b)'
    <3>1. CASE sd_cmd.op = "refresh"
      <4>1. sdram_state' = 4 /\ timer'[b] = RefreshCycle /\ sdram_slot1' = "refresh"
        BY <1>2, <2>1, <3>1, QuietNow, BankStep, SlotsHeldStep DEF NextPhase
      <4> QED
        BY <1>0, <4>1 DEF BusyRefresh, SinceOpen1
    <3>2. CASE Opens(b)
      <4>1. timer'[b] = RowCycle
        BY <3>2, BankStep
      <4>2. CASE sdram_state = 3
        BY <1>0, <1>2, <2>1, <3>2, <4>1, <4>2, ActiveNow, SlotsHeldStep
        DEF Opens, Busy1, SinceOpen1, NextPhase, Accessing
      <4>3. CASE sdram_state = 11
        BY <1>0, <1>2, <2>1, <3>2, <4>1, <4>3, ActiveNow, SlotsHeldStep
        DEF Opens, Busy2, SinceOpen2, NextPhase, Accessing
      <4> QED
        BY <3>2, <4>2, <4>3, ActiveNow DEF Opens
    <3>3. CASE sd_cmd.op # "refresh" /\ ~Opens(b)
      <4>1. timer'[b] = timer[b] - 1 /\ timer[b] >= 2
        BY <1>0, <2>2, <3>3, BankStep
      <4>2. CASE Busy1(b)
        BY <1>0, <1>2, <2>1, <4>1, <4>2, SlotsHeldStep DEF Busy1, SinceOpen1, NextPhase, Accessing
      <4>3. CASE Busy2(b)
        BY <1>0, <1>2, <2>1, <4>1, <4>3, SlotsHeldStep DEF Busy2, SinceOpen2, NextPhase, Accessing
      <4>4. CASE BusyRefresh(b)
        BY <1>0, <1>2, <2>1, <4>1, <4>4, SlotsHeldStep DEF BusyRefresh, SinceOpen1, NextPhase
      <4> QED
        BY <1>0, <4>1, <4>2, <4>3, <4>4 DEF TimerInv
    <3> QED
      BY <3>1, <3>2, <3>3
  <2> QED
    BY <2>1, <2>2 DEF TimerInv
<1> QED
  BY <1>1, <1>2

\* The row of a granted access stays open until its column command.
LEMMA RowStep ==
  ASSUME SdramTypeOK, ChipTypeOK, SlotsDisjoint, IdleUntilReady,
         GrantInv, CommandInv, RowInv, SdramEdge, ChipEdge
  PROVE  RowInv'
<1>0. /\ sdram_state \in 0..15 /\ RowCycle \in 2..15 /\ slot1_bank \in Bank /\ slot2_bank \in Bank
      /\ \A b \in Bank : timer[b] \in Nat
  BY TimingAssumption DEF SdramTypeOK, ChipTypeOK
<1>1. CASE ~init_done
  BY <1>1, StartUpStep DEF RowInv
<1>2. CASE init_done
  <2>1. init_done' /\ sdram_state' = NextPhase(sdram_state)
    BY <1>2, RoundStep
  <2>2. ASSUME Accessing(sdram_slot1), sdram_state \in 3..5
        PROVE  /\ timer'[slot1_bank] + (sdram_state - 3) = RowCycle
               /\ row'[slot1_bank] = casaddr.line.row
    <3>1. CASE sdram_state = 3
      <4>1. sd_cmd = Active(casaddr.line) /\ casaddr.line.bank = slot1_bank
        BY <1>2, <2>2, <3>1 DEF CommandInv, GrantInv, Opening, CasOf, Accessing
      <4>2. Opens(slot1_bank) /\ sd_cmd.row = casaddr.line.row
        BY <4>1 DEF Opens, Active
      <4> QED
        BY <1>0, <3>1, <4>2, BankStep
    <3>2. CASE sdram_state # 3
      <4>1. sd_cmd = Nop
        BY <1>2, <2>2, <3>2 DEF CommandInv
      <4> QED
        BY <1>0, <1>2, <2>2, <3>2, <4>1, BankStep DEF RowInv, Opens, Nop
    <3> QED
      BY <3>1, <3>2
  <2>3. ASSUME Accessing(sdram_slot2), sdram_state \in 11..13
        PROVE  /\ timer'[slot2_bank] + (sdram_state - 11) = RowCycle
               /\ row'[slot2_bank] = casaddr.line.row
    <3>1. CASE sdram_state = 11
      <4>1. sd_cmd = Active(casaddr.line) /\ casaddr.line.bank = slot2_bank
        BY <1>2, <2>3, <3>1 DEF CommandInv, GrantInv, Opening, CasOf, Accessing
      <4>2. Opens(slot2_bank) /\ sd_cmd.row = casaddr.line.row
        BY <4>1 DEF Opens, Active
      <4> QED
        BY <1>0, <3>1, <4>2, BankStep
    <3>2. CASE sdram_state # 11
      <4>1. sd_cmd = Nop
        BY <1>2, <2>3, <3>2 DEF CommandInv
      <4> QED
        BY <1>0, <1>2, <2>3, <3>2, <4>1, BankStep DEF RowInv, Opens, Nop
    <3> QED
      BY <3>1, <3>2
  <2>4. sdram_state' \in 4..6 => sdram_state \in 3..5 /\ sdram_state' = sdram_state + 1
    BY <1>0, <2>1 DEF NextPhase
  <2>5. sdram_state' \in 12..14 => sdram_state \in 11..13 /\ sdram_state' = sdram_state + 1
    BY <1>0, <2>1 DEF NextPhase
  <2>6. sdram_state \in 3..5 \cup 11..13 =>
          UNCHANGED <<sdram_slot1, sdram_slot2, slot1_bank, slot2_bank, casaddr>>
    BY <1>2, SlotsHeldStep
  <2> QED
    BY <1>0, <2>1, <2>2, <2>3, <2>4, <2>5, <2>6 DEF RowInv
<1> QED
  BY <1>1, <1>2

\* The mode is set, and every bank closed, before the first access.
LEMMA ModeStep ==
  ASSUME SdramTypeOK, CommandInv, ModeInv, SdramEdge, ChipEdge
  PROVE  ModeInv'
<1>1. mode_set \/ sd_cmd.op = "mode" => mode_set'
  BY Zenon DEF ChipEdge, ChipRows
<1>2. CASE init_done
  BY <1>1, <1>2 DEF ModeInv
<1>3. CASE ~init_done
  <2>1. initstate = 13 /\ sdram_state = 3 => sd_cmd.op = "mode"
    BY <1>3 DEF CommandInv, InitCommand, LoadMode
  <2>2. init_done' \/ initstate' \in 14..15 \/ (initstate' = 13 /\ sdram_state' \in 4..14) =>
          initstate \in 14..15 \/ (initstate = 13 /\ sdram_state \in 3..14)
    BY <1>3, StartUpStep DEF NextPhase, SdramTypeOK
  <2>3. initstate \in 14..15 \/ (initstate = 13 /\ sdram_state \in 3..14) =>
          mode_set \/ sd_cmd.op = "mode"
    BY <2>1 DEF ModeInv, SdramTypeOK
  <2> QED
    BY <1>1, <2>2, <2>3, Zenon DEF ModeInv
<1> QED
  BY <1>2, <1>3

\* A burst of a slot in its n-th clock.
BurstOf(p, n) ==
  IF CasOf(p) = "read" \/ (CasOf(p) = "write" /\ n <= 3)
  THEN burst.op = CasOf(p) /\ burst.n = n
  ELSE burst = NoBurst

BurstInv ==
  /\ ~init_done => burst = NoBurst
  /\ init_done =>
       /\ sdram_state \in 7..12 => BurstOf(sdram_slot1, sdram_state - 6)
       /\ sdram_state = 15 => BurstOf(sdram_slot2, 1)
       /\ sdram_state \in 0..4 => BurstOf(sdram_slot2, sdram_state + 2)
       /\ sdram_state \in {5, 6, 13, 14} => burst = NoBurst

WriteEnableInv ==
  sdwrite => \/ sdram_state \in {5, 6, 7, 8, 13, 14, 15, 0}
             \/ sdram_state = 1 /\ sdram_slot2 = "writecache"
             \/ sdram_state = 9 /\ sdram_slot1 = "writecache"

\* Without a column command a running burst goes to its next word or beat.
LEMMA BurstGoesOn ==
  ASSUME ChipTypeOK, ChipEdge, ~ColumnOp
  PROVE  /\ burst.op = "read" /\ burst.n < 6 => burst' = [burst EXCEPT !.n = @ + 1]
         /\ burst.op = "write" /\ burst.n < 3 => burst' = [burst EXCEPT !.n = @ + 1]
         /\ burst.op = "none" => burst' = NoBurst
         /\ burst.op = "read" /\ burst.n = 6 => burst' = NoBurst
         /\ burst.op = "write" /\ burst.n = 3 => burst' = NoBurst
<1>1. burst' = CASE ColumnOp -> Started
             [] ~ColumnOp /\ burst.op = "read" /\ burst.n < 6 -> [burst EXCEPT !.n = @ + 1]
             [] ~ColumnOp /\ burst.op = "write" /\ burst.n < 3 -> [burst EXCEPT !.n = @ + 1]
             [] OTHER -> NoBurst
  BY DEF ChipEdge, ChipBurst
<1>2. burst.op = "read" /\ burst.n < 6 => burst' = [burst EXCEPT !.n = @ + 1]
  BY <1>1, Zenon
<1>3. burst.op = "write" /\ burst.n < 3 => burst' = [burst EXCEPT !.n = @ + 1]
  BY <1>1, Zenon
<1>4. burst.op = "none" => burst' = NoBurst
  BY <1>1, Zenon
<1>5. ~(burst.op = "read" /\ burst.n < 6) /\ ~(burst.op = "write" /\ burst.n < 3) =>
        burst' = NoBurst
  BY <1>1, Zenon
<1> QED
  BY <1>2, <1>3, <1>4, <1>5

\* The same for the burst of a slot.
LEMMA BurstOfStep ==
  ASSUME ChipTypeOK, ChipEdge, ~ColumnOp, NEW p \in Port, NEW n \in 1..6, BurstOf(p, n)
  PROVE  IF n = 6 THEN burst' = NoBurst
         ELSE IF CasOf(p) = "read" \/ (CasOf(p) = "write" /\ n + 1 <= 3)
              THEN burst'.op = CasOf(p) /\ burst'.n = n + 1
              ELSE burst' = NoBurst
<1>1. burst \in {NoBurst} \cup Burst
  BY DEF ChipTypeOK
<1>2. CASE burst = NoBurst
  BY <1>2, BurstGoesOn DEF NoBurst, BurstOf, CasOf
<1>3. CASE burst \in Burst
  BY <1>3, BurstGoesOn DEF NoBurst, BurstOf, CasOf, Burst
<1> QED
  BY <1>1, <1>2, <1>3

\* BurstInv is kept: the bursts of the two slots follow each other without overlap.
LEMMA BurstStep ==
  ASSUME SdramTypeOK, ChipTypeOK, SlotsDisjoint, IdleUntilReady,
         GrantInv, CommandInv, BurstInv, SdramEdge, ChipEdge
  PROVE  BurstInv'
<1>0. sdram_state \in 0..15 /\ sdram_slot1 \in Port /\ sdram_slot2 \in Port
  BY DEF SdramTypeOK
<1>1. CASE ~init_done
  <2>1. ~ColumnOp /\ burst = NoBurst
    BY <1>1, ColumnNow DEF BurstInv
  <2>2. burst' = NoBurst
    BY <2>1, BurstGoesOn DEF NoBurst
  <2>3. init_done' => sdram_state' = 0 /\ sdram_slot2' = "idle"
    BY <1>1, StartUpStep DEF IdleUntilReady
  <2> QED
    BY <2>2, <2>3 DEF BurstInv, BurstOf, CasOf
<1>2. CASE init_done
  <2>1. init_done' /\ sdram_state' = NextPhase(sdram_state)
    BY <1>2, RoundStep
  <2>2. sdram_state \notin {6, 14} => ~ColumnOp
    BY ColumnNow
  <2>3. ASSUME sdram_state \in 7..12
        PROVE  sdram_state' = sdram_state + 1 /\ UNCHANGED sdram_slot1
               /\ IF sdram_state = 12 THEN burst' = NoBurst
                  ELSE BurstOf(sdram_slot1, sdram_state - 6)'
    <3>1. sdram_state' = sdram_state + 1 /\ UNCHANGED sdram_slot1
      BY <1>2, <2>1, <2>3, SlotsHeldStep DEF NextPhase
    <3>2. BurstOf(sdram_slot1, sdram_state - 6) /\ sdram_state - 6 \in 1..6
      BY <1>2, <2>3 DEF BurstInv
    <3> QED
      BY <1>0, <2>2, <2>3, <3>1, <3>2, BurstOfStep DEF BurstOf
  <2>4. ASSUME sdram_state \in {15} \cup 0..4
        PROVE  sdram_state' = NextPhase(sdram_state) /\ UNCHANGED sdram_slot2
               /\ IF sdram_state = 4 THEN burst' = NoBurst
                  ELSE BurstOf(sdram_slot2, sdram_state + 2)'
    <3>1. UNCHANGED sdram_slot2
      BY <1>2, <2>4, SlotsHeldStep
    <3>2. CASE sdram_state = 15
      <4>1. BurstOf(sdram_slot2, 1) /\ sdram_state' = 0
        BY <1>2, <2>1, <3>2 DEF BurstInv, NextPhase
      <4> QED
        BY <1>0, <2>1, <2>2, <3>1, <3>2, <4>1, BurstOfStep DEF BurstOf
    <3>3. CASE sdram_state \in 0..4
      <4>1. BurstOf(sdram_slot2, sdram_state + 2) /\ sdram_state + 2 \in 1..6
            /\ sdram_state' = sdram_state + 1
        BY <1>2, <2>1, <3>3 DEF BurstInv, NextPhase
      <4> QED
        BY <1>0, <2>1, <2>2, <3>1, <3>3, <4>1, BurstOfStep DEF BurstOf
    <3> QED
      BY <2>4, <3>2, <3>3
  <2>5. ASSUME sdram_state \in {5, 13} PROVE burst' = NoBurst
    BY <1>2, <2>2, <2>5, BurstGoesOn DEF BurstInv, NoBurst
  <2>6. ASSUME sdram_state = 6 PROVE sdram_state' = 7 /\ BurstOf(sdram_slot1, 1)'
    <3>1. sdram_state' = 7 /\ UNCHANGED sdram_slot1
      BY <1>2, <2>1, <2>6, SlotsHeldStep DEF NextPhase
    <3>2. CASE ColumnOp
      <4>1. burst' = Started
        BY <3>2, Zenon DEF ChipEdge, ChipBurst
      <4>2. burst'.op = CasOf(sdram_slot1) /\ burst'.n = 1 /\ CasOf(sdram_slot1) \in {"read", "write"}
        BY <2>6, <3>2, <4>1, ColumnNow DEF Started, CasOf, Accessing
      <4> QED
        BY <3>1, <4>2 DEF BurstOf
    <3>3. CASE ~ColumnOp
      <4>1. CasOf(sdram_slot1) = "nop"
        BY <1>2, <2>6, <3>3 DEF CommandInv, ColumnCommand, Cas, GrantInv, CasOf, ColumnOp
      <4>2. burst' = NoBurst
        BY <1>2, <2>6, <3>3, BurstGoesOn DEF BurstInv, NoBurst
      <4> QED
        BY <3>1, <4>1, <4>2 DEF BurstOf
    <3> QED
      BY <3>2, <3>3
  <2>7. ASSUME sdram_state = 14 PROVE sdram_state' = 15 /\ BurstOf(sdram_slot2, 1)'
    <3>1. sdram_state' = 15 /\ UNCHANGED sdram_slot2
      BY <1>2, <2>1, <2>7, SlotsHeldStep DEF NextPhase
    <3>2. CASE ColumnOp
      <4>1. burst' = Started
        BY <3>2, Zenon DEF ChipEdge, ChipBurst
      <4>2. burst'.op = CasOf(sdram_slot2) /\ burst'.n = 1 /\ CasOf(sdram_slot2) \in {"read", "write"}
        BY <2>7, <3>2, <4>1, ColumnNow DEF Started, CasOf, Accessing
      <4> QED
        BY <3>1, <4>2 DEF BurstOf
    <3>3. CASE ~ColumnOp
      <4>1. CasOf(sdram_slot2) = "nop"
        BY <1>2, <2>7, <3>3 DEF CommandInv, ColumnCommand, Cas, GrantInv, CasOf, ColumnOp
      <4>2. burst' = NoBurst
        BY <1>2, <2>7, <3>3, BurstGoesOn DEF BurstInv, NoBurst
      <4> QED
        BY <3>1, <4>1, <4>2 DEF BurstOf
    <3> QED
      BY <3>2, <3>3
  <2>8. CASE sdram_state \in 7..12
    <3>1. sdram_state = 12 => sdram_state' = 13 /\ burst' = NoBurst
      BY <2>3, <2>8
    <3>2. sdram_state # 12 => sdram_state' \in 8..12 /\ BurstOf(sdram_slot1, sdram_state - 6)'
      BY <2>3, <2>8
    <3> QED
      BY <2>1, <3>1, <3>2 DEF BurstInv
  <2>9. CASE sdram_state \in {15} \cup 0..4
    <3>1. sdram_state = 4 => sdram_state' = 5 /\ burst' = NoBurst
      BY <2>4, <2>9 DEF NextPhase
    <3>2. sdram_state # 4 => sdram_state' \in 0..4 /\ BurstOf(sdram_slot2, sdram_state + 2)'
      BY <2>4, <2>9 DEF NextPhase
    <3> QED
      BY <2>1, <3>1, <3>2 DEF BurstInv
  <2>10. CASE sdram_state \in {5, 13}
    BY <2>1, <2>5, <2>10 DEF BurstInv, NextPhase
  <2>11. CASE sdram_state \in {6, 14}
    BY <2>1, <2>6, <2>7, <2>11 DEF BurstInv
  <2> QED
    BY <1>0, <2>8, <2>9, <2>10, <2>11
<1> QED
  BY <1>1, <1>2

\* WriteEnableInv is kept.
LEMMA WriteEnableStep ==
  ASSUME SdramTypeOK, IdleUntilReady, SdramEdge
  PROVE  WriteEnableInv'
<1>0. sdram_state \in 0..15
  BY DEF SdramTypeOK
<1>1. sdwrite' => \/ sdram_state \in {4, 5, 6, 7, 12, 13, 14, 15}
                  \/ sdram_state = 0 /\ sdram_slot2 = "writecache"
                  \/ sdram_state = 8 /\ sdram_slot1 = "writecache"
  BY Zenon DEF SdramEdge, Phase, BusEnable
<1>2. CASE init_done
  <2>1. sdram_state' = NextPhase(sdram_state)
    BY <1>2, RoundStep
  <2>2. /\ sdram_state = 0 => UNCHANGED sdram_slot2
        /\ sdram_state = 8 => UNCHANGED sdram_slot1
    BY <1>2, SlotsHeldStep
  <2> QED
    BY <1>0, <1>1, <2>1, <2>2 DEF WriteEnableInv, NextPhase
<1>3. CASE ~init_done
  <2>1. /\ sdram_slot1 # "writecache" /\ sdram_slot2 # "writecache"
        /\ \/ sdram_state # 14 /\ sdram_state' = NextPhase(sdram_state)
           \/ sdram_state = 14 /\ sdram_state' \in {14, 15, 0}
    BY <1>3, StartUpStep DEF IdleUntilReady
  <2> QED
    BY <1>0, <1>1, <2>1 DEF WriteEnableInv, NextPhase
<1> QED
  BY <1>2, <1>3

(***************************************************************************)
(* The invariant, and the theorem it gives.                                *)
(***************************************************************************)
DeviceInv ==
  /\ SlotsDisjoint /\ IdleUntilReady /\ GrantInv /\ CommandInv
  /\ RowInv /\ TimerInv /\ ModeInv /\ BurstInv /\ WriteEnableInv

\* The device invariant holds at power-up, is kept by every step, and implies the timing.
LEMMA DeviceInvInit == Init => DeviceInv
<1> SUFFICES ASSUME Init PROVE DeviceInv
  OBVIOUS
<1> USE DEF Init, SdramInit, ChipInit
<1>1. SlotsDisjoint /\ IdleUntilReady
  BY DEF SlotsDisjoint, IdleUntilReady, Accessing
<1>2. GrantInv /\ CommandInv /\ RowInv /\ ModeInv /\ BurstInv /\ WriteEnableInv
  BY DEF GrantInv, CommandInv, RowInv, ModeInv, BurstInv, WriteEnableInv
<1>3. TimerInv
  BY DEF TimerInv
<1> QED
  BY <1>1, <1>2, <1>3 DEF DeviceInv

LEMMA DeviceInvStep ==
  ASSUME TypeOK, TypeOK', DeviceInv, Next
  PROVE  DeviceInv'
<1>1. /\ SdramTypeOK /\ SdramTypeOK' /\ ChipTypeOK /\ CpuPortTypeOK /\ VgaPortTypeOK
      /\ SdramEdge /\ ChipEdge
  BY DEF TypeOK, Next
<1>2. /\ SlotsDisjoint /\ IdleUntilReady /\ GrantInv /\ CommandInv
      /\ RowInv /\ TimerInv /\ ModeInv /\ BurstInv /\ WriteEnableInv
  BY DEF DeviceInv
<1>3. SlotsDisjoint'
  BY <1>1, <1>2, SlotsStep DEF SdramEdge, Slots
<1>4. IdleUntilReady'
  <2>1. CASE init_done
    BY <1>1, <2>1, RoundStep DEF IdleUntilReady
  <2>2. CASE ~init_done
    BY <1>1, <1>2, <2>2, StartUpStep DEF IdleUntilReady
  <2> QED
    BY <2>1, <2>2
<1>5. GrantInv' /\ CommandInv'
  BY <1>1, <1>2, CommandStep
<1>6. RowInv' /\ TimerInv' /\ ModeInv' /\ BurstInv' /\ WriteEnableInv'
  BY <1>1, <1>2, RowStep, TimerStep, ModeStep, BurstStep, WriteEnableStep
<1> QED
  BY <1>3, <1>4, <1>5, <1>6 DEF DeviceInv

LEMMA DeviceInvStutter ==
  ASSUME DeviceInv, UNCHANGED vars
  PROVE  DeviceInv'
<1>1. UNCHANGED <<sdram_state, initstate, init_done, sdwrite, sdram_slot1, sdram_slot2,
                  slot1_bank, slot2_bank, casaddr, cas_cmd, sd_cmd, row, timer, burst, mode_set>>
  BY DEF vars, sdramRegs, phaseRegs, slotRegs, chipRegs
<1> USE <1>1 DEF DeviceInv
<1>2. SlotsDisjoint' /\ IdleUntilReady' /\ GrantInv' /\ CommandInv'
  BY DEF SlotsDisjoint, Accessing, IdleUntilReady, GrantInv, CasOf, CommandInv, Opening,
    InitCommand, ColumnCommand
<1>3. RowInv' /\ ModeInv' /\ BurstInv' /\ WriteEnableInv'
  BY DEF RowInv, Accessing, ModeInv, BurstInv, BurstOf, CasOf, WriteEnableInv
<1>4. TimerInv'
  BY DEF TimerInv, Busy1, Busy2, BusyRefresh, SinceOpen1, SinceOpen2, Accessing, StartUpOver
<1> QED
  BY <1>2, <1>3, <1>4

LEMMA DeviceInvTiming == TypeOK /\ DeviceInv => DeviceTiming
<1> SUFFICES ASSUME TypeOK, DeviceInv PROVE DeviceTiming
  OBVIOUS
<1>0. /\ SdramTypeOK /\ ChipTypeOK /\ SlotsDisjoint /\ IdleUntilReady /\ GrantInv /\ CommandInv
      /\ RowInv /\ TimerInv /\ ModeInv /\ BurstInv /\ WriteEnableInv
  BY DEF TypeOK, DeviceInv
<1>1. /\ sdram_state \in 0..15 /\ initstate \in 0..15 /\ \A b \in Bank : timer[b] \in Nat
      /\ slot1_bank \in Bank /\ slot2_bank \in Bank
  BY <1>0 DEF SdramTypeOK, ChipTypeOK
<1>2. ASSUME sd_cmd.op = "active" PROVE timer[sd_cmd.bank] = 0 /\ mode_set
  <2>1. mode_set /\ init_done
    BY <1>0, <1>2, ActiveNow DEF ModeInv
  <2>2. CASE sdram_state = 3 /\ Accessing(sdram_slot1) /\ sd_cmd.bank = slot1_bank
    BY <1>0, <1>1, <2>1, <2>2 DEF TimerInv, Busy1, Busy2, BusyRefresh, SinceOpen1, SlotsDisjoint, Accessing
  <2>3. CASE sdram_state = 11 /\ Accessing(sdram_slot2) /\ sd_cmd.bank = slot2_bank
    BY <1>0, <1>1, <2>1, <2>3 DEF TimerInv, Busy1, Busy2, BusyRefresh, SinceOpen2, SlotsDisjoint, Accessing
  <2> QED
    BY <1>0, <1>2, <2>1, <2>2, <2>3, ActiveNow
<1>3. ASSUME sd_cmd.op \in {"refresh", "precharge", "mode"} PROVE \A b \in Bank : timer[b] = 0
  <2>1. sdram_state = 3 /\ sdram_slot1 = "refresh" /\ sdram_slot2 = "idle"
    BY <1>0, <1>3, QuietNow DEF SlotsDisjoint
  <2> QED
    BY <1>0, <1>1, <2>1 DEF TimerInv, Busy1, Busy2, BusyRefresh, SinceOpen1, Accessing
<1>4. ASSUME ColumnOp
      PROVE  timer[sd_cmd.bank] + 2 = RowCycle /\ row[sd_cmd.bank] = casaddr.line.row
  BY <1>0, <1>4, ColumnNow DEF RowInv
<1>5. ~(sdwrite /\ Driving)
  <2> SUFFICES ASSUME sdwrite, burst.op = "read", burst.n \in 3..6 PROVE FALSE
    BY DEF Driving
  <2>1. burst # NoBurst /\ init_done
    BY <1>0 DEF NoBurst, BurstInv
  <2>2. CASE sdram_state \in 7..12
    <3>1. CasOf(sdram_slot1) = "read" /\ burst.n = sdram_state - 6
      BY <1>0, <2>1, <2>2 DEF BurstInv, BurstOf
    <3> QED
      BY <1>0, <2>2, <3>1 DEF WriteEnableInv, CasOf
  <2>3. CASE sdram_state = 15
    BY <1>0, <2>1, <2>3 DEF BurstInv, BurstOf
  <2>4. CASE sdram_state \in 0..4
    <3>1. CasOf(sdram_slot2) = "read" /\ burst.n = sdram_state + 2
      BY <1>0, <2>1, <2>4 DEF BurstInv, BurstOf
    <3> QED
      BY <1>0, <2>4, <3>1 DEF WriteEnableInv, CasOf
  <2>5. sdram_state \notin {5, 6, 13, 14}
    BY <1>0, <2>1 DEF BurstInv
  <2> QED
    BY <1>1, <2>2, <2>3, <2>4, <2>5
<1> QED
  BY <1>2, <1>3, <1>4, <1>5 DEF DeviceTiming

LEMMA DeviceInvariant == Spec => []DeviceInv
<1>1. TypeOK /\ TypeOK' /\ DeviceInv /\ [Next]_vars => DeviceInv'
  BY DeviceInvStep, DeviceInvStutter
<1> QED
  BY <1>1, DeviceInvInit, TypeCorrect, PTL DEF Spec

(***************************************************************************)
(* No command meets the device in a state that does not allow it, and the    *)
(* controller never drives the data bus against the device: for every row    *)
(* cycle and refresh time that fit in a round (TimingAssumption).            *)
(***************************************************************************)
THEOREM DeviceAlwaysTimed == Spec => []DeviceTiming
BY DeviceInvariant, DeviceInvTiming, TypeCorrect, PTL

-----------------------------------------------------------------------------
(***************************************************************************)
(* A read in one of the slots.  Phases are counted as in slot 1, 3 being the *)
(* one after arbitration; slot 2 runs eight phases later.                    *)
(***************************************************************************)
HalfAt(a, k) == [b \in 0..1 |-> mem[a.line][2 * ((a.half + k) % 4) + b]]

\* How far the read of address a has come in phase p of its slot.
ReadOf(a, p) ==
  /\ p \in 3..6 => casaddr = a
  /\ p \in 7..12 => burst.line = a.line /\ burst.half = a.half
  /\ p \in 9..12 => chip_q = HalfAt(a, p - 9)
  /\ p \in 10..13 => sdata_reg = HalfAt(a, p - 10)

\* What the proofs of the timing say about a slot that reads, in phase p of it.
ReadsIn(p) ==
  /\ p \in 3..5 => casaddr' = casaddr
  /\ p = 6 => sd_cmd = Cas("read", casaddr) /\ row[casaddr.line.bank] = casaddr.line.row
  /\ p # 6 => ~ColumnOp
  /\ p \in 7..12 => burst.op = "read" /\ burst.n = p - 6
  /\ p \in 9..12 => ~sdwrite

\* A read comes one phase further, as long as the memory stays as it is.
LEMMA ReadOfStep ==
  ASSUME TypeOK, ChipEdge, Phase, UNCHANGED mem,
         NEW a \in HalfAddr, NEW p \in 3..12, ReadOf(a, p), ReadsIn(p)
  PROVE  (ReadOf(a, p + 1))'
<1>1. /\ burst \in {NoBurst} \cup Burst /\ ChipTypeOK
      /\ a.line \in Line /\ a.half \in 0..3
      /\ a.line = [bank |-> a.line.bank, row |-> a.line.row, col |-> a.line.col]
  BY DEF TypeOK, ChipTypeOK, HalfAddr, Line
<1>2. p + 1 \in 3..6 => casaddr' = a
  BY DEF ReadOf, ReadsIn
<1>3. ASSUME p = 6
      PROVE  burst'.op = "read" /\ burst'.n = 1 /\ burst'.line = a.line /\ burst'.half = a.half
  <2>1. ColumnOp /\ sd_cmd = Cas("read", a) /\ row[a.line.bank] = a.line.row
    BY <1>3 DEF ReadOf, ReadsIn, ColumnOp, Cas
  <2>2. burst' = Started
    BY <2>1, Zenon DEF ChipEdge, ChipBurst
  <2> QED
    BY <1>1, <2>1, <2>2 DEF Started, Cas
<1>4. ASSUME p \in 7..11
      PROVE  /\ burst'.op = "read" /\ burst'.n = p - 5
             /\ burst'.line = a.line /\ burst'.half = a.half
  <2>1. burst.op = "read" /\ burst.n = p - 6 /\ burst.line = a.line /\ burst.half = a.half
    BY <1>4 DEF ReadOf, ReadsIn
  <2>2. burst \in Burst /\ burst' = [burst EXCEPT !.n = @ + 1]
    BY <1>1, <1>4, <2>1, BurstGoesOn DEF ReadsIn, NoBurst
  <2> QED
    BY <1>4, <2>1, <2>2 DEF Burst
<1>5. ASSUME p \in 8..11 PROVE chip_q' = HalfAt(a, p - 8)'
  <2>1. /\ burst'.op = "read" /\ burst'.n \in 3..6 /\ burst'.n - 3 = p - 8
        /\ burst'.line = a.line /\ burst'.half = a.half
    BY <1>4, <1>5
  <2>2. chip_q' = [b \in 0..1 |-> mem[burst'.line][2 * Position(burst', burst'.n - 3) + b]]
    BY <2>1 DEF ChipEdge, ChipOutput
  <2>3. Position(burst', burst'.n - 3) = (a.half + (p - 8)) % 4
    BY <2>1 DEF Position
  <2> QED
    BY <2>1, <2>2, <2>3 DEF HalfAt
<1>6. ASSUME p \in 9..12 PROVE sdata_reg' = HalfAt(a, p - 9)'
  <2>1. sdata_reg' = chip_q
    BY <1>6 DEF Phase, sdata, ReadsIn
  <2> QED
    BY <1>6, <2>1 DEF ReadOf, HalfAt
<1> QED
  BY <1>2, <1>3, <1>4, <1>5, <1>6 DEF ReadOf

\* What the device invariant says of a read in slot 1.
LEMMA ReadsInSlot1 ==
  ASSUME TypeOK, DeviceInv, init_done, SdramEdge,
         sdram_slot1 \in {"port0", "zpu"}, sdram_state \in 3..12
  PROVE  ReadsIn(sdram_state)
<1>0. /\ SdramTypeOK /\ SlotsDisjoint /\ IdleUntilReady /\ GrantInv /\ CommandInv
      /\ RowInv /\ BurstInv /\ WriteEnableInv
  BY DEF TypeOK, DeviceInv
<1>1. CasOf(sdram_slot1) = "read" /\ Accessing(sdram_slot1)
  BY DEF CasOf, Accessing
<1>2. sdram_state \in 3..5 => casaddr' = casaddr
  BY SlotsHeldStep
<1>3. sdram_state = 6 => /\ sd_cmd = Cas("read", casaddr)
                         /\ row[casaddr.line.bank] = casaddr.line.row
  BY <1>0, <1>1 DEF GrantInv, CommandInv, ColumnCommand, RowInv
<1>4. sdram_state # 6 => ~ColumnOp
  BY <1>0, ColumnNow
<1>5. sdram_state \in 7..12 => burst.op = "read" /\ burst.n = sdram_state - 6
  BY <1>0, <1>1 DEF BurstInv, BurstOf
<1>6. sdram_state \in 9..12 => ~sdwrite
  BY <1>0 DEF WriteEnableInv
<1> QED
  BY <1>2, <1>3, <1>4, <1>5, <1>6 DEF ReadsIn

\* The memory changes only in the phases of a slot that writes.
LEMMA MemoryQuiet ==
  ASSUME TypeOK, DeviceInv, ChipEdge,
         sdram_state \in 6..9 => sdram_slot1 # "writecache",
         sdram_state \in {14, 15, 0, 1} => sdram_slot2 # "writecache"
  PROVE  UNCHANGED mem
<1>0. /\ SdramTypeOK /\ SlotsDisjoint /\ IdleUntilReady /\ GrantInv /\ CommandInv /\ BurstInv
      /\ sdram_state \in 0..15
  BY DEF TypeOK, DeviceInv, SdramTypeOK
<1>1. sd_cmd.op # "write"
  BY <1>0, ColumnNow DEF ColumnOp, CasOf
<1>2. burst.op # "write"
  <2> SUFFICES ASSUME burst.op = "write" PROVE FALSE
    OBVIOUS
  <2>1. burst # NoBurst /\ init_done
    BY <1>0 DEF NoBurst, BurstInv
  <2>2. sdram_state \in 7..12 => BurstOf(sdram_slot1, sdram_state - 6)
    BY <1>0, <2>1 DEF BurstInv
  <2>3. sdram_state = 15 => BurstOf(sdram_slot2, 1)
    BY <1>0, <2>1 DEF BurstInv
  <2>4. sdram_state \in 0..4 => BurstOf(sdram_slot2, sdram_state + 2)
    BY <1>0, <2>1 DEF BurstInv
  <2>5. sdram_state \notin {5, 6, 13, 14}
    BY <1>0, <2>1 DEF BurstInv
  <2> QED
    BY <1>0, <2>1, <2>2, <2>3, <2>4, <2>5 DEF BurstOf, CasOf
<1> QED
  BY <1>1, <1>2 DEF ChipEdge, ChipMemory

-----------------------------------------------------------------------------
(***************************************************************************)
(* The line the VGA port is handed.                                         *)
(***************************************************************************)
VgaInv ==
  /\ vga_req => vga_state = "wait"
  /\ vga_fill => init_done /\ sdram_slot1 = "port0" /\ sdram_state \in 10..13
  /\ init_done /\ sdram_slot1 = "port0" /\ sdram_state \in 3..13 =>
       /\ vga_state = "wait" /\ ReadOf(LineStart(vga_addr), sdram_state)
       /\ vga_req => sdram_state = 3 /\ vga_ack

\* The burst the VGA port was granted is the one it asked for, until its last word.
LEMMA VgaInvStep ==
  ASSUME TypeOK, TypeOK', DeviceInv, VgaInv, Next
  PROVE  VgaInv'
<1>0. /\ SdramTypeOK /\ CpuPortTypeOK /\ VgaPortTypeOK /\ SdramEdge /\ ChipEdge /\ Phase /\ VgaEdge
      /\ sdram_state \in 0..15 /\ vga_state \in {"idle", "wait"}
      /\ SlotsDisjoint /\ IdleUntilReady
  BY DEF TypeOK, Next, SdramEdge, SdramTypeOK, DeviceInv
<1>1. vga_req' => vga_state' = "wait" \/ (vga_fill /\ sdram_state = 13)
  BY <1>0 DEF VgaEdge, VgaIdle, VgaAsk, VgaWait
<1>2. vga_fill' => \/ sdram_state = 9 /\ sdram_slot1 = "port0"
                   \/ sdram_state = 1 /\ sdram_slot2 = "port0"
                   \/ vga_fill /\ sdram_state \notin {5, 13}
  BY <1>0, Zenon DEF Phase
<1>3. sdram_slot2 # "port0"
  BY <1>0 DEF SdramTypeOK
<1>4. vga_state = "wait" => UNCHANGED vga_addr
  BY <1>0 DEF VgaEdge, VgaIdle, VgaAsk, VgaWait
<1>5. vga_state = "wait" /\ sdram_state # 13 => vga_state' = "wait"
  BY <1>0 DEF VgaEdge, VgaIdle, VgaAsk, VgaWait
<1>6. CASE ~init_done
  <2>1. ~vga_fill /\ sdram_slot1' # "port0" /\ (init_done' => sdram_state' = 0)
    BY <1>0, <1>6, StartUpStep DEF VgaInv, IdleUntilReady
  <2>2. ~vga_fill'
    BY <1>0, <1>2, <1>3, <1>6, <2>1 DEF IdleUntilReady
  <2> QED
    BY <1>1, <2>1, <2>2 DEF VgaInv
<1>7. CASE init_done
  <2>1. init_done' /\ sdram_state' = NextPhase(sdram_state)
    BY <1>0, <1>7, RoundStep
  <2>2. sdram_state # 2 => UNCHANGED sdram_slot1
    BY <1>0, <1>7, SlotsHeldStep
  <2>3. vga_fill' => init_done' /\ sdram_slot1' = "port0" /\ sdram_state' \in 10..13
    BY <1>2, <1>3, <2>1, <2>2 DEF VgaInv, NextPhase
  <2>4. vga_req' => vga_state' = "wait"
    <3>1. vga_fill /\ sdram_state = 13 => vga_state = "wait" /\ ~vga_req
      BY <1>7 DEF VgaInv
    <3>2. vga_state = "wait" => vga_req' = (vga_req /\ ~vga_ack)
      BY <1>0, Zenon DEF VgaEdge, VgaIdle, VgaAsk, VgaWait
    <3> QED
      BY <1>1, <3>1, <3>2
  <2>5. ASSUME sdram_slot1' = "port0", sdram_state' \in 3..13
        PROVE  /\ vga_state' = "wait" /\ (ReadOf(LineStart(vga_addr), sdram_state))'
               /\ vga_req' => sdram_state' = 3 /\ vga_ack'
    <3>1. CASE sdram_state = 2
      <4>1. vga_req /\ casaddr' = LineStart(vga_addr) /\ sdram_state' = 3 /\ vga_ack'
        BY <1>0, <1>7, <2>1, <2>5, <3>1, Grant1Step DEF Accessing, Target, NextPhase
      <4>2. vga_state = "wait"
        BY <4>1 DEF VgaInv
      <4> QED
        BY <1>4, <1>5, <3>1, <4>1, <4>2 DEF ReadOf
    <3>2. CASE sdram_state # 2
      <4>1. sdram_slot1 = "port0" /\ sdram_state \in 3..12 /\ sdram_state' = sdram_state + 1
        BY <1>0, <2>1, <2>2, <2>5, <3>2 DEF NextPhase
      <4>2. vga_state = "wait" /\ ReadOf(LineStart(vga_addr), sdram_state)
        BY <1>7, <4>1 DEF VgaInv
      <4>3. UNCHANGED mem
        BY <1>0, <4>1, MemoryQuiet
      <4>4. LineStart(vga_addr) \in HalfAddr
        BY <1>0, LineStartType DEF VgaPortTypeOK
      <4>5. ReadsIn(sdram_state)
        BY <1>0, <1>7, <4>1, ReadsInSlot1
      <4>6. ~vga_req'
        <5>1. vga_req' = (vga_req /\ ~vga_ack)
          BY <1>0, <4>2, Zenon DEF VgaEdge, VgaIdle, VgaAsk, VgaWait
        <5>2. ~vga_req \/ vga_ack
          BY <1>7, <4>1 DEF VgaInv
        <5> QED
          BY <5>1, <5>2, Zenon
      <4> QED
        BY <1>0, <1>4, <1>5, <4>1, <4>2, <4>3, <4>4, <4>5, <4>6, ReadOfStep DEF ReadOf, HalfAt
    <3> QED
      BY <3>1, <3>2
  <2> QED
    BY <2>1, <2>3, <2>4, <2>5 DEF VgaInv
<1> QED
  BY <1>6, <1>7

(***************************************************************************)
(* Under vga_fill the port is handed the words of its line in order, what-    *)
(* ever the CPU and the other slot do meanwhile.                             *)
(***************************************************************************)
THEOREM VgaLineAlwaysIntact == Spec => []VgaLineIntact
<1>1. Init => VgaInv
  BY DEF Init, SdramInit, VgaInit, VgaInv
<1>2. TypeOK /\ TypeOK' /\ DeviceInv /\ VgaInv /\ [Next]_vars => VgaInv'
  <2>1. ASSUME VgaInv, UNCHANGED vars PROVE VgaInv'
    BY <2>1 DEF VgaInv, ReadOf, HalfAt, vars, sdramRegs, phaseRegs, slotRegs, chipRegs, vgaPort
  <2> QED
    BY <2>1, VgaInvStep
<1>3. TypeOK /\ VgaInv => VgaLineIntact
  <2> SUFFICES ASSUME TypeOK, VgaInv, vga_fill, NEW b \in 0..1
               PROVE  vga_data[b] = mem[vga_addr][2 * (sdram_state - 10) + b]
    BY DEF VgaLineIntact
  <2>1. sdram_state \in 10..13 /\ sdata_reg = HalfAt(LineStart(vga_addr), sdram_state - 10)
    BY DEF VgaInv, ReadOf
  <2>2. (0 + (sdram_state - 10)) % 4 = sdram_state - 10
    BY <2>1
  <2> QED
    BY <2>1, <2>2 DEF HalfAt, LineStart, vga_data
<1> QED
  BY <1>1, <1>2, <1>3, TypeCorrect, DeviceInvariant, PTL DEF Spec

-----------------------------------------------------------------------------
(***************************************************************************)
(* An access of the CPU, from its strobe to the clock mem_busy falls.        *)
(***************************************************************************)
BusState(op) == IF op = "read" THEN "read1" ELSE IF op = "writeb" THEN "writeb" ELSE "write1"
DataFor(op, w) == IF op = "writeb" THEN ByteLanes(w) ELSE w

NoAccess == mem_op = "none" /\ bus_state = "idle" /\ ~mem_strobe /\ mem_busy /\ ~req1
Strobed == mem_op # "none" /\ bus_state = "idle" /\ mem_strobe /\ mem_busy /\ ~req1
Requested == mem_op # "none" /\ bus_state = BusState(mem_op) /\ ~mem_strobe /\ mem_busy
Answered == mem_op # "none" /\ bus_state = "idle" /\ ~mem_strobe /\ ~mem_busy /\ ~req1

\* What the port of the controller is given with a request.
PortGiven ==
  req1 => /\ Addr1 = mem_addr
          /\ IF mem_op = "read" THEN wr1 ELSE ~wr1 /\ datawr1 = DataFor(mem_op, mem_write)

Lanes ==
  mem_op # "read" =>
    /\ wrU2 = (mem_op \in {"writeh", "writeb"})
    /\ wrL1 = (mem_op = "writeb" /\ mem_addr.byte % 2 = 0)
    /\ wrU1 = (mem_op = "writeb" /\ mem_addr.byte % 2 = 1)

BusInv ==
  /\ NoAccess \/ Strobed \/ Requested \/ Answered
  /\ Requested => PortGiven /\ Lanes
  /\ mem_op # "none" => mem_addr \in CpuAddrs /\ mem_addr.byte % Size(mem_op) = 0
  /\ mem_write \in CpuWords \cup {AnyWord}
  /\ ~reset => mem_op = "none"
  /\ reset => init_done

\* The acknowledgements are for the access under way.
AcknowledgeInv ==
  /\ ~dtack1 => req1
  /\ ~zpu_ack => wr1 /\ sdram_state \in {4, 12}
  /\ ~writecache_dtack => ~wr1 /\ writecache_req

\* A step of the bus and the CPU is one of six moves of the access.
LEMMA BusMoves ==
  ASSUME TypeOK, BusInv, AcknowledgeInv, BusEdge, CpuEdge
  PROVE  \/ /\ NoAccess /\ NoAccess'
            /\ UNCHANGED <<mem_op, mem_addr, mem_write, mem_read>>
         \/ /\ reset /\ NoAccess /\ Strobed' /\ UNCHANGED mem_read
            /\ \E op \in CpuOps, a \in CpuAddrs : Issue(op, a)
         \/ /\ reset /\ Strobed /\ Requested' /\ ~req1' /\ Lanes'
            /\ UNCHANGED <<mem_op, mem_addr, mem_write, mem_read>>
         \/ /\ reset /\ Requested /\ dtack1 /\ Requested' /\ req1' /\ PortGiven' /\ Lanes'
            /\ UNCHANGED <<mem_op, mem_addr, mem_write, mem_read>>
         \/ /\ reset /\ Requested /\ ~dtack1 /\ Answered'
            /\ UNCHANGED <<mem_op, mem_addr, mem_write>>
            /\ mem_read' = IF mem_op = "read" THEN sdram_read ELSE mem_read
         \/ /\ reset /\ Answered /\ NoAccess' /\ UNCHANGED mem_read
<1>0. mem_op \in CpuOps \cup {"none"} /\ "none" \notin CpuOps /\ CpuOps \subseteq Op
  BY CpuAssumption DEF TypeOK, CpuTypeOK
<1>1. CASE ~reset
  <2>1. NoAccess /\ UNCHANGED <<bus_state, mem_busy, mem_read, cpuPort>>
    BY <1>1 DEF BusInv, BusEdge, NoAccess, Strobed, Requested, Answered
  <2>2. Compute
    BY <1>1, <2>1 DEF CpuEdge, Issue, Await, Continue, NoAccess
  <2> QED
    BY <2>1, <2>2 DEF NoAccess, Compute, cpuRegs, cpuPort
<1>2. CASE reset
  <2>0. BusIdle \/ BusRead \/ BusWrite \/ Read1 \/ Write1 \/ WriteB
    BY <1>2 DEF BusEdge
  <2>1. CASE NoAccess
    <3>1. BusIdle
      BY <2>0, <2>1 DEF NoAccess, BusRead, BusWrite, Read1, Write1, WriteB
    <3>2. mem_busy' /\ bus_state' = "idle" /\ ~req1' /\ UNCHANGED mem_read
      BY <2>1, <3>1 DEF BusIdle, NoAccess, cpuPort
    <3>3. CASE Compute
      BY <2>1, <3>2, <3>3 DEF NoAccess, Compute, cpuRegs
    <3>4. ASSUME NEW op \in CpuOps, NEW a \in CpuAddrs, Issue(op, a)
          PROVE  Strobed'
      BY <1>0, <3>2, <3>4 DEF Issue, Strobed
    <3>5. Compute \/ \E op \in CpuOps, a \in CpuAddrs : Issue(op, a)
      BY <2>1 DEF CpuEdge, NoAccess, Await, Continue
    <3> QED
      BY <1>2, <2>1, <3>2, <3>3, <3>4, <3>5
  <2>2. CASE Strobed
    <3>1. BusRead \/ BusWrite
      BY <2>0, <2>2 DEF Strobed, BusIdle, Read1, Write1, WriteB
    <3>2. Await
      BY <2>2 DEF CpuEdge, Strobed, Issue, Continue, Compute
    <3>3. ~mem_strobe' /\ UNCHANGED <<mem_op, mem_addr, mem_write>>
      BY <3>2 DEF Await
    <3>4. CASE BusRead
      BY <1>2, <2>2, <3>3, <3>4 DEF BusRead, Strobed, Requested, BusState, Lanes, cpuPort
    <3>5. CASE BusWrite
      <4>1. Lanes'
        BY <3>3, <3>5 DEF BusWrite, Lanes
      <4>2. bus_state' = BusState(mem_op) /\ mem_busy' /\ UNCHANGED <<mem_read, req1>>
        BY <3>5 DEF BusWrite, BusState
      <4> QED
        BY <1>2, <2>2, <3>3, <4>1, <4>2 DEF Strobed, Requested
    <3> QED
      BY <3>1, <3>4, <3>5
  <2>3. CASE Requested
    <3>1. Await
      BY <2>3 DEF CpuEdge, Requested, Issue, Continue, Compute
    <3>2. ~mem_strobe' /\ UNCHANGED <<mem_op, mem_addr, mem_write>>
      BY <3>1 DEF Await
    <3>3. mem_op = "read" <=> Read1
      BY <2>0, <2>3 DEF Requested, BusState, BusIdle, BusRead, BusWrite, Read1, Write1, WriteB
    <3>4. /\ wr1' = (mem_op = "read") /\ Addr1' = mem_addr
          /\ mem_op # "read" => datawr1' = DataFor(mem_op, mem_write)
      BY <2>0, <2>3 DEF Requested, BusState, BusIdle, BusRead, BusWrite, Read1, Write1, WriteB,
        Request, DataFor
    <3>5. req1' = dtack1 /\ mem_busy' = dtack1 /\ UNCHANGED <<wrU2, wrU1, wrL1>> /\ Release
      BY <2>0, <2>3 DEF Requested, BusState, BusIdle, BusRead, BusWrite, Read1, Write1, WriteB,
        Request
    <3>6. mem_read' = IF dtack1 \/ mem_op # "read" THEN mem_read ELSE sdram_read
      BY <2>0, <3>3, <2>3 DEF Requested, BusState, BusIdle, BusRead, BusWrite, Read1, Write1, WriteB
    <3>7. Lanes'
      BY <2>3, <3>2, <3>5 DEF BusInv, Lanes
    <3>8. CASE dtack1
      <4>1. req1' /\ mem_busy' /\ bus_state' = bus_state
        BY <3>5, <3>8 DEF Release
      <4>2. PortGiven'
        BY <3>2, <3>4 DEF PortGiven
      <4> QED
        BY <1>2, <2>3, <3>2, <3>6, <3>7, <3>8, <4>1, <4>2 DEF Requested
    <3>9. CASE ~dtack1
      <4>1. ~req1' /\ ~mem_busy' /\ bus_state' = "idle"
        BY <3>5, <3>9 DEF Release
      <4> QED
        BY <1>2, <2>3, <3>2, <3>6, <3>9, <4>1 DEF Requested, Answered
    <3> QED
      BY <3>8, <3>9
  <2>4. CASE Answered
    <3>1. BusIdle
      BY <2>0, <2>4 DEF Answered, BusRead, BusWrite, Read1, Write1, WriteB
    <3>2. Continue
      BY <2>4 DEF CpuEdge, Answered, Issue, Await, Compute
    <3> QED
      BY <1>2, <2>4, <3>1, <3>2 DEF BusIdle, Continue, Answered, NoAccess, cpuPort
  <2> QED
    BY <2>1, <2>2, <2>3, <2>4 DEF BusInv
<1> QED
  BY <1>1, <1>2

\* BusInv is kept.
LEMMA BusInvStep ==
  ASSUME TypeOK, BusInv, AcknowledgeInv, Next
  PROVE  BusInv'
<1>0. BusEdge /\ CpuEdge /\ SdramEdge /\ SdramTypeOK
  BY DEF Next, TypeOK
<1>1. reset' => init_done'
  <2>1. reset' => init_done
    BY <1>0 DEF BusEdge, BusInv
  <2> QED
    BY <1>0, <2>1, RoundStep
<1>2. reset => reset'
  <2> SUFFICES ASSUME reset, ~reset' PROVE FALSE
    OBVIOUS
  <2>1. reset = TRUE /\ init_done = TRUE
    BY DEF BusInv, TypeOK, BusTypeOK, SdramTypeOK
  <2>2. reset' = TRUE
    BY <1>0, <2>1 DEF BusEdge
  <2> QED
    BY <2>2
<1>3. CASE NoAccess /\ NoAccess' /\ UNCHANGED <<mem_op, mem_addr, mem_write, mem_read>>
  BY <1>1, <1>3 DEF BusInv, NoAccess, Requested
<1>4. ASSUME reset, NoAccess, Strobed',
             NEW op \in CpuOps, NEW a \in CpuAddrs, Issue(op, a)
      PROVE  BusInv'
  <2>1. mem_addr' \in CpuAddrs /\ mem_addr'.byte % Size(mem_op') = 0 /\ ~Requested'
    BY <1>4 DEF Issue, Strobed, Requested
  <2>2. mem_write' \in CpuWords \cup {AnyWord}
    BY <1>4 DEF Issue, BusInv
  <2> QED
    BY <1>1, <1>2, <1>4, <2>1, <2>2 DEF BusInv
<1>5. CASE /\ reset /\ Strobed /\ Requested' /\ ~req1' /\ Lanes'
           /\ UNCHANGED <<mem_op, mem_addr, mem_write, mem_read>>
  BY <1>1, <1>2, <1>5 DEF BusInv, Strobed, PortGiven
<1>6. CASE /\ reset /\ Requested /\ dtack1 /\ Requested' /\ req1' /\ PortGiven' /\ Lanes'
           /\ UNCHANGED <<mem_op, mem_addr, mem_write, mem_read>>
  BY <1>1, <1>2, <1>6 DEF BusInv, Requested
<1>7. CASE reset /\ Requested /\ Answered' /\ UNCHANGED <<mem_op, mem_addr, mem_write>>
  BY <1>1, <1>2, <1>7 DEF BusInv, Requested, Answered
<1>8. CASE reset /\ Answered /\ NoAccess'
  <2>1. UNCHANGED mem_write
    BY <1>0, <1>8 DEF Answered, CpuEdge, Issue, Await, Continue, Compute, cpuRegs
  <2> QED
    BY <1>1, <1>8, <2>1 DEF BusInv, NoAccess, Requested
<1> QED
  BY <1>0, <1>3, <1>4, <1>5, <1>6, <1>7, <1>8, BusMoves

-----------------------------------------------------------------------------
(***************************************************************************)
(* The write cache and the slot that writes it.                            *)
(***************************************************************************)
Slot2Phase == IF sdram_state >= 11 THEN sdram_state - 8 ELSE sdram_state + 8

\* The first beat of the posted write is in the memory.
FirstStored ==
  \A i \in 0..7 : i \div 2 = writecache_addr.half /\ ~writecache_dqm[0][i % 2] =>
                    mem[writecache_addr.line][i] = writecache_word[0][i % 2]

\* How far a slot has come with the posted write in phase p of it.  When the entry
\* is free again no read is on the port for a while: not before phase 10 is over.
WriteOf(p) ==
  /\ p \in 3..7 => writecache_req
  /\ p \in 3..6 => casaddr = writecache_addr
  /\ p = 6 => sdwrite /\ datain = writecache_word[0] /\ dqm = writecache_dqm[0]
  /\ p = 7 => /\ burst.line = writecache_addr.line /\ burst.half = writecache_addr.half
              /\ sdwrite /\ datain = writecache_word[1] /\ dqm = writecache_dqm[1]
              /\ writecache_ack /\ FirstStored
  /\ p \in 8..9 => dqm = FullMask
  /\ p = 8 => ~writecache_req
  /\ p = 9 => ~writecache_req \/ ~writecache_dtack
  /\ p = 10 => ~writecache_req \/ ~writecache_dtack \/ ~req1

WriteInv ==
  init_done => /\ sdram_slot1 = "writecache" => WriteOf(sdram_state)
               /\ sdram_slot2 = "writecache" => WriteOf(Slot2Phase)

AckInv ==
  reset /\ writecache_ack => \/ sdram_state = 7 /\ sdram_slot1 = "writecache"
                             \/ sdram_state = 15 /\ sdram_slot2 = "writecache"

EntryInv == writecache_req => reset

\* A read in a slot: its request stays on the port, and no posted write is to its line.
ReadHeld ==
  req1 /\ wr1 /\ dtack1 /\ (writecache_req => writecache_addr.line # Addr1.line)

ReadInv ==
  init_done =>
    /\ sdram_slot1 = "zpu" /\ sdram_state \in 3..11 =>
         /\ ReadHeld /\ ReadOf(HalfOf(Addr1), sdram_state)
         /\ sdram_state = 11 => dataout1[0] = HalfAt(HalfOf(Addr1), 0)
    /\ sdram_slot2 = "zpu" /\ Slot2Phase \in 3..11 =>
         /\ ReadHeld /\ ReadOf(HalfOf(Addr1), Slot2Phase)
         /\ Slot2Phase = 11 => dataout1[0] = HalfAt(HalfOf(Addr1), 0)

PathInv == BusInv /\ AcknowledgeInv /\ WriteInv /\ AckInv /\ EntryInv /\ ReadInv

-----------------------------------------------------------------------------
\* What latching a write means for the port and the access.
LEMMA LatchedNow ==
  ASSUME BusInv, AcknowledgeInv, WriteLatched
  PROVE  /\ Requested /\ dtack1 /\ req1 /\ ~wr1 /\ ~writecache_req /\ reset
         /\ mem_op # "read"
<1>1. req1 /\ ~wr1 /\ ~writecache_req
  BY DEF WriteLatched
<1>2. Requested /\ reset
  BY <1>1 DEF BusInv, NoAccess, Strobed, Answered, Requested
<1>3. dtack1
  BY <1>1 DEF AcknowledgeInv, dtack1
<1> QED
  BY <1>1, <1>2, <1>3 DEF BusInv, PortGiven

\* The second word of a read answers the access that is on the port.
LEMMA AnsweredNow ==
  ASSUME TypeOK, SlotsDisjoint, BusInv, ReadInv, ReadWord(1)
  PROVE  /\ Requested /\ dtack1 /\ req1 /\ wr1 /\ ~WriteLatched /\ reset /\ mem_op = "read"
         /\ \/ sdram_state = 11 /\ sdram_slot1 = "zpu"
            \/ sdram_state = 3 /\ sdram_slot2 = "zpu"
<1>1. init_done /\ \/ sdram_state = 11 /\ sdram_slot1 = "zpu"
                   \/ sdram_state = 3 /\ sdram_slot2 = "zpu"
  BY DEF ReadWord
<1>2. ReadHeld
  BY <1>1 DEF ReadInv, Slot2Phase
<1>3. Requested /\ reset
  BY <1>2 DEF ReadHeld, BusInv, NoAccess, Strobed, Answered, Requested
<1> QED
  BY <1>1, <1>2, <1>3 DEF ReadHeld, WriteLatched, BusInv, PortGiven

\* A latched write fills the entry, which is kept until it is acknowledged.
LEMMA EntryStep ==
  ASSUME BusInv, AcknowledgeInv, AckInv, WriteInv, SdramEdge
  PROVE  /\ WriteLatched => writecache_req' /\ ~writecache_dtack'
         /\ ~WriteLatched => /\ writecache_dtack'
                             /\ UNCHANGED <<writecache_addr, writecache_word, writecache_dqm>>
                             /\ writecache_req' => writecache_req /\ ~writecache_ack
         /\ writecache_req /\ ~writecache_ack => writecache_req'
<1>1. /\ writecache_dtack' = ~WriteLatched
      /\ writecache_req' = (~writecache_ack /\ (writecache_req \/ WriteLatched))
  BY DEF SdramEdge, WriteCache
<1>2. WriteLatched => ~writecache_ack
  BY LatchedNow DEF AckInv, WriteInv, WriteOf, Slot2Phase, BusInv
<1> QED
  BY <1>1, <1>2, Zenon DEF SdramEdge, WriteCache

\* What the bus does with a request that stays, and when there is none.
LEMMA PortStep ==
  ASSUME TypeOK, BusInv, BusInv', AcknowledgeInv, BusEdge, CpuEdge
  PROVE  /\ req1 /\ dtack1 => /\ req1' /\ Addr1' = Addr1 /\ (wr1 => wr1') /\ (~wr1 => ~wr1')
                              /\ Requested' /\ UNCHANGED <<mem_op, mem_addr, mem_write>>
         /\ ~dtack1 => ~req1'
         /\ req1 => Requested /\ reset
<1>1. req1 => Requested /\ reset
  BY DEF BusInv, NoAccess, Strobed, Answered, Requested
<1>2. ~dtack1 => req1
  BY DEF AcknowledgeInv
<1>3. ASSUME req1, dtack1
      PROVE  /\ req1' /\ Addr1' = Addr1 /\ (wr1 => wr1') /\ (~wr1 => ~wr1')
             /\ Requested' /\ UNCHANGED <<mem_op, mem_addr, mem_write>>
  <2>1. Requested /\ PortGiven
    BY <1>1, <1>3 DEF BusInv
  <2>2. req1' /\ Requested' /\ PortGiven' /\ UNCHANGED <<mem_op, mem_addr, mem_write>>
    BY <1>3, <2>1, BusMoves DEF NoAccess, Strobed, Requested, Answered
  <2> QED
    BY <1>3, <2>1, <2>2 DEF PortGiven
<1>4. ASSUME ~dtack1 PROVE ~req1'
  BY <1>1, <1>2, <1>4, BusMoves DEF NoAccess, Strobed, Requested, Answered
<1> QED
  BY <1>1, <1>3, <1>4

\* AcknowledgeInv is kept: an acknowledgement answers the request on the port.
LEMMA AcknowledgeStep ==
  ASSUME TypeOK, DeviceInv, PathInv, BusInv', Next
  PROVE  AcknowledgeInv'
<1>0. /\ BusInv /\ AcknowledgeInv /\ WriteInv /\ AckInv /\ ReadInv /\ SlotsDisjoint
      /\ SdramEdge /\ BusEdge /\ CpuEdge /\ SdramTypeOK /\ sdram_state \in 0..15
  BY DEF PathInv, DeviceInv, Next, TypeOK, SdramTypeOK
<1>1. zpu_ack' <=> ~ReadWord(1)
  BY <1>0, Zenon DEF SdramEdge, Slots, ReadData
<1>2. WriteLatched \/ ReadWord(1) => req1 /\ dtack1
  BY <1>0, LatchedNow, AnsweredNow
<1>3. ~dtack1' => WriteLatched \/ ReadWord(1)
  BY <1>0, <1>1, EntryStep DEF dtack1
<1>4. ~dtack1' => req1'
  BY <1>0, <1>2, <1>3, PortStep
<1>5. ~zpu_ack' => wr1' /\ sdram_state' \in {4, 12}
  <2> SUFFICES ASSUME ReadWord(1) PROVE wr1' /\ sdram_state' \in {4, 12}
    BY <1>1
  <2>1. req1 /\ dtack1 /\ wr1 /\ sdram_state \in {3, 11} /\ init_done
    BY <1>0, AnsweredNow DEF ReadWord
  <2> QED
    BY <1>0, <2>1, PortStep, RoundStep DEF NextPhase
<1>6. ~writecache_dtack' => ~wr1' /\ writecache_req'
  <2> SUFFICES ASSUME WriteLatched PROVE ~wr1' /\ writecache_req'
    BY <1>0, EntryStep
  <2> QED
    BY <1>0, LatchedNow, PortStep, EntryStep
<1> QED
  BY <1>4, <1>5, <1>6 DEF AcknowledgeInv

\* The slot that gives the beats of a write.
LEMMA AckStep ==
  ASSUME TypeOK, DeviceInv, PathInv, Next
  PROVE  AckInv' /\ EntryInv'
<1>0. /\ BusInv /\ AcknowledgeInv /\ WriteInv /\ AckInv /\ EntryInv
      /\ SdramEdge /\ BusEdge /\ SdramTypeOK /\ sdram_state \in 0..15
  BY DEF PathInv, Next, TypeOK, SdramTypeOK
<1>1. reset => reset'
  BY <1>0 DEF BusEdge, BusInv
<1>2. EntryInv'
  BY <1>0, <1>1, EntryStep, LatchedNow DEF EntryInv
<1>3. ASSUME reset', writecache_ack'
      PROVE  \/ sdram_state' = 7 /\ sdram_slot1' = "writecache"
             \/ sdram_state' = 15 /\ sdram_slot2' = "writecache"
  <2>1. init_done
    BY <1>0, <1>3 DEF BusEdge, BusInv
  <2>2. BeatAcknowledged
    BY <1>0, <1>3, <2>1 DEF SdramEdge, Slots, WriteData
  <2>3. \/ sdram_state = 6 /\ sdram_slot1 = "writecache"
        \/ sdram_state = 14 /\ sdram_slot2 = "writecache"
    BY <1>0, <2>2 DEF BeatAcknowledged, Beat, Writing
  <2> QED
    BY <1>0, <2>1, <2>3, RoundStep, SlotsHeldStep DEF NextPhase
<1> QED
  BY <1>2, <1>3 DEF AckInv

-----------------------------------------------------------------------------
\* What the proofs of the timing say about a slot that writes, in phase p of it.
WritesIn(p) ==
  /\ p \in 3..5 => casaddr' = casaddr
  /\ p = 6 => /\ sd_cmd = Cas("write", casaddr) /\ row[casaddr.line.bank] = casaddr.line.row
              /\ writecache_ack'
  /\ p = 7 => ~ColumnOp /\ burst.op = "write" /\ burst.n = 1
  /\ p \in 5..6 => /\ sdwrite' /\ datain' = writecache_word[p - 5]
                   /\ dqm' = writecache_dqm[p - 5]
  /\ p \in 7..8 => dqm' = FullMask

\* What the device invariant says of a write in slot 1.
LEMMA WritesInSlot1 ==
  ASSUME TypeOK, DeviceInv, init_done, SdramEdge,
         sdram_slot1 = "writecache", sdram_state \in 3..9
  PROVE  WritesIn(sdram_state)
<1>0. /\ SdramTypeOK /\ SlotsDisjoint /\ IdleUntilReady /\ GrantInv /\ CommandInv
      /\ RowInv /\ BurstInv /\ Phase /\ WriteData
  BY DEF TypeOK, DeviceInv, SdramEdge, Slots
<1>1. CasOf(sdram_slot1) = "write" /\ Accessing(sdram_slot1)
  BY DEF CasOf, Accessing
<1>2. sdram_state \in 3..5 => casaddr' = casaddr
  BY SlotsHeldStep
<1>3. sdram_state = 6 => /\ sd_cmd = Cas("write", casaddr)
                         /\ row[casaddr.line.bank] = casaddr.line.row
  BY <1>0, <1>1 DEF GrantInv, CommandInv, ColumnCommand, RowInv
<1>4. sdram_state = 7 => ~ColumnOp /\ burst.op = "write" /\ burst.n = 1
  BY <1>0, <1>1, ColumnNow DEF BurstInv, BurstOf
<1>5. sdram_state \in 5..8 => Writing /\ Beat = sdram_state - 5
  BY DEF Writing, Beat
<1>6. sdram_state = 6 => writecache_ack'
  <2>1. sdram_state = 6 => BeatAcknowledged
    BY <1>5 DEF BeatAcknowledged
  <2> QED
    BY <1>0, <2>1, Zenon DEF WriteData
<1>7. sdram_state \in 5..6 => /\ datain' = writecache_word[sdram_state - 5]
                              /\ dqm' = writecache_dqm[sdram_state - 5]
  BY <1>0, <1>5 DEF WriteData
<1>8. sdram_state \in 7..8 => dqm' = FullMask
  BY <1>0, <1>5 DEF WriteData
<1>9. sdram_state \in 5..6 => sdwrite'
  BY <1>0 DEF Phase, BusEnable
<1> QED
  BY <1>2, <1>3, <1>4, <1>6, <1>7, <1>8, <1>9 DEF WritesIn

\* The same for slot 2.
LEMMA WritesInSlot2 ==
  ASSUME TypeOK, DeviceInv, init_done, SdramEdge,
         sdram_slot2 = "writecache", Slot2Phase \in 3..9
  PROVE  WritesIn(Slot2Phase)
<1>0. /\ SdramTypeOK /\ SlotsDisjoint /\ IdleUntilReady /\ GrantInv /\ CommandInv
      /\ RowInv /\ BurstInv /\ Phase /\ WriteData
      /\ sdram_state \in 0..15
  BY DEF TypeOK, DeviceInv, SdramEdge, Slots, SdramTypeOK
<1>1. CasOf(sdram_slot2) = "write" /\ Accessing(sdram_slot2)
  BY DEF CasOf, Accessing
<1>2. /\ Slot2Phase \in 3..5 => sdram_state \in 11..13
      /\ Slot2Phase = 6 => sdram_state = 14
      /\ Slot2Phase = 7 => sdram_state = 15
      /\ Slot2Phase \in 5..6 => sdram_state \in 13..14
      /\ Slot2Phase \in 7..8 => sdram_state \in {15, 0}
  BY <1>0 DEF Slot2Phase
<1>3. Slot2Phase \in 3..5 => casaddr' = casaddr
  BY <1>2, SlotsHeldStep
<1>4. Slot2Phase = 6 => /\ sd_cmd = Cas("write", casaddr)
                        /\ row[casaddr.line.bank] = casaddr.line.row
  BY <1>0, <1>1, <1>2 DEF GrantInv, CommandInv, ColumnCommand, RowInv
<1>5. Slot2Phase = 7 => ~ColumnOp /\ burst.op = "write" /\ burst.n = 1
  BY <1>0, <1>1, <1>2, ColumnNow DEF BurstInv, BurstOf
<1>6. Slot2Phase \in 5..8 => Writing /\ Beat = Slot2Phase - 5
  BY <1>0 DEF Writing, Beat, Slot2Phase
<1>7. Slot2Phase = 6 => writecache_ack'
  <2>1. Slot2Phase = 6 => BeatAcknowledged
    BY <1>6 DEF BeatAcknowledged
  <2> QED
    BY <1>0, <2>1, Zenon DEF WriteData
<1>8. Slot2Phase \in 5..6 => /\ datain' = writecache_word[Slot2Phase - 5]
                             /\ dqm' = writecache_dqm[Slot2Phase - 5]
  BY <1>0, <1>6 DEF WriteData
<1>9. Slot2Phase \in 7..8 => dqm' = FullMask
  BY <1>0, <1>6 DEF WriteData
<1>10. Slot2Phase \in 5..6 => sdwrite'
  BY <1>0, <1>2 DEF Phase, BusEnable
<1> QED
  BY <1>3, <1>4, <1>5, <1>7, <1>8, <1>9, <1>10 DEF WritesIn

\* The k-th beat of the posted write goes into the memory.
BeatStored(k) ==
  mem' = [mem EXCEPT ![writecache_addr.line] = [i \in 0..7 |->
            IF i \div 2 = (writecache_addr.half + k) % 4 /\ ~writecache_dqm[k][i % 2]
            THEN writecache_word[k][i % 2] ELSE @[i]]]

FirstBeat == init_done /\ \/ sdram_state = 6 /\ sdram_slot1 = "writecache"
                          \/ sdram_state = 14 /\ sdram_slot2 = "writecache"
SecondBeat == init_done /\ \/ sdram_state = 7 /\ sdram_slot1 = "writecache"
                           \/ sdram_state = 15 /\ sdram_slot2 = "writecache"

\* The two beats of a write burst that are not masked are those of the posted write.
LEMMA FirstBeatStep ==
  ASSUME TypeOK, ChipEdge, WriteOf(6), WritesIn(6)
  PROVE  /\ BeatStored(0)
         /\ burst'.line = writecache_addr.line /\ burst'.half = writecache_addr.half
<1>1. sd_cmd = Cas("write", writecache_addr)
      /\ row[writecache_addr.line.bank] = writecache_addr.line.row
  BY DEF WriteOf, WritesIn
<1>2. sd_cmd.op = "write" /\ ColumnOp
  BY <1>1 DEF Cas, ColumnOp
<1>3. writecache_addr \in HalfAddr
  BY DEF TypeOK, SdramTypeOK
<1>4. Started.line = writecache_addr.line /\ Started.half = writecache_addr.half
  BY <1>1, <1>3 DEF Started, Cas, HalfAddr, Line
<1>5. Store(writecache_addr.line, writecache_addr.half)
  BY <1>2, <1>4 DEF ChipEdge, ChipMemory
<1>6. sdata = writecache_word[0] /\ dqm = writecache_dqm[0]
  BY DEF WriteOf, sdata
<1>7. (writecache_addr.half + 0) % 4 = writecache_addr.half
  BY <1>3 DEF HalfAddr
<1>8. BeatStored(0)
  BY <1>5, <1>6, <1>7 DEF Store, BeatStored
<1>9. burst' = Started
  BY <1>2, Zenon DEF ChipEdge, ChipBurst
<1> QED
  BY <1>4, <1>8, <1>9

LEMMA SecondBeatStep ==
  ASSUME TypeOK, ChipEdge, WriteOf(7), WritesIn(7)
  PROVE  BeatStored(1)
<1>1. ~ColumnOp /\ burst.op = "write" /\ burst.n = 1
  BY DEF WritesIn
<1>2. Store(burst.line, Position(burst, burst.n))
  BY <1>1 DEF ChipEdge, ChipMemory, ColumnOp
<1>3. burst.line = writecache_addr.line /\ Position(burst, burst.n) = (writecache_addr.half + 1) % 4
  BY <1>1 DEF WriteOf, Position
<1>4. sdata = writecache_word[1] /\ dqm = writecache_dqm[1]
  BY DEF WriteOf, sdata
<1> QED
  BY <1>2, <1>3, <1>4 DEF Store, BeatStored

\* A beat with both bytes masked changes nothing.
LEMMA MaskedBeat ==
  ASSUME TypeOK, ChipEdge, dqm = FullMask
  PROVE  UNCHANGED mem
<1>1. /\ burst \in {NoBurst} \cup Burst /\ sd_cmd \in Command /\ row \in [Bank -> Row]
      /\ mem \in [Line -> [0..7 -> Byte]]
  BY DEF TypeOK, ChipTypeOK, SdramTypeOK
<1>2. ASSUME NEW l \in Line, NEW pos, Store(l, pos) PROVE mem' = mem
  <2>1. mem[l] \in [0..7 -> Byte] /\ \A i \in 0..7 : dqm[i % 2]
    BY <1>1 DEF FullMask
  <2>2. mem' = [mem EXCEPT ![l] = [i \in 0..7 |-> mem[l][i]]]
    BY <1>2, <2>1 DEF Store
  <2>3. [i \in 0..7 |-> mem[l][i]] = mem[l]
    BY <2>1
  <2>4. mem' = [mem EXCEPT ![l] = mem[l]]
    BY <2>2, <2>3
  <2> QED
    BY <1>1, <2>4
<1>3. CASE sd_cmd.op = "write" /\ Store(Started.line, Started.half)
  BY <1>1, <1>2, <1>3, ColumnCommandType DEF ColumnOp, Burst
<1>4. CASE burst.op = "write" /\ Store(burst.line, Position(burst, burst.n))
  BY <1>1, <1>2, <1>4 DEF NoBurst, Burst
<1> QED
  BY <1>3, <1>4 DEF ChipEdge, ChipMemory

\* The memory changes by the two beats of a posted write and by nothing else.
LEMMA MemoryStep ==
  ASSUME TypeOK, DeviceInv, PathInv, Next
  PROVE  /\ FirstBeat => BeatStored(0)
         /\ SecondBeat => BeatStored(1)
         /\ ~FirstBeat /\ ~SecondBeat => UNCHANGED mem
<1>0. ChipEdge /\ SdramEdge /\ WriteInv /\ IdleUntilReady /\ sdram_state \in 0..15
  BY DEF Next, PathInv, DeviceInv, TypeOK, SdramTypeOK
<1>1. FirstBeat => WriteOf(6) /\ WritesIn(6)
  BY <1>0, WritesInSlot1, WritesInSlot2 DEF FirstBeat, WriteInv, Slot2Phase
<1>2. SecondBeat => WriteOf(7) /\ WritesIn(7)
  BY <1>0, WritesInSlot1, WritesInSlot2 DEF SecondBeat, WriteInv, Slot2Phase
<1>3. ASSUME ~FirstBeat, ~SecondBeat PROVE UNCHANGED mem
  <2>1. CASE init_done /\ sdram_slot1 = "writecache" /\ sdram_state \in 8..9
    BY <1>0, <2>1, MaskedBeat DEF WriteInv, WriteOf
  <2>2. CASE init_done /\ sdram_slot2 = "writecache" /\ sdram_state \in 0..1
    <3>1. dqm = FullMask
      BY <1>0, <2>2 DEF WriteInv, WriteOf, Slot2Phase
    <3> QED
      BY <1>0, <3>1, MaskedBeat
  <2>3. CASE /\ sdram_state \in 6..9 => sdram_slot1 # "writecache"
             /\ sdram_state \in {14, 15, 0, 1} => sdram_slot2 # "writecache"
    BY <1>0, <2>3, MemoryQuiet
  <2> QED
    BY <1>0, <1>3, <2>1, <2>2, <2>3 DEF FirstBeat, SecondBeat, IdleUntilReady
<1> QED
  BY <1>0, <1>1, <1>2, <1>3, FirstBeatStep, SecondBeatStep

\* A posted write comes one phase further.
LEMMA WriteOfStep ==
  ASSUME TypeOK, PathInv, BusInv', Next,
         NEW p \in 3..9, WriteOf(p), WritesIn(p),
         p \in 3..6 => ~writecache_ack
  PROVE  (WriteOf(p + 1))'
<1>0. /\ BusInv /\ AcknowledgeInv /\ WriteInv /\ AckInv /\ SdramEdge /\ ChipEdge
      /\ BusEdge /\ CpuEdge
  BY DEF PathInv, Next
<1>1. writecache_req => ~WriteLatched
  BY DEF WriteLatched
<1>2. ASSUME p \in 3..7
      PROVE  UNCHANGED <<writecache_addr, writecache_word, writecache_dqm>>
  BY <1>0, <1>1, <1>2, EntryStep DEF WriteOf
<1>3. p + 1 \in 3..7 => writecache_req'
  BY <1>0, EntryStep DEF WriteOf
<1>4. p + 1 \in 3..6 => casaddr' = writecache_addr'
  BY <1>2 DEF WriteOf, WritesIn
<1>5. p + 1 = 6 => sdwrite' /\ datain' = writecache_word[0]' /\ dqm' = writecache_dqm[0]'
  BY <1>2 DEF WritesIn
<1>6. ASSUME p + 1 = 7
      PROVE  /\ burst'.line = writecache_addr'.line /\ burst'.half = writecache_addr'.half
             /\ sdwrite' /\ datain' = writecache_word[1]' /\ dqm' = writecache_dqm[1]'
             /\ writecache_ack' /\ FirstStored'
  <2>1. p = 6 /\ WriteOf(6) /\ WritesIn(6)
    BY <1>6
  <2>2. BeatStored(0) /\ burst'.line = writecache_addr.line /\ burst'.half = writecache_addr.half
    BY <1>0, <2>1, FirstBeatStep
  <2>3. UNCHANGED <<writecache_addr, writecache_word, writecache_dqm>>
    BY <1>2, <2>1
  <2>4. sdwrite' /\ datain' = writecache_word[1] /\ dqm' = writecache_dqm[1] /\ writecache_ack'
    BY <2>1 DEF WritesIn
  <2>5. writecache_addr.line \in Line /\ (writecache_addr.half + 0) % 4 = writecache_addr.half
    BY DEF TypeOK, SdramTypeOK, HalfAddr
  <2>6. \A i \in 0..7 : mem'[writecache_addr.line][i] =
          IF i \div 2 = writecache_addr.half /\ ~writecache_dqm[0][i % 2]
          THEN writecache_word[0][i % 2] ELSE mem[writecache_addr.line][i]
    BY <2>2, <2>5 DEF BeatStored, TypeOK, ChipTypeOK
  <2>7. FirstStored'
    BY <2>3, <2>6 DEF FirstStored
  <2> QED
    BY <2>2, <2>3, <2>4, <2>7
<1>7. p + 1 \in 8..9 => dqm' = FullMask
  BY DEF WritesIn
<1>8. p + 1 = 8 => ~writecache_req'
  BY <1>0, <1>1, EntryStep DEF WriteOf
<1>9. p + 1 = 9 => ~writecache_req' \/ ~writecache_dtack'
  BY <1>0, EntryStep DEF WriteOf
<1>10. p + 1 = 10 => ~writecache_req' \/ ~writecache_dtack' \/ ~req1'
  BY <1>0, EntryStep, PortStep DEF WriteOf, dtack1
<1> QED
  BY <1>3, <1>4, <1>5, <1>6, <1>7, <1>8, <1>9, <1>10 DEF WriteOf

\* WriteInv is kept.
LEMMA WriteInvStep ==
  ASSUME TypeOK, DeviceInv, PathInv, BusInv', Next
  PROVE  WriteInv'
<1>0. /\ SdramTypeOK /\ CpuPortTypeOK /\ VgaPortTypeOK /\ BusInv /\ AcknowledgeInv /\ WriteInv
      /\ AckInv /\ EntryInv /\ SdramEdge /\ IdleUntilReady /\ sdram_state \in 0..15
  BY DEF TypeOK, PathInv, DeviceInv, Next, SdramTypeOK
<1>1. CASE ~init_done
  BY <1>0, <1>1, StartUpStep DEF WriteInv, IdleUntilReady
<1>2. CASE init_done
  <2>1. sdram_state' = NextPhase(sdram_state)
    BY <1>0, <1>2, RoundStep
  <2>2. ASSUME writecache_req, sdram_state \in {2, 10}
        PROVE  writecache_req' /\ UNCHANGED writecache_addr
    <3>1. ~writecache_ack /\ ~WriteLatched
      BY <1>0, <2>2 DEF EntryInv, AckInv, WriteLatched
    <3> QED
      BY <1>0, <2>2, <3>1, EntryStep
  <2>3. ASSUME sdram_slot1' = "writecache" PROVE (WriteOf(sdram_state))'
    <3>1. CASE sdram_state = 2
      <4>1. writecache_req /\ casaddr' = writecache_addr /\ sdram_state' = 3
        BY <1>0, <1>2, <2>1, <2>3, <3>1, Grant1Step DEF Accessing, Target, NextPhase
      <4> QED
        BY <2>2, <3>1, <4>1 DEF WriteOf
    <3>2. CASE sdram_state \in 3..9
      <4>1. sdram_slot1 = "writecache" /\ sdram_state' = sdram_state + 1
        BY <1>0, <1>2, <2>1, <2>3, <3>2, SlotsHeldStep DEF NextPhase
      <4>2. WriteOf(sdram_state) /\ WritesIn(sdram_state)
        BY <1>0, <1>2, <3>2, <4>1, WritesInSlot1 DEF WriteInv
      <4>3. sdram_state \in 3..6 => ~writecache_ack
        BY <1>0, <4>2 DEF AckInv, EntryInv, WriteOf
      <4> QED
        BY <3>2, <4>1, <4>2, <4>3, WriteOfStep DEF WriteOf
    <3>3. CASE sdram_state \notin 2..9
      BY <1>0, <2>1, <3>3 DEF WriteOf, NextPhase
    <3> QED
      BY <3>1, <3>2, <3>3
  <2>4. ASSUME sdram_slot2' = "writecache" PROVE (WriteOf(Slot2Phase))'
    <3>1. CASE sdram_state = 10
      <4>1. writecache_req /\ casaddr' = writecache_addr /\ Slot2Phase' = 3
        BY <1>0, <1>2, <2>1, <2>4, <3>1, Grant2Step DEF Accessing, Target, NextPhase, Slot2Phase
      <4> QED
        BY <2>2, <3>1, <4>1 DEF WriteOf
    <3>2. CASE Slot2Phase \in 3..9
      <4>1. sdram_slot2 = "writecache" /\ Slot2Phase' = Slot2Phase + 1
        BY <1>0, <1>2, <2>1, <2>4, <3>2, SlotsHeldStep DEF NextPhase, Slot2Phase
      <4>2. WriteOf(Slot2Phase) /\ WritesIn(Slot2Phase)
        BY <1>0, <1>2, <3>2, <4>1, WritesInSlot2 DEF WriteInv
      <4>3. Slot2Phase \in 3..6 => ~writecache_ack
        BY <1>0, <4>2 DEF AckInv, EntryInv, WriteOf, Slot2Phase
      <4> QED
        BY <3>2, <4>1, <4>2, <4>3, WriteOfStep DEF WriteOf
    <3>3. CASE sdram_state # 10 /\ Slot2Phase \notin 3..9
      <4>1. Slot2Phase' \notin 3..10
        BY <1>0, <2>1, <3>3 DEF NextPhase, Slot2Phase
      <4> QED
        BY <4>1 DEF WriteOf
    <3> QED
      BY <3>1, <3>2, <3>3
  <2> QED
    BY <2>3, <2>4 DEF WriteInv
<1> QED
  BY <1>1, <1>2

\* What the device invariant says of a read in slot 2.
LEMMA ReadsInSlot2 ==
  ASSUME TypeOK, DeviceInv, init_done, SdramEdge,
         sdram_slot2 = "zpu", Slot2Phase \in 3..12
  PROVE  ReadsIn(Slot2Phase)
<1>0. /\ SdramTypeOK /\ SlotsDisjoint /\ IdleUntilReady /\ GrantInv /\ CommandInv
      /\ RowInv /\ BurstInv /\ WriteEnableInv /\ sdram_state \in 0..15
  BY DEF TypeOK, DeviceInv, SdramTypeOK
<1>1. CasOf(sdram_slot2) = "read" /\ Accessing(sdram_slot2)
  BY DEF CasOf, Accessing
<1>2. sdram_state \in 11..15 \cup 0..4
  BY <1>0 DEF Slot2Phase
<1>3. Slot2Phase \in 3..5 => casaddr' = casaddr
  BY <1>0, SlotsHeldStep DEF Slot2Phase
<1>4. Slot2Phase = 6 => /\ sd_cmd = Cas("read", casaddr)
                        /\ row[casaddr.line.bank] = casaddr.line.row
  BY <1>0, <1>1 DEF GrantInv, CommandInv, ColumnCommand, RowInv, Slot2Phase
<1>5. Slot2Phase # 6 => ~ColumnOp
  BY <1>0, <1>2, ColumnNow DEF Slot2Phase
<1>6. Slot2Phase \in 7..12 => burst.op = "read" /\ burst.n = Slot2Phase - 6
  BY <1>0, <1>1 DEF BurstInv, BurstOf, Slot2Phase
<1>7. Slot2Phase \in 9..12 => ~sdwrite
  BY <1>0 DEF WriteEnableInv, Slot2Phase
<1> QED
  BY <1>3, <1>4, <1>5, <1>6, <1>7 DEF ReadsIn

\* A read keeps its slot until its second word: nothing else answers it.
LEMMA ReadHeldStep ==
  ASSUME TypeOK, PathInv, BusInv', Next, ReadHeld, ~ReadWord(1)
  PROVE  ReadHeld' /\ Addr1' = Addr1
<1>0. /\ BusInv /\ AcknowledgeInv /\ WriteInv /\ AckInv /\ SdramEdge /\ BusEdge /\ CpuEdge
  BY DEF PathInv, Next
<1>1. req1' /\ wr1' /\ Addr1' = Addr1
  BY <1>0, PortStep DEF ReadHeld
<1>2. ~WriteLatched
  BY DEF ReadHeld, WriteLatched
<1>3. /\ writecache_dtack' /\ UNCHANGED writecache_addr
      /\ writecache_req' => writecache_req
  BY <1>0, <1>2, EntryStep
<1>4. zpu_ack'
  BY <1>0, Zenon DEF SdramEdge, Slots, ReadData
<1> QED
  BY <1>1, <1>3, <1>4 DEF ReadHeld, dtack1

\* What the next phase of a read needs: p is the phase of its slot.
LEMMA ReadGoesOn ==
  ASSUME TypeOK, DeviceInv, PathInv, BusInv', Next, UNCHANGED mem, ~ReadWord(1),
         NEW p \in 3..10, ReadHeld, ReadOf(HalfOf(Addr1), p), ReadsIn(p),
         p = 10 => ReadWord(0)
  PROVE  /\ ReadHeld' /\ (ReadOf(HalfOf(Addr1), p + 1))'
         /\ p = 10 => dataout1'[0] = HalfAt(HalfOf(Addr1), 0)'
<1>1. ReadHeld' /\ Addr1' = Addr1
  BY ReadHeldStep
<1>2. HalfOf(Addr1) \in HalfAddr /\ ChipEdge /\ Phase /\ ReadData
  BY HalfOfType DEF TypeOK, CpuPortTypeOK, Next, SdramEdge, Slots
<1>3. HalfOf(Addr1)' = HalfOf(Addr1)
  BY <1>1
<1> DEFINE a == HalfOf(Addr1)
<1> HIDE DEF a
<1>4. a \in HalfAddr /\ ReadOf(a, p) /\ a' = a
  BY <1>2, <1>3 DEF a
<1>5. ASSUME NEW h \in HalfAddr, ReadOf(h, p) PROVE (ReadOf(h, p + 1))'
  BY <1>2, <1>5, ReadOfStep
<1>6. ASSUME NEW h \in HalfAddr, h = a, ReadOf(h, p), p = 10
      PROVE  dataout1'[0] = HalfAt(h, 0)'
  <2>1. dataout1'[0] = sdata_reg
    BY <1>2, <1>6 DEF ReadData
  <2> QED
    BY <1>6, <2>1 DEF ReadOf, HalfAt
<1>7. PICK h \in HalfAddr : h = a
  BY <1>4
<1>8. /\ (ReadOf(h, p + 1))'
      /\ p = 10 => dataout1'[0] = HalfAt(h, 0)'
  BY <1>4, <1>5, <1>6, <1>7
<1> QED
  BY <1>1, <1>3, <1>4, <1>7, <1>8 DEF a, ReadOf, HalfAt

\* A read is granted only while its request is on the port and not yet answered.
LEMMA ReadGranted ==
  ASSUME TypeOK, DeviceInv, PathInv, BusInv', Next, init_done,
         \/ sdram_state = 2 /\ sdram_slot1' = "zpu"
         \/ sdram_state = 10 /\ sdram_slot2' = "zpu"
  PROVE  ReadHeld' /\ (ReadOf(HalfOf(Addr1), 3))'
<1>0. /\ BusInv /\ AcknowledgeInv /\ WriteInv /\ SdramEdge
      /\ SdramTypeOK /\ CpuPortTypeOK /\ VgaPortTypeOK
  BY DEF TypeOK, PathInv, Next
<1>1. /\ req1 /\ wr1 /\ casaddr' = HalfOf(Addr1) /\ sdram_state \in {2, 10}
      /\ \/ writecache_req => writecache_addr.line # Addr1.line
         \/ sdram_state = 2 /\ sdram_slot2 = "writecache"
         \/ sdram_state = 10 /\ sdram_slot1 = "writecache"
  <2>1. CASE sdram_state = 2 /\ sdram_slot1' = "zpu"
    BY <1>0, <2>1, Grant1Step DEF Accessing, Target
  <2>2. CASE sdram_state = 10 /\ sdram_slot2' = "zpu"
    BY <1>0, <2>2, Grant2Step DEF Accessing, Target
  <2> QED
    BY <2>1, <2>2
<1>2. dtack1
  BY <1>0, <1>1 DEF AcknowledgeInv, dtack1
<1>3. writecache_req => writecache_addr.line # Addr1.line
  BY <1>0, <1>1, <1>2 DEF WriteInv, WriteOf, Slot2Phase, dtack1
<1>4. ReadHeld /\ ~ReadWord(1)
  BY <1>1, <1>2, <1>3 DEF ReadHeld, ReadWord
<1>5. ReadHeld' /\ Addr1' = Addr1
  BY <1>4, ReadHeldStep
<1>6. casaddr' = HalfOf(Addr1)'
  BY <1>1, <1>5
<1> QED
  BY <1>5, <1>6 DEF ReadOf

\* ReadInv is kept.
LEMMA ReadInvStep ==
  ASSUME TypeOK, DeviceInv, PathInv, BusInv', Next
  PROVE  ReadInv'
<1>0. /\ SdramTypeOK /\ CpuPortTypeOK /\ VgaPortTypeOK /\ ReadInv /\ SdramEdge
      /\ IdleUntilReady /\ SlotsDisjoint /\ sdram_state \in 0..15
  BY DEF TypeOK, PathInv, DeviceInv, Next, SdramTypeOK
<1>1. CASE ~init_done
  BY <1>0, <1>1, StartUpStep DEF ReadInv, IdleUntilReady
<1>2. CASE init_done
  <2>1. sdram_state' = NextPhase(sdram_state)
    BY <1>0, <1>2, RoundStep
  <2>2. ASSUME sdram_slot1' = "zpu", sdram_state' \in 3..11
        PROVE  /\ ReadHeld' /\ (ReadOf(HalfOf(Addr1), sdram_state))'
               /\ sdram_state' = 11 => dataout1'[0] = HalfAt(HalfOf(Addr1), 0)'
    <3>1. CASE sdram_state = 2
      BY <1>2, <2>1, <2>2, <3>1, ReadGranted DEF NextPhase
    <3>2. CASE sdram_state \in 3..10
      <4>1. sdram_slot1 = "zpu" /\ sdram_state' = sdram_state + 1
        BY <1>0, <1>2, <2>1, <2>2, <3>2, SlotsHeldStep DEF NextPhase
      <4>2. /\ ReadHeld /\ ReadOf(HalfOf(Addr1), sdram_state) /\ ReadsIn(sdram_state)
        BY <1>0, <1>2, <3>2, <4>1, ReadsInSlot1 DEF ReadInv
      <4>3. ~ReadWord(1) /\ (sdram_state = 10 => ReadWord(0))
        BY <1>0, <1>2, <3>2, <4>1 DEF ReadWord, SlotsDisjoint, Accessing
      <4>4. UNCHANGED mem
        BY <1>0, <3>2, <4>1, MemoryStep DEF FirstBeat, SecondBeat
      <4> QED
        BY <3>2, <4>1, <4>2, <4>3, <4>4, ReadGoesOn DEF ReadOf
    <3> QED
      BY <1>0, <2>1, <2>2, <3>1, <3>2 DEF NextPhase
  <2>3. ASSUME sdram_slot2' = "zpu", Slot2Phase' \in 3..11
        PROVE  /\ ReadHeld' /\ (ReadOf(HalfOf(Addr1), Slot2Phase))'
               /\ Slot2Phase' = 11 => dataout1'[0] = HalfAt(HalfOf(Addr1), 0)'
    <3>1. CASE sdram_state = 10
      <4>1. Slot2Phase' = 3
        BY <2>1, <3>1 DEF NextPhase, Slot2Phase
      <4> QED
        BY <1>2, <2>3, <3>1, <4>1, ReadGranted
    <3>2. CASE Slot2Phase \in 3..10
      <4>1. sdram_slot2 = "zpu" /\ Slot2Phase' = Slot2Phase + 1
        BY <1>0, <1>2, <2>1, <2>3, <3>2, SlotsHeldStep DEF NextPhase, Slot2Phase
      <4>2. /\ ReadHeld /\ ReadOf(HalfOf(Addr1), Slot2Phase) /\ ReadsIn(Slot2Phase)
        BY <1>0, <1>2, <3>2, <4>1, ReadsInSlot2 DEF ReadInv
      <4>3. ~ReadWord(1) /\ (Slot2Phase = 10 => ReadWord(0))
        BY <1>0, <1>2, <3>2, <4>1 DEF ReadWord, SlotsDisjoint, Accessing, Slot2Phase
      <4>4. UNCHANGED mem
        BY <1>0, <3>2, <4>1, MemoryStep DEF FirstBeat, SecondBeat, Slot2Phase
      <4> QED
        BY <3>2, <4>1, <4>2, <4>3, <4>4, ReadGoesOn DEF ReadOf
    <3> QED
      BY <1>0, <2>1, <2>3, <3>1, <3>2 DEF NextPhase, Slot2Phase
  <2> QED
    BY <2>2, <2>3 DEF ReadInv
<1> QED
  BY <1>1, <1>2

-----------------------------------------------------------------------------

\* The path invariant holds at power-up and is kept by every step.
LEMMA PathInvInit == Init => PathInv
<1> SUFFICES ASSUME Init PROVE PathInv
  OBVIOUS
<1> USE DEF Init, SdramInit, BusInit
<1>1. BusInv
  BY DEF BusInv, NoAccess, Strobed, Requested, Answered
<1>2. AcknowledgeInv
  BY DEF AcknowledgeInv, dtack1
<1> QED
  BY <1>1, <1>2 DEF PathInv, WriteInv, AckInv, EntryInv, ReadInv

LEMMA PathInvStep ==
  ASSUME TypeOK, DeviceInv, PathInv, Next
  PROVE  PathInv'
<1>1. BusInv'
  BY BusInvStep DEF PathInv, Next
<1> QED
  BY <1>1, AcknowledgeStep, AckStep, WriteInvStep, ReadInvStep DEF PathInv

LEMMA PathInvStutter == PathInv /\ UNCHANGED vars => PathInv'
BY DEF vars, sdramRegs, chipRegs, busRegs, cpuRegs, phaseRegs, writecacheRegs, slotRegs, cpuPort,
   PathInv, BusInv, NoAccess, Strobed, Requested, Answered, PortGiven, Lanes,
   AcknowledgeInv, dtack1, WriteInv, WriteOf, FirstStored, Slot2Phase,
   AckInv, EntryInv, ReadInv, ReadHeld, ReadOf, HalfAt

LEMMA PathInvariant == Spec => []PathInv
<1>1. TypeOK /\ DeviceInv /\ PathInv /\ [Next]_vars => PathInv'
  BY PathInvStep, PathInvStutter
<1> QED
  BY <1>1, PathInvInit, TypeCorrect, DeviceInvariant, PTL DEF Spec

-----------------------------------------------------------------------------
(***************************************************************************)
(* The memory the CPU sees, byte by byte.                                   *)
(***************************************************************************)
Contents == [Line -> [0..7 -> Byte]]

\* The beat of a burst starting at half h that carries byte i, and whether the masks
\* d let one of the first two through to it.
BeatAt(h, i) == (i \div 2 + 4 - h) % 4
Carried(h, d, i) == BeatAt(h, i) < 2 /\ ~d[BeatAt(h, i)][i % 2]

\* The contents m under an entry.
Under(m, req, a, w, d) ==
  IF ~req THEN m
  ELSE [m EXCEPT ![a.line] = [i \in 0..7 |->
          IF Carried(a.half, d, i) THEN w[BeatAt(a.half, i)][i % 2] ELSE @[i]]]

\* Where a byte of the line is in a burst.
LEMMA BeatPlace ==
  ASSUME NEW h \in 0..3, NEW i \in 0..7
  PROVE  /\ BeatAt(h, i) \in 0..3 /\ i % 2 \in 0..1 /\ i \div 2 \in 0..3
         /\ BeatAt(h, i) = 0 <=> i \div 2 = h
         /\ BeatAt(h, i) = 1 <=> i \div 2 = (h + 1) % 4
BY DEF BeatAt

\* The contents under an entry, byte by byte.
LEMMA UnderAt ==
  ASSUME NEW m \in Contents, NEW a \in HalfAddr,
         NEW w \in [0..1 -> Half], NEW d \in [0..1 -> Mask], NEW req \in BOOLEAN
  PROVE  /\ Under(m, req, a, w, d) \in Contents
         /\ \A l \in Line, i \in 0..7 :
              Under(m, req, a, w, d)[l][i] =
                IF req /\ l = a.line /\ Carried(a.half, d, i)
                THEN w[BeatAt(a.half, i)][i % 2] ELSE m[l][i]
<1>1. a.line \in Line /\ a.half \in 0..3 /\ m[a.line] \in [0..7 -> Byte]
  BY DEF HalfAddr, Contents
<1> DEFINE new == [i \in 0..7 |-> IF Carried(a.half, d, i)
                                  THEN w[BeatAt(a.half, i)][i % 2] ELSE m[a.line][i]]
<1>2. new \in [0..7 -> Byte]
  <2> SUFFICES ASSUME NEW i \in 0..7, Carried(a.half, d, i)
               PROVE  w[BeatAt(a.half, i)][i % 2] \in Byte
    BY <1>1
  <2>1. BeatAt(a.half, i) \in 0..1 /\ i % 2 \in 0..1
    BY <1>1, BeatPlace DEF Carried
  <2> QED
    BY <2>1 DEF Half
<1>3. CASE ~req
  BY <1>3 DEF Under
<1>4. CASE req
  <2>1. Under(m, req, a, w, d) = [m EXCEPT ![a.line] = new]
    BY <1>4 DEF Under
  <2> HIDE DEF new
  <2>2. [m EXCEPT ![a.line] = new] \in Contents
    BY <1>1, <1>2 DEF Contents
  <2>3. \A l \in Line : Under(m, req, a, w, d)[l] = IF l = a.line THEN new ELSE m[l]
    BY <1>1, <2>1 DEF Contents
  <2>4. \A i \in 0..7 : new[i] = IF Carried(a.half, d, i)
                                 THEN w[BeatAt(a.half, i)][i % 2] ELSE m[a.line][i]
    BY DEF new
  <2> QED
    BY <1>4, <2>1, <2>2, <2>3, <2>4
<1> QED
  BY <1>3, <1>4

\* Contents that agree in every byte are equal.
LEMMA SameContents ==
  ASSUME NEW m \in Contents, NEW n \in Contents,
         \A l \in Line, i \in 0..7 : m[l][i] = n[l][i]
  PROVE  m = n
<1>1. ASSUME NEW l \in Line PROVE m[l] = n[l]
  <2>1. m[l] \in [0..7 -> Byte] /\ n[l] \in [0..7 -> Byte]
    BY DEF Contents
  <2> QED
    BY <2>1
<1> QED
  BY <1>1 DEF Contents

\* The memory the CPU sees is the contents of the device under the write cache.
LEMMA VisibleIs ==
  /\ Visible = Under(mem, writecache_req, writecache_addr, writecache_word, writecache_dqm)
  /\ Visible' = Under(mem', writecache_req', writecache_addr', writecache_word', writecache_dqm')
BY DEF Visible, Under, Carried, BeatAt

\* The same before and after a step, byte by byte.
LEMMA VisibleAt ==
  ASSUME TypeOK, TypeOK'
  PROVE  /\ mem \in Contents /\ mem' \in Contents
         /\ Visible \in Contents /\ Visible' \in Contents
         /\ \A l \in Line, i \in 0..7 :
              /\ Visible[l][i] =
                   IF /\ writecache_req /\ l = writecache_addr.line
                      /\ Carried(writecache_addr.half, writecache_dqm, i)
                   THEN writecache_word[BeatAt(writecache_addr.half, i)][i % 2] ELSE mem[l][i]
              /\ Visible'[l][i] =
                   IF /\ writecache_req' /\ l = writecache_addr'.line
                      /\ Carried(writecache_addr'.half, writecache_dqm', i)
                   THEN writecache_word'[BeatAt(writecache_addr'.half, i)][i % 2] ELSE mem'[l][i]
<1>1. /\ mem \in Contents /\ writecache_addr \in HalfAddr /\ writecache_req \in BOOLEAN
      /\ writecache_word \in [0..1 -> Half] /\ writecache_dqm \in [0..1 -> Mask]
  BY DEF TypeOK, ChipTypeOK, SdramTypeOK, Contents
<1>2. /\ mem' \in Contents /\ writecache_addr' \in HalfAddr /\ writecache_req' \in BOOLEAN
      /\ writecache_word' \in [0..1 -> Half] /\ writecache_dqm' \in [0..1 -> Mask]
  BY DEF TypeOK, ChipTypeOK, SdramTypeOK, Contents
<1> DEFINE V == Under(mem, writecache_req, writecache_addr, writecache_word, writecache_dqm)
           W == Under(mem', writecache_req', writecache_addr', writecache_word', writecache_dqm')
<1>3. /\ V \in Contents
      /\ \A l \in Line, i \in 0..7 :
           V[l][i] = IF /\ writecache_req /\ l = writecache_addr.line
                        /\ Carried(writecache_addr.half, writecache_dqm, i)
                     THEN writecache_word[BeatAt(writecache_addr.half, i)][i % 2]
                     ELSE mem[l][i]
  BY <1>1, UnderAt
<1>4. /\ W \in Contents
      /\ \A l \in Line, i \in 0..7 :
           W[l][i] = IF /\ writecache_req' /\ l = writecache_addr'.line
                        /\ Carried(writecache_addr'.half, writecache_dqm', i)
                     THEN writecache_word'[BeatAt(writecache_addr'.half, i)][i % 2]
                     ELSE mem'[l][i]
  BY <1>2, UnderAt
<1>5. Visible = V /\ Visible' = W
  BY VisibleIs
<1> HIDE DEF V, W
<1> QED
  BY <1>1, <1>2, <1>3, <1>4, <1>5

-----------------------------------------------------------------------------
\* The controller at work leaves the memory the CPU sees as it is: a beat moves bytes
\* from the entry to the device, and the entry is given up with its last byte.
LEMMA VisibleKept ==
  ASSUME TypeOK, TypeOK', DeviceInv, PathInv, Next, ~WriteLatched
  PROVE  Visible' = Visible
<1>0. /\ BusInv /\ AcknowledgeInv /\ AckInv /\ WriteInv /\ EntryInv /\ SdramEdge
      /\ writecache_addr \in HalfAddr
  BY DEF TypeOK, SdramTypeOK, PathInv, Next
<1> DEFINE a == writecache_addr
           Carries(i) == Carried(a.half, writecache_dqm, i)
           Entry(i) == writecache_word[BeatAt(a.half, i)][i % 2]
<1>1. /\ UNCHANGED <<writecache_addr, writecache_word, writecache_dqm>>
      /\ writecache_req' <=> writecache_req /\ ~writecache_ack
  BY <1>0, EntryStep
<1>2. /\ mem \in Contents /\ mem' \in Contents /\ Visible \in Contents /\ Visible' \in Contents
      /\ \A l \in Line, i \in 0..7 :
           /\ Visible[l][i] =
                IF writecache_req /\ l = a.line /\ Carries(i) THEN Entry(i) ELSE mem[l][i]
           /\ Visible'[l][i] =
                IF writecache_req' /\ l = a.line /\ Carries(i) THEN Entry(i) ELSE mem'[l][i]
  BY <1>1, VisibleAt
<1>3. a.line \in Line /\ a.half \in 0..3
  BY <1>0 DEF HalfAddr
<1>4. writecache_req /\ writecache_ack => SecondBeat
  BY <1>0 DEF EntryInv, AckInv, BusInv, SecondBeat
<1>5. FirstBeat => ~SecondBeat
  BY DEF FirstBeat, SecondBeat
<1>6. \A i \in 0..7 : /\ BeatAt(a.half, i) \in 0..3
                      /\ BeatAt(a.half, i) = 0 <=> i \div 2 = a.half
                      /\ BeatAt(a.half, i) = 1 <=> i \div 2 = (a.half + 1) % 4
                      /\ (a.half + 0) % 4 = a.half
  BY <1>3, BeatPlace
<1>7. CASE ~FirstBeat /\ ~SecondBeat
  <2>1. mem' = mem /\ (writecache_req' <=> writecache_req)
    BY <1>1, <1>4, <1>7, MemoryStep
  <2>2. \A l \in Line, i \in 0..7 : Visible'[l][i] = Visible[l][i]
    BY <1>2, <2>1
  <2> QED
    BY <1>2, <2>2, SameContents
<1>8. CASE FirstBeat
  <2>1. writecache_req /\ writecache_req'
    BY <1>0, <1>1, <1>4, <1>5, <1>8 DEF FirstBeat, WriteInv, WriteOf, Slot2Phase
  <2>2. BeatStored(0)
    BY <1>8, MemoryStep
  <2>3. ASSUME NEW l \in Line, NEW i \in 0..7 PROVE Visible'[l][i] = Visible[l][i]
    <3>1. mem'[l][i] = IF l = a.line /\ i \div 2 = a.half /\ ~writecache_dqm[0][i % 2]
                       THEN writecache_word[0][i % 2] ELSE mem[l][i]
      BY <1>2, <1>3, <1>6, <2>2 DEF BeatStored, Contents
    <3>2. i \div 2 = a.half /\ ~writecache_dqm[0][i % 2] => Carries(i)
      BY <1>6 DEF Carried
    <3> QED
      BY <1>2, <2>1, <3>1, <3>2
  <2> QED
    BY <1>2, <2>3, SameContents
<1>9. CASE SecondBeat
  <2>1. writecache_req /\ ~writecache_req' /\ FirstStored
    BY <1>0, <1>1, <1>9 DEF SecondBeat, WriteInv, WriteOf, Slot2Phase
  <2>2. BeatStored(1)
    BY <1>5, <1>9, MemoryStep
  <2>3. ASSUME NEW l \in Line, NEW i \in 0..7 PROVE Visible'[l][i] = Visible[l][i]
    <3>1. mem'[l][i] = IF l = a.line /\ BeatAt(a.half, i) = 1 /\ ~writecache_dqm[1][i % 2]
                       THEN writecache_word[1][i % 2] ELSE mem[l][i]
      BY <1>2, <1>3, <1>6, <2>2 DEF BeatStored, Contents
    <3>2. BeatAt(a.half, i) = 0 /\ ~writecache_dqm[0][i % 2] =>
            mem[a.line][i] = writecache_word[0][i % 2]
      BY <1>6, <2>1 DEF FirstStored
    <3>3. Carries(i) <=> \/ BeatAt(a.half, i) = 0 /\ ~writecache_dqm[0][i % 2]
                         \/ BeatAt(a.half, i) = 1 /\ ~writecache_dqm[1][i % 2]
      BY <1>6 DEF Carried
    <3> QED
      BY <1>2, <2>1, <3>1, <3>2, <3>3
  <2> QED
    BY <1>2, <2>3, SameContents
<1> QED
  BY <1>7, <1>8, <1>9

\* The bytes an access has.
LEMMA SizeIs ==
  Size("read") = 4 /\ Size("write") = 4 /\ Size("writeh") = 2 /\ Size("writeb") = 1
BY Zenon DEF Size

\* The burst the write cache makes of an access writes the bytes the access names, and
\* no other, with the bytes of the word they stand for: i is a byte of the line, the
\* access writes size bytes from b on.
LEMMA WordBurst ==
  ASSUME NEW w \in Word, NEW b \in 0..7, b % 4 = 0, NEW d \in [0..1 -> Mask],
         \A k \in 0..1, j \in 0..1 : ~d[k][j], NEW i \in 0..7
  PROVE  /\ Carried(b \div 2, d, i) <=> i \in b .. b + 4 - 1
         /\ Carried(b \div 2, d, i) =>
              HalfWord(w, BeatAt(b \div 2, i))[i % 2] = w[i - b + 4 - 4]
<1>1. b \in {0, 4} /\ i % 2 \in 0..1 /\ BeatAt(b \div 2, i) \in 0..3
  BY BeatPlace
<1>2. \A k \in 0..3, j \in 0..1 : k < 2 => ~d[k][j]
  OBVIOUS
<1>3. Carried(b \div 2, d, i) <=> BeatAt(b \div 2, i) < 2
  BY <1>1, <1>2 DEF Carried
<1>4. BeatAt(b \div 2, i) < 2 <=> i \in b .. b + 4 - 1
  BY <1>1 DEF BeatAt
<1>5. BeatAt(b \div 2, i) < 2 => 2 * BeatAt(b \div 2, i) + (i % 2) = i - b + 4 - 4
  BY <1>1 DEF BeatAt
<1>6. HalfWord(w, BeatAt(b \div 2, i))[i % 2] = w[2 * BeatAt(b \div 2, i) + (i % 2)]
  BY <1>1 DEF HalfWord
<1> QED
  BY <1>3, <1>4, <1>5, <1>6

\* A halfword is the second beat of a burst that starts one halfword early.
LEMMA HalfBurst ==
  ASSUME NEW w \in Word, NEW b \in 0..7, b % 2 = 0, NEW d \in [0..1 -> Mask],
         \A j \in 0..1 : d[0][j] /\ ~d[1][j], NEW i \in 0..7
  PROVE  /\ Carried((b \div 2 + 3) % 4, d, i) <=> i \in b .. b + 2 - 1
         /\ Carried((b \div 2 + 3) % 4, d, i) =>
              /\ BeatAt((b \div 2 + 3) % 4, i) = 1
              /\ HalfWord(w, 1)[i % 2] = w[i - b + 4 - 2]
<1>1. b \in {0, 2, 4, 6} /\ i % 2 \in 0..1 /\ BeatAt((b \div 2 + 3) % 4, i) \in 0..3
  BY BeatPlace
<1>2. \A k \in 0..3, j \in 0..1 : k < 2 /\ ~d[k][j] <=> k = 1
  OBVIOUS
<1>3. Carried((b \div 2 + 3) % 4, d, i) <=> BeatAt((b \div 2 + 3) % 4, i) = 1
  BY <1>1, <1>2 DEF Carried
<1>4. BeatAt((b \div 2 + 3) % 4, i) = 1 <=> i \in b .. b + 2 - 1
  BY <1>1 DEF BeatAt
<1>5. i \in b .. b + 2 - 1 => 2 * 1 + (i % 2) = i - b + 4 - 2
  BY <1>1
<1>6. HalfWord(w, 1)[i % 2] = w[2 * 1 + (i % 2)]
  BY <1>1 DEF HalfWord
<1> QED
  BY <1>3, <1>4, <1>5, <1>6

\* A byte is one lane of that beat.
LEMMA ByteBurst ==
  ASSUME NEW w \in Word, NEW b \in 0..7, NEW d \in [0..1 -> Mask],
         \A k \in 0..1, j \in 0..1 : d[k][j] <=> k = 0 \/ j # b % 2,
         NEW i \in 0..7
  PROVE  /\ Carried((b \div 2 + 3) % 4, d, i) <=> i \in b .. b + 1 - 1
         /\ Carried((b \div 2 + 3) % 4, d, i) =>
              /\ BeatAt((b \div 2 + 3) % 4, i) = 1
              /\ HalfWord(ByteLanes(w), 1)[i % 2] = w[i - b + 4 - 1]
<1>1. i % 2 \in 0..1 /\ b % 2 \in 0..1 /\ BeatAt((b \div 2 + 3) % 4, i) \in 0..3
  BY BeatPlace
<1>2. Carried((b \div 2 + 3) % 4, d, i) <=> BeatAt((b \div 2 + 3) % 4, i) = 1 /\ i % 2 = b % 2
  BY <1>1 DEF Carried
<1>3. BeatAt((b \div 2 + 3) % 4, i) = 1 <=> i \div 2 = b \div 2
  BY BeatPlace
<1>4. i \in b .. b + 1 - 1 <=> i \div 2 = b \div 2 /\ i % 2 = b % 2
  OBVIOUS
<1>5. ByteLanes(w)[2] = w[3] /\ ByteLanes(w)[3] = w[3]
  BY DEF ByteLanes, Word
<1>6. i = b => i - b + 4 - 1 = 3
  OBVIOUS
<1>7. HalfWord(ByteLanes(w), 1)[i % 2] = w[3]
  BY <1>1, <1>5 DEF HalfWord
<1> QED
  BY <1>1, <1>2, <1>3, <1>4, <1>6, <1>7

\* Latching a write performs it.
LEMMA VisibleWritten ==
  ASSUME TypeOK, TypeOK', DeviceInv, PathInv, Next, WriteLatched
  PROVE  /\ mem_op \in {"write", "writeh", "writeb"}
         /\ Visible' = Atomic!Written(Visible, mem_addr, Size(mem_op), mem_write)
<1>0. /\ BusInv /\ AcknowledgeInv /\ AckInv /\ WriteInv /\ SdramEdge /\ WriteCache
      /\ mem_op \in CpuOps \cup {"none"} /\ mem_addr \in Addr /\ mem_write \in Word
  BY DEF TypeOK, CpuTypeOK, PathInv, Next, SdramEdge
<1>1. Requested /\ req1 /\ ~writecache_req /\ mem_op # "read"
  BY <1>0, LatchedNow
<1>2. /\ mem_op \in {"write", "writeh", "writeb"}
      /\ Addr1 = mem_addr /\ datawr1 = DataFor(mem_op, mem_write) /\ Lanes
      /\ mem_addr.byte % Size(mem_op) = 0
  BY <1>0, <1>1, CpuAssumption DEF BusInv, PortGiven, Requested
<1>L. /\ wrU2 <=> mem_op \in {"writeh", "writeb"}
      /\ wrL1 <=> mem_op = "writeb" /\ mem_addr.byte % 2 = 0
      /\ wrU1 <=> mem_op = "writeb" /\ mem_addr.byte % 2 = 1
  BY <1>1, <1>2, Zenon DEF Lanes
<1>3. mem' = mem
  BY <1>0, <1>1, MemoryStep DEF FirstBeat, SecondBeat, WriteInv, WriteOf, Slot2Phase
<1>4. writecache_req' /\ mem \in Contents /\ Visible' \in Contents /\ Visible = mem
  BY <1>0, <1>1, EntryStep, VisibleAt DEF Visible
<1>5. /\ writecache_addr' = BurstStart(mem_addr)
      /\ writecache_word' = [i \in 0..1 |-> HalfWord(DataFor(mem_op, mem_write), i)]
      /\ writecache_dqm' = [i \in 0..1 |-> [b \in 0..1 |->
            IF i = 0 THEN wrU2 ELSE IF b = 0 THEN wrU1 ELSE wrL1]]
      /\ writecache_dqm' \in [0..1 -> Mask] /\ writecache_addr' \in HalfAddr
  BY <1>0, <1>2 DEF WriteCache, TypeOK, SdramTypeOK
<1> DEFINE b == mem_addr.byte
           n == Size(mem_op)
           h == writecache_addr'.half
           d == writecache_dqm'
           Entry(i) == writecache_word'[BeatAt(h, i)][i % 2]
<1>6. mem_addr.line \in Line /\ b \in 0..7 /\ h \in 0..3 /\ writecache_addr'.line = mem_addr.line
  BY <1>0, <1>5 DEF Addr, HalfAddr, BurstStart, HalfOf
<1>7. \A i \in 0..7 : /\ Carried(h, d, i) <=> i \in b .. b + n - 1
                      /\ Carried(h, d, i) => Entry(i) = mem_write[i - b + 4 - n]
  <2> SUFFICES ASSUME NEW i \in 0..7
               PROVE  /\ Carried(h, d, i) <=> i \in b .. b + n - 1
                      /\ Carried(h, d, i) => Entry(i) = mem_write[i - b + 4 - n]
    OBVIOUS
  <2>0. BeatAt(h, i) \in 0..3
    BY <1>6, BeatPlace
  <2>1. CASE mem_op = "write"
    <3>1. n = 4 /\ b % 4 = 0 /\ h = b \div 2
      BY <1>L, <1>2, <1>5, <2>1, SizeIs DEF BurstStart, HalfOf
    <3>2. \A k \in 0..1, j \in 0..1 : ~d[k][j]
      BY <1>L, <1>5, <2>1
    <3>3. Carried(h, d, i) => Entry(i) = HalfWord(mem_write, BeatAt(h, i))[i % 2]
      BY <1>5, <2>0, <2>1 DEF DataFor, Carried
    <3>4. /\ Carried(b \div 2, d, i) <=> i \in b .. b + 4 - 1
          /\ Carried(b \div 2, d, i) =>
               HalfWord(mem_write, BeatAt(b \div 2, i))[i % 2] = mem_write[i - b + 4 - 4]
      BY <1>0, <1>5, <1>6, <3>1, <3>2, WordBurst
    <3> QED
      BY <3>1, <3>3, <3>4
  <2>2. CASE mem_op = "writeh"
    <3>1. n = 2 /\ b % 2 = 0 /\ h = (b \div 2 + 3) % 4
      BY <1>L, <1>2, <1>5, <2>2, SizeIs DEF BurstStart, HalfOf
    <3>2. \A j \in 0..1 : d[0][j] /\ ~d[1][j]
      BY <1>L, <1>5, <2>2
    <3>3. BeatAt(h, i) = 1 => Entry(i) = HalfWord(mem_write, 1)[i % 2]
      BY <1>5, <2>2 DEF DataFor
    <3>4. /\ Carried((b \div 2 + 3) % 4, d, i) <=> i \in b .. b + 2 - 1
          /\ Carried((b \div 2 + 3) % 4, d, i) =>
               /\ BeatAt((b \div 2 + 3) % 4, i) = 1
               /\ HalfWord(mem_write, 1)[i % 2] = mem_write[i - b + 4 - 2]
      <4> HIDE DEF b, n, h, d, Entry
      <4>1. mem_write \in Word /\ b \in 0..7 /\ d \in [0..1 -> Mask] /\ i \in 0..7
        BY <1>0, <1>5, <1>6 DEF b, d
      <4> QED
        BY <3>1, <3>2, <4>1, HalfBurst, Zenon
    <3> QED
      BY <3>1, <3>3, <3>4
  <2>3. CASE mem_op = "writeb"
    <3>1. n = 1 /\ h = (b \div 2 + 3) % 4
      BY <1>L, <1>2, <1>5, <2>3, SizeIs DEF BurstStart, HalfOf
    <3>2. \A k \in 0..1, j \in 0..1 : d[k][j] <=> k = 0 \/ j # b % 2
      <4>1. \A k \in 0..1, j \in 0..1 :
              d[k][j] <=> IF k = 0 THEN wrU2 ELSE IF j = 0 THEN wrU1 ELSE wrL1
        BY <1>5, Zenon
      <4>2. wrU2 /\ (wrU1 <=> b % 2 = 1) /\ (wrL1 <=> b % 2 = 0) /\ b % 2 \in 0..1
        BY <1>L, <1>6, <2>3
      <4> QED
        BY <4>1, <4>2
    <3>3. BeatAt(h, i) = 1 => Entry(i) = HalfWord(ByteLanes(mem_write), 1)[i % 2]
      BY <1>5, <2>3 DEF DataFor
    <3>4. /\ Carried((b \div 2 + 3) % 4, d, i) <=> i \in b .. b + 1 - 1
          /\ Carried((b \div 2 + 3) % 4, d, i) =>
               /\ BeatAt((b \div 2 + 3) % 4, i) = 1
               /\ HalfWord(ByteLanes(mem_write), 1)[i % 2] = mem_write[i - b + 4 - 1]
      <4> HIDE DEF b, n, h, d, Entry
      <4>1. mem_write \in Word /\ b \in 0..7 /\ d \in [0..1 -> Mask] /\ i \in 0..7
        BY <1>0, <1>5, <1>6 DEF b, d
      <4> QED
        BY <3>2, <4>1, ByteBurst, Zenon
    <3> QED
      BY <3>1, <3>3, <3>4
  <2> QED
    BY <1>2, <2>1, <2>2, <2>3
<1>8. \A l \in Line, i \in 0..7 :
        Visible'[l][i] = IF l = mem_addr.line /\ i \in b .. b + n - 1
                         THEN mem_write[i - b + 4 - n] ELSE mem[l][i]
  BY <1>3, <1>4, <1>6, <1>7, VisibleAt
<1> DEFINE new == [i \in 0..7 |-> IF i \in b .. b + n - 1 THEN mem_write[i - b + 4 - n]
                                  ELSE mem[mem_addr.line][i]]
           W == [mem EXCEPT ![mem_addr.line] = new]
<1>9. Atomic!Written(Visible, mem_addr, n, mem_write) = W
  BY <1>4 DEF Atomic!Written
<1> HIDE DEF n, b, h, d
<1>10. Visible'[mem_addr.line] = new
  <2>1. Visible'[mem_addr.line] \in [0..7 -> Byte]
    BY <1>4, <1>6 DEF Contents
  <2>2. \A i \in 0..7 : Visible'[mem_addr.line][i] = new[i]
    BY <1>6, <1>8
  <2> QED
    BY <2>1, <2>2
<1>11. \A l \in Line : l # mem_addr.line => Visible'[l] = mem[l]
  <2> SUFFICES ASSUME NEW l \in Line, l # mem_addr.line PROVE Visible'[l] = mem[l]
    OBVIOUS
  <2>1. Visible'[l] \in [0..7 -> Byte] /\ mem[l] \in [0..7 -> Byte]
    BY <1>4 DEF Contents
  <2>2. \A i \in 0..7 : Visible'[l][i] = mem[l][i]
    BY <1>8
  <2> QED
    BY <2>1, <2>2
<1> HIDE DEF new
<1>12. Visible' = W
  BY <1>4, <1>6, <1>10, <1>11 DEF Contents
<1> QED
  BY <1>2, <1>9, <1>12 DEF n

\* A word is the two halves of the line that start at its address.
LEMMA WordHalves ==
  ASSUME NEW b \in 0..7, b % 4 = 0, NEW k \in 0..3
  PROVE  /\ k \div 2 \in 0..1 /\ k % 2 \in 0..1 /\ b + k \in 0..7
         /\ 2 * ((b \div 2 + k \div 2) % 4) + (k % 2) = b + k
<1>1. b \in {0, 4} /\ k \in {0, 1, 2, 3}
  OBVIOUS
<1> QED
  BY <1>1

\* The words of a read are the words of the memory the CPU sees.
LEMMA VisibleRead ==
  ASSUME TypeOK, TypeOK', DeviceInv, PathInv, Next, ReadWord(1)
  PROVE  sdram_read' = Atomic!WordAt(Visible, mem_addr)
<1>0. /\ BusInv /\ AcknowledgeInv /\ ReadInv /\ SdramEdge /\ ReadData /\ SlotsDisjoint
      /\ mem_addr \in Addr /\ init_done
  BY DEF TypeOK, CpuTypeOK, PathInv, DeviceInv, Next, SdramEdge, Slots, ReadWord
<1>1. /\ Requested /\ req1 /\ mem_op = "read"
      /\ \/ sdram_state = 11 /\ sdram_slot1 = "zpu"
         \/ sdram_state = 3 /\ sdram_slot2 = "zpu"
  BY <1>0, AnsweredNow
<1>2. Addr1 = mem_addr /\ mem_addr.byte % 4 = 0
  BY <1>1, <1>0, SizeIs DEF BusInv, PortGiven
<1>3. /\ ReadHeld /\ ReadOf(HalfOf(Addr1), 11)
      /\ dataout1[0] = HalfAt(HalfOf(Addr1), 0)
  BY <1>0, <1>1 DEF ReadInv, Slot2Phase
<1>4. sdata_reg = HalfAt(HalfOf(mem_addr), 1)
  BY <1>2, <1>3 DEF ReadOf
<1>5. ~ReadWord(0)
  BY <1>0, <1>1 DEF ReadWord
<1>6. dataout1'[0] = HalfAt(HalfOf(mem_addr), 0) /\ dataout1'[1] = HalfAt(HalfOf(mem_addr), 1)
  BY <1>0, <1>2, <1>3, <1>4, <1>5 DEF ReadData
<1>7. mem_addr.line \in Line /\ mem_addr.byte \in 0..7
  BY <1>0 DEF Addr
<1>8. \A i \in 0..7 : Visible[mem_addr.line][i] = mem[mem_addr.line][i]
  BY <1>2, <1>3, <1>7, VisibleAt DEF ReadHeld
<1> DEFINE a == mem_addr
<1>9. \A k \in 0..3 : dataout1'[k \div 2][k % 2] = Visible[a.line][a.byte + k]
  <2> SUFFICES ASSUME NEW k \in 0..3
               PROVE  dataout1'[k \div 2][k % 2] = Visible[a.line][a.byte + k]
    OBVIOUS
  <2>1. k \div 2 \in 0..1 /\ k % 2 \in 0..1 /\ a.byte + k \in 0..7
        /\ 2 * ((a.byte \div 2 + k \div 2) % 4) + (k % 2) = a.byte + k
    BY <1>2, <1>7, WordHalves
  <2>2. dataout1'[k \div 2] = HalfAt(HalfOf(a), k \div 2)
    BY <1>6, <2>1
  <2>3. HalfOf(a).line = a.line /\ HalfOf(a).half = a.byte \div 2
    BY DEF HalfOf
  <2>4. dataout1'[k \div 2][k % 2] = mem[a.line][2 * ((a.byte \div 2 + k \div 2) % 4) + (k % 2)]
    BY <2>1, <2>2, <2>3 DEF HalfAt
  <2> QED
    BY <1>8, <2>1, <2>4
<1> QED
  BY <1>9 DEF sdram_read, Atomic!WordAt

-----------------------------------------------------------------------------
(***************************************************************************)
(* The refinement: what the abstract memory has under way and last replied. *)
(***************************************************************************)
TheRequest == IF Pending THEN [op |-> mem_op, addr |-> mem_addr, word |-> mem_write]
              ELSE [op |-> "none"]
TheReply == IF zpu_ack THEN mem_read ELSE sdram_read
Accesses == [op : CpuOps, addr : CpuAddrs, word : CpuWords \cup {AnyWord}]

\* Whether the port is answered by a step.
LEMMA AnswerStep ==
  ASSUME TypeOK, PathInv, Next
  PROVE  /\ zpu_ack' <=> ~ReadWord(1)
         /\ dtack1' <=> ~WriteLatched /\ ~ReadWord(1)
<1>0. /\ BusInv /\ AcknowledgeInv /\ WriteInv /\ AckInv /\ SdramEdge
  BY DEF PathInv, Next
<1>1. zpu_ack' <=> ~ReadWord(1)
  BY <1>0, Zenon DEF SdramEdge, Slots, ReadData
<1>2. writecache_dtack' <=> ~WriteLatched
  BY <1>0, EntryStep
<1> QED
  BY <1>1, <1>2 DEF dtack1

\* The initial states of the path are initial states of the atomic memory.
LEMMA AtomicInit == Init => Atomic!Init
<1> SUFFICES ASSUME Init PROVE Atomic!Init
  OBVIOUS
<1> USE DEF Init, SdramInit, ChipInit, BusInit
<1>1. Visible = PowerUp
  BY DEF Visible
<1>2. ~Pending
  BY DEF Pending
<1>3. zpu_ack /\ mem_read \in [0..3 -> Byte]
  BY GeometryAssumption DEF AnyWord
<1> QED
  BY <1>1, <1>2, <1>3 DEF Atomic!Init, Atomic!NoRequest

\* Every step of the path is a step of the atomic memory or a stutter: the read is
\* performed with its second word, the write when it is latched.
LEMMA AtomicStep ==
  ASSUME TypeOK, TypeOK', DeviceInv, PathInv, PathInv', Next
  PROVE  [Atomic!Next]_Atomic!vars
<1>0. /\ BusInv /\ AcknowledgeInv /\ BusInv' /\ AcknowledgeInv' /\ BusEdge /\ CpuEdge
      /\ SlotsDisjoint /\ ReadInv
  BY DEF PathInv, DeviceInv, Next
<1> DEFINE Stutter == Visible' = Visible /\ TheRequest' = TheRequest /\ TheReply' = TheReply
<1>1. Stutter => UNCHANGED Atomic!vars
  BY DEF Atomic!vars, TheRequest, TheReply
<1>2. /\ WriteLatched => Requested /\ dtack1 /\ req1 /\ mem_op # "read"
      /\ ReadWord(1) => Requested /\ dtack1 /\ req1 /\ mem_op = "read" /\ ~WriteLatched
      /\ zpu_ack' <=> ~ReadWord(1)
      /\ dtack1' <=> ~WriteLatched /\ ~ReadWord(1)
  BY <1>0, LatchedNow, AnsweredNow, AnswerStep
<1>3. ~WriteLatched => Visible' = Visible
  BY VisibleKept
<1>4. /\ ~dtack1 => req1
      /\ ~dtack1' => req1'
      /\ ~zpu_ack => ~dtack1
      /\ ~zpu_ack' => ~dtack1'
  BY <1>0 DEF AcknowledgeInv, dtack1
<1>5. CASE NoAccess /\ NoAccess' /\ UNCHANGED <<mem_op, mem_addr, mem_write, mem_read>>
  <2>1. ~WriteLatched /\ ~ReadWord(1) /\ zpu_ack /\ zpu_ack' /\ ~Pending /\ ~Pending'
    BY <1>2, <1>4, <1>5 DEF NoAccess, Requested, Pending
  <2> QED
    BY <1>1, <1>3, <1>5, <2>1 DEF TheRequest, TheReply
<1>6. CASE /\ reset /\ NoAccess /\ Strobed' /\ UNCHANGED mem_read
           /\ \E op \in CpuOps, a \in CpuAddrs : Issue(op, a)
  <2>1. ~WriteLatched /\ ~ReadWord(1) /\ zpu_ack /\ zpu_ack' /\ ~Pending /\ Pending'
    BY <1>2, <1>4, <1>6 DEF NoAccess, Strobed, Requested, Pending
  <2>2. TheRequest = Atomic!NoRequest
    BY <2>1 DEF TheRequest, Atomic!NoRequest
  <2>3. TheRequest' \in Accesses
    <3>1. TheRequest' = [op |-> mem_op', addr |-> mem_addr', word |-> mem_write']
      BY <2>1 DEF TheRequest
    <3>2. mem_op' \in CpuOps /\ mem_addr' \in CpuAddrs /\ mem_write' \in CpuWords \cup {AnyWord}
      BY <1>0, <1>6 DEF BusInv, Strobed, Issue
    <3> QED
      BY <3>1, <3>2 DEF Accesses
  <2>4. Visible' = Visible /\ TheReply' = TheReply
    BY <1>3, <1>6, <2>1 DEF TheReply
  <2>5. \E x \in Accesses : Atomic!Ask(x)
    BY <2>2, <2>3, <2>4 DEF Atomic!Ask, TheRequest, TheReply
  <2> QED
    BY <2>5 DEF Atomic!Next, Accesses
<1>7. CASE /\ reset /\ Strobed /\ Requested' /\ ~req1' /\ Lanes'
           /\ UNCHANGED <<mem_op, mem_addr, mem_write, mem_read>>
  <2>1. ~WriteLatched /\ ~ReadWord(1) /\ zpu_ack /\ zpu_ack' /\ Pending /\ Pending'
    BY <1>2, <1>4, <1>7 DEF Strobed, Requested, Pending
  <2> QED
    BY <1>1, <1>3, <1>7, <2>1 DEF TheRequest, TheReply
<1>8. CASE /\ reset /\ Requested /\ dtack1 /\ Requested' /\ req1' /\ PortGiven' /\ Lanes'
           /\ UNCHANGED <<mem_op, mem_addr, mem_write, mem_read>>
  <2>0. Pending /\ zpu_ack
    BY <1>4, <1>8 DEF Requested, Pending
  <2>1. TheRequest = [op |-> mem_op, addr |-> mem_addr, word |-> mem_write]
    BY <2>0 DEF TheRequest
  <2>2. TheRequest.op = mem_op /\ TheRequest.addr = mem_addr /\ TheRequest.word = mem_write
        /\ TheRequest # Atomic!NoRequest
    BY <1>8, <2>1 DEF Atomic!NoRequest, Requested
  <2>3. CASE ReadWord(1)
    <3>1. ~WriteLatched /\ ~Pending' /\ ~zpu_ack' /\ mem_op = "read"
      BY <1>2, <2>3 DEF Pending
    <3>2. TheRequest' = Atomic!NoRequest /\ Visible' = Visible
      BY <1>3, <3>1 DEF TheRequest, Atomic!NoRequest
    <3>3. TheReply' = Atomic!WordAt(Visible, mem_addr)
      BY <2>3, <3>1, VisibleRead DEF TheReply
    <3>4. Atomic!Read
      BY <2>2, <3>1, <3>2, <3>3 DEF Atomic!Read, TheRequest, TheReply
    <3> QED
      BY <3>4 DEF Atomic!Next, Atomic!Perform
  <2>4. CASE WriteLatched
    <3>1. ~ReadWord(1) /\ ~Pending' /\ zpu_ack'
      BY <1>2, <2>4 DEF Pending
    <3>2. TheRequest' = Atomic!NoRequest
      BY <3>1 DEF TheRequest, Atomic!NoRequest
    <3>3. TheReply' = TheReply
      BY <1>8, <2>0, <3>1 DEF TheReply
    <3>4. /\ mem_op \in {"write", "writeh", "writeb"}
          /\ Visible' = Atomic!Written(Visible, mem_addr, Size(mem_op), mem_write)
      BY <2>4, VisibleWritten
    <3>5. Atomic!Write(mem_op, Size(mem_op))
      BY <2>2, <3>2, <3>3, <3>4 DEF Atomic!Write, TheRequest, TheReply
    <3> QED
      BY <3>4, <3>5, SizeIs DEF Atomic!Next, Atomic!Perform
  <2>5. CASE ~ReadWord(1) /\ ~WriteLatched
    <3>1. Pending' /\ zpu_ack'
      BY <1>2, <1>8, <2>5 DEF Requested, Pending
    <3> QED
      BY <1>1, <1>3, <1>8, <2>0, <2>5, <3>1 DEF TheRequest, TheReply
  <2> QED
    BY <2>3, <2>4, <2>5
<1>9. CASE /\ reset /\ Requested /\ ~dtack1 /\ Answered'
           /\ UNCHANGED <<mem_op, mem_addr, mem_write>>
           /\ mem_read' = IF mem_op = "read" THEN sdram_read ELSE mem_read
  <2>1. ~WriteLatched /\ ~ReadWord(1) /\ zpu_ack' /\ ~Pending /\ ~Pending'
    BY <1>2, <1>4, <1>9 DEF Answered, Pending
  <2>2. IF zpu_ack THEN mem_op # "read" ELSE mem_op = "read"
    BY <1>0, <1>4, <1>9 DEF BusInv, PortGiven, AcknowledgeInv, dtack1
  <2> QED
    BY <1>1, <1>3, <1>9, <2>1, <2>2 DEF TheRequest, TheReply
<1>10. CASE reset /\ Answered /\ NoAccess' /\ UNCHANGED mem_read
  <2>1. ~WriteLatched /\ ~ReadWord(1) /\ zpu_ack /\ zpu_ack' /\ ~Pending /\ ~Pending'
    BY <1>2, <1>4, <1>10 DEF Answered, NoAccess, Requested, Pending
  <2> QED
    BY <1>1, <1>3, <1>10, <2>1 DEF TheRequest, TheReply
<1> QED
  BY <1>0, <1>5, <1>6, <1>7, <1>8, <1>9, <1>10, BusMoves

\* The whole path from the CPU to the device implements an atomic memory.
THEOREM MemoryImplemented == Spec => ImplementsMemory
<1>1. TypeOK /\ TypeOK' /\ DeviceInv /\ PathInv /\ PathInv' /\ [Next]_vars
        => [Atomic!Next]_Atomic!vars
  <2>1. UNCHANGED vars => UNCHANGED Atomic!vars
    BY DEF vars, sdramRegs, chipRegs, busRegs, cpuRegs, phaseRegs, writecacheRegs, slotRegs,
           Atomic!vars, Visible, Pending, dtack1, sdram_read
  <2> QED
    BY <2>1, AtomicStep
<1> QED
  BY <1>1, AtomicInit, TypeCorrect, DeviceInvariant, PathInvariant, PTL
     DEF Spec, ImplementsMemory, Atomic!Spec
=============================================================================
