-------------------------------- MODULE CpuBus --------------------------------
(***************************************************************************)
(* The SDRAM side of the system's bus (RTL/ZPUTest.vhd:437-666) and the CPU  *)
(* in front of it.  The bus turns a strobe of the CPU into a request on the  *)
(* controller's CPU port, holds it until the port is acknowledged, and then  *)
(* releases the CPU for one clock.  The CPU (zpu_core, external to src/) has *)
(* one access outstanding: it raises a strobe for one clock, keeps address   *)
(* and data, and waits for mem_busy to fall.                                *)
(***************************************************************************)
EXTENDS Sdram

CONSTANTS
  CpuOps,     \* the kinds of access the CPU makes
  CpuAddrs,   \* the addresses it uses
  CpuWords    \* the words it writes

Op == {"read", "write", "writeh", "writeb"}

ASSUME CpuAssumption ==
  CpuOps \subseteq Op /\ CpuAddrs \subseteq Addr /\ CpuWords \subseteq Word /\ CpuWords # {}

VARIABLES
  reset,                            \* TRUE: out of reset
  bus_state,                        \* sdram_state of ZPUTest.vhd
  mem_busy, mem_read,
  mem_strobe, mem_op, mem_addr, mem_write     \* driven by the CPU

busRegs == <<reset, bus_state, mem_busy, mem_read, cpuPort>>
cpuRegs == <<mem_strobe, mem_op, mem_addr, mem_write>>

Size(op) == CASE op = "writeb" -> 1 [] op = "writeh" -> 2 [] OTHER -> 4
AnyAddr == [line |-> AnyLine, byte |-> 0]
AnyWord == [b \in 0..3 |-> Float]

BusInit ==
  /\ reset = FALSE /\ bus_state = "idle" /\ mem_busy = TRUE /\ mem_read = AnyWord
  /\ req1 = FALSE /\ wr1 = TRUE /\ Addr1 = AnyAddr /\ datawr1 = AnyWord
  /\ wrU2 = FALSE /\ wrU1 = FALSE /\ wrL1 = FALSE
  /\ mem_strobe = FALSE /\ mem_op = "none" /\ mem_addr = AnyAddr /\ mem_write = AnyWord

-----------------------------------------------------------------------------
(***************************************************************************)
(* The bus, one action per state.                                          *)
(***************************************************************************)
\* What the CPU reads: the two words of the controller's output register.
sdram_read == [b \in 0..3 |-> dataout1[b \div 2][b % 2]]

\* Mutant: the byte is left in the low lane only.
ByteLanesMutant(w) == w

\* A byte is sent on both lanes of the lower halfword (ZPUTest.vhd:648-649).
ByteLanes(w) == [w EXCEPT ![2] = w[3]]

Request(write, data) ==
  req1' = dtack1 /\ wr1' = ~write /\ Addr1' = mem_addr /\ datawr1' = data

Release == IF dtack1 THEN UNCHANGED bus_state ELSE bus_state' = "idle"

BusIdle ==
  /\ bus_state = "idle" /\ ~mem_strobe
  /\ mem_busy' = TRUE
  /\ UNCHANGED <<bus_state, mem_read, cpuPort>>

BusRead ==
  /\ bus_state = "idle" /\ mem_strobe /\ mem_op = "read"
  /\ bus_state' = "read1" /\ mem_busy' = TRUE
  /\ UNCHANGED <<mem_read, cpuPort>>

BusWrite ==
  /\ bus_state = "idle" /\ mem_strobe /\ mem_op # "read"
  /\ wrL1' = (mem_op = "writeb" /\ mem_addr.byte % 2 = 0)
  /\ wrU1' = (mem_op = "writeb" /\ mem_addr.byte % 2 = 1)
  /\ wrU2' = (mem_op \in {"writeh", "writeb"})
  /\ bus_state' = IF mem_op = "writeb" THEN "writeb" ELSE "write1"
  /\ mem_busy' = TRUE
  /\ UNCHANGED <<mem_read, req1, wr1, Addr1, datawr1>>

Read1 ==
  /\ bus_state = "read1"
  /\ Request(FALSE, datawr1) /\ Release
  /\ mem_busy' = dtack1
  /\ mem_read' = IF dtack1 THEN mem_read ELSE sdram_read
  /\ UNCHANGED <<wrU2, wrU1, wrL1>>

Write1 ==
  /\ bus_state = "write1"
  /\ Request(TRUE, mem_write) /\ Release
  /\ mem_busy' = dtack1
  /\ UNCHANGED <<mem_read, wrU2, wrU1, wrL1>>

WriteB ==
  /\ bus_state = "writeb"
  /\ Request(TRUE, ByteLanes(mem_write)) /\ Release
  /\ mem_busy' = dtack1
  /\ UNCHANGED <<mem_read, wrU2, wrU1, wrL1>>

\* The reset counter lets go once the controller is ready (ZPUTest.vhd:296-307).
BusEdge ==
  /\ reset' \in {reset, init_done}
  /\ \/ reset /\ (BusIdle \/ BusRead \/ BusWrite \/ Read1 \/ Write1 \/ WriteB)
     \/ ~reset /\ UNCHANGED <<bus_state, mem_busy, mem_read, cpuPort>>

-----------------------------------------------------------------------------
(***************************************************************************)
(* The CPU.                                                                *)
(***************************************************************************)
Issue(op, a) ==
  /\ reset /\ mem_op = "none" /\ a.byte % Size(op) = 0
  /\ mem_strobe' = TRUE /\ mem_op' = op /\ mem_addr' = a
  /\ mem_write' \in IF op = "read" THEN {mem_write} ELSE CpuWords

Await ==
  /\ mem_op # "none" /\ mem_busy
  /\ mem_strobe' = FALSE /\ UNCHANGED <<mem_op, mem_addr, mem_write>>

Continue ==
  /\ mem_op # "none" /\ ~mem_busy
  /\ mem_op' = "none" /\ UNCHANGED <<mem_strobe, mem_addr, mem_write>>

Compute ==
  mem_op = "none" /\ UNCHANGED cpuRegs

CpuEdge ==
  \/ \E op \in CpuOps, a \in CpuAddrs : Issue(op, a)
  \/ Await \/ Continue \/ Compute

BusTypeOK ==
  /\ reset \in BOOLEAN /\ bus_state \in {"idle", "read1", "write1", "writeb"}
  /\ mem_busy \in BOOLEAN /\ mem_read \in Word

CpuTypeOK ==
  /\ mem_strobe \in BOOLEAN /\ mem_op \in CpuOps \cup {"none"}
  /\ mem_addr \in Addr /\ mem_write \in Word
=============================================================================
