------------------------------ MODULE MemSystem ------------------------------
(***************************************************************************)
(* The CPU, its bus, the SDRAM controller and the memory device, clocked     *)
(* together, with a VGA client that keeps the protocol of RTL/DMACache.vhd   *)
(* on its port but chooses its lines, its timing and its reservations freely.*)
(***************************************************************************)
EXTENDS SdramChip, CpuBus

CONSTANTS
  VgaLines,      \* the lines the VGA client reads
  VgaPhases,     \* the phases in which it may ask or change its reservation
  RefreshPhases  \* the phases in which it may ask for a refresh; the controller looks
                 \* at all these in ph2 and ph10, and in ph14 while it starts up

ASSUME VgaAssumption == VgaLines \subseteq Line /\ VgaLines # {} /\ VgaPhases \cup RefreshPhases \subseteq 0..15

VARIABLE vga_state    \* the client: "idle", "wait" (for the line)

vars == <<sdramRegs, chipRegs, busRegs, cpuRegs, vgaPort, vga_state>>

-----------------------------------------------------------------------------
VgaInit ==
  /\ vga_state = "idle" /\ vga_req = FALSE /\ vga_refresh = FALSE
  /\ vga_addr \in VgaLines /\ vga_reserveaddr \in VgaLines /\ vga_reservebank = FALSE

\* One burst is outstanding at a time; its last word ends the wait.
VgaIdle == vga_state = "idle" /\ UNCHANGED <<vga_state, vga_addr>> /\ vga_req' = FALSE

Choosing == sdram_state \in VgaPhases

VgaAsk ==
  /\ vga_state = "idle" /\ reset /\ Choosing
  /\ vga_addr' \in VgaLines /\ vga_req' = TRUE /\ vga_state' = "wait"

VgaWait ==
  /\ vga_state = "wait"
  /\ vga_req' = (vga_req /\ ~vga_ack)
  /\ vga_state' = IF vga_fill /\ sdram_state = 13 THEN "idle" ELSE "wait"
  /\ UNCHANGED vga_addr

VgaEdge ==
  /\ VgaIdle \/ VgaAsk \/ VgaWait
  /\ vga_reserveaddr' \in IF vga_ack THEN VgaLines ELSE {vga_reserveaddr}
  /\ vga_reservebank' \in IF vga_state = "idle" /\ Choosing THEN BOOLEAN ELSE {vga_reservebank}
  /\ vga_refresh' \in IF sdram_state \in RefreshPhases THEN BOOLEAN ELSE {FALSE}

-----------------------------------------------------------------------------
Init == SdramInit /\ ChipInit /\ BusInit /\ VgaInit

Next == SdramEdge /\ ChipEdge /\ BusEdge /\ CpuEdge /\ VgaEdge

Spec == Init /\ [][Next]_vars


-----------------------------------------------------------------------------
(***************************************************************************)
(* Properties.                                                             *)
(***************************************************************************)
\* Type invariant: every register and every wire keeps its range, the counters included.
TypeOK ==
  /\ SdramTypeOK /\ ChipTypeOK /\ BusTypeOK /\ CpuTypeOK
  /\ CpuPortTypeOK /\ VgaPortTypeOK /\ vga_state \in {"idle", "wait"}

\* Every command meets the device in a state that allows it: a row is opened only
\* in a bank that has been precharged for long enough, a refresh comes only when
\* all are, a column command comes three clocks after its row was opened, with the
\* row the access was granted for, nothing is accessed before the mode is set, and the
\* controller does not drive the data bus while the device does, although the write enables
\* are raised early in both slots, whether or not the slot writes.
DeviceTiming ==
  /\ sd_cmd.op = "active" => timer[sd_cmd.bank] = 0 /\ mode_set
  /\ sd_cmd.op \in {"refresh", "precharge", "mode"} => \A b \in Bank : timer[b] = 0
  /\ ColumnOp => timer[sd_cmd.bank] + 2 = RowCycle /\ row[sd_cmd.bank] = casaddr.line.row
  /\ ~(sdwrite /\ Driving)

\* Each of the four words the VGA port is handed under vga_fill is the word of the
\* line it asked for, although CPU accesses to other lines run through the same
\* pipeline and the CPU may be writing that very line.
VgaLineIntact ==
  vga_fill =>
    \A b \in 0..1 : vga_data[b] = mem[vga_addr][2 * (sdram_state - 10) + b]

(***************************************************************************)
(* The memory the CPU sees: the device's contents under the posted write.   *)
(***************************************************************************)
Visible ==
  LET beat(i) == (i \div 2 + 4 - writecache_addr.half) % 4
      posted(i) == beat(i) < 2 /\ ~writecache_dqm[beat(i)][i % 2]
  IN IF ~writecache_req THEN mem
     ELSE [mem EXCEPT ![writecache_addr.line] = [i \in 0..7 |->
             IF posted(i) THEN writecache_word[beat(i)][i % 2] ELSE @[i]]]

Pending == mem_op # "none" /\ mem_busy /\ dtack1

Atomic == INSTANCE AtomicMemory WITH
  Access <- [op : CpuOps, addr : CpuAddrs, word : CpuWords \cup {AnyWord}],
  Initial <- PowerUp,
  store <- Visible,
  request <- IF Pending THEN [op |-> mem_op, addr |-> mem_addr, word |-> mem_write]
             ELSE [op |-> "none"],
  reply <- IF zpu_ack THEN mem_read ELSE sdram_read

\* The whole path implements an atomic memory: no read overtakes the posted write
\* before it, no write is lost, repeated or torn, and no access is answered by the
\* acknowledgement or the data of another.
ImplementsMemory == Atomic!Spec
=============================================================================
