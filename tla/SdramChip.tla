------------------------------ MODULE SdramChip ------------------------------
(***************************************************************************)
(* The memory device on the pins of the controller: external to src/,       *)
(* modelled from the timing the controller is written for (burst of four,   *)
(* CAS latency three, auto precharge: sdram.vhd:310,536).  It samples the   *)
(* pins at each clock edge.                                                 *)
(***************************************************************************)
EXTENDS Sdram

CONSTANTS
  PowerUp,       \* the contents before any write
  RowCycle,      \* clocks from one ACTIVE of a bank until the next may come
  RefreshCycle   \* clocks an AUTO REFRESH keeps every bank busy

ASSUME ChipAssumption ==
  /\ PowerUp \in [Line -> [0..7 -> Byte]]
  /\ RowCycle \in Nat /\ RefreshCycle \in Nat

\* The device keeps the timing the controller counts on: a bank is ready again one
\* round after it was opened, all banks one round after a refresh, and a row has
\* been opened for two clocks by the time its column command is there.
ASSUME TimingAssumption == RowCycle \in 2..15 /\ RefreshCycle \in 0..15

VARIABLES
  mem,           \* contents
  row,           \* the row last opened in each bank
  timer,         \* clocks until the bank is precharged again
  burst,         \* the running burst
  mode_set       \* the mode register has been loaded

chipRegs == <<mem, row, timer, burst, mode_set, chip_q>>

NoBurst == [op |-> "none"]

ChipInit ==
  /\ mem = PowerUp
  /\ row = [b \in Bank |-> AnyLine.row]
  /\ timer = [b \in Bank |-> 0]
  /\ burst = NoBurst
  /\ mode_set = FALSE
  /\ chip_q = AnyHalf

ColumnOp == sd_cmd.op \in {"read", "write"}

\* The burst a column command starts, on the row open in its bank.
Started ==
  [op |-> sd_cmd.op, n |-> 1, half |-> sd_cmd.half,
   line |-> [bank |-> sd_cmd.bank, row |-> row[sd_cmd.bank], col |-> sd_cmd.col]]

Position(b, k) == (b.half + k) % 4

\* One beat of a write: the bytes whose mask is low.
Store(l, pos) ==
  mem' = [mem EXCEPT ![l] = [i \in 0..7 |->
            IF i \div 2 = pos /\ ~dqm[i % 2] THEN sdata[i % 2] ELSE @[i]]]

ChipMemory ==
  \/ sd_cmd.op = "write" /\ Store(Started.line, Started.half)
  \/ ~ColumnOp /\ burst.op = "write" /\ Store(burst.line, Position(burst, burst.n))
  \/ sd_cmd.op # "write" /\ (ColumnOp \/ burst.op # "write") /\ UNCHANGED mem

\* A read runs until its fourth word has been driven, a write until its fourth beat.
ChipBurst ==
  burst' = CASE ColumnOp -> Started
             [] ~ColumnOp /\ burst.op = "read" /\ burst.n < 6 -> [burst EXCEPT !.n = @ + 1]
             [] ~ColumnOp /\ burst.op = "write" /\ burst.n < 3 -> [burst EXCEPT !.n = @ + 1]
             [] OTHER -> NoBurst

Driving == burst.op = "read" /\ burst.n \in 3..6

ChipOutput ==
  chip_q' = IF burst'.op = "read" /\ burst'.n \in 3..6
            THEN [b \in 0..1 |-> mem[burst'.line][2 * Position(burst', burst'.n - 3) + b]]
            ELSE AnyHalf

Opens(b) == sd_cmd.op = "active" /\ sd_cmd.bank = b

Elapsed(t) == IF t = 0 THEN 0 ELSE t - 1

ChipRows ==
  /\ row' = [b \in Bank |-> IF Opens(b) THEN sd_cmd.row ELSE row[b]]
  /\ timer' = [b \in Bank |-> IF sd_cmd.op = "refresh" THEN RefreshCycle
                              ELSE IF Opens(b) THEN RowCycle ELSE Elapsed(timer[b])]
  /\ mode_set' = (mode_set \/ sd_cmd.op = "mode")

ChipEdge == ChipMemory /\ ChipBurst /\ ChipOutput /\ ChipRows

Burst == [op : {"read", "write"}, n : 1..6, half : 0..3, line : Line]

ChipTypeOK ==
  /\ mem \in [Line -> [0..7 -> Byte]] /\ row \in [Bank -> Row]
  /\ timer \in [Bank -> Nat] /\ mode_set \in BOOLEAN /\ chip_q \in Half
  /\ burst \in {NoBurst} \cup Burst
=============================================================================
