-------------------------------- MODULE SpiHost --------------------------------
(***************************************************************************)
(* RTL/spi.vhd with the tick of ZPUTest.vhd, per clock edge.  Words are the    *)
(* sequences of their bits, the most significant first.                     *)
(***************************************************************************)
EXTENDS Naturals, Sequences

CONSTANTS FastTick, SlowTick   \* the bits of spi_tick that give a pulse (8, 256)

ASSUME TickAssumption == FastTick \in Nat \ {0} /\ SlowTick \in Nat /\ FastTick <= SlowTick

VARIABLES
  host_to_spi, spi_wide, spi_trigger, spi_fast, miso,       \* inputs
  spi_tick, spiclk_in, sck, sd_shift, shiftcnt, shifting, mosi

spiRegs == <<spi_tick, spiclk_in, sck, sd_shift, shiftcnt, shifting, mosi>>

High(n) == [i \in 1..n |-> 1]

\* Mutant: busy does not cover the clock between the trigger and the start.
BusyMutant == shifting
\* shifting is bit 5 of shiftcnt, which the underflow of the other five clears.
spi_busy == shifting \/ spi_trigger

-----------------------------------------------------------------------------
SpiInit ==
  /\ spi_tick \in 0..FastTick /\ spiclk_in = FALSE
  /\ sck = 0 /\ sd_shift = High(32) /\ shiftcnt = 0 /\ shifting = FALSE /\ mosi = 1

\* FastTick and SlowTick are the weights of the two bits of the counter looked at.
SpiTick ==
  LET pulse == (spi_fast /\ (spi_tick \div FastTick) % 2 = 1) \/ spi_tick >= SlowTick
  IN spiclk_in' = pulse /\ spi_tick' = IF pulse THEN 0 ELSE spi_tick + 1

LastBit == IF spi_wide THEN 31 ELSE 7

Start ==
  /\ spi_trigger
  /\ shifting' = TRUE /\ shiftcnt' = LastBit
  /\ sd_shift' = host_to_spi \o High(24)
  /\ sck' = 1 /\ UNCHANGED mosi

\* The line falls and the next bit goes out, it rises and one comes in.
Fall ==
  /\ ~spi_trigger /\ spiclk_in /\ spi_busy /\ sck = 1
  /\ mosi' = sd_shift[1] /\ sck' = 0
  /\ UNCHANGED <<sd_shift, shiftcnt, shifting>>

Rise ==
  /\ ~spi_trigger /\ spiclk_in /\ spi_busy /\ sck = 0
  /\ sck' = 1 /\ sd_shift' = Append(Tail(sd_shift), miso)
  /\ shiftcnt' = (shiftcnt + 31) % 32 /\ shifting' = (shiftcnt # 0)
  /\ UNCHANGED mosi

Rest ==
  /\ ~spi_trigger /\ (~spiclk_in \/ ~spi_busy)
  /\ UNCHANGED <<sck, sd_shift, shiftcnt, shifting, mosi>>

SpiEdge == SpiTick /\ (Start \/ Fall \/ Rise \/ Rest)

-----------------------------------------------------------------------------
SpiTypeOK ==
  /\ spi_tick \in 0..SlowTick /\ shiftcnt \in 0..31
  /\ {sck, mosi, miso} \subseteq {0, 1} /\ sd_shift \in [1..32 -> {0, 1}]
  /\ {spiclk_in, shifting, spi_wide, spi_trigger, spi_fast} \subseteq BOOLEAN
  /\ host_to_spi \in [1..8 -> {0, 1}]
=============================================================================
