--------------------------------- MODULE Uart ---------------------------------
(***************************************************************************)
(* RTL/simple_uart.vhd: both directions, per clock edge.  A character is the  *)
(* sequence of its eight bits, the first sent first.                        *)
(***************************************************************************)
EXTENDS Naturals, Sequences

CONSTANT
  Divisors    \* the values ser_clock_divisor may have

\* A divisor of one or less would tick again before the marker bit is seen.
ASSUME DivisorAssumption == Divisors \subseteq {d \in Nat : d > 1} /\ Divisors # {}

Bit == {0, 1}
Character == [1..8 -> Bit]

VARIABLES
  ser_clock_divisor, rxd, ser_txgo, ser_txdata,             \* inputs
  rxd_sync, rxd_sync2, rxcounter, rxclock, rxstate, rxbuffer, ser_rxdata, ser_rxint,
  txcounter, txclock, txstate, txbuffer, ser_txready, txd

rxRegs == <<rxd_sync, rxd_sync2, rxcounter, rxclock, rxstate, rxbuffer, ser_rxdata, ser_rxint>>
txRegs == <<txcounter, txclock, txstate, txbuffer, ser_txready, txd>>

Ones(n) == [i \in 1..n |-> 1]
Marker == <<0, 0, 0, 0, 0, 0, 0, 0, 1>>     \* "100000000", bit 0 first

-----------------------------------------------------------------------------
\* As reset leaves them; the other registers are written before they are used.
UartInit ==
  /\ rxd_sync = 1 /\ rxd_sync2 = 1 /\ rxcounter = 0 /\ rxclock = 0
  /\ rxstate = "idle" /\ rxbuffer = Marker /\ ser_rxdata = Ones(8) /\ ser_rxint = FALSE
  /\ txcounter = ser_clock_divisor /\ txclock = 0
  /\ txstate = "idle" /\ txbuffer = Ones(18) /\ ser_txready = TRUE /\ txd = 1

(***************************************************************************)
(* The receiver.  The first tick comes half a bit after the start edge, so  *)
(* that the others fall into the middle of their bits.                      *)
(***************************************************************************)
\* Mutant: the counter starts with a whole bit.
HalfBitMutant == ser_clock_divisor
HalfBit == ser_clock_divisor \div 2

RxClock ==
  /\ rxclock' = IF rxstate # "idle" /\ rxcounter = 0 THEN 1 ELSE 0
  /\ rxcounter' = CASE rxstate = "idle" /\ rxd_sync = 0 -> HalfBit
                    [] rxstate = "idle" /\ rxd_sync = 1 -> rxcounter
                    [] rxstate # "idle" /\ rxcounter = 0 -> ser_clock_divisor
                    [] OTHER -> rxcounter - 1

RxIdle ==
  /\ rxstate = "idle"
  /\ rxstate' = IF rxd_sync = 0 THEN "start" ELSE "idle"
  /\ ser_rxint' = FALSE /\ UNCHANGED <<rxbuffer, ser_rxdata>>

RxStart ==
  /\ rxstate = "start"
  /\ \/ rxclock = 0 /\ UNCHANGED <<rxstate, rxbuffer>>
     \/ rxclock = 1 /\ rxd_sync = 0 /\ rxstate' = "bits" /\ rxbuffer' = Marker
     \/ rxclock = 1 /\ rxd_sync = 1 /\ rxstate' = "idle" /\ UNCHANGED rxbuffer
  /\ ser_rxint' = FALSE /\ UNCHANGED ser_rxdata

RxBits ==
  /\ rxstate = "bits"
  /\ rxbuffer' = IF rxclock = 1 THEN Append(Tail(rxbuffer), rxd_sync) ELSE rxbuffer
  /\ rxstate' = IF rxbuffer[1] = 1 THEN "stop" ELSE "bits"
  /\ ser_rxint' = FALSE /\ UNCHANGED ser_rxdata

RxStop ==
  /\ rxstate = "stop"
  /\ rxstate' = IF rxclock = 1 THEN "idle" ELSE "stop"
  /\ ser_rxint' = (rxclock = 1 /\ rxd_sync = 1)
  /\ ser_rxdata' = IF ser_rxint' THEN Tail(rxbuffer) ELSE ser_rxdata
  /\ UNCHANGED rxbuffer

Receive ==
  /\ rxd_sync2' = rxd /\ rxd_sync' = rxd_sync2
  /\ RxClock
  /\ RxIdle \/ RxStart \/ RxBits \/ RxStop

(***************************************************************************)
(* The transmitter.  The marker is a zero; when it reaches bit 8 the last    *)
(* data bit and one stop bit are out.                                      *)
(***************************************************************************)
TxClock ==
  /\ txclock' = IF txstate # "idle" /\ txcounter = 0 THEN 1 ELSE 0
  /\ txcounter' = IF txstate = "idle" \/ txcounter = 0 THEN ser_clock_divisor
                  ELSE txcounter - 1

\* Mutant: the marker is looked for one place early.
TxDoneMutant == txbuffer[10] = 0
TxDone == txbuffer[9] = 0

\* Mutant: ready is not taken back.
StillReadyMutant ==
  /\ txstate = "idle"
  /\ \/ /\ ser_txgo
        /\ txbuffer' = ser_txdata \o Ones(9) \o <<0>>
        /\ txstate' = "bits" /\ txd' = 0 /\ UNCHANGED ser_txready
     \/ /\ ~ser_txgo /\ UNCHANGED <<txbuffer, txstate, ser_txready, txd>>

TxIdle ==
  /\ txstate = "idle"
  /\ \/ /\ ser_txgo
        /\ txbuffer' = ser_txdata \o Ones(9) \o <<0>>
        /\ txstate' = "bits" /\ ser_txready' = FALSE /\ txd' = 0
     \/ /\ ~ser_txgo /\ UNCHANGED <<txbuffer, txstate, ser_txready, txd>>

TxBits ==
  /\ txstate = "bits"
  /\ \/ /\ txclock = 1
        /\ txd' = txbuffer[1] /\ txbuffer' = Append(Tail(txbuffer), 0)
        /\ txstate' = IF TxDone THEN "idle" ELSE "bits"
        /\ ser_txready' = (ser_txready \/ TxDone)
     \/ /\ txclock = 0 /\ UNCHANGED <<txbuffer, txstate, ser_txready, txd>>

Transmit == TxClock /\ (TxIdle \/ TxBits)

UartEdge == Receive /\ Transmit

-----------------------------------------------------------------------------
UartTypeOK ==
  /\ ser_clock_divisor \in Divisors
  /\ {rxd, rxd_sync, rxd_sync2, rxclock, txclock, txd} \subseteq Bit
  /\ rxcounter \in 0..ser_clock_divisor /\ txcounter \in 0..ser_clock_divisor
  /\ rxstate \in {"idle", "start", "bits", "stop"} /\ txstate \in {"idle", "bits"}
  /\ rxbuffer \in [1..9 -> Bit] /\ txbuffer \in [1..18 -> Bit]
  /\ ser_rxdata \in Character /\ ser_txdata \in Character
  /\ {ser_rxint, ser_txready, ser_txgo} \subseteq BOOLEAN
=============================================================================
