------------------------------- MODULE LcdBridge -------------------------------
(***************************************************************************)
(* RTL/lcd_bridge.vhd, per clock edge.  The register of the next state lags    *)
(* by a clock: a state is left when the delay is zero, for the state that was *)
(* next before, so each of them acts twice.                                *)
(***************************************************************************)
EXTENDS Naturals

CONSTANT LcdWord      \* what a data bus of the panel can carry

VARIABLES
  cpu_to_lcd, cpu_to_lcd_cmd, cpu_to_lcd_req, cpu_to_lcd_rw, lcd_data_in,   \* inputs
  lcdstate, nextstate, delay, cpu_from_lcd, cpu_from_lcd_ack,
  lcd_drive, lcd_wr, lcd_rd, lcd_rs

lcdRegs == <<lcdstate, nextstate, delay, cpu_from_lcd, cpu_from_lcd_ack,
             lcd_drive, lcd_wr, lcd_rd, lcd_rs>>

-----------------------------------------------------------------------------
\* As reset leaves them.  It leaves lcd_wr as it was; the acknowledgement, the register
\* select and the word read are written before they are looked at.
LcdInit(leftover) ==
  /\ lcdstate = "waiting" /\ nextstate = "idle" /\ delay = 0
  /\ cpu_from_lcd = lcd_data_in /\ cpu_from_lcd_ack = FALSE
  /\ lcd_drive = FALSE /\ lcd_wr \in leftover /\ lcd_rd = TRUE /\ lcd_rs = TRUE

\* What a state does: the state to follow after d clocks, and the strobes.
Then(next, d) == nextstate' = next /\ delay' = d

Idle ==
  /\ lcdstate = "idle" /\ ~cpu_to_lcd_req
  /\ nextstate' = nextstate /\ delay' = (IF delay = 0 THEN 0 ELSE delay - 1)
  /\ cpu_from_lcd_ack' = FALSE
  /\ UNCHANGED <<cpu_from_lcd, lcd_drive, lcd_wr, lcd_rd, lcd_rs>>

BeginWrite ==
  /\ lcdstate = "idle" /\ cpu_to_lcd_req /\ ~cpu_to_lcd_rw
  /\ Then("wr1", 2)
  /\ lcd_wr' = FALSE /\ lcd_rs' = cpu_to_lcd_cmd /\ cpu_from_lcd_ack' = FALSE
  /\ UNCHANGED <<cpu_from_lcd, lcd_drive, lcd_rd>>

\* Mutant: the read strobe is as short as the pause before a write.
BeginReadMutant ==
  /\ lcdstate = "idle" /\ cpu_to_lcd_req /\ cpu_to_lcd_rw
  /\ Then("rd1", 2)
  /\ lcd_rd' = FALSE /\ lcd_drive' = FALSE /\ lcd_rs' = cpu_to_lcd_cmd
  /\ cpu_from_lcd_ack' = FALSE
  /\ UNCHANGED <<cpu_from_lcd, lcd_wr>>

BeginRead ==
  /\ lcdstate = "idle" /\ cpu_to_lcd_req /\ cpu_to_lcd_rw
  /\ Then("rd1", 8)
  /\ lcd_rd' = FALSE /\ lcd_drive' = FALSE /\ lcd_rs' = cpu_to_lcd_cmd
  /\ cpu_from_lcd_ack' = FALSE
  /\ UNCHANGED <<cpu_from_lcd, lcd_wr>>

Rd1 ==
  /\ lcdstate = "rd1"
  /\ Then("rd2", 2)
  /\ cpu_from_lcd' = lcd_data_in /\ lcd_rd' = TRUE /\ cpu_from_lcd_ack' = FALSE
  /\ UNCHANGED <<lcd_drive, lcd_wr, lcd_rs>>

Rd2 ==
  /\ lcdstate = "rd2"
  /\ Then("idle", 1)
  /\ cpu_from_lcd_ack' = TRUE
  /\ UNCHANGED <<cpu_from_lcd, lcd_drive, lcd_wr, lcd_rd, lcd_rs>>

Wr1 ==
  /\ lcdstate = "wr1"
  /\ Then("wr2", 8)
  /\ lcd_drive' = TRUE /\ cpu_from_lcd_ack' = FALSE
  /\ UNCHANGED <<cpu_from_lcd, lcd_wr, lcd_rd, lcd_rs>>

Wr2 ==
  /\ lcdstate = "wr2"
  /\ Then("wr3", 8)
  /\ lcd_wr' = TRUE /\ cpu_from_lcd_ack' = FALSE
  /\ UNCHANGED <<cpu_from_lcd, lcd_drive, lcd_rd, lcd_rs>>

Wr3 ==
  /\ lcdstate = "wr3"
  /\ Then("idle", 1)
  /\ lcd_drive' = FALSE /\ cpu_from_lcd_ack' = TRUE
  /\ UNCHANGED <<cpu_from_lcd, lcd_wr, lcd_rd, lcd_rs>>

Waiting ==
  /\ lcdstate = "waiting"
  /\ UNCHANGED nextstate /\ delay' = (IF delay = 0 THEN 0 ELSE delay - 1)
  /\ cpu_from_lcd_ack' = FALSE
  /\ UNCHANGED <<cpu_from_lcd, lcd_drive, lcd_wr, lcd_rd, lcd_rs>>

LcdEdge ==
  /\ lcdstate' = IF delay = 0 THEN nextstate ELSE "waiting"
  /\ Idle \/ BeginWrite \/ BeginRead \/ Rd1 \/ Rd2 \/ Wr1 \/ Wr2 \/ Wr3 \/ Waiting

-----------------------------------------------------------------------------
LcdTypeOK ==
  /\ lcdstate \in {"idle", "waiting", "wr1", "wr2", "wr3", "rd1", "rd2"}
  /\ nextstate \in {"idle", "wr1", "wr2", "wr3", "rd1", "rd2"} /\ delay \in 0..8
  /\ {cpu_to_lcd, cpu_from_lcd, lcd_data_in} \subseteq LcdWord
  /\ {cpu_to_lcd_cmd, cpu_to_lcd_req, cpu_to_lcd_rw, cpu_from_lcd_ack,
      lcd_drive, lcd_wr, lcd_rd, lcd_rs} \subseteq BOOLEAN
=============================================================================
