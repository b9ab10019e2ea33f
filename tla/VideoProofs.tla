----------------------------- MODULE VideoProofs -----------------------------
(***************************************************************************)
(* Theorems about the video path: no refresh the display asks for is lost,   *)
(* and without a sprite no word of the picture is taken before it came,      *)
(* whatever the CPU wants of the controller.                                *)
(***************************************************************************)
EXTENDS VideoPath, Integers, TLAPS

-----------------------------------------------------------------------------
(***************************************************************************)
(* Refreshes.  A refresh is asked for once per line and waits for a ph2 in   *)
(* which slot 2 is empty.  A waiting refresh closes slot 2, so it is sent    *)
(* in the second ph2 at the latest; the columns behind the visible ones last *)
(* longer than that.                                                       *)
(***************************************************************************)
\* A pixel lasts three clocks or more (five in video_vga_master.vhd).
PixelsLast == ClkDiv \in Nat /\ ClkDiv >= 2

\* At least so many clocks have passed since the controller asked for a refresh, while the
\* counter is behind the visible columns.
Elapsed == 3 * (xCounter - HSize - 1) + (IF newPixel THEN 2 ELSE IF clkDivCnt > 2 THEN 1 ELSE clkDivCnt - 1)
Behind == xCounter > HSize

\* The clocks up to the next ph2.
ToPh2 == IF sdram_state <= 2 THEN 3 - sdram_state ELSE 19 - sdram_state

\* A refresh that waits for its slot, and one that has it.
Pending == refreshpending /\ sdram_slot1 # "refresh"
Sending == sdram_slot1 = "refresh"

\* The counters the argument is about.
Clock ==
  /\ clkDivCnt \in 0 .. ClkDiv /\ newPixel \in BOOLEAN /\ xCounter \in 0 .. HTotal /\ sdram_state \in 0 .. 15
  /\ newPixel => clkDivCnt = 0

\* How long a refresh that is waiting may still take, itself included.
Waits == ToPh2 + (IF sdram_slot2 = "idle" \/ sdram_state \in 3 .. 10 THEN 16 ELSE 32)

\* A request appears with the first column that is not visible; whatever is left of it is over
\* 41 clocks later; the first one ends the controller's start-up.
Requested == vga_refresh => Behind /\ Elapsed = 0
OnTime == init_done =>
            /\ Pending => Behind /\ Elapsed + Waits <= 41
            /\ Sending => Behind /\ Elapsed + ToPh2 <= 41
            /\ refreshpending /\ Sending => sdram_state = 3
AtStart == ~ init_done => Sending /\ ~ refreshpending

RefreshInv == Clock /\ Requested /\ OnTime /\ AtStart /\ RefreshKept

\* The line has its blank part.
LEMMA Sizes ==
  /\ HSize \in Nat /\ HTotal \in Nat /\ HSize + 20 <= HTotal
BY VideoAssumption DEF VideoAssumption

\* The invariant holds after reset.
LEMMA RefreshStarts ==
  ASSUME PixelsLast, Init
  PROVE  RefreshInv
<1>1. /\ clkDivCnt = 0 /\ ~ newPixel /\ newPixel \in BOOLEAN /\ xCounter = 0 /\ sdram_state = 0
      /\ vga_refresh = FALSE /\ init_done = FALSE /\ sdram_slot1 = "refresh" /\ refreshpending = FALSE
  BY Zenon DEF Init, VgaControllerInit, SdramInit
<1>2. Clock
  BY <1>1, Sizes DEF Clock, PixelsLast
<1> QED
  BY <1>1, <1>2, Zenon DEF RefreshKept, RefreshInv, Requested, OnTime, AtStart, Sending

\* A clock more has passed at most, and the columns go on, until the next request.
LEMMA ClockTicks ==
  ASSUME PixelsLast, Clock, Timing, Phase
  PROVE  /\ Clock' /\ Elapsed \in Int /\ Elapsed' \in Int
         /\ Behind /\ Elapsed <= 50 => Behind' /\ Elapsed' <= Elapsed + 1
         /\ AsksRefresh => Behind' /\ Elapsed' = 0
<1> USE Sizes DEF PixelsLast
<1>1. /\ clkDivCnt' = IF clkDivCnt = ClkDiv THEN 0 ELSE clkDivCnt + 1
      /\ newPixel' \in BOOLEAN /\ (newPixel' <=> clkDivCnt = ClkDiv)
      /\ xCounter = HTotal => xCounter' = 0
      /\ xCounter # HTotal => xCounter' = (IF newPixel THEN xCounter + 1 ELSE xCounter)
  BY Zenon DEF Timing
<1>2. Clock'
  <2>1. sdram_state' \in 0 .. 15
    BY DEF Clock, Phase
  <2>2. clkDivCnt' \in 0 .. ClkDiv /\ newPixel' \in BOOLEAN /\ (newPixel' => clkDivCnt' = 0)
    BY <1>1 DEF Clock
  <2>3. xCounter' \in 0 .. HTotal
    BY <1>1 DEF Clock
  <2> QED
    BY <2>1, <2>2, <2>3 DEF Clock
<1>3. ASSUME Behind, Elapsed <= 50
      PROVE  Behind' /\ Elapsed' <= Elapsed + 1
  <2>1. xCounter # HTotal
    BY <1>3 DEF Clock, Elapsed
  <2>2. CASE newPixel
    BY <1>1, <1>3, <2>1, <2>2 DEF Clock, Elapsed, Behind
  <2>3. CASE ~ newPixel
    BY <1>1, <1>3, <2>1, <2>3 DEF Clock, Elapsed, Behind
  <2> QED
    BY <2>2, <2>3
<1>4. ASSUME AsksRefresh
      PROVE  Behind' /\ Elapsed' = 0
  <2>1. newPixel /\ xCounter = HSize
    BY <1>4 DEF AsksRefresh
  <2> QED
    BY <1>1, <2>1 DEF Clock, Elapsed, Behind
<1>5. Elapsed \in Int /\ Elapsed' \in Int
  BY <1>2 DEF Clock, Elapsed
<1> QED
  BY <1>2, <1>3, <1>4, <1>5

\* Every clock keeps the invariant: ph2 grants the refresh or waits for slot 2 to be closed, ph10
\* closes it, and in the other phases time passes.
LEMMA RefreshStep ==
  ASSUME PixelsLast, RefreshInv, Next
  PROVE  RefreshInv'
<1>1. /\ Timing /\ Phase /\ Slots /\ vga_refresh' = AsksRefresh
  BY DEF Next, SdramEdge, Video, VgaControllerEdge, VgaPortEdge
<1>2. Clock /\ Requested /\ OnTime /\ AtStart
  BY DEF RefreshInv
<1>3. Clock'
  BY <1>1, <1>2, ClockTicks
<1>4. Requested'
  BY <1>1, <1>2, ClockTicks, Zenon DEF Requested
<1>5. /\ refreshpending' <=> sdram_slot1 # "refresh" /\ (refreshpending \/ vga_refresh)
      /\ Arbitration
  BY <1>1, Zenon DEF Slots
<1>6. AtStart'
  <2> SUFFICES ASSUME ~ init_done'
               PROVE  Sending' /\ ~ refreshpending'
    BY DEF AtStart
  <2>1. ~ init_done
    BY <1>1 DEF Phase
  <2>2. UNCHANGED sdram_slot1
    BY <1>5, <2>1 DEF Arbitration, OtherPhase
  <2> QED
    BY <1>2, <1>5, <2>1, <2>2 DEF AtStart, Sending
<1>7. OnTime'
  <2> SUFFICES ASSUME init_done'
               PROVE  /\ Pending' => Behind' /\ Elapsed' + Waits' <= 41
                      /\ Sending' => Behind' /\ Elapsed' + ToPh2' <= 41
                      /\ refreshpending' /\ Sending' => sdram_state' = 3
    BY DEF OnTime
  <2>1. CASE ~ init_done
    <3>1. vga_refresh /\ sdram_state = 14 /\ sdram_state' = 0
      BY <1>1, <2>1 DEF Phase
    <3>2. Behind' /\ Elapsed' <= 1
      BY <1>1, <1>2, <3>1, ClockTicks DEF Requested
    <3>3. Sending' /\ ToPh2' = 3
      BY <1>2, <1>5, <2>1, <3>1 DEF Arbitration, OtherPhase, AtStart, Sending, ToPh2
    <3>4. Elapsed' \in Int
      BY <1>1, <1>2, ClockTicks
    <3>5. ~ refreshpending'
      BY <1>2, <1>5, <2>1 DEF AtStart, Sending
    <3>6. Elapsed' + ToPh2' <= 41
      <4>1. Elapsed' <= 1
        BY <3>2
      <4>2. Elapsed' \in Int
        BY <3>4
      <4>3. ToPh2' = 3
        BY <3>3
      <4>4. ASSUME NEW f \in Int, NEW t \in Int, f <= 1, t = 3 PROVE f + t <= 41
        BY <4>4
      <4>5. ToPh2' \in Int
        BY <4>3
      <4> QED
        BY <4>1, <4>2, <4>3, <4>4, <4>5, Zenon
    <3> QED
      BY <3>2, <3>3, <3>5, <3>6, Zenon DEF Pending
  <2>2. CASE init_done
    <3> DEFINE e == Elapsed
               f == Elapsed'
    <3>1. sdram_state' = (sdram_state + 1) % 16 /\ sdram_state \in 0 .. 15
      BY <1>1, <1>2, <2>2 DEF Phase, Clock
    <3>2. /\ e \in Int /\ f \in Int
          /\ Behind /\ e <= 50 => Behind' /\ f <= e + 1
          /\ vga_refresh => Behind /\ e = 0
      BY <1>1, <1>2, ClockTicks DEF Requested
    <3>3. /\ Pending => Behind /\ e + Waits <= 41
          /\ Sending => Behind /\ e + ToPh2 <= 41
          /\ refreshpending /\ Sending => sdram_state = 3
      BY <1>2, <2>2 DEF OnTime
    <3> SUFFICES /\ Pending' => Behind' /\ f + Waits' <= 41
                 /\ Sending' => Behind' /\ f + ToPh2' <= 41
                 /\ refreshpending' /\ Sending' => sdram_state' = 3
      OBVIOUS
    <3> HIDE DEF e, f
    <3>4. CASE sdram_state = 2
      <4>1. /\ Slot1Refresh \/ (~ RefreshWins /\ sdram_slot1' # "refresh") 
            /\ sdram_slot2' = sdram_slot2
        BY <1>5, <2>2, <3>4 DEF Arbitration, Slot1Arbitration, Slot1Refresh, Slot1Vga, Slot1Write, Slot1Read, Slot1Idle, Slot1, VgaWins1
      <4>2. sdram_state' = 3
        BY <3>1, <3>4
      <4>3. CASE Slot1Refresh
        <5>1. refreshpending /\ sdram_slot2 = "idle" /\ sdram_slot1' = "refresh"
          BY <4>3, Zenon DEF Slot1Refresh, RefreshWins
        <5>2. Pending
          BY <3>3, <3>4, <5>1 DEF Pending, Sending
        <5> QED
          BY <3>2, <3>3, <3>4, <4>2, <5>1, <5>2 DEF Pending, Sending, Waits, ToPh2
      <4>4. CASE ~ RefreshWins /\ sdram_slot1' # "refresh"
        <5>1. ~ (refreshpending /\ sdram_slot2 = "idle") /\ sdram_slot1' # "refresh"
          BY <4>4, Zenon DEF RefreshWins
        <5> QED
          BY <1>5, <3>2, <3>3, <3>4, <4>1, <4>2, <5>1 DEF Pending, Sending, Waits, ToPh2
      <4> QED
        BY <4>1, <4>3, <4>4
    <3>5. CASE sdram_state = 10
      <4>1. sdram_slot1' = sdram_slot1 /\ sdram_state' = 11
        BY <1>5, <2>2, <3>1, <3>5 DEF Arbitration, Slot2Arbitration
      <4>2. refreshpending => sdram_slot2' = "idle"
        BY <1>5, <2>2, <3>5 DEF Arbitration, Slot2Arbitration, Slot2Idle, Slot2Write, Slot2Read, Slot2Closed
      <4> QED
        BY <1>5, <3>2, <3>3, <3>5, <4>1, <4>2 DEF Pending, Sending, Waits, ToPh2
    <3>6. CASE sdram_state \notin {2, 10}
      <4>1. sdram_slot1' = sdram_slot1 /\ sdram_slot2' = sdram_slot2
        BY <1>5, <2>2, <3>6 DEF Arbitration, OtherPhase
      <4> QED
        BY <1>5, <3>1, <3>2, <3>3, <3>6, <4>1 DEF Pending, Sending, Waits, ToPh2
    <3> QED
      BY <3>4, <3>5, <3>6
  <2> QED
    BY <2>1, <2>2
<1>8. RefreshKept'
  <2> SUFFICES ASSUME vga_refresh', init_done'
               PROVE  ~ refreshpending' /\ sdram_slot1' # "refresh"
    BY DEF RefreshKept
  <2>0. AsksRefresh
    BY <1>1, Zenon
  <2>1. ~ Behind
    BY <1>2, <2>0, Sizes DEF Clock, AsksRefresh, Behind
  <2>2. ~ vga_refresh
    BY <1>2, <2>1 DEF Requested
  <2>3. init_done
    BY <1>1, <2>2 DEF Phase
  <2>4. ~ refreshpending /\ sdram_slot1 # "refresh"
    BY <1>2, <2>1, <2>3 DEF OnTime, Pending, Sending
  <2>5. sdram_slot1' # "refresh"
    BY <1>5, <2>4 DEF Arbitration, OtherPhase, Slot1Arbitration, Slot2Arbitration, Slot1Refresh, RefreshWins, Slot1Vga, Slot1Write,
      Slot1Read, Slot1Idle, Slot1
  <2> QED
    BY <1>5, <2>2, <2>4, <2>5
<1> QED
  BY <1>3, <1>4, <1>6, <1>7, <1>8 DEF RefreshInv

\* Each refresh the display asks for is sent before the next is asked for, for lines, pictures and
\* rings of any length, whatever CPU and cache do (vga_controller.vhd, sdram.vhd).
THEOREM RefreshAlwaysKept ==
  ASSUME PixelsLast
  PROVE  Spec => []RefreshKept
<1>1. Init => RefreshInv
  BY RefreshStarts
<1>2. RefreshInv /\ [Next]_vars => RefreshInv'
  <2>1. CASE Next
    BY <2>1, RefreshStep
  <2>2. CASE UNCHANGED vars
    BY <2>2, Zenon DEF vars, sdramRegs, phaseRegs, slotRegs, vgaPort, vgaRegs, RefreshInv, Clock, Requested, OnTime, AtStart, RefreshKept,
      Behind, Elapsed, Pending, Sending, Waits, ToPh2
  <2> QED
    BY <2>1, <2>2
<1>3. RefreshInv => RefreshKept
  BY DEF RefreshInv
<1> QED
  BY <1>1, <1>2, <1>3, PTL DEF Spec

-----------------------------------------------------------------------------
(***************************************************************************)
(* The display without sprite.  The video channel is handed a word of its     *)
(* ring whether it came or not ("This test should never fail",                *)
(* DMACache.vhd:259).  It is there because its burst was asked for early       *)
(* enough: the ring is filled in the blank rows before a frame, a line's       *)
(* length is set twenty pixels before its first word is taken, and a burst that *)
(* is asked for is granted within two rounds, as the bank of the next one is    *)
(* kept clear and no refresh is under way where words are taken.              *)
(***************************************************************************)
\* The ring: where the next word is written and read, how many words lie between, and how many
\* of them are there besides the one that is being taken.
Writer == wrptr["vga"]
Reader == rdptr["vga"]
Lead == IF Writer >= Reader THEN Writer - Reader ELSE (Writer - Reader) + Depth
Asked == "vga" \in req
Ready == Lead - (IF Asked THEN 1 ELSE 0)

\* The words of a burst that is asked for, and the words not asked for yet.
Fetching == inputstate # "rd1"
Flight == IF Fetching THEN 4 ELSE 0
ToFetch == count["vga"]

\* The bursts the ring can take, and those it can take after the one under way.
Fits == IF Reader \div 4 > Writer \div 4 THEN (Reader \div 4 - Writer \div 4) - 1
        ELSE ((Reader \div 4 - Writer \div 4) - 1) + Bursts
Slack == IF Fetching THEN IF Fits = 0 THEN Bursts - 1 ELSE Fits - 1 ELSE Fits

\* The clocks to the end of the pixel.
ToPixel == IF newPixel THEN 0 ELSE (ClkDiv + 1) - clkDivCnt

\* The part of a line in which words are taken, and the end of the line before, once the length is
\* set; the words that are taken, and the clocks in which those that are there will be.
NextRow == IF yCounter = VTotal THEN 0 ELSE yCounter + 1
Coming == xCounter >= HTotal - 19 /\ setlen # "vga" /\ NextRow < VSize
Zone == Visible \/ Coming
ToShow == IF Visible THEN HSize - xCounter ELSE IF Coming THEN HSize ELSE 0
Lasts == ToPixel + 5 * ((IF Coming THEN HTotal - xCounter ELSE 0) + Ready)

\* The port has slot 1; the request waits for it; the burst that is granted next; slot 2 is in its bank.
Given == sdram_slot1 = "port0" /\ sdram_state \in 3..13
Waiting == inputstate = "rcv1" /\ ~Given
NextBurst == IF Waiting THEN sdram_addr ELSE addr["vga"]
InTheWay == sdram_slot2 # "idle" /\ slot2_bank = NextBurst.bank /\ sdram_state \notin 3..10

\* The clocks until the words of the next burst are counted, at most: from its grant, of the request, or
\* of a request that comes too late for this ph2.
Block == IF InTheWay THEN ToPh2 + 16 ELSE ToPh2
Due == IF Fetching /\ ~Waiting THEN 13 - sdram_state
       ELSE IF Waiting \/ sdram_state # 2 THEN Block + 10 ELSE 27

\* The wires of the port, the channels that do not take part, and the ranges.
Wired == vga_req = sdram_req /\ vga_addr = sdram_addr /\ vga_reserveaddr = sdram_reserveaddr /\ (vga_reservebank <=> ToFetch # 0)
NoSprite == /\ ~enable_sprite /\ count["spr0"] = 0 /\ update = "vga" /\ setlen # "spr0" /\ req \subseteq {"vga"}
            /\ ~pending /\ cache_wraddr.channel = "vga"
Typed == /\ DmaInputsTypeOK /\ DmaTypeOK /\ VgaControllerTypeOK /\ granted \in Lines /\ frames \in 0..2
         /\ reset \in BOOLEAN /\ init_done \in BOOLEAN /\ vga_refresh \in BOOLEAN /\ sdram_state \in 0..15
WholeBursts == Writer % 4 = 0 /\ ToFetch % 4 = 0 /\ dma_len % 4 = 0
Placed == Wired /\ NoSprite /\ Typed /\ WholeBursts

\* The strobes are found in their pixels; the port never has slot 2, which is empty during a refresh.
Places ==
  /\ xCounter = HTotal => ~newPixel
  /\ setlen = "vga" => xCounter = HTotal - 19 /\ clkDivCnt = 1 /\ dma_len = HSize
  /\ setaddr = "vga" => xCounter = 1 /\ yCounter = VTotal /\ clkDivCnt = 1
  /\ Asked => clkDivCnt = 1 /\ xCounter \in 1..HSize /\ yCounter < VSize
  /\ (frames >= 1 => reset) /\ (reset => init_done)
Slot2Free == sdram_slot2 # "port0" /\ (Sending => sdram_slot2 = "idle")

\* Cache and controller are in step: at rest, waiting, granted, receiving.
Settled == ~sdram_req /\ ~vga_ack /\ ~vga_fill /\ ~Given
Sync ==
  \/ inputstate = "rd1" /\ Settled
  \/ inputstate = "rcv1" /\ sdram_req /\ ~vga_ack /\ ~vga_fill /\ ~Given
  \/ /\ inputstate = "rcv1" /\ Given /\ sdram_state <= 10
     /\ (sdram_req <=> sdram_state = 3) /\ (vga_ack <=> sdram_state = 3) /\ (vga_fill <=> sdram_state = 10)
  \/ /\ Given /\ vga_fill /\ ~sdram_req /\ ~vga_ack
     /\ \/ sdram_state = 11 /\ inputstate = "rcv2"
        \/ sdram_state = 12 /\ inputstate = "rcv3"
        \/ sdram_state = 13 /\ inputstate = "rcv4"
Running == reset => init_done /\ Sync

\* During the reset a line's length starts one request, which the reset makes the cache forget (Orphan);
\* the controller has done with it before the next visible column.
EndsIn == IF Given THEN 14 - sdram_state ELSE ToPh2 + 11
Orphan ==
  /\ \/ /\ xCounter < HTotal /\ xCounter >= HTotal - 19 /\ (xCounter = HTotal - 19 => newPixel \/ clkDivCnt >= 3)
        /\ EndsIn <= 5 * (HTotal - 1 - xCounter) + ToPixel
     \/ (Behind /\ Elapsed >= 1 /\ Elapsed + EndsIn <= 15 /\ ~refreshpending)
  /\ vga_fill => Given /\ sdram_state >= 10
  /\ IF Given THEN vga_ack <=> sdram_state = 3 ELSE vga_ack => sdram_state = 0
  /\ Given /\ sdram_state > 3 => ~sdram_req
Early ==
  /\ ToFetch # 0 => xCounter = HTotal - 19 /\ (clkDivCnt = 2 \/ (clkDivCnt = 3 /\ inputstate = "rcv1"))
  /\ inputstate \in {"rd1", "rcv1"} /\ (inputstate = "rcv1" => xCounter = HTotal - 19 /\ clkDivCnt = 3 /\ ~vga_fill)
  /\ ~req1 /\ ~writecache_req /\ sdram_slot2 = "idle"
  /\ ~init_done => ~vga_fill
  /\ init_done /\ ~Settled => Orphan
Before == ~reset => Early

\* From the end of the last line but one to the restart the words not asked for yet fill a line, but
\* for those that fill the ring: enough are left when the restart empties it.
LastBlank ==
  \/ yCounter = VTotal - 1 /\ (xCounter > HTotal - 19 \/ (xCounter = HTotal - 19 /\ setlen # "vga"))
  \/ yCounter = VTotal /\ (xCounter = 0 \/ (xCounter = 1 /\ setaddr = "vga"))
Enough == frames >= 1 /\ LastBlank => ToFetch >= HSize - 4 * (Bursts - 1) + 4 * Slack

\* From the second restart on: the words there, coming and not asked for are more than those the line
\* still takes; the writer does not overrun the reader.
Shown == frames = 2
Surplus == Shown => Ready + Flight + ToFetch >= 4 + ToShow
Ring == Shown => Ready >= 0 /\ Lead + Flight <= Depth - 4

\* The bank kept clear is the next burst's, except after the restart, until the first burst of the frame is
\* granted: its request waits for the refresh behind the last line at most.
Stale == ~vga_ack /\ vga_reserveaddr # NextBurst
DueStart == IF Fetching THEN 15 - sdram_state ELSE 1
Reserve ==
  Shown /\ Stale =>
   /\ yCounter = VTotal /\ 1 <= xCounter
   /\ xCounter > HSize => vga_refresh \/ Pending \/ Sending
   /\ ~Waiting => xCounter < HSize /\ 5 * (HSize - xCounter) + ToPixel >= 20 + DueStart
   /\ ~Waiting => ToFetch # 0 /\ Lead <= 4 /\ (Fetching => Lead = 0)

\* A slot 2 in the way of the next burst was taken before the length was set, while there is time;
\* and a burst that the display needs is due before the words that are there have been taken.
Jam == Shown /\ Zone /\ InTheWay /\ ToFetch # 0 => Lasts >= Block + 30
InTime == Shown /\ Zone /\ ToShow > Ready /\ (Fetching \/ Wanted("vga")) => Due <= Lasts

\* A table of tables with one entry replaced.
LEMMA TableUpdate ==
  ASSUME NEW A, NEW B, NEW D, NEW f \in [A -> [B -> D]], NEW a \in A, NEW b \in B, NEW v \in D
  PROVE  [f EXCEPT ![a][b] = v] \in [A -> [B -> D]]
<1>1. [f[a] EXCEPT ![b] = v] \in [B -> D]
  OBVIOUS
<1>2. [f EXCEPT ![a] = [f[a] EXCEPT ![b] = v]] \in [A -> [B -> D]]
  BY <1>1
<1> QED
  BY <1>2

\* All of this holds after reset.
LEMMA PlacedStarts == Init /\ ~enable_sprite => Placed
<1> SUFFICES ASSUME Init, ~enable_sprite
             PROVE  Placed
  OBVIOUS
<1>1. /\ DmaInit /\ VgaControllerInit /\ granted = sdram_addr /\ frames = 0 /\ SdramInit /\ BusInit
      /\ vga_req = FALSE /\ vga_reservebank = FALSE /\ vga_addr = sdram_addr /\ vga_reserveaddr = sdram_reserveaddr
      /\ vga_refresh = FALSE
  BY DEF Init
<1>2. reset = FALSE /\ init_done = FALSE /\ sdram_state = 0
  BY <1>1 DEF BusInit, SdramInit
<1>3. sdram_addr = (CHOOSE l \in Lines : TRUE) /\ sdram_addr \in Lines
  BY <1>1, DmaAssumption DEF DmaInit
<1>4. Depth \in Nat /\ Depth > 0 /\ 0 \in 0..Depth - 1
  BY DmaAssumption DEF Depth
<1>5. DmaInputsTypeOK
  BY <1>1, DmaAssumption, VideoAssumption DEF VgaControllerInit, DmaInputsTypeOK, Channel
<1>6. DmaTypeOK
  <2>1. /\ sdram_req \in BOOLEAN /\ sdram_addr \in Lines /\ sdram_reserveaddr \in Lines
        /\ inputstate = "rd1" /\ update \in Channel /\ cache_wren \in BOOLEAN
        /\ pending \in BOOLEAN /\ valid_d = "none" /\ valid = "none"
        /\ data_from_ram \in CacheWord \cup {NoWord} /\ data_out \in CacheWord \cup {NoWord}
    BY <1>1, <1>3 DEF DmaInit, Channel
  <2>2. addr \in [Channel -> Lines] /\ count \in [Channel -> 0..MaxLength]
    BY <1>1, <1>3, DmaAssumption DEF DmaInit
  <2>3. wrptr \in [Channel -> 0..Depth - 1] /\ rdptr \in [Channel -> 0..Depth - 1]
    BY <1>1, <1>4 DEF DmaInit
  <2>4. cache_wraddr \in Place /\ cache_rdaddr \in Place
    BY <1>1, <1>4 DEF DmaInit, Place, Channel
  <2>5. ram \in [Channel -> [0..Depth - 1 -> CacheWord \cup {NoWord}]]
    BY <1>1 DEF DmaInit
  <2> QED
    BY <2>1, <2>2, <2>3, <2>4, <2>5 DEF DmaTypeOK
<1>7. VgaControllerTypeOK
  <2>1. enable_sprite \in BOOLEAN
    BY PathAssumption DEF Init
  <2>2. sprite_col \in {Blank} \cup [data : CacheWord \cup {NoWord}, nibble : 0..3]
    BY <1>1 DEF VgaControllerInit
  <2>3. /\ clkDivCnt \in 0..ClkDiv /\ newPixel \in BOOLEAN /\ xCounter \in 0..HTotal /\ yCounter \in 0..VTotal
        /\ framebuffer_pointer \in FrameBuffers /\ vgadata \in CacheWord \cup {NoWord}
        /\ sprite0_counter \in 0..3 /\ sprite0_data \in CacheWord \cup {NoWord}
    <3>1. ClkDiv \in Nat /\ HTotal \in Nat /\ VTotal \in Nat
      BY VideoAssumption
    <3>2. clkDivCnt = 0 /\ newPixel = FALSE /\ xCounter = 0 /\ yCounter = 0 /\ sprite0_counter = 3
      BY <1>1 DEF VgaControllerInit
    <3>3. framebuffer_pointer \in FrameBuffers /\ vgadata = NoWord /\ sprite0_data = NoWord
      BY <1>1 DEF VgaControllerInit
    <3>4. clkDivCnt \in 0..ClkDiv /\ xCounter \in 0..HTotal /\ yCounter \in 0..VTotal /\ sprite0_counter \in 0..3
      BY <3>1, <3>2
    <3>5. newPixel \in BOOLEAN
      BY <3>2
    <3>6. vgadata \in CacheWord \cup {NoWord} /\ sprite0_data \in CacheWord \cup {NoWord}
      BY <3>3
    <3> QED
      BY <3>3, <3>4, <3>6, <3>5
  <2> QED
    BY <2>1, <2>2, <2>3, ZenonT(30) DEF VgaControllerTypeOK
<1>8. Wired /\ NoSprite /\ WholeBursts
  <2>1. count["vga"] = 0 /\ count["spr0"] = 0 /\ wrptr["vga"] = 0
    BY <1>1 DEF DmaInit, Channel
  <2>2. Wired
    BY <1>1, <2>1, Zenon DEF DmaInit, Wired, ToFetch
  <2>3. NoSprite
    BY <1>1, <2>1 DEF DmaInit, VgaControllerInit, NoSprite
  <2>4. WholeBursts
    BY <1>1, <2>1 DEF VgaControllerInit, WholeBursts, Writer, ToFetch
  <2> QED
    BY <2>2, <2>3, <2>4
<1>9. Typed
  <2>1. granted \in Lines
    BY <1>1, <1>3
  <2>2. frames \in 0..2
    BY <1>1
  <2>3. reset \in BOOLEAN /\ init_done \in BOOLEAN /\ vga_refresh \in BOOLEAN
    BY <1>1, <1>2
  <2>4. sdram_state \in 0..15
    BY <1>2
  <2> QED
    BY <1>5, <1>6, <1>7, <2>1, <2>2, <2>3, <2>4, Zenon DEF Typed
<1> QED
  BY <1>8, <1>9 DEF Placed

\* What the cache does for the picture, when there is no sprite.
Start == inputstate = "rd1" /\ Room("vga") /\ ToFetch # 0
Moves ==
  /\ Writer' = IF setaddr = "vga" THEN 0 ELSE IF inputstate = "rcv4" THEN Advanced(Writer) ELSE IF reset THEN Writer ELSE 0
  /\ Reader' = IF Asked THEN (Reader + 1) % Depth ELSE IF setaddr = "vga" THEN 0 ELSE IF reset THEN Reader ELSE 0
  /\ ToFetch' = IF setlen = "vga" THEN dma_len ELSE IF Start THEN ToFetch - 4 ELSE IF reset THEN ToFetch ELSE 0
  /\ addr'["vga"] = IF setaddr = "vga" THEN dma_addr ELSE IF Start THEN Following[addr["vga"]] ELSE addr["vga"]
  /\ inputstate' = IF Start THEN "rcv1" ELSE IF inputstate = "rcv1" /\ vga_fill THEN "rcv2" ELSE IF inputstate = "rcv2" THEN "rcv3"
                   ELSE IF inputstate = "rcv3" THEN "rcv4" ELSE IF inputstate = "rcv4" THEN "rd1" ELSE IF reset THEN inputstate ELSE "rd1"
  /\ sdram_req' = IF Start THEN TRUE ELSE sdram_req /\ ~vga_ack
  /\ sdram_addr' = IF Start THEN addr["vga"] ELSE sdram_addr
  /\ sdram_reserveaddr' = IF vga_ack THEN addr["vga"] ELSE sdram_reserveaddr
  /\ cache_wraddr' = IF Start THEN [channel |-> "vga", word |-> Writer]
                     ELSE IF inputstate \in {"rcv2", "rcv3", "rcv4"} THEN [cache_wraddr EXCEPT !.word = (@ + 1) % Depth] ELSE cache_wraddr
  /\ cache_wren' = (inputstate \in {"rcv2", "rcv3", "rcv4"} \/ (inputstate = "rcv1" /\ vga_fill))
  /\ data_from_ram' = IF cache_wren' THEN FillWord ELSE data_from_ram
  /\ cache_rdaddr' = IF Asked THEN [channel |-> "vga", word |-> Reader] ELSE cache_rdaddr
  /\ valid' = valid_d /\ valid_d' = (IF Asked THEN "vga" ELSE "none")
  /\ Ram

\* A clock of the cache, when there is no sprite.
LEMMA CacheMoves ==
  ASSUME Placed, Next
  PROVE  Moves /\ Placed'
<1>1. /\ Fill(reset, vga_ack, vga_fill, FillWord) /\ Read(reset) /\ Ram /\ VgaControllerEdge /\ VgaPortEdge
      /\ enable_sprite' = enable_sprite /\ BusEdge
      /\ (FramebufferRegister \/ UNCHANGED framebuffer_pointer)
      /\ granted' = (IF init_done /\ sdram_state = 2 /\ VgaWins1 THEN vga_addr ELSE granted)
      /\ frames' = (IF reset /\ setaddr = "vga" /\ frames < 2 THEN frames + 1 ELSE frames)
  BY Zenon DEF Next, Video, DmaEdge, Bus, Monitor
<1>2. Wired /\ NoSprite /\ Typed /\ WholeBursts
  BY DEF Placed
<1>3. ~Starts("spr0") /\ (Starts("vga") <=> Start)
  BY <1>2 DEF Starts, Wanted, Start, NoSprite, Channel, ToFetch
<1>4. ~Answers("spr0") /\ (Answers("vga") <=> Asked)
  BY <1>2 DEF Answers, NoSprite, Asked
<1>5. Depth \in Nat /\ Depth > 4
  BY DmaAssumption DEF Depth
<1>6. DmaTypeOK /\ DmaInputsTypeOK /\ VgaControllerTypeOK /\ granted \in Lines /\ frames \in 0..2 /\ reset \in BOOLEAN
  BY <1>2 DEF Typed
<1>7. (\E c \in Channel : Starts(c)) <=> Start
  BY <1>3 DEF Channel
<1>8. Moves
  <2>1. inputstate' = IF Start THEN "rcv1" ELSE IF inputstate = "rcv1" /\ vga_fill THEN "rcv2" ELSE IF inputstate = "rcv2" THEN "rcv3"
                   ELSE IF inputstate = "rcv3" THEN "rcv4" ELSE IF inputstate = "rcv4" THEN "rd1" ELSE IF reset THEN inputstate ELSE "rd1"
    <3>1. inputstate' = InputState(reset, vga_fill)
      BY <1>1, Zenon DEF Fill
    <3> QED
      BY <1>7, <3>1 DEF InputState, Start
  <2>2. /\ wrptr' = [c \in Channel |-> WritePointer(c, reset)] /\ count' = [c \in Channel |-> Remaining(c, reset)]
        /\ addr' = [c \in Channel |-> Address(c)]
        /\ rdptr' = [c \in Channel |-> CASE Answers(c) -> (rdptr[c] + 1) % Depth
                                          [] ~Answers(c) /\ setaddr = c -> 0
                                          [] OTHER -> IF reset THEN rdptr[c] ELSE 0]
    BY <1>1, Zenon DEF Fill, Read
  <2>3. Writer' = WritePointer("vga", reset) /\ ToFetch' = Remaining("vga", reset) /\ addr'["vga"] = Address("vga")
    BY <2>2 DEF Channel, Writer, ToFetch
  <2>4. Writer' = IF setaddr = "vga" THEN 0 ELSE IF inputstate = "rcv4" THEN Advanced(Writer) ELSE IF reset THEN Writer ELSE 0
    <3>1. update = "vga"
      BY <1>2 DEF NoSprite
    <3> QED
      BY <2>3, <3>1 DEF WritePointer, Writer
  <2>5. Reader' = IF Asked THEN (Reader + 1) % Depth ELSE IF setaddr = "vga" THEN 0 ELSE IF reset THEN Reader ELSE 0
    <3>1. Reader' = CASE Answers("vga") -> (Reader + 1) % Depth
                 [] ~Answers("vga") /\ setaddr = "vga" -> 0
                 [] OTHER -> IF reset THEN Reader ELSE 0
      BY <2>2 DEF Channel, Reader
    <3> QED
      BY <3>1, <1>4
  <2>6. ToFetch' = IF setlen = "vga" THEN dma_len ELSE IF Start THEN ToFetch - 4 ELSE IF reset THEN ToFetch ELSE 0
    BY <2>3, <1>3 DEF Remaining, ToFetch
  <2>7. addr'["vga"] = IF setaddr = "vga" THEN dma_addr ELSE IF Start THEN Following[addr["vga"]] ELSE addr["vga"]
    BY <2>3, <1>3 DEF Address
  <2>8. /\ sdram_req' = IF Start THEN TRUE ELSE sdram_req /\ ~vga_ack
        /\ sdram_addr' = IF Start THEN addr["vga"] ELSE sdram_addr
        /\ cache_wraddr' = IF Start THEN [channel |-> "vga", word |-> Writer]
                           ELSE IF inputstate \in {"rcv2", "rcv3", "rcv4"} THEN [cache_wraddr EXCEPT !.word = (@ + 1) % Depth] ELSE cache_wraddr
    <3>1. CASE Start
      BY <1>1, <1>3, <3>1, <1>7 DEF Fill, RequestLine, Writer, Channel
    <3>2. CASE ~Start
      BY <1>1, <1>3, <3>2, <1>7 DEF Fill, RequestLine, Channel
    <3> QED
      BY <3>1, <3>2
  <2>9. /\ cache_wren' = (inputstate \in {"rcv2", "rcv3", "rcv4"} \/ (inputstate = "rcv1" /\ vga_fill))
        /\ data_from_ram' = IF cache_wren' THEN FillWord ELSE data_from_ram
        /\ sdram_reserveaddr' = IF vga_ack THEN addr["vga"] ELSE sdram_reserveaddr
    BY <1>1 DEF Fill, ReceiveWord
  <2>10. /\ valid' = valid_d /\ valid_d' = (IF Asked THEN "vga" ELSE "none")
        /\ cache_rdaddr' = IF Asked THEN [channel |-> "vga", word |-> Reader] ELSE cache_rdaddr
    BY <1>1, <1>4 DEF Read, Reader, Channel, Asked
  <2> QED
    BY <1>1, <2>1, <2>4, <2>5, <2>6, <2>7, <2>8, <2>9, <2>10, Zenon DEF Moves
<1>9. NoSprite'
  <2>1. /\ ~enable_sprite' /\ req' \subseteq {"vga"} /\ setlen' # "spr0"
    <3>1. ~SpriteAsks /\ ~Prefetch /\ ~LengthSprite /\ ~enable_sprite'
      BY <1>1, <1>2, Zenon DEF SpriteAsks, Prefetch, LengthSprite, InSprite, NoSprite
    <3>2. req' = {c \in Channel : IF c = "vga" THEN AsksWord ELSE SpriteAsks \/ Prefetch} /\ setlen' = Strobes(LengthVga, LengthSprite)
      BY <1>1, Zenon DEF VgaControllerEdge, DmaSetUp
    <3> QED
      BY <3>1, <3>2 DEF Channel, Strobes
  <2>2. count'["spr0"] = 0
    BY <1>1, <1>2, <1>3 DEF Fill, Remaining, Channel, NoSprite
  <2>3. update' = "vga"
    <3>1. CASE Start
      BY <1>1, <1>3, <3>1, <1>7 DEF Fill, RequestLine, Channel
    <3>2. CASE ~Start
      BY <1>1, <1>2, <1>3, <3>2, <1>7 DEF Fill, RequestLine, Channel, NoSprite
    <3> QED
      BY <3>1, <3>2
  <2>4. ~pending'
    BY <1>1, <1>2, Zenon DEF Read, NoSprite
  <2>5. cache_wraddr'.channel = "vga"
    BY <1>2, <1>6, <1>8 DEF Moves, NoSprite, DmaTypeOK, Place
  <2> QED
    BY <2>1, <2>2, <2>3, <2>4, <2>5 DEF NoSprite
<1>10. Wired'
  <2>1. /\ vga_req' = sdram_req' /\ vga_addr' = sdram_addr' /\ vga_reserveaddr' = sdram_reserveaddr'
        /\ vga_reservebank' = sdram_reserve'
    BY <1>1, Zenon DEF VgaPortEdge
  <2> QED
    BY <2>1 DEF Wired, ToFetch, sdram_reserve
<1>11. WholeBursts'
  <2>1. Writer \in Nat /\ Writer % 4 = 0 /\ Bursts \in Nat /\ Bursts > 1 /\ Writer \in 0..4*Bursts - 1 /\ Depth = 4 * Bursts
    BY <1>2, <1>6, DmaAssumption DEF WholeBursts, DmaTypeOK, Channel, Writer, Depth
  <2>2. Advanced(Writer) % 4 = 0
    <3>1. PICK k \in Nat : Writer = 4 * k
      BY <2>1
    <3>2. CASE Writer + 4 = Depth
      BY <2>1, <3>2 DEF Advanced
    <3>3. CASE Writer + 4 # Depth
      BY <2>1, <3>1, <3>3 DEF Advanced
    <3> QED
      BY <3>2, <3>3
  <2>3. Writer' % 4 = 0
    BY <1>8, <2>1, <2>2 DEF Moves
  <2>4. ToFetch \in Nat /\ dma_len \in Nat /\ ToFetch % 4 = 0 /\ dma_len % 4 = 0
    BY <1>2, <1>6 DEF WholeBursts, DmaTypeOK, DmaInputsTypeOK, Channel, ToFetch
  <2>5. ToFetch' % 4 = 0
    BY <1>8, <2>4 DEF Moves, Start
  <2>6. dma_len' % 4 = 0
    BY <1>1, <2>4, VideoAssumption DEF VgaControllerEdge, DmaSetUp
  <2> QED
    BY <2>3, <2>5, <2>6 DEF WholeBursts
<1>12. Typed'
  <2>1. granted' \in Lines /\ frames' \in 0..2
    <3>1. vga_addr \in Lines
      BY <1>2, <1>6 DEF Wired, DmaTypeOK
    <3> QED
      BY <1>1, <1>6, <3>1
  <2>2. init_done' \in BOOLEAN /\ vga_refresh' \in BOOLEAN /\ reset' \in BOOLEAN /\ sdram_state' \in 0..15
    <3>1. init_done \in BOOLEAN /\ vga_refresh \in BOOLEAN /\ sdram_state \in 0..15
      BY <1>2 DEF Typed
    <3>2. Phase /\ vga_refresh' = AsksRefresh
      BY Zenon DEF Next, SdramEdge, VgaPortEdge
    <3>3. init_done' \in BOOLEAN /\ sdram_state' \in 0..15
      BY <3>1, <3>2 DEF Phase
    <3>4. vga_refresh' \in BOOLEAN
      BY <1>6, <3>2 DEF AsksRefresh, VgaControllerTypeOK
    <3>5. reset' \in {reset, init_done}
      BY <1>1, Zenon DEF BusEdge
    <3> QED
      BY <1>6, <3>1, <3>3, <3>4, <3>5
  <2>3. DmaInputsTypeOK'
    BY <1>1, <1>6, DmaAssumption, VideoAssumption DEF DmaInputsTypeOK, VgaControllerEdge, DmaSetUp, Strobes, Channel, VgaControllerTypeOK
  <2>4. VgaControllerTypeOK'
    <3>1. Timing /\ Sprite /\ vgadata' = (IF valid = "vga" THEN data_out ELSE vgadata)
      BY <1>1, Zenon DEF VgaControllerEdge
    <3>2. ClkDiv \in Nat /\ HTotal \in Nat /\ VTotal \in Nat
      BY VideoAssumption
    <3>3. clkDivCnt' \in 0..ClkDiv /\ newPixel' \in BOOLEAN
      BY <1>6, <3>1, <3>2 DEF Timing, VgaControllerTypeOK
    <3>4. xCounter' \in 0..HTotal /\ yCounter' \in 0..VTotal
      BY <1>6, <3>1, <3>2 DEF Timing, VgaControllerTypeOK
    <3>5. framebuffer_pointer' \in FrameBuffers
      BY <1>1, <1>6 DEF FramebufferRegister, VgaControllerTypeOK
    <3>6. vgadata' \in CacheWord \cup {NoWord} /\ data_out \in CacheWord \cup {NoWord}
      BY <1>6, <3>1 DEF DmaTypeOK, VgaControllerTypeOK
    <3>7. ~InSprite /\ ~Prefetch
      BY <1>2, Zenon DEF InSprite, Prefetch, NoSprite
    <3>8. sprite0_counter' = sprite0_counter /\ sprite_col' = Blank /\ sprite0_data' = sprite0_data
      <4>1. ~enable_sprite
        BY <1>2, Zenon DEF NoSprite
      <4> QED
        BY <3>1, <3>7, <4>1 DEF Sprite
    <3>9. sprite0_counter' \in 0..3 /\ sprite0_data' \in CacheWord \cup {NoWord} /\ sprite_col' \in {Blank}
      BY <1>6, <3>8 DEF VgaControllerTypeOK
    <3>10. enable_sprite' \in BOOLEAN
      BY <1>1, <1>6, Zenon DEF VgaControllerTypeOK
    <3> QED
      BY <3>3, <3>4, <3>5, <3>6, <3>9, <3>10, Zenon DEF VgaControllerTypeOK
  <2>5. DmaTypeOK'
    <3>1. Bursts \in Nat /\ Depth \in Nat /\ Depth > 4 /\ MaxLength \in Nat
      BY <1>5, DmaAssumption
    <3>2. \A n \in Nat : n % Depth \in 0..Depth - 1
      BY <3>1
    <3>3. wrptr' \in [Channel -> 0..Depth - 1]
      <4>1. wrptr' = [c \in Channel |-> WritePointer(c, reset)]
        BY <1>1, Zenon DEF Fill
      <4>2. ASSUME NEW c \in Channel PROVE WritePointer(c, reset) \in 0..Depth - 1
        <5>1. wrptr[c] \in 0..Depth - 1
          BY <1>6, <4>2 DEF DmaTypeOK
        <5>2. Advanced(wrptr[c]) \in 0..Depth - 1
          BY <3>1, <3>2, <5>1 DEF Advanced
        <5> QED
          BY <3>1, <5>1, <5>2 DEF WritePointer
      <4> QED
        BY <4>1, <4>2
    <3>4. rdptr' \in [Channel -> 0..Depth - 1]
      <4>1. rdptr' = [c \in Channel |-> CASE Answers(c) -> (rdptr[c] + 1) % Depth
                                          [] ~Answers(c) /\ setaddr = c -> 0
                                          [] OTHER -> IF reset THEN rdptr[c] ELSE 0]
        BY <1>1, Zenon DEF Read
      <4>2. ASSUME NEW c \in Channel
            PROVE  rdptr[c] \in 0..Depth - 1 /\ (rdptr[c] + 1) % Depth \in 0..Depth - 1 /\ 0 \in 0..Depth - 1
        <5>1. rdptr[c] \in 0..Depth - 1
          BY <1>6, <4>2 DEF DmaTypeOK
        <5>2. (rdptr[c] + 1) % Depth \in 0..Depth - 1
          <6>1. rdptr[c] + 1 \in Nat
            BY <3>1, <5>1
          <6> QED
            BY <3>2, <6>1
        <5> QED
          BY <3>1, <5>1, <5>2
      <4>3. ASSUME NEW c \in Channel PROVE rdptr'[c] \in 0..Depth - 1
        BY <4>1, <4>2
      <4> QED
        BY <4>1, <4>3
    <3>5. count' \in [Channel -> 0..MaxLength]
      <4>1. count' = [c \in Channel |-> Remaining(c, reset)]
        BY <1>1, Zenon DEF Fill
      <4>2. ToFetch \in 0..MaxLength /\ dma_len \in 0..MaxLength /\ ToFetch % 4 = 0
        BY <1>2, <1>6 DEF DmaTypeOK, DmaInputsTypeOK, Channel, ToFetch, WholeBursts
      <4>3. Start => ToFetch - 4 \in 0..MaxLength
        BY <3>1, <4>2 DEF Start
      <4>4. ToFetch' \in 0..MaxLength
        BY <1>8, <3>1, <4>2, <4>3 DEF Moves
      <4>5. count'["vga"] \in 0..MaxLength /\ count'["spr0"] \in 0..MaxLength
        BY <1>9, <3>1, <4>4 DEF ToFetch, NoSprite
      <4> QED
        BY <4>1, <4>5 DEF Channel
    <3>6. addr' \in [Channel -> Lines]
      <4>1. addr' = [c \in Channel |-> Address(c)]
        BY <1>1, Zenon DEF Fill
      <4>2. ASSUME NEW c \in Channel PROVE Address(c) \in Lines
        BY <1>6, DmaAssumption DEF Address, DmaTypeOK, DmaInputsTypeOK
      <4> QED
        BY <4>1, <4>2
    <3>7. addr["vga"] \in Lines /\ Writer \in 0..Depth - 1 /\ Reader \in 0..Depth - 1
      BY <1>6 DEF DmaTypeOK, Channel, Writer, Reader
    <3>8. /\ sdram_req' \in BOOLEAN /\ sdram_addr' \in Lines /\ sdram_reserveaddr' \in Lines
          /\ inputstate' \in {"rd1", "rcv1", "rcv2", "rcv3", "rcv4"}
      BY <1>6, <1>8, <3>7 DEF Moves, DmaTypeOK
    <3>9. update' \in Channel /\ pending' \in BOOLEAN
      BY <1>1, <1>9, Zenon DEF NoSprite, Channel, Read
    <3>10. cache_wraddr' \in Place /\ cache_rdaddr' \in Place
      <4>1. cache_wraddr \in Place /\ cache_rdaddr \in Place
        BY <1>6 DEF DmaTypeOK
      <4>2. [cache_wraddr EXCEPT !.word = (@ + 1) % Depth] \in Place
        BY <3>1, <3>2, <4>1 DEF Place
      <4>3. [channel |-> "vga", word |-> Writer] \in Place /\ [channel |-> "vga", word |-> Reader] \in Place
        BY <3>7 DEF Place, Channel
      <4> QED
        BY <1>8, <4>1, <4>2, <4>3 DEF Moves
    <3>11. cache_wren' \in BOOLEAN /\ data_from_ram' \in CacheWord \cup {NoWord}
      <4>1. FillWord \in CacheWord
        <5>1. sdram_state \in 0..15
          BY <1>2 DEF Typed
        <5>2. (sdram_state + 6) % 4 \in 0..3
          BY <5>1
        <5> QED
          BY <1>6, <5>2 DEF FillWord, CacheWord
      <4> QED
        BY <1>6, <1>8, <4>1 DEF Moves, DmaTypeOK
    <3>12. valid_d' \in Channel \cup {"none"} /\ valid' \in Channel \cup {"none"}
      BY <1>6, <1>8 DEF Moves, DmaTypeOK, Channel
    <3>13. ram' \in [Channel -> [0..Depth - 1 -> CacheWord \cup {NoWord}]] /\ data_out' \in CacheWord \cup {NoWord}
      <4>1. /\ ram \in [Channel -> [0..Depth - 1 -> CacheWord \cup {NoWord}]] /\ data_from_ram \in CacheWord \cup {NoWord}
            /\ cache_wraddr \in Place /\ cache_rdaddr \in Place
        BY <1>6 DEF DmaTypeOK
      <4>2. ram' = ram \/ ram' = [ram EXCEPT ![cache_wraddr.channel][cache_wraddr.word] = data_from_ram]
        BY <1>1, Zenon DEF Ram
      <4>3. cache_wraddr.channel \in Channel /\ cache_wraddr.word \in 0..Depth - 1
        BY <4>1 DEF Place
      <4>4. ram' \in [Channel -> [0..Depth - 1 -> CacheWord \cup {NoWord}]]
        <5>1. [ram EXCEPT ![cache_wraddr.channel][cache_wraddr.word] = data_from_ram] \in [Channel -> [0..Depth - 1 -> CacheWord \cup {NoWord}]]
          BY <4>1, <4>3, TableUpdate, Zenon
        <5> QED
          BY <4>1, <4>2, <5>1, Zenon
      <4>5. Stored(cache_rdaddr) \in CacheWord \cup {NoWord}
        BY <4>1 DEF Place, Stored
      <4>6. data_out' \in {Stored(cache_rdaddr), data_from_ram, NoWord}
        BY <1>1 DEF Ram
      <4> QED
        BY <4>1, <4>4, <4>5, <4>6
    <3> QED
      BY <3>3, <3>4, <3>5, <3>6, <3>8, <3>9, <3>10, <3>11, <3>12, <3>13, Zenon DEF DmaTypeOK
  <2> QED
    BY <2>1, <2>2, <2>3, <2>4, <2>5 DEF Typed
<1> QED
  BY <1>8, <1>9, <1>10, <1>11, <1>12 DEF Placed

\* The sizes, as numbers.
LEMMA Geometry ==
  ASSUME DisplayTimely
  PROVE  /\ ClkDiv \in Nat /\ ClkDiv >= 4 /\ Bursts \in Nat /\ Bursts >= 4 /\ Depth = 4 * Bursts /\ Depth \in Nat /\ Depth >= 16
         /\ HSize \in Nat /\ HTotal \in Nat /\ VSize \in Nat /\ VTotal \in Nat
         /\ Depth <= HSize /\ HSize >= 16 /\ HSize + 34 <= HTotal /\ VSize < VTotal /\ PixelsLast
BY DmaAssumption, VideoAssumption DEF DisplayTimely, Depth, PixelsLast

\* The display without sprite, as the numbers move.
Ticks ==
  /\ clkDivCnt' = (IF clkDivCnt = ClkDiv THEN 0 ELSE clkDivCnt + 1) /\ (newPixel' <=> clkDivCnt = ClkDiv)
  /\ xCounter' = (IF xCounter = HTotal THEN 0 ELSE IF newPixel THEN xCounter + 1 ELSE xCounter)
  /\ yCounter' = (IF xCounter = HTotal THEN NextRow ELSE yCounter)
  /\ setaddr' = "vga" <=> newPixel /\ xCounter = 0 /\ yCounter = VTotal
  /\ setlen' = "vga" <=> newPixel /\ xCounter = HTotal - 20
  /\ dma_len' = IF newPixel /\ xCounter = HTotal - 20 THEN HSize ELSE dma_len
  /\ Asked' <=> newPixel /\ xCounter < HSize /\ yCounter < VSize
  /\ vga_refresh' <=> newPixel /\ xCounter = HSize
  /\ frames' = (IF reset /\ setaddr = "vga" /\ frames < 2 THEN frames + 1 ELSE frames)

\* What is known of the counters.
Counters ==
  /\ clkDivCnt \in 0..ClkDiv /\ newPixel \in BOOLEAN /\ (newPixel => clkDivCnt = 0)
  /\ xCounter \in 0..HTotal /\ yCounter \in 0..VTotal /\ sdram_state \in 0..15 /\ frames \in 0..2

\* The counters have their ranges.
LEMMA CountersKnown ==
  ASSUME Placed, RefreshInv
  PROVE  Counters
BY Zenon DEF Placed, Typed, RefreshInv, Clock, Counters, VgaControllerTypeOK

\* A clock of the timing generator and of what it asks for.
LEMMA DisplayTicks ==
  ASSUME DisplayTimely, Placed, Next
  PROVE  Ticks
<1>1. /\ Timing /\ DmaSetUp /\ vga_refresh' = AsksRefresh
      /\ req' = {c \in Channel : IF c = "vga" THEN AsksWord ELSE SpriteAsks \/ Prefetch}
      /\ frames' = (IF reset /\ setaddr = "vga" /\ frames < 2 THEN frames + 1 ELSE frames)
  BY Zenon DEF Next, Video, VgaControllerEdge, VgaPortEdge, Monitor
<1>2. newPixel \in BOOLEAN /\ xCounter \in 0..HTotal /\ yCounter \in 0..VTotal /\ ~enable_sprite
  BY DEF Placed, Typed, VgaControllerTypeOK, NoSprite
<1>3. /\ HSize \in Nat /\ HTotal \in Nat /\ VSize \in Nat /\ VTotal \in Nat /\ HSize + 34 <= HTotal /\ VSize < VTotal
  BY Geometry
<1>4. /\ clkDivCnt' = (IF clkDivCnt = ClkDiv THEN 0 ELSE clkDivCnt + 1) /\ (newPixel' <=> clkDivCnt = ClkDiv)
      /\ xCounter' = (IF xCounter = HTotal THEN 0 ELSE IF newPixel THEN xCounter + 1 ELSE xCounter)
      /\ yCounter' = (IF xCounter = HTotal THEN NextRow ELSE yCounter)
  BY <1>1 DEF Timing, NextRow
<1>5. RestartsVga <=> newPixel /\ xCounter = 0 /\ yCounter = VTotal
  BY <1>2, <1>3 DEF RestartsVga, RestartLine, Visible
<1>6. LengthVga <=> newPixel /\ xCounter = HTotal - 20
  BY <1>2, <1>3 DEF LengthVga, Visible
<1>7. ~LengthSprite
  BY <1>2, Zenon DEF LengthSprite
<1>8. setaddr' = "vga" <=> RestartsVga
  <2>1. setaddr' = Strobes(RestartsVga, RestartsSprite)
    BY <1>1, Zenon DEF DmaSetUp
  <2>2. RestartsSprite => xCounter = 1
    BY DEF RestartsSprite
  <2> QED
    BY <1>5, <2>1, <2>2 DEF Strobes
<1>9. setlen' = "vga" <=> LengthVga
  <2>1. setlen' = Strobes(LengthVga, LengthSprite)
    BY <1>1, Zenon DEF DmaSetUp
  <2> QED
    BY <1>7, <2>1 DEF Strobes
<1>10. dma_len' = IF LengthVga THEN HSize ELSE dma_len
  <2>1. dma_len' = CASE LengthVga -> HSize
                     [] LengthSprite -> 4
                     [] OTHER -> dma_len
    BY <1>1, Zenon DEF DmaSetUp
  <2> QED
    BY <1>7, <2>1
<1>11. Asked' <=> newPixel /\ xCounter < HSize /\ yCounter < VSize
  BY <1>1 DEF Asked, Channel, AsksWord, Visible
<1>12. vga_refresh' <=> newPixel /\ xCounter = HSize
  BY <1>1 DEF AsksRefresh
<1> QED
  BY <1>1, <1>4, <1>5, <1>6, <1>8, <1>9, <1>10, <1>11, <1>12, Zenon DEF Ticks

\* Where the strobes are found.
LEMMA PlacesStart == Init => Places
<1> SUFFICES ASSUME Init
             PROVE  Places
  OBVIOUS
<1>1. newPixel = FALSE /\ setlen = "none" /\ setaddr = "none" /\ req = {} /\ frames = 0 /\ reset = FALSE
  BY DEF Init, VgaControllerInit, BusInit
<1> QED
  BY <1>1 DEF Places, Asked

\* The strobes stay where they are.
LEMMA PlacesStep ==
  ASSUME DisplayTimely, Placed, RefreshInv, Places, Next
  PROVE  Places'
<1>1. Ticks /\ Counters
  BY DisplayTicks, CountersKnown
<1>2. /\ HSize \in Nat /\ HTotal \in Nat /\ VSize \in Nat /\ VTotal \in Nat /\ HSize + 34 <= HTotal /\ VSize < VTotal /\ ClkDiv \in Nat /\ ClkDiv >= 4
  BY Geometry
<1>3. xCounter' = HTotal => ~newPixel'
  BY <1>1, <1>2 DEF Ticks, Counters, Places
<1>4. setlen' = "vga" => xCounter' = HTotal - 19 /\ clkDivCnt' = 1 /\ dma_len' = HSize
  BY <1>1, <1>2 DEF Ticks, Counters
<1>5. setaddr' = "vga" => xCounter' = 1 /\ yCounter' = VTotal /\ clkDivCnt' = 1
  BY <1>1, <1>2 DEF Ticks, Counters
<1>6. Asked' => clkDivCnt' = 1 /\ xCounter' \in 1..HSize /\ yCounter' < VSize
  BY <1>1, <1>2 DEF Ticks, Counters
<1>7. (frames' >= 1 => reset') /\ (reset' => init_done')
  <2>1. reset => init_done
    BY DEF Places
  <2>2. init_done => init_done'
    BY DEF Next, SdramEdge, Phase
  <2>3. reset' \in {reset, init_done}
    BY Zenon DEF Next, Bus, BusEdge
  <2>4. reset \in BOOLEAN /\ init_done \in BOOLEAN
    BY DEF Placed, Typed
  <2>5. (reset => reset') /\ (reset' => init_done')
    BY <2>1, <2>2, <2>3, <2>4
  <2>6. frames' >= 1 => frames >= 1 \/ reset
    BY <1>1 DEF Ticks, Counters
  <2>7. frames >= 1 => reset
    BY DEF Places
  <2> QED
    BY <2>5, <2>6, <2>7
<1> QED
  BY <1>3, <1>4, <1>5, <1>6, <1>7, Zenon DEF Places

\* The controller, as far as the display is concerned.
Grants == ~RefreshWins /\ sdram_req /\ (sdram_addr.bank # slot2_bank \/ sdram_slot2 = "idle")
Serves ==
  /\ init_done => init_done' /\ sdram_state' = (sdram_state + 1) % 16
  /\ ~init_done /\ init_done' => sdram_state = 14 /\ sdram_state' = 0 /\ vga_refresh
  /\ vga_fill' <=> (sdram_state = 9 /\ sdram_slot1 = "port0") \/ (vga_fill /\ sdram_state \notin {5, 13})
  /\ refreshpending' <=> sdram_slot1 # "refresh" /\ (refreshpending \/ vga_refresh)
  /\ ~init_done => sdram_slot1' = sdram_slot1 /\ sdram_slot2' = sdram_slot2 /\ vga_ack' = vga_ack
  /\ init_done =>
       /\ vga_ack' <=> sdram_state = 2 /\ Grants
       /\ IF sdram_state = 2 THEN (sdram_slot1' = "port0" <=> Grants) /\ (sdram_slot1' = "refresh" <=> RefreshWins)
          ELSE sdram_slot1' = sdram_slot1
       /\ IF sdram_state = 10
          THEN sdram_slot2' # "idle" => /\ ~refreshpending /\ sdram_slot1 # "refresh" /\ sdram_slot2' # "port0"
                                        /\ ToFetch # 0 => slot2_bank' # sdram_reserveaddr.bank
                                        /\ writecache_req \/ req1
          ELSE sdram_slot2' = sdram_slot2 /\ slot2_bank' = slot2_bank

\* What the slots do to the port of the display.
LEMMA ControllerServes ==
  ASSUME Placed, Slot2Free, Next
  PROVE  Serves
<1>1. Phase /\ Slots
  BY DEF Next, SdramEdge
<1>2. Wired
  BY DEF Placed
<1>3. Arbitration
  BY <1>1, Zenon DEF Slots
<1>4. VgaWins1 <=> Grants
  BY <1>2 DEF Wired, VgaWins1, Grants, BankFree1
<1>5. /\ init_done => init_done' /\ sdram_state' = (sdram_state + 1) % 16
      /\ ~init_done /\ init_done' => sdram_state = 14 /\ sdram_state' = 0 /\ vga_refresh
  <2>1. sdram_state \in 0..15
    BY DEF Placed, Typed
  <2> QED
    BY <1>1, <2>1 DEF Phase
<1>6. vga_fill' <=> (sdram_state = 9 /\ sdram_slot1 = "port0") \/ (vga_fill /\ sdram_state \notin {5, 13})
  <2>1. vga_fill' = \/ sdram_state = 9 /\ sdram_slot1 = "port0"
                    \/ sdram_state = 1 /\ sdram_slot2 = "port0"
                    \/ vga_fill /\ sdram_state \notin {5, 13}
    BY <1>1, Zenon DEF Phase
  <2> QED
    BY <2>1 DEF Slot2Free
<1>7. /\ refreshpending' <=> sdram_slot1 # "refresh" /\ (refreshpending \/ vga_refresh)
      /\ vga_ack' = IF init_done THEN sdram_state = 2 /\ VgaWins1 ELSE vga_ack
  BY <1>1, Zenon DEF Slots
<1>8. ~init_done => sdram_slot1' = sdram_slot1 /\ sdram_slot2' = sdram_slot2
  BY <1>3 DEF Arbitration, OtherPhase
<1>9. ASSUME init_done
      PROVE  IF sdram_state = 2 THEN (sdram_slot1' = "port0" <=> Grants) /\ (sdram_slot1' = "refresh" <=> RefreshWins)
             ELSE sdram_slot1' = sdram_slot1
  <2>1. CASE sdram_state = 2
    <3>1. Slot1Arbitration
      BY <1>3, <1>9, <2>1 DEF Arbitration
    <3>2. RefreshWins => ~Grants
      BY DEF Grants
    <3> HIDE DEF Grants
    <3>3. Slot1Refresh => RefreshWins /\ sdram_slot1' = "refresh"
      BY DEF Slot1Refresh
    <3>4. Slot1Vga => VgaWins1 /\ sdram_slot1' = "port0" /\ ~RefreshWins
      BY DEF Slot1Vga, VgaWins1, Slot1
    <3>5. Slot1Write => ~VgaWins1 /\ sdram_slot1' = "writecache" /\ ~RefreshWins
      BY DEF Slot1Write, VgaWins1, Slot1
    <3>6. Slot1Read => ~VgaWins1 /\ sdram_slot1' = "zpu" /\ ~RefreshWins
      BY DEF Slot1Read, VgaWins1, Slot1
    <3>7. Slot1Idle => ~VgaWins1 /\ sdram_slot1' = "idle" /\ ~RefreshWins
      BY DEF Slot1Idle, VgaWins1
    <3>8. Slot1Refresh \/ Slot1Vga \/ Slot1Write \/ Slot1Read \/ Slot1Idle
      BY <3>1, Zenon DEF Slot1Arbitration
    <3> QED
      BY <1>4, <2>1, <3>2, <3>3, <3>4, <3>5, <3>6, <3>7, <3>8
  <2>2. CASE sdram_state = 10
    BY <1>3, <1>9, <2>2 DEF Arbitration, Slot2Arbitration
  <2>3. CASE sdram_state \notin {2, 10}
    BY <1>3, <1>9, <2>3 DEF Arbitration, OtherPhase
  <2> QED
    BY <2>1, <2>2, <2>3
<1>10. ASSUME init_done
       PROVE  IF sdram_state = 10
              THEN sdram_slot2' # "idle" => /\ ~refreshpending /\ sdram_slot1 # "refresh" /\ sdram_slot2' # "port0"
                                            /\ ToFetch # 0 => slot2_bank' # sdram_reserveaddr.bank
                                            /\ writecache_req \/ req1
              ELSE sdram_slot2' = sdram_slot2 /\ slot2_bank' = slot2_bank
  <2>1. CASE sdram_state = 2
    BY <1>3, <1>10, <2>1 DEF Arbitration, Slot1Arbitration
  <2>2. CASE sdram_state = 10
    <3>1. Slot2Write \/ Slot2Read \/ Slot2Idle
      BY <1>3, <1>10, <2>2 DEF Arbitration, Slot2Arbitration
    <3>2. ASSUME Slot2Write \/ Slot2Read
          PROVE  /\ ~Slot2Closed /\ sdram_slot2' # "port0" /\ Unreserved(slot2_bank') /\ (writecache_req \/ req1)
      <4>1. CASE Slot2Write
        BY <4>1 DEF Slot2Write, Slot2, WriteWins2
      <4>2. CASE Slot2Read
        <5>1. HalfOf(Addr1).line = Addr1.line
          BY DEF HalfOf
        <5> QED
          BY <4>2, <5>1 DEF Slot2Read, Slot2, ReadWins2
      <4> QED
        BY <3>2, <4>1, <4>2
    <3>3. Slot2Idle => sdram_slot2' = "idle"
      BY DEF Slot2Idle
    <3> QED
      BY <1>2, <2>2, <3>1, <3>2, <3>3 DEF Slot2Closed, Unreserved, Wired
  <2>3. CASE sdram_state \notin {2, 10}
    BY <1>3, <1>10, <2>3 DEF Arbitration, OtherPhase
  <2> QED
    BY <2>1, <2>2, <2>3
<1> QED
  BY <1>4, <1>5, <1>6, <1>7, <1>8, <1>9, <1>10 DEF Serves

\* Slot 2 is idle after reset.
LEMMA Slot2Starts == Init => Slot2Free
BY DEF Init, SdramInit, Slot2Free

\* Slot 2 is never given to the display, and is empty while the lines are refreshed.
LEMMA Slot2Step ==
  ASSUME Placed, Slot2Free, Next
  PROVE  Slot2Free'
<1>1. Serves
  BY ControllerServes
<1>2. init_done \in BOOLEAN
  BY DEF Placed, Typed
<1> QED
  BY <1>1, <1>2 DEF Serves, Slot2Free, Sending, RefreshWins

\* Port and cache go from request to grant to the four words together.
LEMMA SyncStep ==
  ASSUME Placed, Slot2Free, Sync, reset, init_done, Next
  PROVE  Sync'
<1>1. Serves /\ Moves
  BY ControllerServes, CacheMoves
<1>2. /\ sdram_state \in 0..15 /\ sdram_state' = (sdram_state + 1) % 16
      /\ inputstate' = IF Start THEN "rcv1" ELSE IF inputstate = "rcv1" /\ vga_fill THEN "rcv2" ELSE IF inputstate = "rcv2" THEN "rcv3"
                       ELSE IF inputstate = "rcv3" THEN "rcv4" ELSE IF inputstate = "rcv4" THEN "rd1" ELSE inputstate
      /\ sdram_req' = IF Start THEN TRUE ELSE sdram_req /\ ~vga_ack
      /\ Start => inputstate = "rd1"
  BY <1>1 DEF Serves, Moves, Placed, Typed, Start
<1>3. /\ vga_fill' <=> (sdram_state = 9 /\ sdram_slot1 = "port0") \/ (vga_fill /\ sdram_state \notin {5, 13})
      /\ vga_ack' <=> sdram_state = 2 /\ Grants
      /\ IF sdram_state = 2 THEN sdram_slot1' = "port0" <=> Grants ELSE sdram_slot1' = sdram_slot1
      /\ Grants => sdram_req
  BY <1>1 DEF Serves, Grants
<1>4. /\ sdram_state = 15 => sdram_state' = 0
      /\ sdram_state # 15 => sdram_state' = sdram_state + 1
  BY <1>2
<1> HIDE DEF Grants, Start
<1>5. sdram_req' <=> Start \/ (sdram_req /\ ~vga_ack)
  BY <1>2
<1>6. CASE inputstate = "rd1" /\ Settled
  <2>1. ~sdram_req /\ ~vga_ack /\ ~vga_fill /\ ~Given
    BY <1>6 DEF Settled
  <2>2. ~vga_ack' /\ ~vga_fill'
    BY <1>3, <2>1 DEF Given
  <2>3. ~Given'
    BY <1>2, <1>3, <1>4, <2>1 DEF Given
  <2>4. CASE Start
    BY <1>2, <1>5, <2>2, <2>3, <2>4 DEF Sync
  <2>5. CASE ~Start
    <3>1. inputstate' = "rd1" /\ ~sdram_req'
      BY <1>2, <1>6, <1>5, <2>1, <2>5
    <3> QED
      BY <2>2, <2>3, <3>1 DEF Sync, Settled
  <2> QED
    BY <2>4, <2>5
<1>7. CASE inputstate = "rcv1" /\ sdram_req /\ ~vga_ack /\ ~vga_fill /\ ~Given
  <2>1. inputstate' = "rcv1" /\ sdram_req'
    BY <1>2, <1>7, <1>5
  <2>2. ~vga_fill'
    BY <1>3, <1>7 DEF Given
  <2>3. CASE sdram_state = 2 /\ Grants
    <3>1. Given' /\ sdram_state' = 3 /\ vga_ack'
      BY <1>3, <1>4, <2>3 DEF Given
    <3> QED
      BY <2>1, <2>2, <3>1 DEF Sync
  <2>4. CASE ~(sdram_state = 2 /\ Grants)
    <3>1. ~vga_ack'
      BY <1>3, <2>4
    <3>2. ~Given'
      BY <1>2, <1>3, <1>4, <1>7, <2>4 DEF Given
    <3> QED
      BY <2>1, <2>2, <3>1, <3>2 DEF Sync
  <2> QED
    BY <2>3, <2>4
<1>8. CASE /\ inputstate = "rcv1" /\ Given /\ sdram_state <= 10
           /\ (sdram_req <=> sdram_state = 3) /\ (vga_ack <=> sdram_state = 3) /\ (vga_fill <=> sdram_state = 10)
  <2>1. sdram_state \in 3..10 /\ sdram_slot1 = "port0" /\ ~Start /\ sdram_slot1' = "port0"
    BY <1>2, <1>3, <1>8 DEF Given
  <2>2. Given' /\ sdram_state' = sdram_state + 1
    BY <1>4, <2>1 DEF Given
  <2>3. ~sdram_req' /\ ~vga_ack'
    BY <1>3, <1>8, <1>5, <2>1
  <2>4. CASE sdram_state = 10
    <3>1. inputstate' = "rcv2" /\ vga_fill'
      BY <1>2, <1>3, <1>8, <2>1, <2>4
    <3> QED
      BY <2>2, <2>3, <2>4, <3>1 DEF Sync
  <2>5. CASE sdram_state # 10
    <3>1. inputstate' = "rcv1" /\ (vga_fill' <=> sdram_state = 9)
      BY <1>2, <1>3, <1>8, <2>1, <2>5
    <3> QED
      BY <2>1, <2>2, <2>3, <2>5, <3>1 DEF Sync
  <2> QED
    BY <2>4, <2>5
<1>9. CASE /\ Given /\ vga_fill /\ ~sdram_req /\ ~vga_ack
           /\ \/ sdram_state = 11 /\ inputstate = "rcv2"
              \/ sdram_state = 12 /\ inputstate = "rcv3"
              \/ sdram_state = 13 /\ inputstate = "rcv4"
  <2>1. sdram_slot1 = "port0" /\ ~Start /\ sdram_slot1' = "port0" /\ sdram_state' = sdram_state + 1
    BY <1>2, <1>3, <1>4, <1>9 DEF Given
  <2>2. ~sdram_req' /\ ~vga_ack'
    BY <1>3, <1>9, <1>5, <2>1
  <2>3. CASE sdram_state = 13
    <3>1. inputstate' = "rd1" /\ ~vga_fill' /\ ~Given'
      BY <1>2, <1>3, <1>9, <2>1, <2>3 DEF Given
    <3> QED
      BY <2>2, <3>1 DEF Sync, Settled
  <2>4. CASE sdram_state = 12
    <3>1. inputstate' = "rcv4" /\ vga_fill' /\ Given'
      BY <1>2, <1>3, <1>9, <2>1, <2>4 DEF Given
    <3> QED
      BY <2>1, <2>2, <2>4, <3>1 DEF Sync
  <2>5. CASE sdram_state = 11
    <3>1. inputstate' = "rcv3" /\ vga_fill' /\ Given'
      BY <1>2, <1>3, <1>9, <2>1, <2>5 DEF Given
    <3> QED
      BY <2>1, <2>2, <2>5, <3>1 DEF Sync
  <2> QED
    BY <1>9, <2>3, <2>4, <2>5
<1> QED
  BY <1>6, <1>7, <1>8, <1>9, Zenon DEF Sync

\* The count to the next pixel.
LEMMA PixelTicks ==
  ASSUME DisplayTimely, Ticks, Counters
  PROVE  /\ ToPixel \in Nat /\ ToPixel' \in Nat
         /\ newPixel => ToPixel = 0 /\ ToPixel' >= 4
         /\ ~newPixel => ToPixel' = ToPixel - 1
BY Geometry DEF Ticks, Counters, ToPixel

\* The clocks until a column comes go down by one at most.
LEMMA UntilTicks ==
  ASSUME DisplayTimely, Ticks, Counters, xCounter # HTotal, NEW CONSTANT h \in Int
  PROVE  /\ 5 * (h - xCounter) + ToPixel \in Int /\ 5 * (h - xCounter') + ToPixel' \in Int
         /\ 5 * (h - xCounter') + ToPixel' >= (5 * (h - xCounter) + ToPixel) - 1
<1>1. /\ ToPixel \in Nat /\ ToPixel' \in Nat
      /\ newPixel => ToPixel = 0 /\ ToPixel' >= 4
      /\ ~newPixel => ToPixel' = ToPixel - 1
  BY PixelTicks
<1>2. xCounter \in Nat /\ xCounter' = IF newPixel THEN xCounter + 1 ELSE xCounter
  BY Geometry DEF Ticks, Counters
<1>3. ASSUME NEW x \in Int, NEW y \in Int, NEW t \in Int, NEW u \in Int,
             (y = x + 1 /\ t = 0 /\ u >= 4) \/ (y = x /\ u = t - 1)
      PROVE  /\ 5 * (h - x) + t \in Int /\ 5 * (h - y) + u \in Int
             /\ 5 * (h - y) + u >= (5 * (h - x) + t) - 1
  BY <1>3
<1>4. xCounter \in Int /\ xCounter' \in Int /\ ToPixel \in Int /\ ToPixel' \in Int
  BY <1>1, <1>2
<1>5. (xCounter' = xCounter + 1 /\ ToPixel = 0 /\ ToPixel' >= 4) \/ (xCounter' = xCounter /\ ToPixel' = ToPixel - 1)
  BY <1>1, <1>2
<1> QED
  BY <1>3, <1>4, <1>5

\* The time since the end of the visible columns.
LEMMA ElapsedTicks ==
  ASSUME DisplayTimely, Ticks, Counters, Behind
  PROVE  /\ Elapsed \in Int /\ Elapsed' \in Int
         /\ Elapsed <= 50 => Behind' /\ Elapsed' <= Elapsed + 1 /\ Elapsed' >= Elapsed
         /\ Elapsed = 0 => Elapsed' = 1
         /\ xCounter >= HTotal - 19 => Elapsed >= 41
<1>1. /\ HSize \in Nat /\ HTotal \in Nat /\ HSize + 34 <= HTotal /\ ClkDiv \in Nat /\ ClkDiv >= 4
  BY Geometry
<1>2. /\ clkDivCnt \in 0..ClkDiv /\ newPixel \in BOOLEAN /\ (newPixel => clkDivCnt = 0) /\ xCounter \in 0..HTotal
      /\ clkDivCnt' = (IF clkDivCnt = ClkDiv THEN 0 ELSE clkDivCnt + 1) /\ (newPixel' <=> clkDivCnt = ClkDiv)
      /\ xCounter' = (IF xCounter = HTotal THEN 0 ELSE IF newPixel THEN xCounter + 1 ELSE xCounter)
  BY DEF Ticks, Counters
<1>3. Elapsed \in Int /\ (xCounter >= HTotal - 19 => Elapsed >= 41)
  BY <1>1, <1>2 DEF Elapsed
<1>4. xCounter' \in Int /\ Elapsed' \in Int
  BY <1>1, <1>2 DEF Elapsed
<1>5. ASSUME Elapsed <= 50
      PROVE  Behind' /\ Elapsed' <= Elapsed + 1 /\ Elapsed' >= Elapsed
  <2>1. xCounter # HTotal
    BY <1>1, <1>2, <1>5 DEF Elapsed
  <2>2. CASE newPixel
    BY <1>1, <1>2, <2>1, <2>2 DEF Elapsed, Behind
  <2>3. CASE ~newPixel
    BY <1>1, <1>2, <2>1, <2>3 DEF Elapsed, Behind
  <2> QED
    BY <2>2, <2>3
<1>6. ASSUME Elapsed = 0
      PROVE  Elapsed' = 1
  <2>1. xCounter = HSize + 1 /\ ~newPixel /\ clkDivCnt = 1
    BY <1>1, <1>2, <1>6 DEF Elapsed, Behind
  <2> QED
    BY <1>1, <1>2, <2>1 DEF Elapsed
<1> QED
  BY <1>3, <1>4, <1>5, <1>6

\* The phases.
LEMMA PhaseTicks ==
  ASSUME sdram_state \in 0..15, sdram_state' = (sdram_state + 1) % 16
  PROVE  /\ ToPh2 \in 1..16 /\ ToPh2' \in 1..16
         /\ sdram_state # 2 => ToPh2' = ToPh2 - 1
         /\ sdram_state = 2 => ToPh2 = 1 /\ ToPh2' = 16
         /\ sdram_state = 15 => sdram_state' = 0
         /\ sdram_state # 15 => sdram_state' = sdram_state + 1
BY DEF ToPh2

\* The refresh does not disturb the visible columns nor the last ones of a line.
LEMMA Calm ==
  ASSUME DisplayTimely, Counters, Ticks, RefreshInv, init_done, xCounter <= HSize \/ xCounter >= HTotal - 19
  PROVE  ~refreshpending /\ ~Sending /\ ~vga_refresh
<1>1. /\ HSize \in Nat /\ HTotal \in Nat /\ HSize + 34 <= HTotal
  BY Geometry
<1>2. xCounter \in Nat /\ sdram_state \in 0..15
  BY <1>1 DEF Counters
<1>3. ToPh2 \in 1..19 /\ Waits \in 1..60
  BY <1>2 DEF ToPh2, Waits
<1>4. Behind => Elapsed \in Int /\ Elapsed >= 41
  BY <1>1, <1>2, ElapsedTicks DEF Behind
<1>5. /\ Pending => Behind /\ Elapsed + Waits <= 41
      /\ Sending => Behind /\ Elapsed + ToPh2 <= 41
      /\ vga_refresh => Behind /\ Elapsed = 0
  BY DEF RefreshInv, OnTime, Requested
<1>6. ~Pending
  BY <1>3, <1>4, <1>5
<1>7. ~Sending
  BY <1>3, <1>4, <1>5
<1>8. ~vga_refresh
  BY <1>4, <1>5
<1> QED
  BY <1>6, <1>7, <1>8 DEF Pending, Sending

\* The display has asked for nothing yet: nothing happens at the port.
LEMMA SettledStays ==
  ASSUME Placed, Serves, Moves, init_done, Settled, ~Start
  PROVE  Settled'
<1>1. /\ ~sdram_req /\ ~vga_ack /\ ~vga_fill /\ ~Given /\ sdram_state \in 0..15
  BY DEF Settled, Placed, Typed
<1>2. /\ vga_fill' <=> (sdram_state = 9 /\ sdram_slot1 = "port0") \/ (vga_fill /\ sdram_state \notin {5, 13})
      /\ vga_ack' <=> sdram_state = 2 /\ Grants
      /\ sdram_state = 2 => (sdram_slot1' = "port0" <=> Grants)
      /\ sdram_state # 2 => sdram_slot1' = sdram_slot1
      /\ Grants => sdram_req
      /\ sdram_state' = (sdram_state + 1) % 16
  BY DEF Serves, Grants
<1>3. sdram_req' <=> sdram_req /\ ~vga_ack
  BY DEF Moves
<1> HIDE DEF Grants
<1>4. ~sdram_req' /\ ~vga_ack' /\ ~vga_fill'
  BY <1>1, <1>2, <1>3 DEF Given
<1>5. ~Given'
  <2>1. CASE sdram_state = 2
    BY <1>1, <1>2, <2>1 DEF Given
  <2>2. CASE sdram_state # 2
    <3>1. sdram_slot1' = sdram_slot1 /\ (sdram_state' \in 3..13 => sdram_state \in 3..12)
      BY <1>1, <1>2, <2>2
    <3> QED
      BY <1>1, <3>1 DEF Given
  <2> QED
    BY <2>1, <2>2
<1> QED
  BY <1>4, <1>5 DEF Settled

\* A burst the display does not wait for comes to its end.
LEMMA OrphanSteps ==
  ASSUME DisplayTimely, Placed, Slot2Free, RefreshInv, Counters, Ticks, Serves, Moves, init_done, Orphan, ~Start,
         sdram_slot2 = "idle"
  PROVE  Settled' \/ Orphan'
<1>1. /\ vga_fill => Given /\ sdram_state >= 10
      /\ Given => (vga_ack <=> sdram_state = 3)
      /\ ~Given /\ vga_ack => sdram_state = 0
      /\ Given /\ sdram_state > 3 => ~sdram_req
      /\ sdram_state \in 0..15
  BY DEF Orphan, Counters
<1>2. /\ vga_fill' <=> (sdram_state = 9 /\ sdram_slot1 = "port0") \/ (vga_fill /\ sdram_state \notin {5, 13})
      /\ vga_ack' <=> sdram_state = 2 /\ Grants
      /\ sdram_state = 2 => (sdram_slot1' = "port0" <=> Grants)
      /\ sdram_state # 2 => sdram_slot1' = sdram_slot1
      /\ refreshpending' <=> sdram_slot1 # "refresh" /\ (refreshpending \/ vga_refresh)
      /\ sdram_state' = (sdram_state + 1) % 16
  BY DEF Serves
<1>3. sdram_req' <=> sdram_req /\ ~vga_ack
  BY DEF Moves
<1>4. /\ ToPh2 \in 1..16 /\ ToPh2' \in 1..16
      /\ sdram_state # 2 => ToPh2' = ToPh2 - 1
      /\ sdram_state = 2 => ToPh2 = 1 /\ ToPh2' = 16
      /\ sdram_state = 15 => sdram_state' = 0
      /\ sdram_state # 15 => sdram_state' = sdram_state + 1
  BY <1>1, <1>2, PhaseTicks
<1>5. ~refreshpending
  <2>1. xCounter >= HTotal - 19 => ~refreshpending
    BY Calm
  <2> QED
    BY <2>1 DEF Orphan
<1>6. Grants <=> sdram_req
  BY <1>5 DEF Grants, RefreshWins
<1> HIDE DEF Grants
<1>7. EndsIn \in 1..27
  BY <1>1, <1>4 DEF EndsIn, Given
<1>8. \/ Settled'
      \/ /\ EndsIn' = EndsIn - 1
         /\ vga_fill' => Given' /\ sdram_state' >= 10
         /\ IF Given' THEN vga_ack' <=> sdram_state' = 3 ELSE vga_ack' => sdram_state' = 0
         /\ Given' /\ sdram_state' > 3 => ~sdram_req'
  <2>1. CASE Given /\ sdram_state = 13
    <3>1. ~sdram_req' /\ ~vga_ack' /\ ~vga_fill' /\ sdram_state' = 14
      BY <1>1, <1>2, <1>3, <1>4, <2>1
    <3> QED
      BY <3>1 DEF Settled, Given
  <2>2. CASE Given /\ sdram_state # 13
    <3>1. sdram_state \in 3..12 /\ sdram_slot1 = "port0" /\ sdram_state' = sdram_state + 1 /\ sdram_slot1' = "port0"
      BY <1>2, <1>4, <2>2 DEF Given
    <3>2. Given' /\ EndsIn' = EndsIn - 1
      BY <2>2, <3>1 DEF Given, EndsIn
    <3>3. ~vga_ack' /\ (vga_fill' => sdram_state' >= 10) /\ ~sdram_req'
      BY <1>1, <1>2, <1>3, <2>2, <3>1
    <3> QED
      BY <3>1, <3>2, <3>3
  <2>3. CASE ~Given /\ (vga_ack \/ ~sdram_req)
    <3>1. ~sdram_req' /\ ~vga_ack' /\ ~vga_fill'
      BY <1>1, <1>2, <1>3, <1>6, <2>3 DEF Given
    <3>2. ~Given'
      <4>1. CASE sdram_state = 2
        BY <1>1, <1>2, <1>6, <2>3, <4>1 DEF Given
      <4>2. CASE sdram_state # 2
        BY <1>1, <1>2, <1>4, <2>3, <4>2 DEF Given
      <4> QED
        BY <4>1, <4>2
    <3> QED
      BY <3>1, <3>2 DEF Settled
  <2>4. CASE ~Given /\ ~vga_ack /\ sdram_req
    <3>1. CASE sdram_state = 2
      <4>1. sdram_slot1' = "port0" /\ sdram_state' = 3 /\ vga_ack' /\ ~vga_fill'
        BY <1>1, <1>2, <1>4, <1>6, <2>4, <3>1
      <4>2. Given' /\ EndsIn' = 11 /\ EndsIn = 12
        BY <1>4, <2>4, <3>1, <4>1 DEF Given, EndsIn
      <4> QED
        BY <4>1, <4>2
    <3>2. CASE sdram_state # 2
      <4>1. ~Given' /\ ~vga_ack' /\ ~vga_fill'
        BY <1>1, <1>2, <1>4, <2>4, <3>2 DEF Given
      <4>2. EndsIn' = EndsIn - 1
        BY <1>4, <2>4, <3>2, <4>1 DEF EndsIn
      <4> QED
        BY <4>1, <4>2
    <3> QED
      BY <3>1, <3>2
  <2> QED
    BY <2>1, <2>2, <2>3, <2>4
<1>9. ASSUME EndsIn' = EndsIn - 1
      PROVE  \/ /\ xCounter' < HTotal /\ xCounter' >= HTotal - 19 /\ (xCounter' = HTotal - 19 => newPixel' \/ clkDivCnt' >= 3)
                /\ EndsIn' <= 5 * (HTotal - 1 - xCounter') + ToPixel'
             \/ (Behind' /\ Elapsed' >= 1 /\ Elapsed' + EndsIn' <= 15 /\ ~refreshpending')
  <2>1. CASE /\ xCounter < HTotal /\ xCounter >= HTotal - 19 /\ (xCounter = HTotal - 19 => newPixel \/ clkDivCnt >= 3)
             /\ EndsIn <= 5 * (HTotal - 1 - xCounter) + ToPixel
    <3>1. /\ 5 * (HTotal - 1 - xCounter) + ToPixel \in Int /\ 5 * (HTotal - 1 - xCounter') + ToPixel' \in Int
          /\ 5 * (HTotal - 1 - xCounter') + ToPixel' >= (5 * (HTotal - 1 - xCounter) + ToPixel) - 1
      <4>1. HTotal - 1 \in Int /\ xCounter # HTotal
        BY <2>1, Geometry DEF Counters
      <4> QED
        BY <4>1, UntilTicks
    <3>2. EndsIn' <= 5 * (HTotal - 1 - xCounter') + ToPixel'
      <4>1. EndsIn \in Int /\ EndsIn' \in Int
        BY <1>7, <1>9
      <4> QED
        BY <1>9, <2>1, <3>1, <4>1
    <3>3. /\ HTotal \in Nat /\ HTotal >= 34 /\ ClkDiv \in Nat /\ ClkDiv >= 4 /\ clkDivCnt \in 0..ClkDiv /\ newPixel \in BOOLEAN /\ xCounter \in Nat
          /\ newPixel => clkDivCnt = 0
          /\ clkDivCnt' = (IF clkDivCnt = ClkDiv THEN 0 ELSE clkDivCnt + 1) /\ (newPixel' <=> clkDivCnt = ClkDiv)
          /\ xCounter' = (IF newPixel THEN xCounter + 1 ELSE xCounter)
      BY <2>1, Geometry DEF Counters, Ticks
    <3>4. xCounter' < HTotal
      <4>1. newPixel => ToPixel = 0
        BY DEF ToPixel
      <4>2. newPixel => xCounter # HTotal - 1
        BY <1>7, <2>1, <3>3, <4>1
      <4> QED
        BY <2>1, <3>3, <4>2
    <3>5. xCounter' >= HTotal - 19 /\ (xCounter' = HTotal - 19 => newPixel' \/ clkDivCnt' >= 3)
      BY <2>1, <3>3
    <3> QED
      BY <3>2, <3>4, <3>5
  <2>2. CASE Behind /\ Elapsed >= 1 /\ Elapsed + EndsIn <= 15 /\ ~refreshpending
    <3>1. Elapsed \in Int /\ Elapsed' \in Int /\ (Elapsed <= 50 => Behind' /\ Elapsed' <= Elapsed + 1 /\ Elapsed' >= Elapsed)
      BY <2>2, ElapsedTicks
    <3>2. vga_refresh => Elapsed = 0
      BY DEF RefreshInv, Requested
    <3>3. ~refreshpending'
      BY <1>2, <2>2, <3>1, <3>2
    <3>4. ASSUME NEW e \in Int, NEW f \in Int, NEW o \in Int, NEW p \in Int, e >= 1, e + o <= 15, o >= 1, p = o - 1, f <= e + 1, f >= e
          PROVE  f >= 1 /\ f + p <= 15
      BY <3>4
    <3>5. Elapsed <= 50
      BY <1>7, <2>2, <3>1
    <3>6. EndsIn' \in Int /\ EndsIn \in Int /\ EndsIn >= 1
      BY <1>7, <1>9
    <3>7. Behind' /\ Elapsed' >= 1 /\ Elapsed' + EndsIn' <= 15
      BY <1>9, <2>2, <3>1, <3>4, <3>5, <3>6
    <3> QED
      BY <3>3, <3>7
  <2> QED
    BY <2>1, <2>2 DEF Orphan
<1> QED
  BY <1>8, <1>9 DEF Orphan

\* Before the reset ends nothing is read.
LEMMA EarlyStarts == Init => Early
<1> SUFFICES ASSUME Init
             PROVE  Early
  OBVIOUS
<1>1. DmaInit /\ SdramInit /\ BusInit
  BY DEF Init
<1>2. count["vga"] = 0 /\ inputstate = "rd1"
  BY <1>1 DEF DmaInit, Channel
<1>3. ~req1 /\ ~writecache_req /\ sdram_slot2 = "idle" /\ ~init_done /\ ~vga_fill
  BY <1>1 DEF SdramInit, BusInit
<1> QED
  BY <1>2, <1>3 DEF Early, ToFetch

\* During the reset one request at most is made, which the cache forgets.
LEMMA EarlyStep ==
  ASSUME DisplayTimely, Placed, Slot2Free, Places, RefreshInv, Early, ~reset, Next
  PROVE  Early'
<1>1. Serves /\ Moves /\ Ticks /\ Counters
  BY ControllerServes, CacheMoves, DisplayTicks, CountersKnown
<1>2. /\ HSize \in Nat /\ HTotal \in Nat /\ HSize + 34 <= HTotal /\ ClkDiv \in Nat /\ ClkDiv >= 4
  BY Geometry
<1>3. /\ clkDivCnt \in 0..ClkDiv /\ newPixel \in BOOLEAN /\ (newPixel => clkDivCnt = 0) /\ xCounter \in 0..HTotal
      /\ clkDivCnt' = (IF clkDivCnt = ClkDiv THEN 0 ELSE clkDivCnt + 1)
      /\ xCounter' = (IF xCounter = HTotal THEN 0 ELSE IF newPixel THEN xCounter + 1 ELSE xCounter)
  BY <1>1 DEF Counters, Ticks
<1>4. /\ ToFetch # 0 => xCounter = HTotal - 19 /\ (clkDivCnt = 2 \/ (clkDivCnt = 3 /\ inputstate = "rcv1"))
      /\ inputstate \in {"rd1", "rcv1"} /\ (inputstate = "rcv1" => xCounter = HTotal - 19 /\ clkDivCnt = 3 /\ ~vga_fill)
      /\ ~req1 /\ ~writecache_req /\ sdram_slot2 = "idle"
      /\ ~init_done => ~vga_fill
      /\ init_done /\ ~Settled => Orphan
  BY DEF Early
<1>5. Start => inputstate = "rd1" /\ xCounter = HTotal - 19 /\ clkDivCnt = 2
  BY <1>4 DEF Start
<1>6. init_done /\ xCounter = HTotal - 19 /\ clkDivCnt = 2 => Settled
  <2> SUFFICES ASSUME xCounter = HTotal - 19, clkDivCnt = 2
               PROVE  ~Orphan
    BY <1>4
  <2>1. Behind => Elapsed >= 41 /\ Elapsed \in Int
    BY <1>1, <1>2, <1>3, ElapsedTicks
  <2>2. EndsIn \in 1..27
    BY <1>1, PhaseTicks DEF EndsIn, Given, Counters, ToPh2
  <2> QED
    BY <1>3, <2>1, <2>2 DEF Orphan
<1>7. ~init_done => sdram_slot1 = "refresh" /\ ~refreshpending
  BY DEF RefreshInv, AtStart, Sending
<1>8. ~init_done \/ Settled => ~vga_fill'
  BY <1>1, <1>4, <1>7 DEF Serves, Settled, Given, Counters
<1>9. ~req1' /\ ~writecache_req'
  <2>1. BusEdge /\ WriteCache
    BY Zenon DEF Next, Bus, SdramEdge
  <2>2. req1' = req1
    BY <2>1, Zenon DEF BusEdge, cpuPort
  <2> QED
    BY <1>4, <2>1, <2>2 DEF WriteCache, WriteLatched
<1>10. sdram_slot2' = "idle"
  BY <1>1, <1>4 DEF Serves
<1>11. ToFetch' # 0 => xCounter' = HTotal - 19 /\ (clkDivCnt' = 2 \/ (clkDivCnt' = 3 /\ inputstate' = "rcv1"))
  <2>1. ToFetch' = IF setlen = "vga" THEN dma_len ELSE IF Start THEN ToFetch - 4 ELSE 0
    BY <1>1 DEF Moves
  <2>2. inputstate' = "rcv1" \/ ~Start
    BY <1>1 DEF Moves
  <2>3. setlen = "vga" => xCounter = HTotal - 19 /\ clkDivCnt = 1
    BY DEF Places
  <2> QED
    BY <1>2, <1>3, <1>5, <2>1, <2>2, <2>3
<1>12. inputstate' \in {"rd1", "rcv1"} /\ (inputstate' = "rcv1" => xCounter' = HTotal - 19 /\ clkDivCnt' = 3 /\ ~vga_fill')
  <2>1. inputstate' = IF Start THEN "rcv1" ELSE "rd1"
    BY <1>1, <1>4 DEF Moves
  <2>2. Start => xCounter' = HTotal - 19 /\ clkDivCnt' = 3
    BY <1>2, <1>3, <1>5
  <2> QED
    BY <1>5, <1>6, <1>8, <2>1, <2>2
<1>13. ~init_done' => ~vga_fill'
  BY <1>1, <1>8 DEF Serves
<1>14. ASSUME init_done'
       PROVE  Settled' \/ Orphan'
  <2>1. CASE ~init_done
    <3>1. sdram_state' = 0 /\ vga_refresh /\ sdram_slot1' = "refresh" /\ ~refreshpending' /\ ~vga_fill'
      BY <1>1, <1>7, <1>8, <1>14, <2>1 DEF Serves
    <3>2. Behind /\ Elapsed = 0
      BY <3>1 DEF RefreshInv, Requested
    <3>3. Behind' /\ Elapsed' = 1
      BY <1>1, <3>2, ElapsedTicks
    <3>4. ~Given' /\ EndsIn' = 14
      BY <3>1 DEF Given, EndsIn, ToPh2
    <3> QED
      BY <3>1, <3>3, <3>4 DEF Orphan
  <2>2. CASE init_done /\ ~Start
    BY <1>1, <1>4, <2>2, SettledStays, OrphanSteps
  <2>3. CASE init_done /\ Start
    <3>1. Settled /\ ~vga_fill'
      BY <1>5, <1>6, <1>8, <2>3
    <3>2. ~vga_ack' /\ ~Given'
      <4>1. ~Grants /\ ~Given /\ sdram_state \in 0..15
        BY <1>1, <3>1 DEF Grants, Settled, Counters
      <4>2. ~vga_ack' /\ (sdram_state = 2 => sdram_slot1' # "port0") /\ (sdram_state # 2 => sdram_slot1' = sdram_slot1)
            /\ sdram_state' = (sdram_state + 1) % 16
        BY <1>1, <2>3, <4>1 DEF Serves
      <4>3. sdram_state # 2 => ~(sdram_slot1 = "port0" /\ sdram_state' \in 3..13)
        BY <4>1, <4>2 DEF Given
      <4> QED
        BY <4>2, <4>3 DEF Given
    <3>3. xCounter' = HTotal - 19 /\ clkDivCnt' = 3
      BY <1>2, <1>3, <1>5, <2>3
    <3>4. EndsIn' \in 1..27
      <4>1. ToPh2' \in 1..16
        BY <1>1, <2>3, PhaseTicks DEF Serves, Counters
      <4>2. ~Given'
        BY <3>2
      <4>3. EndsIn' = ToPh2' + 11
        BY <4>2 DEF EndsIn, Given
      <4>4. ASSUME NEW a \in 1..16, NEW b, b = a + 11 PROVE b \in 1..27
        BY <4>4
      <4> QED
        BY <4>1, <4>3, <4>4, Zenon
    <3>5. ToPixel' \in Nat
      BY <1>1, PixelTicks
    <3>6. xCounter' < HTotal /\ xCounter' >= HTotal - 19 /\ EndsIn' <= 5 * (HTotal - 1 - xCounter') + ToPixel'
      <4>1. xCounter' < HTotal /\ xCounter' >= HTotal - 19 /\ 5 * (HTotal - 1 - xCounter') = 90
        BY <1>2, <3>3
      <4>2. ASSUME NEW a \in 1..27, NEW b \in Nat, NEW c, c = 90 PROVE a <= c + b
        BY <4>2
      <4> QED
        BY <3>4, <3>5, <4>1, <4>2, Zenon
    <3> QED
      BY <3>1, <3>2, <3>3, <3>6 DEF Orphan
  <2> QED
    BY <2>1, <2>2, <2>3
<1> QED
  BY <1>9, <1>10, <1>11, <1>12, <1>13, <1>14 DEF Early

\* When the reset ends the port is at rest.
LEMMA Released ==
  ASSUME DisplayTimely, Placed, Slot2Free, Places, RefreshInv, Early, ~reset, reset', Next
  PROVE  init_done' /\ Sync'
<1>1. Serves /\ Moves /\ Ticks /\ Counters
  BY ControllerServes, CacheMoves, DisplayTicks, CountersKnown
<1>2. /\ HSize \in Nat /\ HTotal \in Nat /\ HSize + 34 <= HTotal
  BY Geometry
<1>3. init_done /\ xCounter < HSize
  <2>1. Bus /\ BusEdge
    BY Zenon DEF Next, Bus
  <2>2. init_done
    <3>1. reset' \in {reset, init_done}
      BY <2>1, Zenon DEF BusEdge
    <3> QED
      BY <3>1
  <2>3. xCounter \in ReleasePixels
    <3>1. reset' # reset
      OBVIOUS
    <3> QED
      BY <2>1, <3>1, Zenon DEF Bus
  <2> QED
    BY <2>2, <2>3 DEF DisplayTimely
<1>4. ~Orphan /\ ToFetch = 0 /\ inputstate = "rd1"
  BY <1>1, <1>2, <1>3 DEF Early, Orphan, Behind, Counters
<1>5. Settled /\ ~Start
  BY <1>3, <1>4 DEF Early, Start
<1>6. Settled'
  BY <1>1, <1>3, <1>5, SettledStays
<1>7. inputstate' = "rd1" /\ init_done'
  BY <1>1, <1>3, <1>4, <1>5 DEF Moves, Serves
<1> QED
  BY <1>6, <1>7 DEF Sync

\* The ring, in numbers: a writer at the start of a burst, a reader somewhere.
LEMMA RingSplit ==
  ASSUME NEW b \in Nat, b >= 4, NEW w \in 0..(4 * b - 1), w % 4 = 0, NEW q \in 0..(4 * b - 1)
  PROVE  \E k \in 0..b - 1, j \in 0..b - 1, r \in 0..3 :
            /\ w = 4 * k /\ w \div 4 = k /\ q = 4 * j + r /\ q \div 4 = j
            /\ (w + 4) % (4 * b) = IF k = b - 1 THEN 0 ELSE w + 4
            /\ ((w + 4) % (4 * b)) \div 4 = IF k = b - 1 THEN 0 ELSE k + 1
            /\ (q + 1) % (4 * b) = IF q + 1 = 4 * b THEN 0 ELSE q + 1
<1>1. w \div 4 \in 0..b - 1 /\ q \div 4 \in 0..b - 1 /\ q % 4 \in 0..3
  OBVIOUS
<1>2. PICK k \in 0..b - 1, j \in 0..b - 1, r \in 0..3 : k = w \div 4 /\ j = q \div 4 /\ r = q % 4
  BY <1>1
<1>3. w = 4 * k /\ q = 4 * j + r
  BY <1>2
<1>4. (w + 4) % (4 * b) = IF k = b - 1 THEN 0 ELSE w + 4
  <2>1. PICK d \in Nat : d = 4 * b
    OBVIOUS
  <2>2. CASE k = b - 1
    <3>1. w + 4 = d /\ d > 0
      BY <1>3, <2>1, <2>2
    <3> QED
      BY <2>1, <2>2, <3>1
  <2>3. CASE k # b - 1
    <3>1. w + 4 < d /\ w + 4 \in Nat
      BY <1>2, <1>3, <2>1, <2>3
    <3> QED
      BY <2>1, <2>3, <3>1
  <2> QED
    BY <2>2, <2>3
<1>5. ((w + 4) % (4 * b)) \div 4 = IF k = b - 1 THEN 0 ELSE k + 1
  BY <1>2, <1>3, <1>4
<1>6. (q + 1) % (4 * b) = IF q + 1 = 4 * b THEN 0 ELSE q + 1
  <2>1. PICK d \in Nat : d = 4 * b /\ d > 0 /\ q + 1 <= d /\ q + 1 \in Nat
    OBVIOUS
  <2>2. (q + 1) % d = IF q + 1 = d THEN 0 ELSE q + 1
    BY <2>1
  <2> QED
    BY <2>1, <2>2
<1> QED
  BY <1>2, <1>3, <1>4, <1>5, <1>6

\* The pointers are places of the ring.
LEMMA Pointers ==
  ASSUME DisplayTimely, Placed
  PROVE  /\ Writer \in 0..(4 * Bursts - 1) /\ Writer % 4 = 0 /\ Reader \in 0..(4 * Bursts - 1) /\ ToFetch \in Nat /\ ToFetch % 4 = 0
         /\ Bursts \in Nat /\ Bursts >= 4 /\ Depth = 4 * Bursts
<1>1. Bursts \in Nat /\ Bursts >= 4 /\ Depth = 4 * Bursts /\ MaxLength \in Nat
  BY Geometry, DmaAssumption
<1>2. wrptr \in [Channel -> 0..Depth - 1] /\ rdptr \in [Channel -> 0..Depth - 1] /\ count \in [Channel -> 0..MaxLength]
  BY DEF Placed, Typed, DmaTypeOK
<1>3. Writer \in 0..Depth - 1 /\ Reader \in 0..Depth - 1 /\ ToFetch \in 0..MaxLength
  BY <1>2 DEF Writer, Reader, ToFetch, Channel
<1>4. Writer % 4 = 0 /\ ToFetch % 4 = 0
  BY DEF Placed, WholeBursts
<1> QED
  BY <1>1, <1>3, <1>4

\* How full the ring is, and how many bursts it can take.
LEMMA RingForm ==
  ASSUME DisplayTimely, Placed
  PROVE  /\ Fits \in Int /\ Fits >= 0 /\ Fits <= Bursts - 1 /\ (Room("vga") <=> Fits # 0)
         /\ Lead \in Int /\ Lead >= 0 /\ Lead <= Depth - 1
         /\ Lead <= Depth - 4 => 4 * Fits <= (Depth - 4) - Lead /\ 4 * Fits >= (Depth - 7) - Lead
<1>1. /\ Writer \in 0..(4 * Bursts - 1) /\ Writer % 4 = 0 /\ Reader \in 0..(4 * Bursts - 1)
      /\ Bursts \in Nat /\ Bursts >= 4 /\ Depth = 4 * Bursts
  BY Pointers
<1>2. PICK k \in 0..Bursts - 1, j \in 0..Bursts - 1, r \in 0..3 :
            /\ Writer = 4 * k /\ Writer \div 4 = k /\ Reader = 4 * j + r /\ Reader \div 4 = j
            /\ ((Writer + 4) % (4 * Bursts)) \div 4 = IF k = Bursts - 1 THEN 0 ELSE k + 1
  BY <1>1, RingSplit
<1>3. Room("vga") <=> j # IF k = Bursts - 1 THEN 0 ELSE k + 1
  BY <1>1, <1>2 DEF Room, Advanced, Writer, Reader
<1>4. Fits = IF j > k THEN (j - k) - 1 ELSE ((j - k) - 1) + Bursts
  BY <1>2 DEF Fits
<1>5. Lead = IF 4 * k >= 4 * j + r THEN 4 * k - (4 * j + r) ELSE (4 * k - (4 * j + r)) + 4 * Bursts
  BY <1>1, <1>2 DEF Lead
<1>6. ASSUME NEW f, f = IF j > k THEN (j - k) - 1 ELSE ((j - k) - 1) + Bursts,
             NEW l, l = IF 4 * k >= 4 * j + r THEN 4 * k - (4 * j + r) ELSE (4 * k - (4 * j + r)) + 4 * Bursts
      PROVE  /\ f \in Int /\ f >= 0 /\ f <= Bursts - 1 /\ (f # 0 <=> j # IF k = Bursts - 1 THEN 0 ELSE k + 1)
             /\ l \in Int /\ l >= 0 /\ l <= 4 * Bursts - 1
             /\ l <= 4 * Bursts - 4 => 4 * f <= (4 * Bursts - 4) - l /\ 4 * f >= (4 * Bursts - 7) - l
  BY <1>1, <1>2, <1>6
<1>7. /\ Fits \in Int /\ Fits >= 0 /\ Fits <= Bursts - 1 /\ (Fits # 0 <=> j # IF k = Bursts - 1 THEN 0 ELSE k + 1)
      /\ Lead \in Int /\ Lead >= 0 /\ Lead <= 4 * Bursts - 1
      /\ Lead <= 4 * Bursts - 4 => 4 * Fits <= (4 * Bursts - 4) - Lead /\ 4 * Fits >= (4 * Bursts - 7) - Lead
  BY <1>4, <1>5, <1>6
<1> QED
  BY <1>1, <1>3, <1>7, Zenon

\* A word that is taken, and a burst that is completed.
LEMMA RingMoves ==
  ASSUME DisplayTimely, Placed, Moves, reset, setaddr # "vga", Lead <= Depth - 4, Asked => Lead >= 1,
         inputstate = "rcv4" => Lead <= Depth - 8
  PROVE  Lead' = IF inputstate = "rcv4" THEN IF Asked THEN Lead + 3 ELSE Lead + 4
                 ELSE IF Asked THEN Lead - 1 ELSE Lead
<1>1. /\ Writer \in 0..(4 * Bursts - 1) /\ Writer % 4 = 0 /\ Reader \in 0..(4 * Bursts - 1)
      /\ Bursts \in Nat /\ Bursts >= 4 /\ Depth = 4 * Bursts
  BY Pointers
<1>2. PICK k \in 0..Bursts - 1, j \in 0..Bursts - 1, r \in 0..3 :
            /\ Writer = 4 * k
            /\ (Writer + 4) % (4 * Bursts) = IF k = Bursts - 1 THEN 0 ELSE Writer + 4
            /\ (Reader + 1) % (4 * Bursts) = IF Reader + 1 = 4 * Bursts THEN 0 ELSE Reader + 1
  BY <1>1, RingSplit
<1>3. /\ Writer' = IF inputstate = "rcv4" THEN (IF k = Bursts - 1 THEN 0 ELSE Writer + 4) ELSE Writer
      /\ Reader' = IF Asked THEN (IF Reader + 1 = 4 * Bursts THEN 0 ELSE Reader + 1) ELSE Reader
  BY <1>1, <1>2 DEF Moves, Advanced
<1>4. /\ Lead = IF Writer >= Reader THEN Writer - Reader ELSE (Writer - Reader) + 4 * Bursts
      /\ Lead' = IF Writer' >= Reader' THEN Writer' - Reader' ELSE (Writer' - Reader') + 4 * Bursts
  BY <1>1 DEF Lead
<1>5. Lead <= 4 * Bursts - 4 /\ (inputstate = "rcv4" => Lead <= 4 * Bursts - 8)
  BY <1>1
<1>6. PICK d \in Int : d = 4 * Bursts /\ d >= 16 /\ Writer \in Int /\ Writer >= 0 /\ Writer <= d - 4 /\ Reader \in Int /\ Reader >= 0 /\ Reader <= d - 1
                       /\ (k = Bursts - 1 <=> Writer = d - 4)
  BY <1>1, <1>2
<1>7. /\ Writer' = IF inputstate = "rcv4" THEN (IF Writer = d - 4 THEN 0 ELSE Writer + 4) ELSE Writer
      /\ Reader' = IF Asked THEN (IF Reader + 1 = d THEN 0 ELSE Reader + 1) ELSE Reader
      /\ Lead = IF Writer >= Reader THEN Writer - Reader ELSE (Writer - Reader) + d
      /\ Lead' = IF Writer' >= Reader' THEN Writer' - Reader' ELSE (Writer' - Reader') + d
      /\ Lead <= d - 4 /\ (inputstate = "rcv4" => Lead <= d - 8)
  BY <1>3, <1>4, <1>5, <1>6, Zenon
<1>8. PICK w, q, x, y, l, m : w = Writer /\ q = Reader /\ x = Writer' /\ y = Reader' /\ l = Lead /\ m = Lead'
  OBVIOUS
<1>9. PICK p \in BOOLEAN, g \in BOOLEAN : (p <=> inputstate = "rcv4") /\ (g <=> Asked)
  OBVIOUS
<1>10. /\ w \in Int /\ w >= 0 /\ w <= d - 4 /\ q \in Int /\ q >= 0 /\ q <= d - 1
       /\ x = (IF p THEN (IF w = d - 4 THEN 0 ELSE w + 4) ELSE w)
       /\ y = (IF g THEN (IF q + 1 = d THEN 0 ELSE q + 1) ELSE q)
       /\ l = (IF w >= q THEN w - q ELSE (w - q) + d) /\ m = (IF x >= y THEN x - y ELSE (x - y) + d)
       /\ l <= d - 4 /\ (p => l <= d - 8) /\ (g => l >= 1)
  BY <1>6, <1>7, <1>8, <1>9, Zenon
<1>11. m = IF p THEN IF g THEN l + 3 ELSE l + 4 ELSE IF g THEN l - 1 ELSE l
  <2>1. d \in Int /\ d >= 16
    BY <1>6
  <2>2. CASE p /\ g
    BY <1>10, <2>1, <2>2
  <2>3. CASE p /\ ~g
    BY <1>10, <2>1, <2>3
  <2>4. CASE ~p /\ g
    BY <1>10, <2>1, <2>4
  <2>5. CASE ~p /\ ~g
    BY <1>10, <2>1, <2>5
  <2> QED
    BY <2>2, <2>3, <2>4, <2>5
<1> QED
  BY <1>8, <1>9, <1>11, Zenon

\* The bursts the ring can take, while no word is taken.
LEMMA RoomMoves ==
  ASSUME DisplayTimely, Placed, Moves, reset, setaddr # "vga", ~Asked
  PROVE  Fits' = IF inputstate = "rcv4" THEN IF Fits = 0 THEN Bursts - 1 ELSE Fits - 1 ELSE Fits
<1>1. /\ Writer \in 0..(4 * Bursts - 1) /\ Writer % 4 = 0 /\ Reader \in 0..(4 * Bursts - 1)
      /\ Bursts \in Nat /\ Bursts >= 4 /\ Depth = 4 * Bursts
  BY Pointers
<1>2. PICK k \in 0..Bursts - 1, j \in 0..Bursts - 1, r \in 0..3 :
            /\ Writer \div 4 = k /\ Reader \div 4 = j
            /\ ((Writer + 4) % (4 * Bursts)) \div 4 = IF k = Bursts - 1 THEN 0 ELSE k + 1
  BY <1>1, RingSplit
<1>3. /\ Writer' = IF inputstate = "rcv4" THEN (Writer + 4) % (4 * Bursts) ELSE Writer
      /\ Reader' = Reader
  BY <1>1 DEF Moves, Advanced
<1>4. /\ Writer' \div 4 = IF inputstate = "rcv4" THEN (IF k = Bursts - 1 THEN 0 ELSE k + 1) ELSE k
      /\ Reader' \div 4 = j
  BY <1>2, <1>3
<1>5. Fits = IF j > k THEN (j - k) - 1 ELSE ((j - k) - 1) + Bursts
  BY <1>2 DEF Fits
<1>6. Fits' = IF j > Writer' \div 4 THEN (j - (Writer' \div 4)) - 1 ELSE ((j - (Writer' \div 4)) - 1) + Bursts
  BY <1>4 DEF Fits
<1>7. CASE inputstate # "rcv4"
  BY <1>4, <1>5, <1>6, <1>7
<1>8. CASE inputstate = "rcv4"
  <2>1. ASSUME NEW f, f = IF j > k THEN (j - k) - 1 ELSE ((j - k) - 1) + Bursts,
               NEW x, x = (IF k = Bursts - 1 THEN 0 ELSE k + 1),
               NEW g, g = IF j > x THEN (j - x) - 1 ELSE ((j - x) - 1) + Bursts
        PROVE  g = IF f = 0 THEN Bursts - 1 ELSE f - 1
    BY <1>1, <1>2, <2>1
  <2> QED
    BY <1>4, <1>5, <1>6, <1>8, <2>1
<1> QED
  BY <1>7, <1>8

\* In the blank rows before a restart the ring is filled, burst by burst.
LEMMA EnoughStep ==
  ASSUME DisplayTimely, Placed, Places, RefreshInv, Enough, Next
  PROVE  Enough'
<1> SUFFICES ASSUME frames' >= 1, LastBlank'
             PROVE  ToFetch' >= HSize - 4 * (Bursts - 1) + 4 * Slack'
  BY DEF Enough
<1>1. Ticks /\ Counters /\ Moves
  BY CacheMoves, DisplayTicks, CountersKnown
<1>2. /\ HSize \in Nat /\ HTotal \in Nat /\ HSize + 34 <= HTotal /\ VSize \in Nat /\ VTotal \in Nat /\ VSize < VTotal
      /\ Bursts \in Nat /\ Bursts >= 4
  BY Geometry
<1>3. /\ newPixel \in BOOLEAN /\ (newPixel => clkDivCnt = 0) /\ xCounter \in 0..HTotal /\ yCounter \in 0..VTotal
      /\ xCounter' = (IF xCounter = HTotal THEN 0 ELSE IF newPixel THEN xCounter + 1 ELSE xCounter)
      /\ yCounter' = (IF xCounter = HTotal THEN NextRow ELSE yCounter)
      /\ setaddr' = "vga" <=> newPixel /\ xCounter = 0 /\ yCounter = VTotal
      /\ setlen' = "vga" <=> newPixel /\ xCounter = HTotal - 20
  BY <1>1 DEF Counters, Ticks
<1>4. setlen = "vga" => xCounter = HTotal - 19 /\ clkDivCnt = 1 /\ dma_len = HSize
  BY DEF Places
<1>5. setaddr # "vga"
  <2> SUFFICES ASSUME setaddr = "vga"
               PROVE  FALSE
    OBVIOUS
  <2>1. xCounter = 1 /\ yCounter = VTotal /\ clkDivCnt = 1
    BY DEF Places
  <2>2. xCounter' = 1 /\ yCounter' = VTotal /\ setaddr' # "vga"
    BY <1>2, <1>3, <2>1
  <2> QED
    BY <1>2, <2>2 DEF LastBlank
<1>6. frames >= 1 /\ reset
  BY <1>1, <1>5 DEF Ticks, Counters, Places
<1>7. setlen # "vga" => LastBlank
  BY <1>2, <1>3 DEF LastBlank, NextRow
<1>8. ~Asked
  BY <1>2, <1>3, <1>4, <1>7 DEF Places, LastBlank
<1>9. Fits' = IF inputstate = "rcv4" THEN IF Fits = 0 THEN Bursts - 1 ELSE Fits - 1 ELSE Fits
  BY <1>1, <1>5, <1>6, <1>8, RoomMoves
<1>10. Fits \in Int /\ Fits >= 0 /\ Fits <= Bursts - 1 /\ (Start => Fits # 0 /\ ~Fetching)
  BY RingForm DEF Start, Fetching
<1>11. Fetching' <=> Start \/ (Fetching /\ inputstate # "rcv4")
  BY <1>1, <1>6 DEF Moves, Fetching
<1>12. PICK f, g : f = Fits /\ g = Fits'
  OBVIOUS
<1>13. /\ g = IF inputstate = "rcv4" THEN IF f = 0 THEN Bursts - 1 ELSE f - 1 ELSE f
       /\ f \in Int /\ f >= 0 /\ f <= Bursts - 1 /\ (Start => f # 0 /\ ~Fetching)
  BY <1>9, <1>10, <1>12, Zenon
<1>14. inputstate = "rcv4" => Fetching
  BY DEF Fetching
<1>15. /\ Slack = IF Fetching THEN IF f = 0 THEN Bursts - 1 ELSE f - 1 ELSE f
       /\ Slack' = IF Fetching' THEN IF g = 0 THEN Bursts - 1 ELSE g - 1 ELSE g
  BY <1>12 DEF Slack
<1>16. PICK s, t : s = Slack /\ t = Slack'
  OBVIOUS
<1>17. /\ s = IF Fetching THEN IF f = 0 THEN Bursts - 1 ELSE f - 1 ELSE f
       /\ t = IF Fetching' THEN IF g = 0 THEN Bursts - 1 ELSE g - 1 ELSE g
  BY <1>15, <1>16, Zenon
<1> HIDE DEF Fetching
<1>18. PICK i \in BOOLEAN, j \in BOOLEAN, b \in BOOLEAN, c \in BOOLEAN :
         (i <=> Fetching) /\ (j <=> Fetching') /\ (b <=> Start) /\ (c <=> inputstate = "rcv4")
  OBVIOUS
<1>19. /\ (j <=> b \/ (i /\ ~c)) /\ (c => i) /\ (b => f # 0 /\ ~i)
       /\ g = (IF c THEN IF f = 0 THEN Bursts - 1 ELSE f - 1 ELSE f)
       /\ s = (IF i THEN IF f = 0 THEN Bursts - 1 ELSE f - 1 ELSE f)
       /\ t = (IF j THEN IF g = 0 THEN Bursts - 1 ELSE g - 1 ELSE g)
       /\ f \in Int /\ f >= 0 /\ f <= Bursts - 1
  BY <1>11, <1>13, <1>14, <1>17, <1>18, Zenon
<1>20. g \in Int /\ g >= 0 /\ g <= Bursts - 1 /\ s \in Int /\ t \in Int /\ t <= Bursts - 1
  BY <1>2, <1>19
<1>21. CASE setlen = "vga"
  <2>1. ToFetch' = HSize
    BY <1>1, <1>4, <1>21 DEF Moves
  <2>2. HSize >= HSize - 4 * (Bursts - 1) + 4 * t
    BY <1>2, <1>20
  <2> QED
    BY <1>16, <2>1, <2>2, Zenon
<1>22. CASE setlen # "vga"
  <2>1. PICK l, m : l = ToFetch /\ m = ToFetch'
    OBVIOUS
  <2>2. /\ m = (IF b THEN l - 4 ELSE l) /\ l \in Int /\ l >= HSize - 4 * (Bursts - 1) + 4 * s
    <3>1. ToFetch' = IF Start THEN ToFetch - 4 ELSE ToFetch
      BY <1>1, <1>6, <1>22 DEF Moves
    <3>2. ToFetch \in Int
      BY Pointers
    <3>3. ToFetch >= HSize - 4 * (Bursts - 1) + 4 * Slack
      BY <1>6, <1>7, <1>22 DEF Enough
    <3> QED
      BY <1>16, <1>18, <2>1, <3>1, <3>2, <3>3, Zenon
  <2>3. IF b THEN t = s - 1 ELSE t = s
    BY <1>2, <1>19, <1>20
  <2>4. m >= HSize - 4 * (Bursts - 1) + 4 * t
    BY <1>2, <1>20, <2>2, <2>3
  <2> QED
    BY <1>16, <2>1, <2>4, Zenon
<1> QED
  BY <1>21, <1>22

\* The words the display still takes in this line or the next.
LEMMA ToShowTicks ==
  ASSUME DisplayTimely, Places, Ticks, Counters
  PROVE  /\ ToShow \in Int /\ ToShow >= 0 /\ ToShow' \in Int /\ ToShow' >= 0 /\ ToShow' <= HSize
         /\ setlen # "vga" => ToShow' <= ToShow - (IF Asked' THEN 1 ELSE 0)
         /\ setlen = "vga" => ~Asked'
         /\ newPixel /\ Visible => ToShow >= 1
<1>1. /\ HSize \in Nat /\ HTotal \in Nat /\ HSize >= 16 /\ HSize + 34 <= HTotal /\ VSize \in Nat /\ VTotal \in Nat /\ VSize < VTotal
  BY Geometry
<1>2. /\ newPixel \in BOOLEAN /\ (newPixel => clkDivCnt = 0) /\ xCounter \in 0..HTotal /\ yCounter \in 0..VTotal
      /\ xCounter' = (IF xCounter = HTotal THEN 0 ELSE IF newPixel THEN xCounter + 1 ELSE xCounter)
      /\ yCounter' = (IF xCounter = HTotal THEN NextRow ELSE yCounter)
      /\ setlen' = "vga" <=> newPixel /\ xCounter = HTotal - 20
      /\ Asked' <=> newPixel /\ xCounter < HSize /\ yCounter < VSize
      /\ xCounter = HTotal => ~newPixel
      /\ setlen = "vga" => xCounter = HTotal - 19 /\ clkDivCnt = 1
  BY DEF Counters, Ticks, Places
<1>3. ToShow \in Int /\ ToShow >= 0 /\ (newPixel /\ Visible => ToShow >= 1)
  BY <1>1, <1>2 DEF ToShow, Visible
<1>4. xCounter' \in Nat
  BY <1>1, <1>2
<1>5. ToShow' \in Int /\ ToShow' >= 0 /\ ToShow' <= HSize
  <2>1. CASE Visible'
    <3>1. ToShow' = HSize - xCounter' /\ xCounter' < HSize
      BY <2>1 DEF ToShow, Visible
    <3>2. xCounter' < HSize
      BY <3>1
    <3>3. ASSUME NEW x \in Nat, x < HSize
          PROVE  HSize - x \in Int /\ HSize - x >= 0 /\ HSize - x <= HSize
      BY <1>1, <3>3
    <3> QED
      BY <1>4, <3>1, <3>2, <3>3, Zenon
  <2>2. CASE ~Visible'
    <3>1. ToShow' = HSize \/ ToShow' = 0
      BY <2>2 DEF ToShow
    <3> QED
      BY <1>1, <3>1
  <2> QED
    BY <2>1, <2>2
<1>6. setlen = "vga" => ~Asked'
  BY <1>1, <1>2
<1>7. ASSUME setlen # "vga"
      PROVE  ToShow' <= ToShow - (IF Asked' THEN 1 ELSE 0)
  <2>1. yCounter' \in Int
    BY <1>1, <1>2 DEF NextRow
  <2>2. CASE Visible
    <3>1. ToShow = HSize - xCounter /\ xCounter # HTotal /\ yCounter' = yCounter /\ (Asked' <=> newPixel)
      BY <1>1, <1>2, <2>2 DEF ToShow, Visible
    <3>2. ~Coming'
      BY <1>1, <1>2, <2>2, <3>1 DEF Coming, Visible
    <3>3. CASE newPixel
      BY <1>1, <1>2, <2>2, <3>1, <3>2, <3>3 DEF ToShow, Visible
    <3>4. CASE ~newPixel
      BY <1>1, <1>2, <2>2, <3>1, <3>2, <3>4 DEF ToShow, Visible
    <3> QED
      BY <3>3, <3>4
  <2>3. CASE ~Visible /\ Coming
    <3>1. ToShow = HSize /\ ~Asked'
      BY <1>1, <1>2, <2>3 DEF ToShow, Coming
    <3> QED
      BY <1>1, <1>5, <3>1
  <2>4. CASE ~Visible /\ ~Coming
    <3>1. ~Asked' /\ ToShow = 0
      BY <1>2, <2>4 DEF ToShow, Visible
    <3>2. CASE xCounter = HTotal
      <4>1. yCounter' = NextRow /\ xCounter' = 0 /\ ~(NextRow < VSize)
        BY <1>1, <1>2, <1>7, <2>4, <3>2 DEF Coming
      <4>2. ~Visible' /\ ~Coming'
        BY <1>1, <4>1 DEF Visible, Coming
      <4> QED
        BY <3>1, <4>2 DEF ToShow
    <3>3. CASE xCounter # HTotal
      <4>1. yCounter' = yCounter /\ xCounter' >= xCounter /\ (xCounter' = xCounter \/ (newPixel /\ xCounter' = xCounter + 1))
        BY <1>1, <1>2, <3>3
      <4>2. ~Visible'
        BY <1>1, <1>2, <2>4, <4>1 DEF Visible
      <4>3. ~Coming'
        <5> SUFFICES ASSUME xCounter' >= HTotal - 19, setlen' # "vga", NextRow' < VSize
                     PROVE  FALSE
          BY DEF Coming
        <5>1. NextRow' = NextRow
          BY <4>1 DEF NextRow
        <5>2. xCounter < HTotal - 19
          BY <1>1, <1>2, <1>7, <2>4, <5>1 DEF Coming
        <5>3. xCounter = HTotal - 20 /\ newPixel
          BY <1>1, <1>2, <4>1, <5>2
        <5> QED
          BY <1>2, <5>3
      <4> QED
        BY <3>1, <4>2, <4>3 DEF ToShow
    <3> QED
      BY <3>2, <3>3
  <2> QED
    BY <2>2, <2>3, <2>4
<1> QED
  BY <1>3, <1>5, <1>6, <1>7

\* When the next word is taken one is there, or comes in this clock.
LEMMA NoStarve ==
  ASSUME DisplayTimely, Placed, Counters, Places, Sync, Surplus, Ring, InTime, Shown, newPixel, Visible, ToShow >= 1, ToShow \in Int
  PROVE  Ready >= 1 \/ inputstate = "rcv4"
<1>1. /\ HSize \in Nat /\ HTotal \in Nat /\ HSize + 34 <= HTotal /\ xCounter \in 0..HTotal /\ clkDivCnt = 0
      /\ Depth \in Nat /\ Depth >= 16 /\ sdram_state \in 0..15
  BY Geometry DEF Counters
<1>2. ~Asked /\ ~Coming
  BY <1>1 DEF Places, Visible, Coming
<1>3. Ready = Lead /\ Lead \in Int
  <2>1. Lead \in Int
    BY RingForm
  <2>2. Ready = Lead - 0
    BY <1>2, Zenon DEF Ready
  <2> QED
    BY <2>1, <2>2
<1>4. ToPixel = 0
  BY DEF ToPixel
<1> SUFFICES ASSUME Ready = 0
             PROVE  inputstate = "rcv4"
  <2>1. Ready >= 0
    BY Zenon DEF Ring
  <2> QED
    BY <1>3, <2>1
<1>5. Lead = 0
  BY <1>3
<1>6. Lasts = 0
  BY <1>2, <1>4 DEF Lasts
<1>7. Fetching \/ Wanted("vga")
  <2> SUFFICES ASSUME ~Fetching
               PROVE  Room("vga") /\ ToFetch # 0
    BY DEF Wanted, ToFetch
  <2>1. Ready + Flight + ToFetch >= 4 + ToShow
    BY Zenon DEF Surplus
  <2>2. Flight = 0 /\ ToFetch \in Nat
    BY Pointers DEF Flight
  <2>3. ToFetch # 0
    BY <2>1, <2>2
  <2>4. Fits \in Int /\ (Room("vga") <=> Fits # 0) /\ 4 * Fits >= (Depth - 7) - Lead
    <3>1. Fits \in Int /\ (Room("vga") <=> Fits # 0)
      BY RingForm
    <3>2. Lead <= Depth - 4 => 4 * Fits >= (Depth - 7) - Lead
      BY RingForm
    <3>3. Lead <= Depth - 4
      BY <1>1, <1>5
    <3> QED
      BY <3>1, <3>2, <3>3, Zenon
  <2>5. Fits # 0
    BY <1>1, <1>5, <2>4
  <2> QED
    BY <2>3, <2>4, <2>5
<1>8. Due <= 0
  <2>1. Zone /\ ToShow > Ready
    BY DEF Zone
  <2>2. Due <= Lasts
    BY <1>7, <2>1, Zenon DEF InTime
  <2> QED
    BY <1>6, <2>2, Zenon
<1>9. Fetching /\ ~Waiting /\ sdram_state >= 13
  <2>1. ToPh2 \in 1..16
    BY <1>1 DEF ToPh2
  <2>2. Block \in 1..32
    BY <2>1 DEF Block
  <2>3. CASE Fetching /\ ~Waiting
    <3>1. Due = 13 - sdram_state
      BY <2>3 DEF Due
    <3> QED
      BY <1>1, <1>8, <2>3, <3>1
  <2>4. CASE ~(Fetching /\ ~Waiting)
    <3>1. Due = Block + 10 \/ Due = 27
      BY <2>4 DEF Due
    <3> QED
      BY <1>8, <2>2, <3>1
  <2> QED
    BY <2>3, <2>4
<1> QED
  BY <1>1, <1>9 DEF Sync, Fetching, Waiting, Given

\* At the restart the ring is emptied, and the first burst of the frame is there to be read.
LEMMA Restarts ==
  ASSUME DisplayTimely, Placed, Places, RefreshInv, Enough, Next, setaddr = "vga", Shown'
  PROVE  /\ frames >= 1 /\ reset /\ setlen # "vga" /\ ~newPixel /\ xCounter' = 1 /\ yCounter' = VTotal
         /\ ~Asked /\ ~Asked' /\ Lead' = 0 /\ ToFetch \in Nat /\ ToFetch >= 4
<1>1. Ticks /\ Counters /\ Moves
  BY CacheMoves, DisplayTicks, CountersKnown
<1>2. /\ HSize \in Nat /\ HTotal \in Nat /\ HSize + 34 <= HTotal /\ HSize >= 16 /\ VSize \in Nat /\ VTotal \in Nat /\ VSize < VTotal
      /\ Bursts \in Nat /\ Bursts >= 4 /\ Depth = 4 * Bursts /\ Depth \in Nat /\ Depth >= 16 /\ Depth <= HSize
  BY Geometry
<1>3. xCounter = 1 /\ yCounter = VTotal /\ clkDivCnt = 1 /\ ~newPixel
  BY <1>1 DEF Places, Counters
<1>4. xCounter' = 1 /\ yCounter' = VTotal /\ ~Asked' /\ ~Asked /\ setlen # "vga" /\ ToFetch \in Nat
  BY <1>1, <1>2, <1>3, Pointers DEF Ticks, Places
<1>5. Lead' = 0
  <2>1. Writer' = 0 /\ Reader' = 0
    BY <1>1, <1>4 DEF Moves
  <2> QED
    BY <2>1 DEF Lead
<1>6. frames >= 1 /\ reset
  <2>1. frames \in 0..2 /\ (frames >= 1 => reset)
    BY <1>1 DEF Counters, Places
  <2>2. frames >= 1 /\ reset
    BY <1>1, <2>1 DEF Ticks, Shown
  <2> QED
    BY <2>2
<1>7. ToFetch >= 4
  <2>1. ToFetch >= HSize - 4 * (Bursts - 1) + 4 * Slack
    BY <1>3, <1>6 DEF Enough, LastBlank
  <2>2. Slack \in Int /\ Slack >= 0
    <3>1. Fits \in Int /\ Fits >= 0
      BY RingForm
    <3> QED
      BY <1>2, <3>1 DEF Slack
  <2>3. ASSUME NEW s \in Int, s >= 0, NEW n \in Nat, n >= HSize - 4 * (Bursts - 1) + 4 * s PROVE n >= 4
    BY <1>2, <2>3
  <2> QED
    BY <1>4, <2>1, <2>2, <2>3, Zenon
<1> QED
  BY <1>3, <1>4, <1>5, <1>6, <1>7

\* So nothing is missing after the restart.
LEMMA Restart ==
  ASSUME DisplayTimely, Placed, Places, RefreshInv, Enough, Next, setaddr = "vga", Shown'
  PROVE  Surplus' /\ Ring'
<1>1. Moves
  BY CacheMoves
<1>2. /\ reset /\ setlen # "vga" /\ xCounter' = 1 /\ yCounter' = VTotal
      /\ ~Asked' /\ Lead' = 0 /\ ToFetch \in Nat /\ ToFetch >= 4
  BY Restarts
<1>3. /\ HSize \in Nat /\ HTotal \in Nat /\ HSize + 34 <= HTotal /\ VSize \in Nat /\ VTotal \in Nat /\ VSize < VTotal
      /\ Depth \in Nat /\ Depth >= 16
  BY Geometry
<1>4. Ready' = 0
  <2>1. Ready' = 0 - 0
    BY <1>2, Zenon DEF Ready
  <2> QED
    BY <2>1
<1>5. ToShow' = 0
  <2>1. ~Visible' /\ ~Coming'
    BY <1>2, <1>3 DEF Visible, Coming
  <2> QED
    BY <2>1 DEF ToShow
<1>6. Flight' = 0 \/ Flight' = 4
  BY DEF Flight
<1>7. Flight' + ToFetch' >= 4 /\ ToFetch' \in Nat
  <2>1. CASE Start
    <3>1. Fetching' /\ ToFetch' = ToFetch - 4
      BY <1>1, <1>2, <2>1 DEF Moves, Fetching, Start
    <3>2. Flight' = 4
      BY <3>1, Zenon DEF Flight
    <3>3. ASSUME NEW n \in Nat, n >= 4 PROVE 4 + (n - 4) >= 4 /\ n - 4 \in Nat
      BY <3>3
    <3> QED
      BY <1>2, <3>1, <3>2, <3>3, Zenon
  <2>2. CASE ~Start
    <3>1. ToFetch' = ToFetch
      BY <1>1, <1>2, <2>2 DEF Moves
    <3>2. ASSUME NEW n \in Nat, n >= 4 PROVE 0 + n >= 4 /\ 4 + n >= 4
      BY <3>2
    <3> QED
      BY <1>2, <1>6, <3>1, <3>2, Zenon
  <2> QED
    BY <2>1, <2>2
<1>8. Ready' + Flight' + ToFetch' >= 4 + ToShow'
  <2>1. ASSUME NEW n \in Nat, NEW f \in {0, 4}, f + n >= 4 PROVE 0 + f + n >= 4 + 0
    BY <2>1
  <2> QED
    BY <1>4, <1>5, <1>6, <1>7, <2>1, Zenon
<1>9. Ready' >= 0 /\ Lead' + Flight' <= Depth - 4
  BY <1>2, <1>3, <1>4, <1>6
<1> QED
  BY <1>8, <1>9, Zenon DEF Surplus, Ring

\* Every word the line still takes is there, comes or can be fetched; the ring is not overrun.
LEMMA FlowStep ==
  ASSUME DisplayTimely, Placed, Places, RefreshInv, Running, Enough, Surplus, Ring, InTime, Next
  PROVE  Surplus' /\ Ring'
<1> SUFFICES ASSUME Shown', setaddr # "vga"
             PROVE  Surplus' /\ Ring'
  <2>1. CASE ~Shown'
    BY <2>1, Zenon DEF Surplus, Ring
  <2>2. CASE Shown' /\ setaddr = "vga"
    BY <2>2, Restart
  <2> QED
    BY <2>1, <2>2
<1>1. Ticks /\ Counters /\ Moves
  BY CacheMoves, DisplayTicks, CountersKnown
<1>2. Shown /\ reset /\ Sync
  BY <1>1 DEF Ticks, Counters, Places, Running, Shown
<1>3. /\ HSize \in Nat /\ Depth \in Nat /\ Depth >= 16
  BY Geometry
<1>4. /\ ToShow \in Int /\ ToShow >= 0 /\ ToShow' \in Int /\ ToShow' >= 0 /\ ToShow' <= HSize
      /\ setlen # "vga" => ToShow' <= ToShow - (IF Asked' THEN 1 ELSE 0)
      /\ setlen = "vga" => ~Asked'
      /\ newPixel /\ Visible => ToShow >= 1
  BY <1>1, ToShowTicks
<1>5. Asked' => Ready >= 1 \/ inputstate = "rcv4"
  <2>1. Asked' => newPixel /\ Visible
    BY <1>1 DEF Ticks, Visible
  <2> QED
    BY <1>1, <1>2, <1>4, <2>1, NoStarve
<1>6. /\ Fits \in Int /\ Fits >= 0 /\ (Room("vga") <=> Fits # 0) /\ Lead \in Int /\ Lead >= 0
      /\ Lead <= Depth - 4 => 4 * Fits <= (Depth - 4) - Lead /\ 4 * Fits >= (Depth - 7) - Lead
  BY RingForm
<1>7. ToFetch \in Nat /\ (ToFetch' \in Nat)
  <2>1. ToFetch \in Nat
    BY Pointers
  <2>2. Placed'
    BY CacheMoves
  <2>3. count' \in [Channel -> 0..MaxLength] /\ MaxLength \in Nat
    BY <2>2, DmaAssumption DEF Placed, Typed, DmaTypeOK
  <2>4. ToFetch' \in Nat
    BY <2>3 DEF ToFetch, Channel
  <2> QED
    BY <2>1, <2>4
<1>8. PICK a \in {0, 1}, g \in {0, 1}, i \in BOOLEAN, c \in BOOLEAN, b \in BOOLEAN :
         /\ a = (IF Asked THEN 1 ELSE 0) /\ g = (IF Asked' THEN 1 ELSE 0)
         /\ (i <=> Fetching) /\ (c <=> inputstate = "rcv4") /\ (b <=> Start)
  OBVIOUS
<1>9. Ready = Lead - a /\ Flight = (IF i THEN 4 ELSE 0)
  BY <1>8, Zenon DEF Ready, Flight
<1>10. /\ Lead - a >= 0 /\ Lead + (IF i THEN 4 ELSE 0) <= Depth - 4
       /\ (Lead - a) + (IF i THEN 4 ELSE 0) + ToFetch >= 4 + ToShow
  BY <1>2, <1>9, Zenon DEF Ring, Surplus
<1>11. c => i
  BY <1>8 DEF Fetching
<1>12. Lead <= Depth - 4 /\ (c => Lead <= Depth - 8) /\ (a = 1 => Lead >= 1)
  <2>1. ASSUME NEW l \in Int, l - a >= 0, l + (IF i THEN 4 ELSE 0) <= Depth - 4
        PROVE  l <= Depth - 4 /\ (c => l <= Depth - 8) /\ (a = 1 => l >= 1)
    BY <1>3, <1>11, <2>1
  <2> QED
    BY <1>6, <1>10, <2>1, Zenon
<1>13. b => ~i /\ Lead <= Depth - 8
  <2>1. b => ~i /\ Room("vga")
    BY <1>8 DEF Start, Fetching
  <2>2. ASSUME NEW f \in Int, f >= 0, f # 0, NEW l \in Int, 4 * f <= (Depth - 4) - l PROVE l <= Depth - 8
    BY <1>3, <2>2
  <2> QED
    BY <1>6, <1>12, <2>1, <2>2, Zenon
<1>14. Lead' = IF c THEN (Lead - a) + 4 ELSE Lead - a
  <2>1. Lead' = IF inputstate = "rcv4" THEN IF Asked THEN Lead + 3 ELSE Lead + 4 ELSE IF Asked THEN Lead - 1 ELSE Lead
    <3>1. (Asked => Lead >= 1) /\ (inputstate = "rcv4" => Lead <= Depth - 8)
      BY <1>8, <1>12
    <3> QED
      BY <1>1, <1>2, <1>12, <3>1, RingMoves
  <2>2. ASSUME NEW l \in Int
        PROVE  (l - 1) + 4 = l + 3 /\ (l - 0) + 4 = l + 4 /\ l - 0 = l
    OBVIOUS
  <2> QED
    BY <1>6, <1>8, <2>1, <2>2, Zenon
<1>15. Ready' = Lead' - g /\ Flight' = (IF b \/ (i /\ ~c) THEN 4 ELSE 0)
  <2>1. Fetching' <=> Start \/ (Fetching /\ inputstate # "rcv4")
    BY <1>1, <1>2 DEF Moves, Fetching, Start
  <2>2. Fetching' <=> b \/ (i /\ ~c)
    BY <1>8, <2>1
  <2> QED
    BY <1>8, <2>2, Zenon DEF Ready, Flight
<1>16. g = 1 => Lead - a >= 1 \/ c
  <2>1. g = 1 => Asked'
    BY <1>8
  <2> QED
    BY <1>5, <1>8, <1>9, <2>1, Zenon
<1>17. \/ ToFetch' = (IF b THEN ToFetch - 4 ELSE ToFetch) /\ ToShow' <= ToShow - g
       \/ g = 0 /\ ToFetch' >= ToShow' /\ (~i => b \/ Lead - a >= 4)
  <2>1. CASE setlen # "vga"
    <3>1. ToFetch' = (IF b THEN ToFetch - 4 ELSE ToFetch)
      BY <1>1, <1>2, <1>8, <2>1 DEF Moves
    <3>2. ToShow' <= ToShow - g
      BY <1>4, <1>8, <2>1, Zenon
    <3> QED
      BY <3>1, <3>2
  <2>2. CASE setlen = "vga"
    <3>1. ToFetch' = HSize
      BY <1>1, <2>2 DEF Moves, Places
    <3>2. ToFetch' >= ToShow'
      <4>1. ASSUME NEW r \in Int, r <= HSize PROVE HSize >= r
        BY <1>3, <4>1
      <4> QED
        BY <1>4, <3>1, <4>1, Zenon
    <3>3. g = 0
      BY <1>4, <1>8, <2>2, Zenon
    <3>4. ASSUME ~i, ~b
          PROVE  Lead - a >= 4
      <4>1. Fits = 0 \/ ToFetch = 0
        BY <1>6, <1>8, <3>4 DEF Start, Fetching
      <4>2. CASE ToFetch = 0
        <5>1. ASSUME NEW l \in Int, NEW r \in Int, r >= 0, (l - a) + 0 + 0 >= 4 + r PROVE l - a >= 4
          BY <5>1
        <5> QED
          BY <1>4, <1>6, <1>10, <3>4, <4>2, <5>1, Zenon
      <4>3. CASE Fits = 0
        <5>1. ASSUME NEW l \in Int, NEW e \in {0, 1}, 4 * 0 >= (Depth - 7) - l PROVE l - e >= 4
          BY <1>3, <5>1
        <5> QED
          BY <1>6, <1>8, <1>12, <4>3, <5>1, Zenon
      <4> QED
        BY <4>1, <4>2, <4>3
    <3> QED
      BY <3>2, <3>3, <3>4
  <2> QED
    BY <2>1, <2>2
<1>18. PICK l \in Int, n \in Int, r \in Int, s \in Int, o \in Int : l = Lead /\ n = ToFetch /\ r = ToShow /\ s = ToShow' /\ o = ToFetch'
  <2>1. ToFetch \in Int /\ ToFetch' \in Int
    BY <1>7
  <2> QED
    BY <1>4, <1>6, <2>1, Zenon
<1>19. PICK m : m = Lead'
  OBVIOUS
<1>20. /\ l - a >= 0 /\ l + (IF i THEN 4 ELSE 0) <= Depth - 4 /\ (l - a) + (IF i THEN 4 ELSE 0) + n >= 4 + r
       /\ (c => i) /\ (b => ~i /\ l <= Depth - 8)
       /\ m = (IF c THEN (l - a) + 4 ELSE l - a)
       /\ g = 1 => l - a >= 1 \/ c
       /\ \/ o = (IF b THEN n - 4 ELSE n) /\ s <= r - g
          \/ g = 0 /\ o >= s /\ (~i => b \/ l - a >= 4)
  BY <1>10, <1>11, <1>13, <1>14, <1>16, <1>17, <1>18, <1>19, Zenon
<1>21. /\ m - g >= 0 /\ m + (IF b \/ (i /\ ~c) THEN 4 ELSE 0) <= Depth - 4
       /\ (m - g) + (IF b \/ (i /\ ~c) THEN 4 ELSE 0) + o >= 4 + s
  <2>1. a \in {0, 1} /\ g \in {0, 1}
    BY <1>8
  <2>2. CASE c
    BY <1>3, <1>20, <2>1, <2>2
  <2>3. CASE ~c /\ i
    BY <1>3, <1>20, <2>1, <2>3
  <2>4. CASE ~c /\ ~i /\ b
    BY <1>3, <1>20, <2>1, <2>4
  <2>5. CASE ~c /\ ~i /\ ~b
    BY <1>3, <1>20, <2>1, <2>5
  <2> QED
    BY <2>2, <2>3, <2>4, <2>5
<1>22. /\ Lead' - g >= 0 /\ Lead' + (IF b \/ (i /\ ~c) THEN 4 ELSE 0) <= Depth - 4
       /\ (Lead' - g) + (IF b \/ (i /\ ~c) THEN 4 ELSE 0) + ToFetch' >= 4 + ToShow'
  BY <1>18, <1>19, <1>21, Zenon
<1> QED
  BY <1>15, <1>22, Zenon DEF Surplus, Ring

\* The burst the display waits for, from the request to the grant.
LEMMA Asks ==
  ASSUME Placed, Serves, Moves, Sync, reset, init_done, sdram_state \in 0..15
  PROVE  /\ Start => ~Waiting /\ ~Fetching
         /\ Waiting' <=> Start \/ (Waiting /\ ~vga_ack')
         /\ Given' <=> vga_ack' \/ (Given /\ sdram_state < 13)
         /\ vga_ack => Given /\ ~Waiting /\ sdram_state = 3
         /\ vga_ack' => sdram_state = 2 /\ ~Start
         /\ Fetching /\ ~Waiting => Given /\ (inputstate = "rcv4" <=> sdram_state = 13)
         /\ Fetching' <=> Start \/ (Fetching /\ inputstate # "rcv4")
         /\ Waiting => Fetching /\ sdram_req /\ inputstate = "rcv1"
<1>1. /\ inputstate' = IF Start THEN "rcv1" ELSE IF inputstate = "rcv1" /\ vga_fill THEN "rcv2" ELSE IF inputstate = "rcv2" THEN "rcv3"
                       ELSE IF inputstate = "rcv3" THEN "rcv4" ELSE IF inputstate = "rcv4" THEN "rd1" ELSE inputstate
      /\ Start => inputstate = "rd1"
  BY DEF Moves, Start
<1>2. /\ sdram_state' = (sdram_state + 1) % 16
      /\ vga_ack' <=> sdram_state = 2 /\ Grants
      /\ IF sdram_state = 2 THEN sdram_slot1' = "port0" <=> Grants ELSE sdram_slot1' = sdram_slot1
      /\ Grants => sdram_req
  BY DEF Serves, Grants
<1>3. /\ sdram_state = 15 => sdram_state' = 0
      /\ sdram_state # 15 => sdram_state' = sdram_state + 1
  BY <1>2
<1>4. Given' <=> vga_ack' \/ (Given /\ sdram_state < 13)
  <2>1. CASE sdram_state = 15
    BY <1>2, <1>3, <2>1 DEF Given
  <2>2. CASE sdram_state = 2
    BY <1>2, <1>3, <2>2 DEF Given
  <2>3. CASE sdram_state # 2 /\ sdram_state # 15
    BY <1>2, <1>3, <2>3 DEF Given
  <2> QED
    BY <2>1, <2>2, <2>3
<1>5. Start => ~Waiting /\ ~Fetching
  BY <1>1 DEF Waiting, Fetching
<1>6. Sync => /\ vga_ack => inputstate = "rcv1" /\ Given /\ sdram_state = 3
              /\ inputstate = "rd1" => ~sdram_req
              /\ Waiting => sdram_req /\ ~vga_fill
              /\ inputstate = "rcv1" /\ Given => (vga_fill <=> sdram_state = 10) /\ sdram_state <= 10
              /\ inputstate # "rd1" /\ ~Waiting => Given
              /\ inputstate \in {"rd1", "rcv1", "rcv2", "rcv3", "rcv4"}
              /\ inputstate = "rcv4" => sdram_state = 13
              /\ inputstate = "rcv2" => sdram_state = 11
              /\ inputstate = "rcv3" => sdram_state = 12
  BY DEF Sync, Settled, Waiting
<1>7. vga_ack' => sdram_state = 2 /\ ~Start
  BY <1>1, <1>2, <1>6
<1>8. Fetching /\ ~Waiting => Given /\ (inputstate = "rcv4" <=> sdram_state = 13)
  <2> SUFFICES ASSUME Fetching, ~Waiting
               PROVE  Given /\ (inputstate = "rcv4" <=> sdram_state = 13)
    OBVIOUS
  <2>1. Given
    BY <1>6 DEF Fetching
  <2> QED
    BY <1>6, <2>1 DEF Fetching
<1>9. Waiting' <=> Start \/ (Waiting /\ ~vga_ack')
  <2>1. CASE Start
    BY <1>1, <1>4, <1>6, <1>7, <2>1 DEF Waiting, Sync, Settled
  <2>2. CASE ~Start /\ Waiting
    <3>1. inputstate' = "rcv1" /\ ~Given
      BY <1>1, <1>6, <2>2 DEF Waiting
    <3> QED
      BY <1>4, <2>2, <3>1 DEF Waiting
  <2>3. CASE ~Start /\ ~Waiting
    <3> SUFFICES ASSUME Waiting'
                 PROVE  FALSE
      BY <2>3
    <3>1. inputstate = "rcv1" /\ ~vga_fill
      BY <1>1, <1>6, <2>3 DEF Waiting
    <3>2. Given /\ sdram_state < 13
      BY <1>6, <2>3, <3>1 DEF Waiting
    <3> QED
      BY <1>4, <3>2 DEF Waiting
  <2> QED
    BY <2>1, <2>2, <2>3
<1>10. Fetching' <=> Start \/ (Fetching /\ inputstate # "rcv4")
  BY <1>1, <1>6 DEF Fetching
<1>11. (vga_ack => Given /\ ~Waiting /\ sdram_state = 3) /\ (Waiting => Fetching /\ sdram_req /\ inputstate = "rcv1")
  BY <1>6 DEF Waiting, Fetching
<1> QED
  BY <1>4, <1>5, <1>7, <1>8, <1>9, <1>10, <1>11

\* The line that is asked for next stays what it is, from one grant to the next.
LEMMA NextKept ==
  ASSUME Placed, Placed', Serves, Moves, Sync, reset, init_done, sdram_state \in 0..15, setaddr # "vga"
  PROVE  /\ vga_ack => ~Stale'
         /\ ~vga_ack /\ ~vga_ack' => NextBurst' = NextBurst /\ vga_reserveaddr' = vga_reserveaddr
<1>1. /\ Start => ~Waiting
      /\ Waiting' <=> Start \/ (Waiting /\ ~vga_ack')
      /\ vga_ack => Given /\ ~Waiting /\ sdram_state = 3
      /\ vga_ack' => sdram_state = 2
      /\ Waiting => inputstate = "rcv1"
  BY Asks
<1>2. /\ addr'["vga"] = IF Start THEN Following[addr["vga"]] ELSE addr["vga"]
      /\ sdram_addr' = IF Start THEN addr["vga"] ELSE sdram_addr
      /\ sdram_reserveaddr' = IF vga_ack THEN addr["vga"] ELSE sdram_reserveaddr
      /\ Start => inputstate = "rd1"
  BY DEF Moves, Start
<1>3. vga_reserveaddr = sdram_reserveaddr /\ vga_reserveaddr' = sdram_reserveaddr'
  BY DEF Placed, Wired
<1>4. vga_ack => ~Stale'
  <2> SUFFICES ASSUME vga_ack
               PROVE  vga_reserveaddr' = NextBurst'
    BY DEF Stale
  <2>1. ~Start /\ ~Waiting'
    BY <1>1, <1>2 DEF Sync, Settled
  <2>2. NextBurst' = addr'["vga"] /\ addr'["vga"] = addr["vga"]
    BY <1>2, <2>1 DEF NextBurst
  <2> QED
    BY <1>2, <1>3, <2>2
<1>5. ASSUME ~vga_ack, ~vga_ack'
      PROVE  NextBurst' = NextBurst
  <2>1. CASE Start
    BY <1>1, <1>2, <2>1 DEF NextBurst
  <2>2. CASE ~Start
    BY <1>1, <1>2, <1>5, <2>2 DEF NextBurst
  <2> QED
    BY <2>1, <2>2
<1> QED
  BY <1>2, <1>3, <1>4, <1>5

\* The words that are there, as one is asked for and a burst comes to its end.
LEMMA ReadyMoves ==
  ASSUME DisplayTimely, Placed, Moves, Ring, Shown, reset, setaddr # "vga"
  PROVE  /\ Lead \in Int /\ Ready \in Int /\ Ready' \in Int /\ Ready >= 0 /\ Lead <= Depth - 4 /\ Ready >= Lead - 1
         /\ Lead' = IF inputstate = "rcv4" THEN IF Asked THEN Lead + 3 ELSE Lead + 4
                    ELSE IF Asked THEN Lead - 1 ELSE Lead
         /\ Ready' = (Ready - (IF Asked' THEN 1 ELSE 0)) + (IF inputstate = "rcv4" THEN 4 ELSE 0)
<1>1. Depth \in Nat /\ Depth >= 16
  BY Geometry
<1>2. Lead \in Int /\ Lead >= 0
  BY RingForm
<1>3. PICK a \in {0, 1}, g \in {0, 1}, i \in BOOLEAN, c \in BOOLEAN :
         /\ a = (IF Asked THEN 1 ELSE 0) /\ g = (IF Asked' THEN 1 ELSE 0)
         /\ (i <=> Fetching) /\ (c <=> inputstate = "rcv4")
  OBVIOUS
<1>4. Ready = Lead - a /\ Flight = (IF i THEN 4 ELSE 0) /\ Ready' = Lead' - g
  BY <1>3, Zenon DEF Ready, Flight
<1>5. Lead - a >= 0 /\ Lead + (IF i THEN 4 ELSE 0) <= Depth - 4
  BY <1>4, Zenon DEF Ring
<1>6. c => i
  BY <1>3 DEF Fetching
<1>7. ASSUME NEW l \in Int, l - a >= 0, l + (IF i THEN 4 ELSE 0) <= Depth - 4
      PROVE  l <= Depth - 4 /\ (c => l <= Depth - 8) /\ (a = 1 => l >= 1) /\ l - a >= l - 1
  BY <1>1, <1>3, <1>6, <1>7
<1>8. Lead <= Depth - 4 /\ (c => Lead <= Depth - 8) /\ (a = 1 => Lead >= 1) /\ Lead - a >= Lead - 1
  BY <1>2, <1>5, <1>7, Zenon
<1>9. Lead' = IF inputstate = "rcv4" THEN IF Asked THEN Lead + 3 ELSE Lead + 4 ELSE IF Asked THEN Lead - 1 ELSE Lead
  <2>1. (Asked => Lead >= 1) /\ (inputstate = "rcv4" => Lead <= Depth - 8)
    BY <1>3, <1>8
  <2> QED
    BY <1>8, <2>1, RingMoves
<1>10. PICK l \in Int : l = Lead
  BY <1>2
<1>11. PICK m : m = Lead'
  OBVIOUS
<1>12. m = IF c THEN IF a = 1 THEN l + 3 ELSE l + 4 ELSE IF a = 1 THEN l - 1 ELSE l
  BY <1>3, <1>9, <1>10, <1>11
<1>13. m - g = ((l - a) - g) + (IF c THEN 4 ELSE 0) /\ m - g \in Int /\ l - a \in Int
  BY <1>3, <1>12
<1>14. Ready' = (Ready - g) + (IF c THEN 4 ELSE 0) /\ Ready' \in Int /\ Ready \in Int
  BY <1>4, <1>10, <1>11, <1>13, Zenon
<1>15. Ready' = (Ready - (IF Asked' THEN 1 ELSE 0)) + (IF inputstate = "rcv4" THEN 4 ELSE 0)
  BY <1>3, <1>14, Zenon
<1> QED
  BY <1>2, <1>4, <1>5, <1>8, <1>9, <1>14, <1>15, Zenon

\* What holds in every clock from the second restart on.
LEMMA Underway ==
  ASSUME DisplayTimely, Placed, Slot2Free, Places, RefreshInv, Running, Next, Shown', setaddr # "vga"
  PROVE  /\ Ticks /\ Counters /\ Serves /\ Moves /\ Placed' /\ Shown /\ reset /\ init_done /\ Sync
         /\ sdram_state \in 0..15 /\ sdram_state' = (sdram_state + 1) % 16
<1>1. Ticks /\ Counters /\ Serves /\ Moves /\ Placed'
  BY ControllerServes, CacheMoves, DisplayTicks, CountersKnown
<1>2. Shown /\ reset /\ init_done /\ Sync
  BY <1>1 DEF Ticks, Counters, Places, Running, Shown
<1>3. sdram_state \in 0..15 /\ sdram_state' = (sdram_state + 1) % 16
  BY <1>1, <1>2 DEF Serves, Counters
<1> QED
  BY <1>1, <1>2, <1>3

\* A reservation that is not yet made, after the restart.
LEMMA ReserveRestart ==
  ASSUME DisplayTimely, Placed, Slot2Free, Places, RefreshInv, Running, Enough, Next, setaddr = "vga", Shown', Sync'
  PROVE  Reserve'
<1>1. Ticks /\ Counters /\ Serves /\ Moves
  BY ControllerServes, CacheMoves, DisplayTicks, CountersKnown
<1>2. /\ reset /\ setlen # "vga" /\ xCounter' = 1 /\ yCounter' = VTotal /\ Lead' = 0 /\ ToFetch \in Nat /\ ToFetch >= 4
  BY Restarts
<1>3. init_done /\ Sync
  BY <1>2 DEF Running
<1>4. /\ HSize \in Nat /\ HSize >= 16
  BY Geometry
<1>5. sdram_state \in 0..15 /\ sdram_state' = (sdram_state + 1) % 16
  BY <1>1, <1>3 DEF Counters, Serves
<1>6. ~Waiting' => ToFetch' # 0
  <2>1. sdram_state \in 0..15 /\ reset
    BY <1>2, <1>5
  <2>2. Start => Waiting'
    BY <1>1, <1>3, <2>1, Asks, Zenon
  <2>3. ~Start => ToFetch' = ToFetch
    BY <1>1, <1>2 DEF Moves
  <2> QED
    BY <1>2, <2>2, <2>3
<1>7. ToPixel' \in Nat
  BY <1>1, PixelTicks
<1>8. DueStart' \in Int /\ DueStart' <= 15
  <2>1. sdram_state' \in 0..15
    BY <1>5
  <2>2. DueStart' = 15 - sdram_state' \/ DueStart' = 1
    BY DEF DueStart
  <2>3. ASSUME NEW s \in 0..15, NEW d, d = 15 - s \/ d = 1
        PROVE  d \in Int /\ d <= 15
    BY <2>3
  <2> QED
    BY <2>1, <2>2, <2>3, Zenon
<1>9. 5 * (HSize - xCounter') + ToPixel' >= 20 + DueStart'
  <2>1. PICK t \in Nat, d \in Int : t = ToPixel' /\ d = DueStart'
    BY <1>7, <1>8
  <2>2. d <= 15
    BY <1>8, <2>1
  <2>3. 5 * (HSize - 1) + t >= 20 + d
    BY <1>4, <2>2
  <2> QED
    BY <1>2, <2>1, <2>3, Zenon
<1>10. 1 <= xCounter' /\ xCounter' < HSize /\ ~(xCounter' > HSize)
  BY <1>2, <1>4
<1>11. Lead' <= 4
  BY <1>2
<1> QED
  BY <1>2, <1>6, <1>9, <1>10, <1>11, Zenon DEF Reserve

\* A reservation that was made stays right; one that is missing waits for the refresh.
LEMMA ReserveStep ==
  ASSUME DisplayTimely, Placed, Slot2Free, Places, RefreshInv, Running, Enough, Ring, Reserve, Next, Sync'
  PROVE  Reserve'
<1> SUFFICES ASSUME Shown', Stale', setaddr # "vga"
             PROVE  Reserve'
  BY ReserveRestart DEF Reserve
<1>1. /\ Ticks /\ Counters /\ Serves /\ Moves /\ Placed' /\ Shown /\ reset /\ init_done /\ Sync
      /\ sdram_state \in 0..15 /\ sdram_state' = (sdram_state + 1) % 16
  BY Underway
<1>2. /\ HSize \in Nat /\ HSize >= 16 /\ HTotal \in Nat /\ HSize + 34 <= HTotal /\ VSize \in Nat /\ VTotal \in Nat /\ VSize < VTotal
      /\ Depth \in Nat /\ Depth >= 16
  BY Geometry
<1>3. ~vga_ack' /\ Stale
  <2>1. ~vga_ack'
    BY DEF Stale
  <2>2. ~vga_ack
    BY <1>1, NextKept
  <2>3. NextBurst' = NextBurst /\ vga_reserveaddr' = vga_reserveaddr
    BY <1>1, <2>1, <2>2, NextKept
  <2> QED
    BY <2>1, <2>2, <2>3 DEF Stale
<1>4. /\ yCounter = VTotal /\ 1 <= xCounter
      /\ xCounter > HSize => vga_refresh \/ Pending \/ Sending
      /\ ~Waiting => xCounter < HSize /\ 5 * (HSize - xCounter) + ToPixel >= 20 + DueStart
      /\ ~Waiting => ToFetch # 0 /\ Lead <= 4 /\ (Fetching => Lead = 0)
  BY <1>1, <1>3, Zenon DEF Reserve
<1>5. /\ newPixel \in BOOLEAN /\ xCounter \in 0..HTotal
      /\ xCounter' = (IF xCounter = HTotal THEN 0 ELSE IF newPixel THEN xCounter + 1 ELSE xCounter)
      /\ yCounter' = (IF xCounter = HTotal THEN NextRow ELSE yCounter)
      /\ vga_refresh' <=> newPixel /\ xCounter = HSize
      /\ setlen = "vga" => xCounter = HTotal - 19
      /\ Asked => yCounter < VSize
  BY <1>1 DEF Ticks, Counters, Places
<1>6. xCounter # HTotal
  <2> SUFFICES ASSUME xCounter = HTotal
               PROVE  FALSE
    OBVIOUS
  <2>1. xCounter > HSize /\ xCounter >= HTotal - 19
    BY <1>2
  <2>2. ~refreshpending /\ ~Sending /\ ~vga_refresh
    BY <1>1, <2>1, Calm
  <2> QED
    BY <1>4, <2>1, <2>2 DEF Pending
<1>7. xCounter' \in Nat /\ 1 <= xCounter' /\ yCounter' = VTotal
  BY <1>2, <1>4, <1>5, <1>6
<1>8. Waiting' <=> Start \/ Waiting
  BY <1>1, <1>3, Asks
<1>9. ASSUME xCounter' > HSize
      PROVE  vga_refresh' \/ Pending' \/ Sending'
  <2>1. CASE xCounter = HSize
    BY <1>2, <1>5, <1>6, <1>9, <2>1
  <2>2. CASE xCounter # HSize
    <3>1. xCounter > HSize
      BY <1>2, <1>5, <1>6, <1>9, <2>2
    <3>2. vga_refresh \/ Pending \/ Sending
      BY <1>4, <3>1
    <3>3. Waiting
      BY <1>2, <1>4, <1>5, <3>1
    <3>4. /\ refreshpending' <=> sdram_slot1 # "refresh" /\ (refreshpending \/ vga_refresh)
          /\ sdram_state = 2 => (sdram_slot1' = "refresh" <=> RefreshWins)
          /\ sdram_state # 2 => sdram_slot1' = sdram_slot1
          /\ sdram_state = 2 => ~Grants
      BY <1>1, <1>3 DEF Serves
    <3>5. vga_refresh => sdram_slot1 # "refresh"
      BY <1>1 DEF RefreshInv, RefreshKept
    <3>6. CASE sdram_slot1 # "refresh"
      BY <3>2, <3>4, <3>6 DEF Pending, Sending
    <3>7. CASE sdram_slot1 = "refresh" /\ sdram_state # 2
      BY <3>4, <3>7 DEF Sending
    <3>8. CASE sdram_slot1 = "refresh" /\ sdram_state = 2
      <4>1. sdram_slot2 = "idle"
        BY <3>8 DEF Slot2Free, Sending
      <4>2. sdram_req
        BY <1>1, <3>3, Asks
      <4>3. RefreshWins
        BY <3>4, <3>8, <4>1, <4>2 DEF Grants
      <4> QED
        BY <3>4, <3>8, <4>3 DEF Sending
    <3> QED
      BY <3>6, <3>7, <3>8
  <2> QED
    BY <2>1, <2>2
<1>10. ASSUME ~Waiting'
       PROVE  /\ xCounter' < HSize /\ 5 * (HSize - xCounter') + ToPixel' >= 20 + DueStart'
              /\ ToFetch' # 0 /\ Lead' <= 4 /\ (Fetching' => Lead' = 0)
  <2>1. /\ ~Waiting /\ ~Start /\ xCounter < HSize /\ ToFetch # 0 /\ Lead <= 4 /\ (Fetching => Lead = 0)
        /\ 5 * (HSize - xCounter) + ToPixel >= 20 + DueStart
    BY <1>4, <1>8, <1>10
  <2>2. Fetching
    <3> SUFFICES ASSUME ~Fetching
                 PROVE  FALSE
      OBVIOUS
    <3>1. Fits \in Int /\ (Room("vga") <=> Fits # 0) /\ Lead \in Int
      BY RingForm
    <3>2. Lead <= Depth - 4 => 4 * Fits >= (Depth - 7) - Lead
      BY RingForm
    <3>3. Lead <= Depth - 4
      BY <1>2, <2>1, <3>1
    <3>4. 4 * Fits >= (Depth - 7) - Lead
      BY <3>2, <3>3
    <3>5. ASSUME NEW l \in Int, l <= 4, NEW f \in Int, 4 * f >= (Depth - 7) - l PROVE f # 0
      BY <1>2, <3>5
    <3>6. Fits # 0
      BY <2>1, <3>1, <3>4, <3>5, Zenon
    <3> QED
      BY <2>1, <3>1, <3>6 DEF Start, Fetching
  <2>3. Given /\ (inputstate = "rcv4" <=> sdram_state = 13) /\ (Fetching' <=> inputstate # "rcv4")
    BY <1>1, <2>1, <2>2, Asks
  <2>4. DueStart = 15 - sdram_state /\ DueStart' = DueStart - 1
    <3>1. sdram_state \in 3..13
      BY <2>3 DEF Given
    <3>2. sdram_state' = sdram_state + 1
      BY <1>1, <3>1
    <3>3. DueStart = 15 - sdram_state
      BY <2>2 DEF DueStart
    <3>4. CASE sdram_state = 13
      BY <2>3, <3>3, <3>4 DEF DueStart
    <3>5. CASE sdram_state # 13
      <4>1. DueStart' = 15 - sdram_state'
        BY <2>3, <3>5 DEF DueStart
      <4> QED
        BY <3>1, <3>2, <3>3, <4>1
    <3> QED
      BY <3>3, <3>4, <3>5
  <2>5. /\ 5 * (HSize - xCounter) + ToPixel \in Int /\ 5 * (HSize - xCounter') + ToPixel' \in Int
        /\ 5 * (HSize - xCounter') + ToPixel' >= (5 * (HSize - xCounter) + ToPixel) - 1
    BY <1>1, <1>2, <1>6, UntilTicks
  <2>6. DueStart \in Int /\ DueStart >= 2
    BY <2>3, <2>4 DEF Given
  <2>7. 5 * (HSize - xCounter') + ToPixel' >= 20 + DueStart'
    <3>1. ASSUME NEW u \in Int, NEW v \in Int, NEW d \in Int, v >= u - 1, u >= 20 + d PROVE v >= 20 + (d - 1)
      BY <3>1
    <3> QED
      BY <2>1, <2>4, <2>5, <2>6, <3>1, Zenon
  <2>8. xCounter' < HSize
    <3>1. CASE newPixel
      <4>1. ToPixel = 0
        BY <3>1 DEF ToPixel
      <4>2. 5 * (HSize - xCounter) + 0 >= 20 + DueStart
        BY <2>1, <4>1, Zenon
      <4>3. ASSUME NEW d \in Int, d >= 2, 5 * (HSize - xCounter) + 0 >= 20 + d PROVE xCounter + 1 < HSize
        BY <1>2, <1>5, <4>3
      <4>4. xCounter + 1 < HSize
        BY <2>6, <4>2, <4>3, Zenon
      <4> QED
        BY <1>5, <1>6, <3>1, <4>4
    <3>2. CASE ~newPixel
      BY <1>5, <1>6, <2>1, <3>2
    <3> QED
      BY <3>1, <3>2
  <2>9. ToFetch' # 0
    <3>1. setlen # "vga"
      BY <1>2, <1>5, <2>1
    <3> QED
      BY <1>1, <2>1, <3>1 DEF Moves
  <2>10. Lead' = IF inputstate = "rcv4" THEN 4 ELSE 0
    <3>1. ~Asked
      BY <1>2, <1>4, <1>5
    <3>2. Lead' = IF inputstate = "rcv4" THEN IF Asked THEN Lead + 3 ELSE Lead + 4 ELSE IF Asked THEN Lead - 1 ELSE Lead
      BY <1>1, ReadyMoves
    <3>3. Lead = 0
      BY <2>1, <2>2
    <3> QED
      BY <3>1, <3>2, <3>3
  <2>11. Lead' <= 4 /\ (Fetching' => Lead' = 0)
    BY <2>3, <2>10
  <2> QED
    BY <2>7, <2>8, <2>9, <2>11
<1> QED
  BY <1>7, <1>9, <1>10, Zenon DEF Reserve

\* The display is about to take words from the clock in which the length is set to the end of the line.
LEMMA ZoneTicks ==
  ASSUME DisplayTimely, Places, Ticks, Counters, Zone'
  PROVE  /\ setaddr # "vga"
         /\ setlen = "vga" => ~Zone /\ Coming' /\ xCounter' = HTotal - 19
         /\ setlen # "vga" => Zone
<1>1. /\ HSize \in Nat /\ HTotal \in Nat /\ HSize + 34 <= HTotal /\ VSize \in Nat /\ VTotal \in Nat /\ VSize < VTotal /\ HSize >= 16
  BY Geometry
<1>2. /\ newPixel \in BOOLEAN /\ (newPixel => clkDivCnt = 0) /\ xCounter \in 0..HTotal /\ yCounter \in 0..VTotal
      /\ xCounter' = (IF xCounter = HTotal THEN 0 ELSE IF newPixel THEN xCounter + 1 ELSE xCounter)
      /\ yCounter' = (IF xCounter = HTotal THEN NextRow ELSE yCounter)
      /\ setlen' = "vga" <=> newPixel /\ xCounter = HTotal - 20
      /\ setlen = "vga" => xCounter = HTotal - 19 /\ clkDivCnt = 1
      /\ setaddr = "vga" => xCounter = 1 /\ yCounter = VTotal /\ clkDivCnt = 1
  BY DEF Counters, Ticks, Places
<1>3. Visible' \/ Coming'
  BY DEF Zone
<1>4. setaddr # "vga"
  <2> SUFFICES ASSUME setaddr = "vga"
               PROVE  FALSE
    OBVIOUS
  <2>1. xCounter' = 1 /\ yCounter' = VTotal
    BY <1>1, <1>2
  <2> QED
    BY <1>1, <1>3, <2>1 DEF Visible, Coming
<1>5. ASSUME setlen = "vga"
      PROVE  ~Zone /\ Coming' /\ xCounter' = HTotal - 19
  <2>1. xCounter = HTotal - 19 /\ ~newPixel /\ xCounter' = HTotal - 19
    BY <1>1, <1>2, <1>5
  <2>2. ~Visible /\ ~Visible'
    BY <1>1, <2>1 DEF Visible
  <2>3. ~Coming
    BY <1>5 DEF Coming
  <2> QED
    BY <1>3, <2>1, <2>2, <2>3 DEF Zone
<1>6. ASSUME setlen # "vga", ~Zone
      PROVE  FALSE
  <2>1. ~Visible /\ ~Coming
    BY <1>6 DEF Zone
  <2>2. CASE xCounter = HTotal
    <3>1. yCounter' = NextRow /\ xCounter' = 0 /\ ~(NextRow < VSize)
      BY <1>1, <1>2, <1>6, <2>1, <2>2 DEF Coming
    <3> QED
      BY <1>1, <1>3, <3>1 DEF Visible, Coming
  <2>3. CASE xCounter # HTotal
    <3>1. yCounter' = yCounter /\ (xCounter' = xCounter \/ (newPixel /\ xCounter' = xCounter + 1))
      BY <1>1, <1>2, <2>3
    <3>2. ~Visible'
      BY <1>1, <1>2, <2>1, <3>1 DEF Visible
    <3>3. xCounter' >= HTotal - 19 /\ setlen' # "vga" /\ NextRow' < VSize
      BY <1>3, <3>2 DEF Coming
    <3>4. NextRow' = NextRow
      BY <3>1 DEF NextRow
    <3>5. xCounter < HTotal - 19
      BY <1>1, <1>2, <1>6, <2>1, <3>3, <3>4 DEF Coming
    <3> QED
      BY <1>1, <1>2, <3>1, <3>3, <3>5
  <2> QED
    BY <2>2, <2>3
<1> QED
  BY <1>4, <1>5, <1>6

\* The time until the last word that is there has been taken.
LEMMA LastsStep ==
  ASSUME DisplayTimely, Placed, Places, Ticks, Counters, Moves, Ring, Shown, reset, Zone, Zone'
  PROVE  /\ Lasts \in Int /\ Lasts' \in Int /\ Lasts >= 5 * Ready
         /\ Lasts' >= (Lasts - 1) + (IF inputstate = "rcv4" THEN 20 ELSE 0)
<1>1. /\ HSize \in Nat /\ HTotal \in Nat /\ HSize + 34 <= HTotal /\ VSize \in Nat /\ VTotal \in Nat /\ VSize < VTotal
  BY Geometry
<1>2. /\ newPixel \in BOOLEAN /\ (newPixel => clkDivCnt = 0) /\ xCounter \in 0..HTotal /\ yCounter \in 0..VTotal
      /\ xCounter' = (IF xCounter = HTotal THEN 0 ELSE IF newPixel THEN xCounter + 1 ELSE xCounter)
      /\ yCounter' = (IF xCounter = HTotal THEN NextRow ELSE yCounter)
      /\ Asked' <=> newPixel /\ xCounter < HSize /\ yCounter < VSize
      /\ xCounter = HTotal => ~newPixel
  BY DEF Counters, Ticks, Places
<1>3. setaddr # "vga" /\ setlen # "vga" /\ (Visible \/ Coming) /\ (Visible' \/ Coming')
  BY ZoneTicks DEF Zone
<1>4. PICK g \in {0, 1}, k \in Int, m \in Int, e \in {0, 4} :
         /\ g = (IF Asked' THEN 1 ELSE 0) /\ k = (IF Coming THEN HTotal - xCounter ELSE 0)
         /\ m = (IF Coming' THEN HTotal - xCounter' ELSE 0) /\ e = (IF inputstate = "rcv4" THEN 4 ELSE 0)
  <2>1. HTotal - xCounter \in Int
    BY <1>1, <1>2
  <2>2. xCounter' \in Int
    BY <1>1, <1>2
  <2>3. HTotal - xCounter' \in Int
    BY <1>1, <2>2
  <2> QED
    BY <2>1, <2>3
<1>5. k >= 0 /\ (IF newPixel THEN (m = k /\ g = 1) \/ (m = k - 1 /\ g = 0) ELSE m = k /\ g = 0)
  <2>1. CASE Visible
    <3>1. xCounter < HSize /\ yCounter < VSize /\ xCounter # HTotal /\ yCounter' = yCounter /\ (Asked' <=> newPixel)
      BY <1>1, <1>2, <2>1 DEF Visible
    <3>2. ~Coming /\ ~Coming'
      BY <1>1, <1>2, <3>1 DEF Coming
    <3> QED
      BY <1>2, <1>4, <3>1, <3>2
  <2>2. CASE ~Visible
    <3>1. Coming /\ xCounter >= HTotal - 19
      BY <1>3, <2>2 DEF Coming
    <3>2. ~Asked' /\ g = 0 /\ k = HTotal - xCounter
      BY <1>1, <1>2, <1>4, <3>1
    <3>3. CASE xCounter = HTotal
      <4>1. xCounter' = 0 /\ ~newPixel
        BY <1>2, <3>3
      <4>2. ~Coming'
        BY <1>1, <4>1 DEF Coming
      <4> QED
        BY <1>1, <1>4, <3>2, <3>3, <4>1, <4>2
    <3>4. CASE xCounter # HTotal
      <4>1. xCounter' = IF newPixel THEN xCounter + 1 ELSE xCounter
        BY <1>2, <3>4
      <4>2. ~Visible'
        BY <1>1, <1>2, <3>1, <4>1 DEF Visible
      <4>3. m = HTotal - xCounter'
        BY <1>3, <1>4, <4>2
      <4> QED
        BY <1>1, <1>2, <3>2, <4>1, <4>3
    <3> QED
      BY <3>3, <3>4
  <2> QED
    BY <2>1, <2>2
<1>6. /\ ToPixel \in Nat /\ ToPixel' \in Nat
      /\ newPixel => ToPixel = 0 /\ ToPixel' >= 4
      /\ ~newPixel => ToPixel' = ToPixel - 1
  BY PixelTicks
<1>7. Ready \in Int /\ Ready' \in Int /\ Ready' = (Ready - (IF Asked' THEN 1 ELSE 0)) + (IF inputstate = "rcv4" THEN 4 ELSE 0)
  BY <1>3, ReadyMoves
<1>8. PICK t \in Nat, u \in Nat, f \in Int, h \in Int : t = ToPixel /\ u = ToPixel' /\ f = Ready /\ h = Ready'
  BY <1>6, <1>7
<1>9. /\ newPixel => t = 0 /\ u >= 4
      /\ ~newPixel => u = t - 1
      /\ h = (f - g) + e
  BY <1>4, <1>6, <1>7, <1>8, Zenon
<1>10. Lasts = t + 5 * (k + f) /\ Lasts' = u + 5 * (m + h)
  BY <1>4, <1>8, Zenon DEF Lasts
<1>11. /\ t + 5 * (k + f) \in Int /\ u + 5 * (m + h) \in Int /\ t + 5 * (k + f) >= 5 * f
       /\ u + 5 * (m + h) >= ((t + 5 * (k + f)) - 1) + 5 * e
  <2>1. CASE newPixel
    BY <1>4, <1>5, <1>9, <2>1
  <2>2. CASE ~newPixel
    BY <1>4, <1>5, <1>9, <2>2
  <2> QED
    BY <2>1, <2>2
<1>12. Lasts \in Int /\ Lasts' \in Int /\ Lasts >= 5 * Ready /\ Lasts' >= (Lasts - 1) + 5 * e
  BY <1>8, <1>10, <1>11, Zenon
<1>13. 5 * e = IF inputstate = "rcv4" THEN 20 ELSE 0
  BY <1>4
<1> QED
  BY <1>12, <1>13, Zenon

\* When the length is set the first word is not taken for nineteen pixels.
LEMMA LastsEntry ==
  ASSUME DisplayTimely, Places, Ticks, Counters, Zone', ~Zone, Ready' \in Int, Ready' >= 0
  PROVE  Lasts' \in Int /\ Lasts' >= 95
<1>1. HTotal \in Nat
  BY Geometry
<1>2. Coming' /\ xCounter' = HTotal - 19
  BY ZoneTicks
<1>3. PICK u \in Nat, h \in Int : u = ToPixel' /\ h = Ready' /\ h >= 0
  <2>1. ToPixel' \in Nat
    BY PixelTicks
  <2> QED
    BY <2>1, Zenon
<1>4. PICK m : m = (IF Coming' THEN HTotal - xCounter' ELSE 0)
  OBVIOUS
<1>5. Lasts' = u + 5 * (m + h)
  BY <1>3, <1>4, Zenon DEF Lasts
<1>6. m = 19
  <2>1. m = HTotal - xCounter'
    BY <1>2, <1>4, Zenon
  <2>2. xCounter' = HTotal - 19
    BY <1>2
  <2> QED
    BY <1>1, <2>1, <2>2
<1>7. ASSUME NEW t \in Nat, NEW f \in Int, f >= 0
      PROVE  t + 5 * (19 + f) \in Int /\ t + 5 * (19 + f) >= 95
  BY <1>7
<1> QED
  BY <1>3, <1>5, <1>6, <1>7, Zenon

\* Where words are taken no refresh is under way, and the bank of the next burst is reserved.
LEMMA Reserved ==
  ASSUME DisplayTimely, Counters, Ticks, RefreshInv, Reserve, init_done, Shown, Zone
  PROVE  ~Stale /\ ~refreshpending /\ ~Sending
<1>1. /\ HSize \in Nat /\ HTotal \in Nat /\ HSize + 34 <= HTotal /\ VSize \in Nat /\ VTotal \in Nat /\ VSize < VTotal
      /\ xCounter \in 0..HTotal
  BY Geometry DEF Counters
<1>2. (xCounter < HSize /\ yCounter < VSize) \/ xCounter >= HTotal - 19
  BY DEF Zone, Visible, Coming
<1>3. ~refreshpending /\ ~Sending /\ ~vga_refresh
  <2>1. xCounter <= HSize \/ xCounter >= HTotal - 19
    BY <1>1, <1>2
  <2> QED
    BY <2>1, Calm
<1>4. ~Stale
  <2> SUFFICES ASSUME Stale
               PROVE  FALSE
    OBVIOUS
  <2>1. yCounter = VTotal /\ (xCounter > HSize => vga_refresh \/ Pending \/ Sending)
    BY Zenon DEF Reserve
  <2>2. xCounter > HSize
    BY <1>1, <1>2, <2>1
  <2> QED
    BY <1>3, <2>1, <2>2 DEF Pending
<1> QED
  BY <1>3, <1>4

\* Slot 2 is given away in the bank of the next burst only before words are taken.
LEMMA JamStep ==
  ASSUME DisplayTimely, Placed, Slot2Free, Places, RefreshInv, Running, Ring, Reserve, Jam, Next, Ring'
  PROVE  Jam'
<1> SUFFICES ASSUME Shown', Zone', InTheWay', ToFetch' # 0
             PROVE  Lasts' >= Block' + 30
  BY Zenon DEF Jam
<1>1. Ticks /\ Counters
  BY DisplayTicks, CountersKnown
<1>2. setaddr # "vga" /\ (setlen = "vga" => ~Zone) /\ (setlen # "vga" => Zone)
  BY <1>1, ZoneTicks
<1>3. /\ Ticks /\ Counters /\ Serves /\ Moves /\ Placed' /\ Shown /\ reset /\ init_done /\ Sync
      /\ sdram_state \in 0..15 /\ sdram_state' = (sdram_state + 1) % 16
  BY <1>2, Underway
<1>4. /\ ToPh2 \in 1..16 /\ ToPh2' \in 1..16
      /\ sdram_state # 2 => ToPh2' = ToPh2 - 1
      /\ sdram_state = 15 => sdram_state' = 0
      /\ sdram_state # 15 => sdram_state' = sdram_state + 1
  BY <1>3, PhaseTicks
<1>5. sdram_slot2' # "idle" /\ slot2_bank' = NextBurst'.bank /\ sdram_state' \notin 3..10
  BY DEF InTheWay
<1>6. Block' = ToPh2' + 16
  BY Zenon DEF Block
<1>7. PICK p \in 1..16, q \in 1..16 : p = ToPh2 /\ q = ToPh2'
  BY <1>4
<1>8. CASE ~Zone
  <2>1. Ready' \in Int /\ Ready' >= 0
    <3>1. Ready' >= 0
      BY Zenon DEF Ring
    <3>2. Ready' \in Int
      BY <1>2, <1>3, ReadyMoves
    <3> QED
      BY <3>1, <3>2
  <2>2. Lasts' \in Int /\ Lasts' >= 95
    BY <1>1, <1>8, <2>1, LastsEntry
  <2>3. ASSUME NEW s \in Int, s >= 95 PROVE s >= (q + 16) + 30
    BY <2>3
  <2> QED
    BY <1>6, <1>7, <2>2, <2>3, Zenon
<1>9. CASE Zone
  <2>1. setlen # "vga" /\ ToFetch # 0
    <3>1. setlen # "vga"
      BY <1>2, <1>9
    <3>2. ToFetch' = IF Start THEN ToFetch - 4 ELSE ToFetch
      BY <1>3, <3>1 DEF Moves
    <3> QED
      BY <3>1, <3>2 DEF Start
  <2>2. sdram_state # 2
    BY <1>4, <1>5
  <2>3. (vga_ack => sdram_state = 3) /\ ~vga_ack'
    BY <1>3, <2>2, Asks
  <2>4. InTheWay
    <3>1. CASE sdram_state = 10
      <4>1. slot2_bank' # sdram_reserveaddr.bank
        BY <1>3, <1>5, <2>1, <3>1 DEF Serves
      <4>2. ~vga_ack /\ ~Stale
        BY <1>3, <1>9, <2>3, <3>1, Reserved
      <4>3. NextBurst' = NextBurst /\ sdram_reserveaddr = vga_reserveaddr
        BY <1>2, <1>3, <2>3, <4>2, NextKept DEF Placed, Wired
      <4> QED
        BY <1>5, <4>1, <4>2, <4>3 DEF Stale
    <3>2. CASE sdram_state # 10
      <4>1. sdram_state \notin 3..10
        BY <1>3, <1>4, <1>5, <2>2, <3>2
      <4>2. ~vga_ack
        BY <2>3, <4>1
      <4>3. NextBurst' = NextBurst
        BY <1>2, <1>3, <2>3, <4>2, NextKept
      <4>4. sdram_slot2' = sdram_slot2 /\ slot2_bank' = slot2_bank
        BY <1>3, <3>2 DEF Serves
      <4> QED
        BY <1>5, <4>1, <4>3, <4>4 DEF InTheWay
    <3> QED
      BY <3>1, <3>2
  <2>5. Lasts >= Block + 30 /\ Block = ToPh2 + 16
    BY <1>3, <1>9, <2>1, <2>4, Zenon DEF Jam, Block
  <2>6. Lasts \in Int /\ Lasts' \in Int /\ Lasts' >= (Lasts - 1) + (IF inputstate = "rcv4" THEN 20 ELSE 0)
    BY <1>3, <1>9, LastsStep
  <2>7. q = p - 1
    BY <1>4, <1>7, <2>2
  <2>8. PICK e \in {0, 20} : e = IF inputstate = "rcv4" THEN 20 ELSE 0
    OBVIOUS
  <2>9. ASSUME NEW s \in Int, NEW t \in Int, s >= (p + 16) + 30, t >= (s - 1) + e
        PROVE  t >= (q + 16) + 30
    BY <2>7, <2>8, <2>9
  <2> QED
    BY <1>6, <1>7, <2>5, <2>6, <2>8, <2>9, Zenon
<1> QED
  BY <1>8, <1>9

\* How much there is to do until the next words come, if no bank stands in the way.
LEMMA DueBounds ==
  ASSUME sdram_state \in 0..15, ToPh2 \in 1..16, ~InTheWay
  PROVE  /\ Fetching /\ ~Waiting => Due = 13 - sdram_state
         /\ Waiting => Due = ToPh2 + 10
         /\ ~Fetching /\ sdram_state # 2 => Due = ToPh2 + 10
         /\ ~Fetching /\ sdram_state = 2 => Due = 27
<1>1. Block = ToPh2
  BY Zenon DEF Block
<1>2. Waiting => Fetching
  BY DEF Waiting, Fetching
<1> QED
  BY <1>1, <1>2, Zenon DEF Due

\* A burst that the display needs comes in time.
LEMMA InTimeStep ==
  ASSUME DisplayTimely, Placed, Slot2Free, Places, RefreshInv, Running, Surplus, Ring, Reserve, Jam, InTime, Next,
         Surplus', Ring', Jam'
  PROVE  InTime'
<1> SUFFICES ASSUME Shown', Zone', ToShow' > Ready', Fetching' \/ Wanted("vga")'
             PROVE  Due' <= Lasts'
  BY Zenon DEF InTime
<1>1. Ticks /\ Counters
  BY DisplayTicks, CountersKnown
<1>2. setaddr # "vga" /\ (setlen = "vga" => ~Zone) /\ (setlen # "vga" => Zone)
  BY <1>1, ZoneTicks
<1>3. /\ Ticks /\ Counters /\ Serves /\ Moves /\ Placed' /\ Shown /\ reset /\ init_done /\ Sync
      /\ sdram_state \in 0..15 /\ sdram_state' = (sdram_state + 1) % 16
  BY <1>2, Underway
<1>4. /\ ToPh2 \in 1..16 /\ ToPh2' \in 1..16
      /\ sdram_state # 2 => ToPh2' = ToPh2 - 1
      /\ sdram_state = 2 => ToPh2 = 1 /\ ToPh2' = 16
      /\ sdram_state = 15 => sdram_state' = 0
      /\ sdram_state # 15 => sdram_state' = sdram_state + 1
  BY <1>3, PhaseTicks
<1>5. sdram_state' \in 0..15
  BY <1>3, <1>4
<1>6. /\ Ready \in Int /\ Ready' \in Int /\ Lead \in Int /\ Lead <= Depth - 4 /\ Ready >= Lead - 1
      /\ Ready' = (Ready - (IF Asked' THEN 1 ELSE 0)) + (IF inputstate = "rcv4" THEN 4 ELSE 0)
  BY <1>2, <1>3, ReadyMoves
<1>7. /\ ToShow \in Int /\ ToShow' \in Int /\ (setlen # "vga" => ToShow' <= ToShow - (IF Asked' THEN 1 ELSE 0))
  BY <1>3, ToShowTicks
<1>8. Ready' >= 0
  BY Zenon DEF Ring
<1>9. ToFetch' # 0
  <2>1. CASE Fetching'
    <3>1. Ready' + 4 + ToFetch' >= 4 + ToShow'
      BY <2>1, Zenon DEF Surplus, Flight
    <3>2. ASSUME NEW f \in Int, NEW n \in Int, NEW r \in Int, f + 4 + n >= 4 + r, r > f PROVE n # 0
      BY <3>2
    <3>3. ToFetch' \in Int
      <4>1. count' \in [Channel -> 0..MaxLength] /\ MaxLength \in Nat
        BY <1>3, DmaAssumption DEF Placed, Typed, DmaTypeOK
      <4> QED
        BY <4>1 DEF ToFetch, Channel
    <3> QED
      BY <1>6, <1>7, <3>1, <3>2, <3>3, Zenon
  <2>2. CASE ~Fetching'
    BY <2>2 DEF Wanted, ToFetch
  <2> QED
    BY <2>1, <2>2
<1>10. PICK p \in 1..16, q \in 1..16, y \in 0..15, x \in 0..15 :
          p = ToPh2 /\ q = ToPh2' /\ x = sdram_state /\ y = sdram_state'
  BY <1>3, <1>4, <1>5
<1>11. /\ x # 2 => q = p - 1
       /\ x = 2 => p = 1 /\ q = 16
       /\ x # 15 => y = x + 1
  BY <1>4, <1>10
<1>12. PICK e \in {0, 20} : e = IF inputstate = "rcv4" THEN 20 ELSE 0
  OBVIOUS
<1>13. InTheWay' => Block' = q + 16
  BY <1>10, Zenon DEF Block
<1>14. ~InTheWay' => Block' = q
  BY <1>10, Zenon DEF Block
<1>15. Waiting' => Fetching'
  BY DEF Waiting, Fetching
<1>16. /\ Fetching' /\ ~Waiting' => Due' = 13 - y
       /\ ~(Fetching' /\ ~Waiting') => Due' = Block' + 10 \/ (~Fetching' /\ y = 2 /\ Due' = 27)
  BY <1>10, <1>15, Zenon DEF Due
<1>17. CASE InTheWay'
  <2>1. Lasts' >= Block' + 30
    BY <1>9, <1>17, Zenon DEF Jam
  <2>2. Due' = 13 - y \/ Due' = (q + 16) + 10 \/ Due' = 27
    BY <1>13, <1>16, <1>17, Zenon
  <2>3. Lasts' \in Int
    <3>1. CASE Zone
      BY <1>3, <3>1, LastsStep
    <3>2. CASE ~Zone
      BY <1>1, <1>6, <1>8, <3>2, LastsEntry
    <3> QED
      BY <3>1, <3>2
  <2>4. ASSUME NEW t \in Int, t >= (q + 16) + 30, NEW d, d = 13 - y \/ d = (q + 16) + 10 \/ d = 27
        PROVE  d <= t
    BY <2>4
  <2> QED
    BY <1>13, <1>17, <2>1, <2>2, <2>3, <2>4, Zenon
<1>18. CASE ~InTheWay' /\ ~Zone
  <2>1. Lasts' \in Int /\ Lasts' >= 95
    BY <1>1, <1>6, <1>8, <1>18, LastsEntry
  <2>2. Due' = 13 - y \/ Due' = q + 10 \/ Due' = 27
    BY <1>14, <1>16, <1>18, Zenon
  <2>3. ASSUME NEW t \in Int, t >= 95, NEW d, d = 13 - y \/ d = q + 10 \/ d = 27
        PROVE  d <= t
    BY <2>3
  <2> QED
    BY <2>1, <2>2, <2>3, Zenon
<1>19. CASE ~InTheWay' /\ Zone
  <2>1. Lasts \in Int /\ Lasts' \in Int /\ Lasts >= 5 * Ready /\ Lasts' >= (Lasts - 1) + e
    <3>1. Lasts \in Int /\ Lasts' \in Int /\ Lasts >= 5 * Ready /\ Lasts' >= (Lasts - 1) + (IF inputstate = "rcv4" THEN 20 ELSE 0)
      BY <1>3, <1>19, LastsStep
    <3> QED
      BY <1>12, <3>1, Zenon
  <2>2. PICK s \in Int, t \in Int, d \in {Due'} : s = Lasts /\ t = Lasts' /\ d = Due' /\ s >= 5 * Ready /\ t >= (s - 1) + e
    BY <2>1, Zenon
  <2>3. setlen # "vga" /\ ~Stale /\ ~refreshpending
    BY <1>2, <1>3, <1>19, Reserved
  <2>4. /\ Start => ~Waiting /\ ~Fetching
        /\ Waiting' <=> Start \/ (Waiting /\ ~vga_ack')
        /\ Fetching' <=> Start \/ (Fetching /\ inputstate # "rcv4")
        /\ Fetching /\ ~Waiting => Given /\ (inputstate = "rcv4" <=> sdram_state = 13)
        /\ Waiting => Fetching /\ sdram_req /\ inputstate = "rcv1"
    BY <1>3, Asks
  <2>5. ToShow > Ready
    <3>1. PICK g \in {0, 1} : g = IF Asked' THEN 1 ELSE 0
      OBVIOUS
    <3>2. PICK c \in {0, 4} : c = IF inputstate = "rcv4" THEN 4 ELSE 0
      OBVIOUS
    <3>3. ToShow' <= ToShow - g /\ Ready' = (Ready - g) + c
      BY <1>6, <1>7, <2>3, <3>1, <3>2, Zenon
    <3>4. ASSUME NEW r \in Int, NEW u \in Int, NEW f \in Int, u <= r - g, u > (f - g) + c PROVE r > f
      BY <3>1, <3>2, <3>4
    <3> QED
      BY <1>6, <1>7, <3>3, <3>4, Zenon
  <2>6. CASE Fetching /\ ~Waiting
    <3>1. Due = 13 - x /\ Due <= Lasts
      <4>1. Due <= Lasts
        BY <1>3, <1>19, <2>5, <2>6, Zenon DEF InTime
      <4> QED
        BY <1>10, <2>6, <4>1, Zenon DEF Due
    <3>2. 13 - x <= s
      BY <2>2, <3>1, Zenon
    <3>3. x \in 3..13 /\ (inputstate = "rcv4" <=> x = 13)
      BY <1>10, <2>4, <2>6 DEF Given
    <3>4. CASE x # 13
      <4>1. Fetching' /\ ~Waiting'
        BY <2>4, <2>6, <3>3, <3>4
      <4>2. d = 13 - y
        BY <1>16, <2>2, <4>1, Zenon
      <4> QED
        <5>1. d <= t
          BY <1>11, <1>12, <2>2, <3>2, <3>3, <3>4, <4>2
        <5> QED
          BY <2>2, <5>1, Zenon
    <3>5. CASE x = 13
      <4>1. ~Fetching' /\ ~Waiting'
        BY <2>4, <2>6, <3>3, <3>5
      <4>2. y = 14 /\ q = p - 1 /\ p = 6
        <5>1. ToPh2 = 6
          BY <1>10, <3>5 DEF ToPh2
        <5> QED
          BY <1>10, <1>11, <3>5, <5>1
      <4>3. d = q + 10
        BY <1>14, <1>16, <1>19, <2>2, <4>1, <4>2
      <4>4. e = 20
        BY <1>12, <3>3, <3>5
      <4>5. d <= t
        <5>1. 0 <= s
          BY <3>2, <3>5
        <5>2. t >= (s - 1) + e
          BY <2>2
        <5> QED
          BY <4>2, <4>3, <4>4, <5>1, <5>2
      <4> QED
        BY <2>2, <4>5, Zenon
    <3> QED
      BY <3>4, <3>5
  <2>7. CASE Waiting
    <3>1. Due = Block + 10 /\ Due <= Lasts
      <4>1. Due <= Lasts
        BY <1>3, <1>19, <2>4, <2>5, <2>7, Zenon DEF InTime
      <4> QED
        BY <2>7, <4>1, Zenon DEF Due
    <3>2. Block = p + 16 \/ (Block = p /\ ~InTheWay)
      BY <1>10, Zenon DEF Block
    <3>3. inputstate # "rcv4" /\ e = 0 /\ ~Start /\ (Waiting' <=> ~vga_ack') /\ Fetching'
      BY <1>12, <2>4, <2>7
    <3>4. t >= s - 1
      BY <2>2, <3>3
    <3>5. CASE ~vga_ack' /\ x # 2
      <4>1. d = q + 10
        BY <1>14, <1>16, <1>19, <2>2, <3>3, <3>5, Zenon
      <4>2. p + 10 <= s \/ (p + 16) + 10 <= s
        BY <2>2, <3>1, <3>2, Zenon
      <4>3. d <= t
        BY <1>11, <3>4, <3>5, <4>1, <4>2
      <4> QED
        BY <2>2, <4>3, Zenon
    <3>6. CASE ~vga_ack' /\ x = 2
      <4>1. d = q + 10
        BY <1>14, <1>16, <1>19, <2>2, <3>3, <3>6, Zenon
      <4>2. InTheWay
        <5>1. ~Grants /\ ~RefreshWins /\ sdram_req
          BY <1>3, <1>10, <2>3, <2>4, <2>7, <3>6 DEF Serves, RefreshWins
        <5>2. sdram_slot2 # "idle" /\ slot2_bank = sdram_addr.bank
          BY <5>1 DEF Grants
        <5> QED
          BY <1>10, <2>7, <3>6, <5>2 DEF InTheWay, NextBurst
      <4>3. (p + 16) + 10 <= s
        BY <2>2, <3>1, <3>2, <4>2, Zenon
      <4>4. d <= t
        BY <1>11, <3>4, <3>6, <4>1, <4>3
      <4> QED
        BY <2>2, <4>4, Zenon
    <3>7. CASE vga_ack'
      <4>1. x = 2 /\ y = 3 /\ p = 1
        BY <1>3, <1>10, <1>11, <3>7 DEF Serves
      <4>2. ~Waiting' /\ d = 13 - y
        BY <1>16, <2>2, <3>3, <3>7, Zenon
      <4>3. p + 10 <= s \/ (p + 16) + 10 <= s
        BY <2>2, <3>1, <3>2, Zenon
      <4>4. d <= t
        BY <3>4, <4>1, <4>2, <4>3
      <4> QED
        BY <2>2, <4>4, Zenon
    <3> QED
      BY <3>5, <3>6, <3>7
  <2>8. CASE ~Fetching
    <3>1. e = 0 /\ t >= s - 1
      <4>1. e = 0
        BY <1>12, <2>8 DEF Fetching
      <4> QED
        BY <2>2, <4>1
    <3>2. CASE Start
      <4>1. Wanted("vga") /\ ~vga_ack' /\ Waiting' /\ ~Waiting
        <5>1. Wanted("vga") /\ ~vga_ack'
          BY <1>3, <3>2, Asks DEF Start, Wanted, ToFetch
        <5> QED
          BY <2>4, <3>2, <5>1
      <4>2. Due <= Lasts
        BY <1>3, <1>19, <2>5, <4>1, Zenon DEF InTime
      <4>3. d = q + 10
        BY <1>14, <1>15, <1>16, <1>19, <2>2, <2>4, <3>2, <4>1, Zenon
      <4>4. IF x = 2 THEN Due = 27 ELSE Due = Block + 10
        BY <1>10, <2>8, <4>1, Zenon DEF Due
      <4>5. Block = p + 16 \/ Block = p
        BY <1>10, Zenon DEF Block
      <4>6. IF x = 2 THEN 27 <= s ELSE p + 10 <= s \/ (p + 16) + 10 <= s
        BY <2>2, <4>2, <4>4, <4>5, Zenon
      <4>7. d <= t
        BY <1>11, <3>1, <4>3, <4>6
      <4> QED
        BY <2>2, <4>7, Zenon
    <3>3. CASE ~Start
      <4>1. ToFetch' = ToFetch
        BY <1>3, <2>3, <3>3 DEF Moves
      <4>2. ~Room("vga")
        BY <1>9, <2>8, <3>3, <4>1 DEF Start, Fetching
      <4>3. /\ Fits = 0 /\ 4 * Fits >= (Depth - 7) - Lead
        <5>1. Fits = 0
          BY <4>2, RingForm
        <5>2. Lead <= Depth - 4 => 4 * Fits >= (Depth - 7) - Lead
          BY RingForm
        <5> QED
          BY <1>6, <5>1, <5>2, Zenon
      <4>4. Depth \in Nat /\ Depth >= 16
        BY Geometry
      <4>5. ASSUME NEW l \in Int, NEW f \in Int, f >= l - 1, 4 * 0 >= (Depth - 7) - l, s >= 5 * f PROVE s >= 40
        BY <4>4, <4>5
      <4>6. s >= 40
        BY <1>6, <2>2, <4>3, <4>5, Zenon
      <4>7. ~Fetching' /\ (d = q + 10 \/ d = 27)
        <5>1. ~Fetching'
          BY <2>4, <2>8, <3>3
        <5> QED
          BY <1>14, <1>16, <1>19, <2>2, <5>1, Zenon
      <4>8. d <= t
        <5>1. CASE d = q + 10
          BY <3>1, <4>6, <5>1
        <5>2. CASE d = 27
          BY <3>1, <4>6, <5>2
        <5> QED
          BY <4>7, <5>1, <5>2
      <4> QED
        BY <2>2, <4>8, Zenon
    <3> QED
      BY <3>2, <3>3
  <2> QED
    BY <2>6, <2>7, <2>8
<1> QED
  BY <1>17, <1>18, <1>19

\* The display without sprite, from reset to the last word.
DisplayInv ==
  /\ Placed /\ Slot2Free /\ Places /\ RefreshInv /\ Running /\ Before
  /\ Enough /\ Surplus /\ Ring /\ Reserve /\ Jam /\ InTime

\* It holds after reset.
LEMMA DisplayStarts ==
  ASSUME DisplayTimely, Init, ~enable_sprite
  PROVE  DisplayInv
<1>1. Placed /\ Slot2Free /\ Places /\ RefreshInv /\ Early
  BY PlacedStarts, Slot2Starts, PlacesStart, RefreshStarts, EarlyStarts, Geometry, Zenon
<1>2. frames = 0 /\ reset = FALSE
  BY DEF Init, BusInit
<1>3. ~Shown /\ ~reset /\ ~(frames >= 1)
  BY <1>2 DEF Shown
<1> QED
  BY <1>1, <1>3, Zenon DEF DisplayInv, Running, Before, Enough, Surplus, Ring, Reserve, Jam, InTime

\* While the reset lasts and when it ends.
LEMMA RunningStep ==
  ASSUME DisplayTimely, Placed, Slot2Free, Places, RefreshInv, Running, Before, Next
  PROVE  Running' /\ Before'
<1>1. reset' \in {reset, init_done} /\ reset \in BOOLEAN /\ init_done \in BOOLEAN
  BY Zenon DEF Next, Bus, BusEdge, Placed, Typed
<1>2. CASE reset
  <2>1. init_done /\ Sync
    BY <1>2 DEF Running
  <2>2. init_done' /\ Sync'
    BY <1>2, <2>1, SyncStep, ControllerServes DEF Serves
  <2>3. reset'
    BY <1>1, <1>2, <2>1
  <2> QED
    BY <2>2, <2>3 DEF Running, Before
<1>3. CASE ~reset
  <2>1. Early /\ Early'
    BY <1>3, EarlyStep DEF Before
  <2>2. reset' => init_done' /\ Sync'
    BY <1>3, <2>1, Released
  <2> QED
    BY <2>1, <2>2 DEF Running, Before
<1> QED
  BY <1>2, <1>3

\* Every clock keeps it.
LEMMA DisplayStep ==
  ASSUME DisplayTimely, DisplayInv, Next
  PROVE  DisplayInv'
<1>1. /\ Placed /\ Slot2Free /\ Places /\ RefreshInv /\ Running /\ Before
      /\ Enough /\ Surplus /\ Ring /\ Reserve /\ Jam /\ InTime
  BY DEF DisplayInv
<1>2. Placed' /\ Slot2Free' /\ Places' /\ RefreshInv'
  BY <1>1, CacheMoves, Slot2Step, PlacesStep, RefreshStep, Geometry, Zenon
<1>3. Running' /\ Before' /\ Enough'
  BY <1>1, RunningStep, EnoughStep
<1>4. Surplus' /\ Ring'
  BY <1>1, FlowStep
<1>5. Reserve'
  <2>1. CASE reset'
    <3>1. Sync'
      BY <1>3, <2>1 DEF Running
    <3> QED
      BY <1>1, <3>1, ReserveStep
  <2>2. CASE ~reset'
    <3>1. ~Shown'
      BY <1>2, <2>2 DEF Places, Shown
    <3> QED
      BY <3>1, Zenon DEF Reserve
  <2> QED
    BY <2>1, <2>2
<1>6. Jam'
  BY <1>1, <1>4, JamStep
<1>7. InTime'
  BY <1>1, <1>4, <1>6, InTimeStep
<1> QED
  BY <1>2, <1>3, <1>4, <1>5, <1>6, <1>7 DEF DisplayInv

\* And nothing happens between the clocks.
LEMMA DisplayRests ==
  ASSUME DisplayInv, UNCHANGED vars
  PROVE  DisplayInv'
<1>1. /\ UNCHANGED <<sdram_state, init_done, vga_fill, sdram_slot1, sdram_slot2, slot2_bank, refreshpending, vga_ack, writecache_req>>
      /\ UNCHANGED <<vga_req, vga_addr, vga_refresh, vga_reservebank, vga_reserveaddr, req1, reset, granted, frames>>
      /\ UNCHANGED <<dmaInputs, fillRegs, readRegs, ram, data_out>>
      /\ UNCHANGED <<enable_sprite, clkDivCnt, newPixel, xCounter, yCounter, framebuffer_pointer, vgadata,
                     sprite0_counter, sprite0_data, sprite_col>>
  BY Zenon DEF vars, sdramRegs, phaseRegs, writecacheRegs, slotRegs, busRegs, cpuPort, vgaPort, dmaRegs, vgaRegs, monitors
<1>2. /\ UNCHANGED <<dma_addr, setaddr, dma_len, setlen, req>>
      /\ UNCHANGED <<sdram_req, sdram_addr, sdram_reserveaddr, inputstate, update, addr, count, wrptr>>
      /\ UNCHANGED <<cache_wraddr, cache_wren, data_from_ram, rdptr, pending, valid_d, valid, cache_rdaddr>>
  BY <1>1, Zenon DEF dmaInputs, fillRegs, readRegs
<1>3. UNCHANGED <<Writer, Reader, Asked, Fetching, ToFetch, Given, ToPh2, ToPixel, NextRow, Visible, Pending, Sending, Shown, Fits>>
  BY <1>1, <1>2, Zenon DEF Writer, Reader, Asked, Fetching, ToFetch, Given, ToPh2, ToPixel, NextRow, Visible, Pending, Sending, Shown, Fits
<1>4. UNCHANGED <<Lead, Flight, Coming, Waiting, Slack, LastBlank, Behind, Elapsed, Settled, Sync, EndsIn, Waits, Wanted("vga")>>
  BY <1>1, <1>2, <1>3, Zenon DEF Lead, Flight, Coming, Waiting, Slack, LastBlank, Behind, Elapsed, Settled, Sync, EndsIn, Waits, Wanted, Room
<1>5. UNCHANGED <<Ready, Zone, ToShow, NextBurst, Orphan, DueStart>>
  BY <1>1, <1>2, <1>3, <1>4, Zenon DEF Ready, Zone, ToShow, NextBurst, Orphan, DueStart
<1>6. UNCHANGED <<Lasts, InTheWay, Stale>>
  BY <1>1, <1>2, <1>3, <1>4, <1>5, Zenon DEF Lasts, InTheWay, Stale
<1>7. UNCHANGED Block
  BY <1>3, <1>6, Zenon DEF Block
<1>8. UNCHANGED Due
  BY <1>1, <1>3, <1>4, <1>7, Zenon DEF Due
<1>9. Placed'
  <2>1. Wired' /\ NoSprite' /\ WholeBursts'
    BY <1>1, <1>2, <1>3, Zenon DEF DisplayInv, Placed, Wired, NoSprite, WholeBursts
  <2>2. DmaInputsTypeOK' /\ DmaTypeOK'
    <3>1. DmaInputsTypeOK /\ DmaTypeOK
      BY Zenon DEF DisplayInv, Placed, Typed
    <3>2. DmaInputsTypeOK'
      BY <1>2, <3>1, Zenon DEF DmaInputsTypeOK
    <3>3. UNCHANGED <<ram, data_out>>
      BY <1>1, Zenon
    <3> QED
      BY <1>2, <3>1, <3>2, <3>3, ZenonT(60) DEF DmaTypeOK
  <2>3. VgaControllerTypeOK'
    BY <1>1, Zenon DEF DisplayInv, Placed, Typed, VgaControllerTypeOK
  <2>4. Typed'
    BY <1>1, <2>2, <2>3, Zenon DEF DisplayInv, Placed, Typed
  <2> QED
    BY <2>1, <2>4 DEF Placed
<1>10. Slot2Free' /\ Places'
  BY <1>1, <1>2, <1>3, Zenon DEF DisplayInv, Slot2Free, Places
<1>11. RefreshInv'
  BY <1>1, <1>2, <1>3, <1>4, Zenon DEF DisplayInv, RefreshInv, Clock, Requested, OnTime, AtStart, RefreshKept
<1>12. Running' /\ Before'
  BY <1>1, <1>2, <1>3, <1>4, <1>5, Zenon DEF DisplayInv, Running, Before, Early
<1>13. Enough' /\ Surplus' /\ Ring'
  BY <1>1, <1>3, <1>4, <1>5, Zenon DEF DisplayInv, Enough, Surplus, Ring
<1>14. Reserve'
  BY <1>1, <1>3, <1>4, <1>5, <1>6, Zenon DEF DisplayInv, Reserve
<1>15. Jam' /\ InTime'
  BY <1>3, <1>4, <1>5, <1>6, <1>7, <1>8, Zenon DEF DisplayInv, Jam, InTime
<1> QED
  BY <1>9, <1>10, <1>11, <1>12, <1>13, <1>14, <1>15, Zenon DEF DisplayInv

\* For a display without sprite: no word of the picture is taken before it came.
THEOREM NeverUnderrun ==
  ASSUME DisplayTimely
  PROVE  Spec /\ ~enable_sprite => []NoUnderrun
<1>1. Init /\ ~enable_sprite => DisplayInv
  BY DisplayStarts
<1>2. DisplayInv /\ [Next]_vars => DisplayInv'
  BY DisplayStep, DisplayRests
<1>3. DisplayInv => NoUnderrun
  <2> SUFFICES ASSUME DisplayInv
               PROVE  NoUnderrun
    OBVIOUS
  <2>1. Placed /\ Ring
    BY DEF DisplayInv
  <2>2. DmaInputsTypeOK /\ DmaTypeOK /\ VgaControllerTypeOK
    BY <2>1 DEF Placed, Typed
  <2>3. ASSUME Asked, frames = 2
        PROVE  ~Empty("vga")
    <3> SUFFICES ASSUME Writer = Reader
                 PROVE  FALSE
      BY DEF Empty, Writer, Reader
    <3>1. Ready = Lead - 1 /\ Ready >= 0
      BY <2>1, <2>3, Zenon DEF Ready, Ring, Shown
    <3>2. Lead = Writer - Writer
      <4>1. Writer \in Nat
        BY <2>1, Pointers
      <4> QED
        BY <4>1 DEF Lead
    <3>3. Lead = 0
      <4>1. Writer \in Nat
        BY <2>1, Pointers
      <4> QED
        BY <3>2, <4>1
    <3> QED
      BY <3>1, <3>3
  <2> QED
    BY <2>2, <2>3 DEF NoUnderrun, Asked
<1> QED
  BY <1>1, <1>2, <1>3, PTL DEF Spec
=============================================================================
