------------------------------ MODULE VideoPath ------------------------------
(***************************************************************************)
(* The video path of RTL/ZPUTest.vhd: the VGA controller with its DMA cache   *)
(* on the SDRAM controller's VGA port, the CPU and its bus on the other port, *)
(* all on one clock.  The memory device is left out: that the words handed    *)
(* over under vga_fill are those of the line granted is MemSystem's           *)
(* VgaLineIntact, and here each such word is represented by its address.      *)
(***************************************************************************)
EXTENDS CpuBus, VgaController, FiniteSets

CONSTANTS
  ReleasePixels,  \* the pixels in which the reset counter may let go
  Systems         \* what is built and what it runs: whether there is a sprite, whether the
                  \* CPU accesses memory ("memory") or the framebuffer register ("register")

ASSUME PathAssumption ==
  /\ ReleasePixels \subseteq Nat
  /\ Systems \subseteq [sprite : BOOLEAN, load : {"memory", "register"}]
  /\ IsFiniteSet(Col) /\ Col = 0..Cardinality(Col) - 1
  /\ IsFiniteSet(Row) /\ Row = 0..Cardinality(Row) - 1

VARIABLES
  load,        \* what the CPU accesses
  granted,     \* the line the device is reading for the VGA port
  frames,      \* frame restarts since reset, up to 2
  frame_base   \* the framebuffer of the frame being shown

monitors == <<granted, frames, frame_base>>
vars == <<sdramRegs, chip_q, busRegs, cpuRegs, vgaPort, dmaRegs, vgaRegs, load, monitors>>

-----------------------------------------------------------------------------
\* Lines in address order: bank, then column group, then row (sdram.vhd:325-332).
NextLine ==
  LET cols == Cardinality(Col)
      rows == Cardinality(Row)
  IN [l \in Line |->
        LET carryCol == l.bank = 3
            carryRow == carryCol /\ l.col = cols - 1
        IN [bank |-> (l.bank + 1) % 4,
            col |-> IF carryCol THEN (l.col + 1) % cols ELSE l.col,
            row |-> IF carryRow THEN (l.row + 1) % rows ELSE l.row]]

Init ==
  /\ \E s \in Systems : enable_sprite = s.sprite /\ load = s.load
  /\ load = "memory" => framebuffer_pointer = CHOOSE l \in FrameBuffers : TRUE
  /\ SdramInit /\ chip_q = AnyHalf /\ BusInit
  /\ DmaInit /\ VgaControllerInit
  /\ vga_req = FALSE /\ vga_refresh = FALSE /\ vga_reservebank = FALSE
  /\ vga_addr = sdram_addr /\ vga_reserveaddr = sdram_reserveaddr
  /\ granted = sdram_addr /\ frames = 0 /\ frame_base = framebuffer_pointer

\* The port's wires are the DMA cache's registers and the controller's strobe.
VgaPortEdge ==
  /\ vga_req' = sdram_req' /\ vga_addr' = sdram_addr'
  /\ vga_reserveaddr' = sdram_reserveaddr' /\ vga_reservebank' = sdram_reserve'
  /\ vga_refresh' = AsksRefresh

\* The word on the VGA port: the device sends the granted line in order.
FillWord == [line |-> granted, half |-> (sdram_state + 6) % 4]

Video ==
  /\ VgaControllerEdge
  /\ DmaEdge(reset, vga_ack, vga_fill, FillWord)
  /\ IF load = "register" THEN FramebufferRegister ELSE UNCHANGED framebuffer_pointer
  /\ UNCHANGED enable_sprite

Bus ==
  /\ BusEdge
  /\ reset' # reset => newPixel /\ xCounter \in ReleasePixels

Monitor ==
  /\ granted' = IF init_done /\ sdram_state = 2 /\ VgaWins1 THEN vga_addr ELSE granted
  /\ frames' = IF reset /\ setaddr = "vga" /\ frames < 2 THEN frames + 1 ELSE frames
  /\ frame_base' = IF RestartsVga THEN framebuffer_pointer ELSE frame_base

Cpu == IF load = "memory" THEN CpuEdge ELSE Compute

Next == SdramEdge /\ UNCHANGED <<chip_q, load>> /\ Bus /\ Cpu /\ Video /\ VgaPortEdge /\ Monitor

Spec == Init /\ [][Next]_vars

\* The clock does not stop.
FairSpec == Spec /\ WF_vars(Next)

\* What the ring needs to be ahead of the display: pixels of five clocks, four bursts, lines longer
\* than the ring with a blank part of 34 pixels (640 of 800, 64 words), and a reset that ends in the
\* visible part of a line (after 65536 clocks of lines of 4000, ZPUTest.vhd:296-307).
DisplayTimely ==
  /\ ClkDiv >= 4 /\ Bursts >= 4 /\ Depth <= HSize /\ HSize + 34 <= HTotal
  /\ \A p \in ReleasePixels : p < HSize

-----------------------------------------------------------------------------
(***************************************************************************)
(* Properties.                                                             *)
(***************************************************************************)
\* Word n of the picture at base.
Ahead[l \in Line, n \in Nat] == IF n = 0 THEN l ELSE NextLine[Ahead[l, n - 1]]
PictureWord(base, n) == [line |-> Ahead[base, n \div 4], half |-> n % 4]

\* From the second restart on every pixel gets its own word of the picture: the
\* word asked for at the end of the pixel before, in a stream that the FIFO, the
\* line lengths, the grants, the refreshes and the restart never shift, repeat or
\* starve.  (Column 0 shows the last word asked for before it: the outputs are one
\* pixel behind the requests.)
\* The same for the sprite: every column of its square that is shown has the colour
\* that lies at its place in the sprite, although a row's words are fetched burst by
\* burst after the video channel's and read between its words.
PixelStream ==
  LET n == (yCounter - SpriteY) * SpriteSize + xCounter - 1 - SpriteX
  IN AsksWord /\ frames = 2 =>
       /\ xCounter > 0 => vgadata = PictureWord(frame_base, yCounter * HSize + xCounter - 1)
       /\ sprite_col # Blank => sprite_col = [data |-> PictureWord(SpriteLine, n \div 4), nibble |-> n % 4]

\* Every register of cache and controller keeps its range, and from the second restart on
\* no word of the picture is taken before it came.
NoUnderrun ==
  /\ DmaInputsTypeOK /\ DmaTypeOK /\ VgaControllerTypeOK
  /\ "vga" \in req /\ frames = 2 => ~Empty("vga")

\* Each refresh request leads to a refresh of its own: none arrives while one is
\* waiting or being sent, when the controller would drop it.
RefreshKept == vga_refresh /\ init_done => ~refreshpending /\ sdram_slot1 # "refresh"

\* Every access of the CPU is answered, whatever the video side takes, and every
\* burst asked for is granted, although the CPU may hold its bank in slot 2 round
\* after round: the refresh of the line, which closes slot 2, breaks that.
AllServed == (mem_strobe ~> ~mem_busy) /\ (vga_req ~> vga_ack)
=============================================================================
