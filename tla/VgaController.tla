---------------------------- MODULE VgaController ----------------------------
(***************************************************************************)
(* RTL/vga_controller.vhd and the timing generator RTL/video_vga_master.vhd  *)
(* in it, one step per rising clock edge.  The generator counts pixels and   *)
(* lines; at the end of a pixel the controller puts the word it has on the    *)
(* outputs, asks the DMA cache for the next one, and outside the visible area *)
(* sets the cache up for the next line, the next frame and the refresh.       *)
(*                                                                         *)
(* The sizes are parameters.  The colour outputs are not kept: what they are  *)
(* given at the end of a pixel is vgadata or sprite_col.  The sync pulses,    *)
(* the interrupt and the display window drive nothing in the system.          *)
(***************************************************************************)
EXTENDS DmaCache

CONSTANTS
  ClkDiv,                         \* 4: a pixel lasts five clocks
  HSize, HTotal, VSize, VTotal,   \* 640, 800, 480, 525
  SpriteSize,                     \* 16
  SpriteX, SpriteY, SpriteLine,   \* the sprite's registers
  FrameBuffers                    \* values of the framebuffer register

ASSUME VideoAssumption ==
  /\ {ClkDiv, HSize, HTotal, VSize, VTotal, SpriteSize, SpriteX, SpriteY} \subseteq Nat
  /\ HSize % 4 = 0 /\ SpriteSize % 4 = 0 /\ HSize + 20 <= HTotal /\ HTotal <= 4095 /\ VSize < VTotal
  /\ HSize <= MaxLength /\ 4 <= MaxLength
  /\ SpriteLine \in Lines
  /\ FrameBuffers \subseteq Lines /\ FrameBuffers # {}

VARIABLES
  enable_sprite,                                  \* the generic; FALSE in this system
  clkDivCnt, newPixel, xCounter, yCounter,        \* timing generator
  framebuffer_pointer, vgadata,
  sprite0_counter, sprite0_data, sprite_col

vgaRegs == <<enable_sprite, clkDivCnt, newPixel, xCounter, yCounter, framebuffer_pointer, vgadata,
             sprite0_counter, sprite0_data, sprite_col, dmaInputs>>

\* The colour of a column the sprite does not show.
Blank == [blank |-> TRUE]

VgaControllerInit ==
  /\ clkDivCnt = 0 /\ newPixel = FALSE /\ xCounter = 0 /\ yCounter = 0
  /\ framebuffer_pointer \in FrameBuffers /\ vgadata = NoWord
  /\ sprite0_counter = 3 /\ sprite0_data = NoWord /\ sprite_col = Blank
  /\ dma_addr = framebuffer_pointer /\ setaddr = "none"
  /\ dma_len = 0 /\ setlen = "none" /\ req = {}

-----------------------------------------------------------------------------
(***************************************************************************)
(* The timing generator.  A line of HTotal pixels: the count HTotal itself    *)
(* lasts one clock.  A frame of VTotal + 1 lines.                            *)
(***************************************************************************)
Timing ==
  /\ clkDivCnt' = IF clkDivCnt = ClkDiv THEN 0 ELSE clkDivCnt + 1
  /\ newPixel' = (clkDivCnt = ClkDiv)
  /\ \/ /\ xCounter = HTotal
        /\ xCounter' = 0 /\ yCounter' = IF yCounter = VTotal THEN 0 ELSE yCounter + 1
     \/ /\ xCounter # HTotal
        /\ xCounter' = (IF newPixel THEN xCounter + 1 ELSE xCounter) /\ UNCHANGED yCounter

-----------------------------------------------------------------------------
(***************************************************************************)
(* What happens at the end of which pixel.                                 *)
(***************************************************************************)
Visible == xCounter < HSize /\ yCounter < VSize
AsksWord == newPixel /\ Visible
\* Mutant: a refresh is asked for at every pixel of the blank part of a line.
AsksRefreshMutant == newPixel /\ xCounter >= HSize
AsksRefresh == newPixel /\ xCounter = HSize

RestartLine == newPixel /\ ~Visible /\ yCounter = VTotal

RestartsVga == RestartLine /\ xCounter = 0
RestartsSprite == RestartLine /\ xCounter = 1
\* Mutant: the length is set in the visible lines only.
LengthVgaMutant == newPixel /\ ~Visible /\ xCounter = HTotal - 20 /\ yCounter < VSize
LengthVga == newPixel /\ ~Visible /\ xCounter = HTotal - 20
LengthSprite == enable_sprite /\ newPixel /\ ~Visible /\ xCounter = HTotal - 19

Strobes(vga, spr0) == CASE vga -> "vga" [] spr0 -> "spr0" [] OTHER -> "none"

DmaSetUp ==
  /\ setaddr' = Strobes(RestartsVga, RestartsSprite)
  /\ dma_addr' = CASE RestartsVga    -> framebuffer_pointer
                   [] RestartsSprite -> SpriteLine
                   [] OTHER          -> dma_addr
  /\ setlen' = Strobes(LengthVga, LengthSprite)
  /\ dma_len' = CASE LengthVga    -> HSize
                  [] LengthSprite -> 4
                  [] OTHER        -> dma_len

(***************************************************************************)
(* The sprite: four colours of four bits to a word, the first in the upper    *)
(* bits.  Its column is blanked in every clock outside the sprite's square.   *)
(***************************************************************************)
InSprite ==
  /\ enable_sprite
  /\ xCounter \in SpriteX..(SpriteX + SpriteSize - 1)
  /\ yCounter \in SpriteY..(SpriteY + SpriteSize - 1)

SpriteAsks == InSprite /\ newPixel /\ sprite0_counter = 0

\* The first word of a frame is asked for with the new address.
Prefetch == enable_sprite /\ setaddr = "spr0"

Sprite ==
  /\ sprite_col' = CASE ~InSprite -> Blank
                     [] InSprite /\ newPixel -> [data |-> sprite0_data, nibble |-> 3 - sprite0_counter]
                     [] OTHER -> sprite_col
  /\ sprite0_counter' = CASE Prefetch -> 3
                          [] ~Prefetch /\ InSprite /\ newPixel -> (sprite0_counter + 3) % 4
                          [] OTHER -> sprite0_counter
  /\ sprite0_data' = IF enable_sprite /\ valid = "spr0" THEN data_out ELSE sprite0_data

VgaControllerEdge ==
  /\ Timing /\ DmaSetUp /\ Sprite
  /\ req' = {c \in Channel : IF c = "vga" THEN AsksWord ELSE SpriteAsks \/ Prefetch}
  /\ vgadata' = IF valid = "vga" THEN data_out ELSE vgadata

\* A write of the CPU to register 0, in the same or any other clock.
FramebufferRegister == framebuffer_pointer' \in FrameBuffers

-----------------------------------------------------------------------------
VgaControllerTypeOK ==
  /\ enable_sprite \in BOOLEAN /\ clkDivCnt \in 0..ClkDiv /\ newPixel \in BOOLEAN
  /\ xCounter \in 0..HTotal /\ yCounter \in 0..VTotal
  /\ framebuffer_pointer \in FrameBuffers /\ vgadata \in CacheWord \cup {NoWord}
  /\ sprite0_counter \in 0..3 /\ sprite0_data \in CacheWord \cup {NoWord}
  /\ sprite_col \in {Blank} \cup [data : CacheWord \cup {NoWord}, nibble : 0..3]
=============================================================================
