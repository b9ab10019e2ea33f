------------------------------- MODULE DmaCache -------------------------------
(***************************************************************************)
(* RTL/DMACache.vhd: the prefetch buffers between the SDRAM controller and   *)
(* the video side, one step per rising clock edge.  Each channel owns a ring *)
(* of Bursts times four words in one dual-port RAM.  The input side fills    *)
(* the rings a burst at a time, the video channel first; the output side     *)
(* hands out one word per request.                                           *)
(*                                                                         *)
(* An address is a line of eight bytes; a word of data is represented by the *)
(* address it was read from, NoWord standing for RAM never written.  The two *)
(* audio channels have no input side in the code and no requests in the      *)
(* design; they are left out.                                                *)
(***************************************************************************)
EXTENDS Naturals

CONSTANTS
  Lines,       \* addresses, in units of a burst
  Following,   \* the address eight bytes further
  Bursts,      \* bursts in a ring, 16 in the code
  MaxLength,   \* the largest request length
  NoWord

Channel == {"vga", "spr0"}
Depth == 4 * Bursts
Place == [channel : Channel, word : 0..Depth - 1]
CacheWord == [line : Lines, half : 0..3]

ASSUME DmaAssumption ==
  /\ Bursts \in Nat /\ Bursts > 1 /\ MaxLength \in Nat
  /\ Lines # {} /\ Following \in [Lines -> Lines] /\ NoWord \notin CacheWord

VARIABLES
  \* inputs, driven by the VGA controller
  dma_addr, setaddr,      \* setaddr, setlen: the channel strobed, or "none"
  dma_len, setlen,
  req,                    \* the channels asked for a word
  \* input side
  sdram_req, sdram_addr, sdram_reserveaddr,
  inputstate, update, addr, count, wrptr,
  cache_wraddr, cache_wren, data_from_ram,
  \* output side
  rdptr, pending, valid_d, valid, cache_rdaddr,
  \* block RAM
  ram, data_out

dmaInputs == <<dma_addr, setaddr, dma_len, setlen, req>>
fillRegs == <<sdram_req, sdram_addr, sdram_reserveaddr, inputstate, update, addr,
              count, wrptr, cache_wraddr, cache_wren, data_from_ram>>
readRegs == <<rdptr, pending, valid_d, valid, cache_rdaddr>>
dmaRegs == <<fillRegs, readRegs, ram, data_out>>

\* Keep the bank of the next video burst clear while there is one to come.
sdram_reserve == count["vga"] # 0

-----------------------------------------------------------------------------
DmaInit ==
  LET line == CHOOSE l \in Lines : TRUE
      place == [channel |-> "vga", word |-> 0]
  IN
  /\ sdram_req = FALSE /\ sdram_addr = line /\ sdram_reserveaddr = line
  /\ inputstate = "rd1" /\ update = "vga"
  /\ addr = [c \in Channel |-> line] /\ count = [c \in Channel |-> 0]
  /\ wrptr = [c \in Channel |-> 0] /\ rdptr = [c \in Channel |-> 0]
  /\ cache_wraddr = place /\ cache_wren = FALSE /\ data_from_ram = NoWord
  /\ pending = FALSE /\ valid_d = "none" /\ valid = "none" /\ cache_rdaddr = place
  /\ ram = [c \in Channel |-> [i \in 0..Depth - 1 |-> NoWord]] /\ data_out = NoWord

-----------------------------------------------------------------------------
(***************************************************************************)
(* The input side.  A burst is started when the ring has a free burst       *)
(* besides the one being written; wrptr_next of the code is wrptr plus four. *)
(***************************************************************************)
Advanced(ptr) == (ptr + 4) % Depth

\* Mutant: the ring is full only when the writer meets the reader.
RoomMutant(c) == rdptr[c] \div 4 # wrptr[c] \div 4 \/ rdptr[c] = wrptr[c]
Room(c) == rdptr[c] \div 4 # Advanced(wrptr[c]) \div 4

Wanted(c) == Room(c) /\ count[c] # 0

Starts(c) ==
  inputstate = "rd1" /\ Wanted(c) /\ (c = "spr0" => ~Wanted("vga"))

\* The state after this edge; reset only takes effect where no arm assigns it.
InputState(running, fill) ==
  CASE \E c \in Channel : Starts(c)  -> "rcv1"
    [] inputstate = "rcv1" /\ fill   -> "rcv2"
    [] inputstate = "rcv2"           -> "rcv3"
    [] inputstate = "rcv3"           -> "rcv4"
    [] inputstate = "rcv4"           -> "rd1"
    [] OTHER                         -> IF running THEN inputstate ELSE "rd1"

RequestLine(ack) ==
  \/ \E c \in Channel :
       /\ Starts(c)
       /\ sdram_req' = TRUE /\ sdram_addr' = addr[c] /\ update' = c
       /\ cache_wraddr' = [channel |-> c, word |-> wrptr[c]]
  \/ /\ \A c \in Channel : ~Starts(c)
     /\ sdram_req' = (sdram_req /\ ~ack)
     /\ cache_wraddr' = IF inputstate \in {"rcv2", "rcv3", "rcv4"}
                        THEN [cache_wraddr EXCEPT !.word = (@ + 1) % Depth]
                        ELSE cache_wraddr
     /\ UNCHANGED <<sdram_addr, update>>

ReceiveWord(fill, word) ==
  LET receives == inputstate \in {"rcv2", "rcv3", "rcv4"} \/ (inputstate = "rcv1" /\ fill)
  IN /\ cache_wren' = receives
     /\ data_from_ram' = IF receives THEN word ELSE data_from_ram

WritePointer(c, running) ==
  CASE setaddr = c                                      -> 0
    [] setaddr # c /\ inputstate = "rcv4" /\ update = c -> Advanced(wrptr[c])
    [] OTHER                                            -> IF running THEN wrptr[c] ELSE 0

Remaining(c, running) ==
  CASE setlen = c               -> dma_len
    [] setlen # c /\ Starts(c)  -> count[c] - 4
    [] OTHER                    -> IF running THEN count[c] ELSE 0

Address(c) ==
  CASE setaddr = c              -> dma_addr
    [] setaddr # c /\ Starts(c) -> Following[addr[c]]
    [] OTHER                    -> addr[c]

Fill(running, ack, fill, word) ==
  /\ RequestLine(ack) /\ ReceiveWord(fill, word)
  /\ inputstate' = InputState(running, fill)
  /\ sdram_reserveaddr' = IF ack THEN addr["vga"] ELSE sdram_reserveaddr
  /\ addr' = [c \in Channel |-> Address(c)]
  /\ count' = [c \in Channel |-> Remaining(c, running)]
  /\ wrptr' = [c \in Channel |-> WritePointer(c, running)]

-----------------------------------------------------------------------------
(***************************************************************************)
(* The output side.  The video channel is answered at once and without       *)
(* looking whether its word has arrived; the sprite channel waits.            *)
(***************************************************************************)
Answers(c) ==
  IF c = "vga" THEN "vga" \in req
  ELSE "vga" \notin req /\ pending /\ rdptr["spr0"] # wrptr["spr0"]

Read(running) ==
  /\ rdptr' = [c \in Channel |->
        CASE Answers(c)                   -> (rdptr[c] + 1) % Depth
          [] ~Answers(c) /\ setaddr = c   -> 0
          [] OTHER                        -> IF running THEN rdptr[c] ELSE 0]
  /\ pending' = (~Answers("spr0") /\ (pending \/ "spr0" \in req))
  /\ valid' = valid_d
  /\ \/ \E c \in Channel :
          /\ Answers(c)
          /\ valid_d' = c /\ cache_rdaddr' = [channel |-> c, word |-> rdptr[c]]
     \/ /\ \A c \in Channel : ~Answers(c)
        /\ valid_d' = "none" /\ UNCHANGED cache_rdaddr

(***************************************************************************)
(* The RAM (a generated block with registered address inputs).  What is read *)
(* while it is being written is either word or neither.                      *)
(***************************************************************************)
Stored(p) == ram[p.channel][p.word]

Ram ==
  /\ ram' = IF cache_wren
            THEN [ram EXCEPT ![cache_wraddr.channel][cache_wraddr.word] = data_from_ram]
            ELSE ram
  /\ data_out' \in IF cache_wren /\ cache_wraddr = cache_rdaddr
                   THEN {Stored(cache_rdaddr), data_from_ram, NoWord}
                   ELSE {Stored(cache_rdaddr)}

DmaEdge(running, ack, fill, word) == Fill(running, ack, fill, word) /\ Read(running) /\ Ram

-----------------------------------------------------------------------------
DmaInputsTypeOK ==
  /\ dma_addr \in Lines /\ setaddr \in Channel \cup {"none"}
  /\ dma_len \in 0..MaxLength /\ setlen \in Channel \cup {"none"} /\ req \subseteq Channel

DmaTypeOK ==
  /\ sdram_req \in BOOLEAN /\ sdram_addr \in Lines /\ sdram_reserveaddr \in Lines
  /\ inputstate \in {"rd1", "rcv1", "rcv2", "rcv3", "rcv4"} /\ update \in Channel
  /\ addr \in [Channel -> Lines] /\ count \in [Channel -> 0..MaxLength]
  /\ wrptr \in [Channel -> 0..Depth - 1] /\ rdptr \in [Channel -> 0..Depth - 1]
  /\ cache_wraddr \in Place /\ cache_wren \in BOOLEAN
  /\ data_from_ram \in CacheWord \cup {NoWord}
  /\ pending \in BOOLEAN /\ valid_d \in Channel \cup {"none"} /\ valid \in Channel \cup {"none"}
  /\ cache_rdaddr \in Place
  /\ ram \in [Channel -> [0..Depth - 1 -> CacheWord \cup {NoWord}]]
  /\ data_out \in CacheWord \cup {NoWord}

\* The ring position the reader of channel c takes next has not arrived yet.
Empty(c) == rdptr[c] = wrptr[c]

\* A burst of channel c is under way: asked for, or not yet received in full.
InFlight(c) == inputstate # "rd1" /\ update = c
=============================================================================
