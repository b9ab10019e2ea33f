# ZPUTest: a verification project

ZPUTest is a small system on a chip for FPGA boards: a ZPU CPU, an SDRAM
controller shared by the CPU and a VGA framebuffer, a UART, an SPI host for an SD
card and an LCD bridge (VHDL, `src/RTL`), with boot loaders, a small C runtime, test
programs and a JPEG library in C (`src/Firmware`) and a simulator of the CPU
(`src/ZPUSim`).  The modules here model its logic in TLA+, check it with TLC on small
instances and prove the central safety properties with TLAPS.

Contents: 1 inventory, 2 modules, 3 runs with their bounds and what they show,
4 fairness, 5 proofs, 6 not modelled, 7 plan, 8 files.

## 1. Inventory

| Part | State it keeps | Operations | Interacts with | What is hard, and what makes it correct |
|---|---|---|---|---|
| SDRAM controller `RTL/sdram.vhd` | phase counter, two access slots with their banks, one-entry write cache, pending refresh, registered pins | arbitrate slot 1 (ph2) and slot 2 (ph10), column commands, write bursts, read capture, refresh, start-up | CPU port, VGA port, device pins | two accesses in flight; a write is acknowledged before it is done; correct when the CPU sees an atomic memory, the device's timing is kept, the data bus has one driver, and refreshes are sent |
| SoC bus `RTL/ZPUTest.vhd` | `currentstate`, `sdram_state`, peripheral registers, reset counter | dispatch a strobe, SDRAM read/write states, wait for VGA register, SPI, LCD | CPU strobes, controller port, UART, SPI, LCD | a pulse of one clock in both directions; a missed acknowledgement hangs the CPU |
| DMA cache `RTL/DMACache.vhd` | per channel: read and write pointers, address, words left; `inputstate` | start a burst, receive four words, hand out a word, set address, set length | VGA port, VGA controller | words are handed out without looking whether they have arrived ("This test should never fail") |
| VGA controller `RTL/vga_controller.vhd`, `video_vga_master.vhd` | pixel and line counters, framebuffer pointer | ask for a pixel, restart at a frame, load a line's length, ask for a refresh | DMA cache, controller | the schedule on which the DMA cache relies |
| UART `RTL/simple_uart.vhd` | shift registers with marker bits, dividers | send, receive | SoC bus | a byte arriving while the flag is read; overrun |
| SPI host `RTL/spi.vhd` | shift register, counter | 8 or 32 bit transfer | SoC bus, SD card | busy must cover the gap between trigger and start |
| LCD bridge `RTL/lcd_bridge.vhd` | state, next state, delay | read or write cycle | SoC bus | strobe timing, acknowledgement |
| SD driver `Firmware/Common/spi.c` | card type | reset, read sector | SPI host | retries, timeouts, failed steps |
| FAT reader and SD boot `Firmware/SDBootstrap` | geometry, one shared sector buffer, index of the buffered FAT sector; place in the manifest | find drive, next cluster, open, load; load images, start one | SD driver | one buffer with two uses; failures nobody reports |
| S-record loader `Firmware/RS232Bootstrap/rs232boot.c` | parser state | one character at a time | UART, memory | framing by a column counter |
| Heap `Firmware/JPEGTest/malloc.c` | chain of all blocks, chain of free ones | malloc, free, add | C library | splitting and merging |
| Buffered reader `Firmware/JPEGTest/rafile.c` | position, one sector | open, read, seek | FAT library | unaligned reads |
| System calls `Firmware/JPEGTest/syscalls.c` | descriptor table | open, read, seek, close | buffered reader, heap | errors half way, reuse of a slot |
| ZPU simulator `ZPUSim/zpusim.cpp`, emulation `Firmware/Common/crt0.s` | pc, stack, immediate flag | one opcode, or the routine that stands for it | - | arithmetic at the sign bit; routines written with each other |
| JPEG entropy coding `jchuff.c`, `jcphuff.c`, `jdhuff.c`, `jdphuff.c` | bit buffers, DC predictions, runs, correction bits, tables | code and decode an MCU, suspend, restart, resynchronise | coefficient controllers, source, destination | undoing half an MCU; lost restart intervals |
| JPEG transforms and colours `jfdct*.c`, `jidct*.c`, `jccolor.c`, `jdcolor.c`, ... | tables | transform a block, convert a row | row pipeline | rounding and range |
| JPEG quantisers `jquant1.c`, `jquant2.c` | colour map, histogram and cache, error rows | choose colours, map a row | post controller | one array used as histogram and as cache; switching between passes |
| JPEG memory manager `jmemmgr.c` | pools of chunks, virtual arrays with windows and stores | allocate, realise, access, free | every other part | memory ends half way; what a window must save |
| JPEG transformation `transupp.c` | work arrays | eight turns and mirrors, trimming | coefficient arrays | incomplete MCUs |
| JPEG pass control `jcmaster.c`, `jccoefct.c`, `jctrans.c`, `jdcoefct.c`, `jdinput.c`, `jdapistd.c`, ... | scan, row and MCU counters, coefficient arrays | compress or consume a row, start and finish passes | entropy coding, row pipeline | rows shown while scans come in; suspension at any MCU |
| JPEG markers `jcmarker.c`, `jdmarker.c`, `jdatasrc.c` | tables and sent flags, saved markers | write and read every marker | source, destination, all of the library | bytes that arrive a few at a time; tables left out because they were sent |
| JPEG row pipeline `jcmainct.c`, `jcprepct.c`, `jcsample.c`, `jdmainct.c`, `jdsample.c`, `jdmerge.c`, `jdpostct.c` | ring buffers, lists of row pointers, counters | write and read scanlines | application, coefficient controllers | context rows, bottom of the picture, calls of any size |

(The JPEG files are under `Firmware/JPEGTest/jpeg-6b`.)

How the parts interact.  Everything in `src/RTL` runs on one clock.  The CPU gives a
strobe of one clock and waits for `mem_busy` to fall; the SoC bus turns the strobe into
a request on the controller's CPU port (port 1) and holds it until `dtack1` falls.  The
VGA controller counts pixels and tells the DMA cache, by strobes of one clock, where a
frame starts and how long the next line is; the DMA cache asks the controller's VGA port
(port 0) for bursts of four words and tells it which bank it will want next.  The VGA
controller also times the refreshes.  There is no handshake from the DMA cache back to
the display: a pixel is read when its time has come.

The firmware runs on one processor without interrupts; what is concurrent there is the
card, the serial line and what they lose.  The boot loaders sit on the SD driver and on
the UART; the C runtime on the heap and the buffered reader; the JPEG library calls
through tables of methods from the application's row down to the bytes of a source or
destination, each of which may say "not now", after which the same call is made again.

## 2. Modules

| Module | Models | Role |
|---|---|---|
| `Sdram` | `sdram.vhd` | the controller, per clock edge |
| `SdramChip` | the memory device (external) | rows, bursts, timers, driven data |
| `CpuBus` | the SDRAM side of `ZPUTest.vhd`; the CPU (external) | strobe, `read1`, `write1`, `writeb` |
| `AtomicMemory` | - | what the memory path promises: one access at a time on a byte memory |
| `MemSystem` | CPU, bus, controller, device and a free VGA client | the composition checked against `AtomicMemory` |
| `MCMemSystem`, `MemSystemProofs` | - | small instances; theorems |
| `DmaCache` | `DMACache.vhd` | input and output side, block RAM |
| `VgaController` | `vga_controller.vhd`, `video_vga_master.vhd` | counters, strobes, sprite, framebuffer register |
| `VideoPath` | CPU, bus, controller, DMA cache, VGA controller | the composition with the real video client |
| `MCVideoPath`, `VideoProofs` | - | small instances, which meet the hypotheses; theorems |
| `Uart`, `SpiHost`, `LcdBridge` | `simple_uart.vhd`; `spi.vhd` and its tick; `lcd_bridge.vhd` | per clock edge |
| `SocBus` | the peripheral side of `ZPUTest.vhd` | one action per branch of its case statements |
| `Peripherals` | CPU, bus, the three peripherals and what is on their pins (external) | the composition with a remote sender, a listener, a card and a panel |
| `MCPeripherals`, `PeripheralProofs` | - | small instances, which meet the hypotheses; theorems |
| `SdCard` | `spi.c`; the card (external) | a command with its answer per step |
| `Fat` | `minfat.c`, `swap.c` | a sector read, with what is done with it, per step |
| `Boot` | `boot.c`, `rs232boot.c`, both ROMs with card and line | the composition; manifest, images, start; S-records a character per step; what the theorems presume of cards and volumes |
| `MCBoot`, `BootProofs` | - | volumes, manifests, records; theorems |
| `Heap` | `malloc.c` | operators from one memory to the next |
| `RaFile` | `rafile.c` | operators from one reader to the next |
| `Syscalls` | `syscalls.c` and a program on top | the composition of heap, reader and descriptor table |
| `Allocator` | - | what `malloc` and `free` promise |
| `RuntimeProofs` | - | theorems about heap, owners and reads |
| `MCRuntime` | - | programs |
| `ZpuSim` | `zpusim.cpp`, emulation routines of `crt0.s` | one opcode or one instruction of a routine per step |
| `EntropyEncoder`, `EntropyDecoder` | Huffman tables, `jchuff.c`, `jcphuff.c`; `jdhuff.c`, `jdphuff.c`, restart part of `jdmarker.c` | operators on an encoder and a decoder record |
| `JpegScan` | a file of scans through both, with damage between | the composition |
| `ColorSpaces` | `jccolor.c`, `jdcolor.c`, `jdmaster.c`, `jcparam.c` | pure operators |
| `SamplePath` | `jfdct*.c`, `jidct*.c`, `jcdctmgr.c`, `jddctmgr.c` | the transforms, and a block from pixels to pixels |
| `ColorQuantizer` | `jquant1.c`, `jquant2.c`, the quantiser part of `jdmaster.c` | passes over pictures |
| `JpegMemory` | `jmemmgr.c`, `jmemansi.c`, `jmemnobs.c` | pools, realisation, release, windows on stores |
| `JpegProofs` | - | theorems about pools, windows and transformations |
| `McuLayout` | sizes in blocks and MCUs (`jcmaster.c`, `jdinput.c`) | shared operators |
| `JpegTransform` | `transupp.c`, parts of `jctrans.c`, `jpegtran.c` | a transformation of a picture |
| `EncoderPasses` | `jcmaster.c`, `jccoefct.c`, `jctrans.c`, `jcapistd.c` | scans and passes of encoder and transcoder |
| `DecoderPasses` | `jdinput.c`, `jdcoefct.c`, `jdapistd.c`, `jdapimin.c`, `jdtrans.c`, tables of `jddctmgr.c` | input and output passes, smoothing |
| `Markers` | `jcmarker.c`, `jdmarker.c`, `jdatasrc.c`, `jcapimin.c`, `jcomapi.c`, saved markers of `transupp.c` | files of markers between a writer and a reader |
| `Scanlines` | the row pipeline of encoder and decoder, dimensions in `jdmaster.c` | rows between application and coefficient controller |
| `MCJpeg` | - | the eight JPEG parts side by side, each on its own inputs |

**State and actions of the hardware.** A signal of the VHDL is a variable of the same
name (where two entities use one name, the comment at the variable says which is meant).
One step of `Next` is one rising clock edge: every clocked process reads the unprimed
registers and assigns the primed ones, so the order of the processes does not matter, as
in VHDL.  Inside a process the last assignment wins; the definitions are written with
that decided: `WriteCache`, for example, says `writecache_req' = (~writecache_ack /\ ...)`
because the clearing by `writecache_ack` comes after the setting.  The disjuncts of an
action are the branches of the code: `Slot1Refresh`, `Slot1Vga`, `Slot1Write`,
`Slot1Read`, `Slot1Idle` are what can happen in ph2, `BusIdle`, `BusRead`, ... the states
of the bus.  The CPU's choices (whether, when and where it accesses) and, in `MemSystem`,
those of the VGA client are nondeterministic.  In `Peripherals` a *program* says which
registers the CPU accesses and what arrives meanwhile; one of the set `Programs` is
chosen at the start, and one run covers them all.  A program is as careful as the
firmware and no more: it writes a character only after it has seen `txready`
(`minisoc_hardware.c:6`) and selects the card only after an exchange with nobody selected
(`spi.c:225-228`).

**State and actions of the firmware.** A C variable that outlives a call is a variable or
a field of the same name.  What runs without anything able to come between is one step: a
command to the card with its answer, a sector with what is done to it, a character, a
system call, a call of the JPEG library up to where it returns or suspends.  Functions
are operators from one record of state to the next, so a caller composes them as the code
does.  Failures (an answer that is lost, memory that ends, a destination that is full)
are choices of the environment, with a bound on their number where they would otherwise
have no end.

**Data.** In the hardware a line is a bank, a row and a group of four halfwords; the
controller's address arithmetic keeps its effect (the burst wraps within its line, a
halfword write is moved back by one).  Bytes are members of a small set.  `VideoPath` has
no memory device: that the words handed over under `vga_fill` are those of the granted
line is `VgaLineIntact` of `MemSystem`, so there a word is represented by its address.  A
write to a peripheral carries the bits its register looks at, a read returns the bits it
drives; bits are kept where a shift register moves them (UART, SPI).  A sector is what it
is (the n-th of the FAT, of a file); a byte of a file is its position; heap addresses are
in units of a header.  Pixels and coefficients of the JPEG parts are integers, computed as the
code does wherever a property looks at them; blocks are of two by two (`DCTSIZE` 2) where only
their order and place matter, and of eight by eight in `SamplePath`.

**Abstraction.** The electrical encoding of commands, the unused `cas_dqm` and port-1
fill signals, sync pulses and colour outputs are left out.  What reset leaves undefined
and is read before it is written (`vga_ack`, `writecache_ack`) starts with any value; so do
the variables of `rs232boot.c` and `minfat.c` that nothing clears.  The block RAM read while
written returns the old word, the new one or neither.  Texts, traces, warnings and progress
monitors are left out.

## 3. Runs

### Memory path

| Run | Question | Instance |
|---|---|---|
| `mem_system` | `TypeOK`, `SlotsDisjoint`, `PostedWriteKept`, `DeviceTiming`, `VgaLineIntact`, `ImplementsMemory` | two kinds of traffic, one of which a behaviour keeps to: word reads and writes at two addresses in two banks, one of them in the line the VGA client reads, with VGA requests and refreshes at free times; and halfword and byte writes on the second row, at the start of a line, where the burst wraps, with refreshes |

`ImplementsMemory` is the refinement `AtomicMemory`: the abstract store is the device's
contents with the posted write laid over it (`Visible`), the abstract request is pending
until the clock in which `dtack1` falls, so a write takes effect when it is latched in the
write cache and a read when its second word is in the output register.  The invariants
say why it holds: two accesses in flight never share a bank or a client, the entry of
the write cache lives until its second beat is out, every command meets the device in a
state that allows it and at most one side drives the data bus.

*Bounds.*  The phase counter and the start-up are at full length.  Two addresses are
enough for a read to meet the posted write of the same or another bank in each slot; an
entry of the write cache is single, so a third address adds no new relation.  `MCMemSystem` keeps the
two kinds of traffic apart, because all operations at all addresses beside a VGA client are too many states.  One data
word is enough because every byte of the initial contents is different from it and from
each other.  `RowCycle` and `RefreshCycle` are 15 clocks: one less than the round after
which the same phase may open the bank again, the longest the code can be written for.
The VGA client acts in phase 1 (and 14): the controller looks at its wires in ph2, ph10
and, while starting up, in ph14.

### Video path

| Run | Question | Instance |
|---|---|---|
| `video_path` | `PixelStream`, `NoUnderrun`, `RefreshKept` | two systems: frames of two lines while the CPU reads and writes the bank of the frame's first burst at any time; the same with a sprite and with the framebuffer register written at any clock |
| `video_service` | `AllServed` | one short line, CPU reads at any time, fairness |

The properties are stated from the second frame restart after reset on.  In the first
frame the cache may be read before it is filled and stray bursts may be started by a
length set while the controller is not ready; the restart clears both.

*Bounds.*  The pixel divider (`ClkDiv` 4: five clocks a pixel), the lead of 20 pixels with
which a line's length is set, the burst of four and the round of 16 clocks are the
code's own.  A line is shortened to 24 visible and 64 total pixels, the ring to four
bursts of four words, a frame to two visible lines and one blank.  What the schedule
depends on is kept: a line is longer than the ring, so the ring is refilled while it is read;
a line is a whole number of rounds (64*5 = 20*16, as 800*5 = 250*16), so lines start in
the same phase of the controller; the bank of the first burst of a frame is one
the CPU uses, and the reservation goes round all four banks.  The reset counter lets go
in pixel 0 (`ReleasePixels`).  In `video_service` a line is 12 of 32 pixels.

*What the runs show.*
- A burst can be refused for several rounds because the CPU is in its bank, but only the
  first of a frame; the lead of 20 pixels and the refresh of the line, which closes slot 2,
  leave enough time.  `PixelStream` and `NoUnderrun` hold although "This test should never
  fail" (`DMACache.vhd:259`) is not a test in the code.
- A burst asked for is granted only because of the refresh: a CPU that follows the 16-clock
  round can hold the bank in slot 2 each time slot 1 is decided, and only the refresh, for
  which slot 2 stays closed, breaks the pattern.  The CPU is served because lines end:
  while bursts are asked for, slot 1 is taken, and slot 2 may be closed to the bank reserved.
- The reservation does not say what the comment in `sdram.vhd:107-108` says: after a frame
  restart it names the bank after the last burst of the old frame, not the one that will be
  asked for next.  Nothing but a lost chance to overlap follows from it.
- Every pixel is one behind the request: column 0 shows the last word asked for before it.
  A sprite shows all its columns but the last, which is blanked by the end of the window.
- Sprite and CPU traffic together are not in the instance: on a ring of four bursts a sprite burst
  that the controller refuses holds up the one input state machine (`DMACache.vhd:153`), and
  the pixel stream can run dry.  The sprite's registers are constants that switch it off in this
  system (`vga_controller.vhd`), so the case does not arise.

### Peripherals

| Run | Question | Instance |
|---|---|---|
| `peripherals` | `NothingLostOrReadTwice`, `ReceivedOnce`, `SpiExchange` | two programs: `Receiving` reads the UART and is held up by VGA register writes while characters arrive at any time; `Exchanging` mixes narrow and wide SPI accesses, reads of the busy bit and selections at any time |
| `peripherals_served` | `NothingDropped`, `Transmission`, `LcdAccess`, `Served` | two programs: `Sending` polls and sends; `Drawing` reads and writes the panel, selected or not, with other registers between |

*Bounds.*  The divisors are 31 to receive and 15 to send (1000 or so on the board): a bit
of the sender takes 31 or 33 clocks against the receiver's 32, about 3%, which is the kind of
error two crystals and a rounded divisor give; a character ends within a bit of where it
should.  Two characters, one of them with no edge but the stop bit's, arrive back to back or
apart.  The SPI ticks are 1 and 2 instead of 8 and 256: every exchange begins at every phase of
the tick.  The card's stream has five bits, prime to eight and 32, so exchanges differ.
The panel's word is there ten clocks after `lcd_rd` falls, it drives on for one or fourteen after
`lcd_rd` rises, the limits of the bridge's delays, and its words have two bits.  The delays of the bridge are at full length.

*What the runs show.*
- The flag is exact up to the first overrun.  After one (`unread = 2`) a character is lost
  without a trace (`simple_uart.vhd:160`), and a read in the clock of an arrival returns the new
  character with the flag of the old one, and sets the flag again: the new one is read twice.
  The properties stop there, as the code has no provision for it.
- `busy` includes the trigger, so the bus never sees the gap before the transfer starts.  The
  first trigger after reset raises the clock line, an edge that a selected card would count as
  a bit; `spi.c` makes exchanges before it selects the card, and `SpiExchange` is stated for a
  program that does.
- `SPI_CS` shares its register with the panel's select line: a program that selects the card
  deselects the panel, and the other way round.
- Every state of the bridge acts twice, because the next state is a register.  `rd1` keeps what
  is on the bus one clock after `lcd_rd` has risen: reads return the panel's word if the panel
  drives on for at least a clock, as the instance's does.
- The bus writes bit 31 to the panel's register select unchanged, where low is a command: the
  header's comment (`minisoc_hardware.h:91`) has it the wrong way round.  Its line 77
  calls the wide exchange 16 bits; the code exchanges 32, as `SpiExchange` says and `spi.c:300` uses.

### Boot programs

| Run | Question | Instance |
|---|---|---|
| `boot` | `CardKnown`, `LoadedExactly`, `LoadsWhatIsThere`, `StartsLoaded`, `RecordsLoaded`, `Ends` | both ROMs: no card and three kinds of card, six volumes (FAT16 and FAT32, with and without partition table, four manifests, an unknown file system, one beyond 2^28), up to two commands, answers or sectors lost; three programs of S-records with up to two characters lost or changed |
| `fat_buffer` | `FatBufferCurrent` (violated) | a FAT32 root directory of two clusters, nothing lost |

*Bounds.*  Counters that only delay are scaled (`InitLoop` 5 for 20000, `TypeLoop` 4 for 50):
a card needs at most one command more than the first.  `SwapRange` 4096, `ByteAddresses` 4160
and `AddressRange` 2^24 put the wraps within reach of the volumes.  FAT sectors have two or
four links, so that every step of a chain changes the sector.  The geometry that nothing
clears starts at zero or as another volume's.

*What the runs show.*
- The finding: after the chain of a FAT32 directory has been followed once, the directory sector
  read next lies in the FAT buffer under the index of the FAT sector, and the first link of a
  file found there is read from it (`minfat.c:244`).  On such a volume a file is loaded wrong.
- Loaded files are exact unless a link could not be read: `GetCluster` then answers cluster 0
  and nobody notices (`minfat.c:275`, variable `misled`).  If a card is removed for good,
  `FileOpen` goes on following a FAT32 directory; with a bounded number of losses it ends.
- A card of the large kind whose answers to CMD58 and CMD41 are lost is addressed by bytes; `CardKnown`
  excepts the answer that tells the type.
- `swap.c:6` loses four bits of a swapped word (its mask has seven digits).  A volume that starts beyond them
  is looked for elsewhere; `LoadsWhatIsThere` says that such a volume, like one that `FindDrive` refuses, gives no
  file at all, although `main` goes on with the geometry of power-up and whatever sector 0 is.
- `main` ignores what `LoadFile` returns (`boot.c:92`).  A program may be started without an image that a loss kept
  away (`missed`); `StartsLoaded` says that this is all a loss can do: the other images are in place, however the
  failed load left card, buffer and geometry, and with nothing lost none is missing.
- A manifest address with a letter is parsed wrong (`boot.c:76-78` subtract one constant for both
  digits and letters) although `manifest.txt:2` speaks of a hexadecimal address; the
  manifests here use digits.
- The S-record loader keeps what arrives whole.  S0's header counts as data at a two-digit
  address; S5 never reaches data; the checksum is not looked at; a changed type digit A to F
  starts early what has been sent; the entry of S7 to S9 is only printed.

### C runtime

| Run | Question | Instance |
|---|---|---|
| `runtime` | `HeapSound`, `OneOwner`, `ReadsExact`, `ImplementsAllocator` | ten units of heap; a program that allocates and frees any of four sizes, and one that opens, reads a sector or more, seeks and closes; one failing open or sector |
| `read_bytes` | `ReadsExact` (violated) | reads of less than a sector |

*Bounds.*  Sectors of four bytes, files of three, two descriptors, three blocks at a time:
enough for every pattern of neighbours that a freed block can have, and for reads that begin
and end in the middle of sectors.

*What the runs show.*
- The finding: `RARead` drains the buffer up to the number of bytes asked for, not to the end of
  what it asks from, so a read of less than a sector that crosses one gets bytes of the wrong
  place (`rafile.c:14-17`).  newlib reads 1024 bytes at a time and `junixio.c` 4096, which is why
  the programs of this repository do not meet it; `runtime` reads as they do.
- `ImplementsAllocator` is a refinement: every call is a step of `Allocator` or none of its
  business.  `_sbrk` always refuses, so the arena never grows; a block may be a unit too long.
- A failed sector leaves old bytes in the buffer (`suspect`); `lseek` ignores `RASeek`'s result, also where `FileSeek`
  (outside the repository, so it may fail) could not follow the chain; slots
  of the descriptor table are never used again; a failed open leaves the address of a
  block already freed, which `OneOwner` shows to be harmless.

### Simulator and emulation

`zpu_sim` (`EmulationAgrees`, `Returns`): 22 opcodes on thirteen operands around every boundary
(0, 1, 2, the sign bit, all ones, alternating bits), executed by the interpreter and by the
routines of `crt0.s`, in which each optional opcode is again either executed or emulated.  Words
have ten bits, the fewest that hold the routines' addresses; an `im` carries seven, as in the
source.  Shifts by the word's width and more, and the order in which `pushspadd` reads its
operand and the stack pointer, are undefined in C++ and nondeterministic here.  The step limit,
self-modifying code and byte access are not modelled.

### JPEG library

The run `jpeg` takes each of eight parts through its own inputs; `MCJpeg` puts them side by
side and a behaviour works on one of them.

| Property | Module | Question |
|---|---|---|
| `CoefficientsReturn` | `JpegScan` | do coefficients come back through tables, buffers, suspension, restarts and damage |
| `SamplesReturn` | `SamplePath` | do samples come back through colours, transforms and quantisation, within what quantisation justifies |
| `ColorsNearest` | `ColorQuantizer` | is each colour put out the nearest to the one wanted, errors passed on exactly |
| `RowsKept`, `MemorySound` | `JpegMemory` | are rows kept when windows move; is memory neither lost nor given twice, when it ends half way too |
| `PictureTurned` | `JpegTransform` | does the written file show the source turned, table by table and pixel by pixel |
| `ScansWritten` | `EncoderPasses` | does each scan have its blocks in order, however the destination makes it wait |
| `PictureShown` | `DecoderPasses` | does each row shown have what the scans asked for say of it |
| `MarkersKept` | `Markers` | does the reader know at each SOS what the writer knew, over several files |
| `LinesRight` | `Scanlines` | does every row pass once and right, in calls of any size |

*Bounds and what is left out, part by part.*

- **Entropy coding.**  A byte has four bits, a block six coefficients, a run is at most two, a size
  at most three, a code at most four bits with three looked up at once, the bit buffer twelve,
  the correction buffer eight: every field meets its limit within a block or two.  Symbols that
  use escape (`0xFF` and stuffing), runs longer than a code holds, end-of-band runs over
  several blocks and refinements all occur.  The zigzag order is left out (coefficients are numbered in it);
  one block per MCU and component; at most two consecutive intervals are lost and one scan of a
  file damaged: with more, the marker's number modulo eight no longer tells (`jdmarker.c:1192`), as the
  comment there says.  A progressive encoder needs a destination that never refuses, as in the code.
- **Samples.**  Blocks of 8 by 8, integers computed as in the code.  The fast transforms only with
  quanta of three and more: their loss below is documented (`jfdctfst.c:26-30`, `jidctfst.c:62-66`).
  An RGB file is not turned to grey, by design.  A YCCK file stripped of its Adobe marker is taken for CMYK.
- **Quantisers.**  The histogram saturates at two (`HistMax`); colours of the two-pass map are
  compared with the centre of their cell, as the code does; one-pass breakpoints may be off by one;
  an ordered dither reaches the level wanted on average within two.  `start_pass_2_quant` turns ordered dithering
  into error diffusion; switching to an external map without `jpeg_new_colormap` is misuse and left out.
- **Memory.**  Sizes are scaled (alignment and headers of two, chunks of at most twenty, slop of 9
  and 5).  The system gives chunks as long as its memory lasts, at any point of a request, a small pool with its slop
  halved any number of times; a temporary file may be refused in the middle of a realization.  The
  two kinds of arrays are one model.  A caller writes rows in one step with its access and fills
  rows that held nothing.  Both back ends: `jmemansi.c` with a limit, `jmemnobs.c`.
- **Transformations.**  Blocks of two by two, pictures with incomplete MCUs in both directions.  A
  reduction to grey presumes that the first component is the most sampled one, as the code does.
- **Passes.**  Blocks of two by two with six coefficients in progressive scans; entropy coding is
  represented by the blocks it is given; "consume input until" is repeated single steps, so the
  source may stop anywhere; a file may redefine its tables between scans.  Comment `jddctmgr.c:163-166`
  leaves a component whose table has not come yet at multipliers of zero: an output pass begun
  before its first scan shows it grey to the end, though later rows could have it.  `PictureShown` says so exactly: the
  pass shows a component with the table of its first scan if that had been read when the pass began (`begun`), and else with zeros.
- **Markers.**  Tables have two values and codes two lengths; coded data are left out, but for what may be
  left of them after SOS.  A source has 0 to 12 bytes at a time, or ends the file itself;
  a destination without room aborts the file, and the application then writes all tables.
  A file of arithmetic coding (SOF9, SOF10) is read like the others, its tables skipped, and refused when decompression
  starts (`jdmaster.c:374-377`); an application's own marker processors are left out.
- **Rows.**  Blocks of two by two: full size and half of it.  An image row takes part as what it is
  made of; converting and quantising one row's colours is in `ColorSpaces` and `ColorQuantizer`.
  Calls pass one or three rows, at most or exactly; the
  destination stops after any row of MCUs and the source before any; passes are given up at any row.

*The run `strip_bottom`* (`MCJpeg`, `ScanlinesInPicture`, violated) reads a picture of eight rows through strips
of three (`StripsOfThree`).  With two-pass quantisation `post_process_2pass` (`jdpostct.c:223-226`,
"We have to check bottom of image here, can't depend on upsampler.") takes the rows left from
the start of the strip and not from the next row in it.  If a strip has three rows or more
(vertical sampling factor 3 or 4) and the last strip is not full, a call that takes one row and
then one with room for more gets rows that lie beyond the picture, and `output_scanline` becomes larger than
`output_height` (`jpeglib.h:489` says `0 .. output_height-1`): 3, 6, 7, 9.  `Scanlines` has the code's expression; the
two-pass jobs of `jpeg` keep to strips of two rows, where the two expressions agree, since `LinesRight` could not
hold behind the picture's end.  A smaller limit: `jpeg_read_scanlines` with room for no
row loses one when upsampling is merged, so `LineCounts` has no zero.

## 4. Fairness

Most runs check safety and assume nothing.  Where something must happen:

- `video_service`, `peripherals_served`: `WF_vars(Next)`, the clock does not stop.  Nothing is
  assumed of the CPU (it may never access, or access at the worst moment) nor of the serial
  partner; the panel takes part in no handshake.
- `boot`: weak fairness of the boot program's own steps (`SdBoot`): the processor runs.  Nothing is
  assumed of the serial line.  `Ends` is for a bounded number of losses and a manifest without a loop command.
- `zpu_sim`: `WF_vars(Next)`, the interpreter's loop goes on.

The other programs are sequential and a call that cannot go on returns; whether it is called again
is the application's affair, so no liveness is claimed of them.  That nothing is held back at the end is
part of their safety properties (in `LinesRight` a call that takes no row is one the destination or source
stopped), and deadlock is checked except where the system may stop (`boot`, `runtime` and their violations).

## 5. Proofs

### `MemSystemProofs`

For every geometry, every set of CPU operations, addresses and words, every choice of VGA
lines and phases, and every device that meets `TimingAssumption`:

- `TypeCorrect`: `Spec => []TypeOK`, one lemma per component's step.
- `SlotsAlwaysDisjoint`: `Spec => []SlotsDisjoint`.  Inductive together with the types:
  each arbitration compares with the bank of the other slot, and a slot is left with
  its owner until its own next arbitration.
- `PostedWriteAlwaysKept`: `Spec => []PostedWriteKept`.  Not inductive as it stands: that
  the entry is still held when its second beat goes out depends on the slot having been
  granted while it was held (`WriteHeld`), on no other acknowledgement coming between
  (`AckPhase`: an acknowledgement appears in ph7 and ph15 only) and on nothing being
  granted before the controller is ready (`IdleUntilReady`).  `PostedInv` is their conjunction.
- `DeviceAlwaysTimed`: `Spec => []DeviceTiming`.  The property speaks of the command on the
  pins and the state of the device; what makes it inductive (`DeviceInv`) is which phase it
  is: which command can be on the pins in which phase and for which slot it was prepared
  (`CommandInv`, `GrantInv`), that a row opened for a slot stays open until the column
  command (`RowInv`), how long ago each bank was opened (`TimerInv`), which burst runs in
  which clock (`BurstInv`), when the controller drives the bus (`WriteEnableInv`) and that the
  mode was set before the start-up ends (`ModeInv`).
- `VgaLineAlwaysIntact`: `Spec => []VgaLineIntact`.  The words handed out so far are those
  of the line requested, and the rest of the burst is still to come from it; the device
  changes only in the phases of a slot that writes, which holds another bank.
- `MemoryImplemented`: `Spec => ImplementsMemory`, the refinement of `AtomicMemory`, for which
  every step of the path performs one access or stutters.  A write takes effect when the write
  cache latches it, a read with its second word.  `PathInv` relates the strobe, the request on the
  port and the slot that serves it (`BusInv`, `AcknowledgeInv`, `ReadInv`, `WriteInv`).  The
  step to see is that a beat of a posted write leaves `Visible` as it was: it moves bytes from
  the entry to the device, and the entry is given up with its last byte.

`TimingAssumption` is in `SdramChip`: a bank may be reopened within 16 clocks, the device is
ready again 16 clocks after a refresh, and a column command may come two clocks after its row was
opened.  Those are the distances `sdram.vhd` keeps between its phases; it has no counter that would
wait longer, so for a slower device the theorem is false.

### `PeripheralProofs`

For every set of programs, characters, selections and divisors and all partners:

- `FlagIsExact`: `Spec => []NothingLostOrReadTwice`.  Inductive as `Flag`, which adds that
  before an overrun flag and pulse are not up at once, relative to `Handshake`: a strobe meets a
  bus that is waiting, so each one is taken up by exactly one branch of `BusEdge`
  (`BusCases`, `FlagStep`).
- `NoCharacterDropped`: `Spec => []NothingDropped`.  The invariant `Sender` carries what the
  program has seen across the clocks until it writes: once read as ready with no start
  pulse under way, the transmitter stays ready, because only the program's own write starts it.
  It needs that the status is sampled in the clock the read is taken up and acted on
  one later, and that an access that waits is never one of the UART.
- `PanelAccessed`: `Spec => []LcdAccess`, for panels that meet `PanelAssumption`.  The invariant
  `LcdInv` lists the ten phases of an access, each with the delay left, what the panel has
  latched and the clocks it may still drive the bus: `rd1` and the waiting states act
  more than once, so the state of the bridge alone does not tell.
- `CharactersSent`: `DivisorKept` implies `Spec => []Transmission`.  `TransmitInv` says which bit
  is on the line and how many clocks of it are left, and that the shift register holds
  the bits to come.  The hypothesis is that a program which sends does not write the divisor with
  another value: the transmitter reloads its counter from the register at every bit, so a character
  would end in bits of another length.  It holds in the run, and for the firmware, which
  writes the divisor once.
- `BitsExchanged`: `DivisorKept` implies `Spec => []SpiExchange`.  `SpiInv` has four phases: before
  the first exchange, at rest, triggered, and exchanging; in the last `Shifted(k)` says where
  the first k bits of card and host are.  The widths of all registers (`Types`) are part of the property
  and of the proof; the receiver's counter needs the hypothesis.
- `CharactersReceived`: `DivisorKept` and `DriftTolerated` imply `Spec => ReceivedOnce`: every
  character is reported once, with its bits, before the next frame begins.  Sender and receiver
  share no counter, so `ReceiveInv` speaks of t, the clocks since the frame began: the
  sender is r clocks into bit i, `Carried` says what the two synchroniser stages still hold of the line,
  and `Follows` gives state, tick and buffer of the receiver as functions of t.  It sees the
  start edge two clocks late, so its sample of bit k is of the clock `Half + k * Period` and a few; that this lies within
  bit k for every k, the stop bit included, is `MiddleOfBit`, and that the receiver is at rest
  before the next start edge is `DoneInTime`.

`DriftTolerated` bounds the width w of the sender's bits against the divisor d: half a bit and three clocks
fit in w, the stop bit of the sender has begun before the sample of the stop bit, and its ten last until the
receiver is at rest.  For large d that is about five percent either way.  Divisor 31 in the run tolerates 31 to 33.

`PanelAssumption` is in `Peripherals`: the panel's word is there ten clocks after `lcd_rd`
falls, and the panel lets go of the bus within 14 clocks after it rises.  Those are the delays
in `lcd_bridge.vhd`; the run takes the limits themselves, `AccessTime = 10` and
`HoldTimes = {1, 14}`.

### `RuntimeProofs`

For every arena, header size, descriptor table, sector size and set of programs:

- `HeapAlwaysSound`: `Spec => []HeapSound`.  What the property says of the chains (each lists
  exactly what it should) is not inductive, because it speaks of walks and a step changes links.
  `HeapInv` speaks of single headers: a block's kind and size fit the arena (`Kinds`), every unit
  lies in exactly one block (`Covering`), the main chain's next block is the nearest above
  (`MainChain`), `free_next` and `free_prev` undo each other (`Links`), no proper part of the
  free blocks is a ring of its own (`OneRound`), and no two free blocks are neighbours (`Merged`).
  `OneRound` is what makes the free chain one ring and not two; it is kept by insertion and
  removal, where reachability would need induction.  Each helper of `malloc.c` has its lemma (`Split`,
  `RemoveFromChains`, `JoinPrevious`, `PushFree`, `JoinNext`); `HeapInvSound` derives the walks.
- `OneOwnerAlways`: `Spec => []OneOwner`, inductive with `HeapInv` and the types (`RuntimeInv`).
- `AllocatorImplemented`: `Spec => ImplementsAllocator`, step by step: a call that succeeds is
  `Grant` (`Covering` says nobody else has the units), one that fails is `Refuse` (by `Merged` a
  stretch of free units lies in one block, so first fit finds it), `free` and `close` are `Release`; a failed
  open allocates and frees, and is a stutter because the heap keeps the other blocks.
- `ReadsAlwaysExact`: `WholeSectors` implies `Spec => []ReadsExact`.  `WholeSectors` says that every
  program reads at least a sector at a time: without it the statement is false, which is the
  finding of `read_bytes`.  `FilesInStep` says that the buffer holds the sector before
  the next one to read whenever the position is inside a sector.

`SyscallsAssumption` asks that there is memory for a header above the program: `malloc_add` rounds
down, and with less it would make a block of size zero.

### `BootProofs`

For every number of losses, every volume and manifest, all lengths of loops, sectors and links:

- `CardAlwaysKnown`: `WarmsUpInTime` implies `Spec => []CardKnown`.  `SdInv` says at each command
  what the card has been told: which commands can still be refused because it is warming up
  or lose their answer is bounded (`Delays`), so no loop runs out on a card that only needs time; a wrong
  type comes of one lost answer alone.  `WarmsUpInTime`: the card asks for fewer
  repetitions than the loops of `wait_init` and `wait_initV2` have left after `MaxFaults` losses; a
  card that needs more is given up or taken for another kind.
- `LoadedAlwaysExactly`: `CardsInOrder` implies `Spec => []LoadedExactly`.  `FatInv` has two halves.
  While nothing is being loaded no buffer shows a manifest, and the geometry is the volume's, or
  what was there at power-up but for the type of FAT, or the card's type is wrong (`Before`).  While
  something is, either all that is known is right (`Found`) and each place of `LoadFile` holds what
  `AtDir`, `AtData` and `AtLink` say: the buffered FAT sector is the one its index names, the cluster at hand
  holds the sector due next, what precedes is in memory.  Or it is not (`Astray`), and then only the
  manifest is looked for, never found, and nothing is loaded.  That `buffered_fat_index` is right is the step to
  see: the directory's end must not be followed by another directory sector.
- `WhatIsThereIsLoaded`: with `WarmsUpInTime` and `FilesListed` too, `Spec => []LoadsWhatIsThere`.  `CleanInv`
  adds that with nothing lost a file being looked for lies ahead in the directory (`Ahead`), that a `Usable`
  volume is found; where it is not, what is read stays `Astray`.
- `StartedLoaded`: with `ImagesApart` too, `Spec => []StartsLoaded`, under any losses.  `StartInv`: either the manifest goes
  round (`Round`) and is never started, or every line passed is a comment or an image, and the images that
  no later line replaces are in memory or among those `missed` (`Onward`); loading one writes outside the others,
  also when it fails half way.

`CardsInOrder` is what a formatted card gives and the driver can address.  The parts lie on the
card; clusters hold files in order and links lead from one to the next (`Placed`, `Chained`); directory
sectors name files, and *a FAT32 root directory is one cluster long* (`Named`): for two the statement
is false, which is the finding of `fat_buffer`.  Files are shorter than the swap's range; a card addressed by
bytes has no more sectors than 32 bits reach.  The manifest ends with a command and its addresses consist of
digits (`Readable`).  Where a card is misread (its type unknown, the geometry never set, or the volume's start cut by the mask) no directory
happens to lie that names a manifest (`OutOfTheWay`): the program would run on with whatever
it read there.  `FilesListed` says that the root directory lists every file, `ImagesApart` that images
for different addresses do not overlap.  All are evaluated by TLC for the instance of `boot` (`InstanceInOrder`);
the invariants `SdInv`, `FatInv`, `CleanInv` and `StartInv` hold in all of its states.

- `RecordsAlwaysLoaded`: `ProgramsInOrder` implies `Spec => []RecordsLoaded`, for every program, any number
  of records and any characters lost or damaged.  The state machine of `HandleByte` is compared with the record that is on
  the line (`Followed`): what it has read of type, count and address (`HeadRead`, `AddressRead`), which bytes of the
  data it has stored and which half byte it holds (`DataRead`), and that it starts the program behind the address
  of a start record and nowhere else (`StartRead`).  `LineInv` says so of every record none of whose characters was
  lost, because `S` brings the machine back from wherever the one before has left it; and, with nothing
  lost at all, that memory holds the records passed and nothing but what was sent.  `CharacterFollowed` is
  its step, with a case for each column.  `ProgramsInOrder` says that a record's address has the digits of its type and
  its length fits the count byte.

That a record's digits give back its numbers, a sum is a number and an address parsed is one takes induction over
data, because texts, sums and `ParseAddress` are folds.  It is done over sets: a fold of the community modules is a function
of the elements that are left, chosen to satisfy an equation (`SumDef`, `OrDef`, `ParseDef`); `FoldExists` gives such
a function, `FoldStays` keeps its values in a set, and `BytesRead` finds the digits of every byte in the
concatenation.

### `VideoProofs`

- `RefreshAlwaysKept`: `PixelsLast` implies `Spec => []RefreshKept`, for every display mode, device and
  framebuffer.  A refresh is requested where the visible part of a line ends; the part that follows has at
  least twenty pixels in every mode, so 57 clocks and more at three clocks a pixel.  A waiting
  refresh closes slot 2 to new requests, so it waits two rounds at most and is over within 41 clocks.
  `RefreshInv` keeps these distances: the clock within the round (`Clock`), why there is a request
  (`Requested`), how long it can still take (`OnTime`), and when slot 1 is left for it (`AtStart`).
  `PixelsLast` asks for three clocks to a pixel; `video_vga_master.vhd` takes five.
- `NeverUnderrun`: `DisplayTimely` implies `Spec /\ ~enable_sprite => []NoUnderrun`, for lines and pictures of any
  size, rings of any length up to a line, every geometry, any accesses of the CPU at any time and any
  framebuffers.  The system is built without sprite (`ZPUTest.vhd`); with one the claim stays with TLC.

`NoUnderrun` speaks of one clock, the one in which a word is taken; what makes it inductive (`DisplayInv`) is
time.  `InTime` is the core: while the display takes words that neither the ring holds nor, a burst being
under way or startable, can wait for, the clocks until the burst is counted (`Due`: to the next ph2,
a round more if slot 2 is in its bank, and the read) are not more than the clocks in which the display uses up
what is there (`Lasts`).  Each clock takes one off both, except where something is granted, completed or
begun:

- a line's length is set nineteen pixels before its first word is taken, 95 clocks, and the worst burst takes 42;
- a burst that is completed adds twenty clocks, and the next one takes fifteen, unless slot 2 stands in its way;
  that was then so before the length was set (`Jam`), because while words of the line are not asked for
  the bank of the next burst is kept clear (`Reserve`);
- the reservation names the wrong bank after a restart (see `video_path` above), until the first burst of the
  frame is granted; that happens in the last blank row, since its refresh comes first and empties slot 2;
- the ring is full when it cannot take a burst, and eight words then last forty clocks.

The rest is bookkeeping: the controller and the cache go through request, grant and words in step (`Sync`); the
words there, coming and not asked for are at least those that the line still takes, and the writer stays behind
the reader (`Surplus`, `Ring`); a restart leaves enough of the last length to fill the ring
(`Enough`); and what a length set during the reset starts is forgotten by the cache and over at the port
before the reset ends (`Early`, `Orphan`), which is why `DisplayTimely` asks that it end in the visible columns.

`DisplayTimely`: pixels of five clocks or more, four bursts or more, a ring no longer than a line, and a blank part of 34
pixels.  The code has five clocks, 16 bursts, 64 words for 640 pixels and a blank part of 160, and its reset
ends 65536 clocks after power-up, 1536 clocks into a line of 4000.  `MCVideoPath` evaluates it.

### `JpegProofs`

- `RowsAlwaysKept`: `ArraySpec => []RowsKept`, for arrays of any number and size and
  windows of any height that takes one access: what a caller is handed is what was last put into
  the row.  `ArraySpec` is the accesses alone.
- `MemoryAlwaysSound`: `MemorySpec => []MemorySound`, for any memory, limit, sizes and requests.
  What the property says is not inductive, because it compares totals.  `MemoryInv` puts every
  chunk but the manager's own in exactly one place of one list, with the size its header says (`ListsMatch`);
  each object in the used part of a chunk of its pool (`Lies`), so that what is carved from the rest is
  apart from it and freeing a pool takes its objects and no others; during a realization the least
  and the most all arrays need, the share that comes of them, and each window within the share
  (`LimitsRight`); as many files as arrays with a store.  A call lets lists only grow
  (`Allocated`, `Enlarged`), also when it fails half way, which is why an abort finds all of it.
- `RowsKeptInMemory`: `MemorySpec => []RowsKept`: the windows that a realization chooses take one
  access (`WindowRange`), so the manager's steps are steps the first theorem allows; an array
  that an error left with a store but no memory is not accessed before the abort.

- `PictureAlwaysTurned`: `SamplingInOrder` implies `TransformSpec => []PictureTurned`, for pictures of any
  size in blocks of two by two, with any components, tables and coefficients, all eight transformations, trimmed or not,
  reduced to grey or not.  `TransformInv` says what each phase has left of the request: the workspace is the
  requested one, sizes, factors and tables are adjusted (`AdjustedRight`).  The rest is about one pixel
  (`PixelTurned`).  A sample is k pixels wide, with the same k in source and result, because sampling factors and
  their maximum trade places together; so mirroring the pixels of the whole MCUs mirrors the samples of
  a component, which mirrors its whole blocks and the places inside a block.  `TransformedSample`
  then has a case for each transformation: the block that was moved there, its odd rows or columns negated, has at a place
  what the source has at the mirrored one (`RowsNegated`, `ColumnsNegated`, `BlockTransposed`), with the table turned like the block.  Pixels beyond
  the whole MCUs stay, and whole MCUs have only whole blocks in every component.

`SamplingInOrder`: every factor divides the largest, or a sample would be no whole number of pixels
and upsampling refuses the file (`jdsample.c:469`); and the component kept of a colour picture that is
reduced to grey has the largest factors.  The code presumes that: it sets the factors of the kept component to
one (`transupp.c:739-745`), which leaves the size of the picture as it was only then.

The totals are sums over sets, and an array is a fold over its pieces.  The library's induction theorems
take an operator; `SetInduction` and `NumberInduction` take the set of what has the property and come
from its lemma on well-founded orderings.  `SumRemove` says that a sum may take any
element first, from which the rest follows (`SumUnion`, `SumRenamed`, `SumAtMost`); `PiecedStays` is the
induction over the pieces.

### Assumptions

They are those on the constants (`GeometryAssumption`, `ChipAssumption`, `TimingAssumption`,
`CpuAssumption`, `VgaAssumption`; `ProgramAssumption`, `PartnerAssumption`, `PanelAssumption`,
`DataAssumption`; `HeapAssumption`, `RaFileAssumption`, `SyscallsAssumption`; `SdAssumption`,
`FatAssumption`, `BootAssumption`; `MemoryAssumption`, `TransformAssumption`): non-empty sets of rows and columns, at least one
byte, accesses within the address space; header sizes and a largest
chunk that are multiples of the alignment, as `jinit_memory_mgr` and the unions around the headers see to; programs that access the modelled registers; words that are
sequences of bits; pictures with a table for every component.  TLC evaluates them in every run.  Where a theorem needs more, its hypothesis is named in its
`ASSUME` and described above.

### Only model-checked

- Liveness (`Served`, `Ends` and the others of section 4).
- Whatever is computed by recursion over data, or lives in a module that
  reaches a recursive operator: `PictureWord`, Huffman tables and scans, quantisers, markers, the JPEG
  row pipeline.
- That the words are the right ones (`PixelStream`: `Ahead` is recursion over data), the sprite's channel, the simulator, the sample transforms
  (`SamplesReturn`: error bounds of integer transforms) and the passes (`ScansWritten`, `PictureShown`),
  about which no proof was tried yet.

## 6. Not modelled

| Part | Why |
|---|---|
| `TwoWayCache.v` | no entity instantiates it; the controller's cached port is commented out |
| `memcheck.c`, `dhry_1.c`, demonstrations | straight-line use of the parts above; what they compute is printed and looked at |
| `small_printf.c`, `jerror.c` | formatting of texts |
| ZPU core | in the submodule ZPUFlex, which is empty; its bus protocol is part of `CpuBus` |
| `chargen.vhd`, `video_vga_dither.vhd` | pixel output behind the words the video path delivers; no state feeds back |
| board toplevels, generated memories, ROM images | wiring and vendor macros |
| `jfdctflt.c`, `jidctflt.c` | floating point |
| `cjpeg.c`, `djpeg.c`, `rd*.c`, `wr*.c` | command lines and picture formats, not built by the firmware |
| `jmemdos.c`, `jmemmac.c`, `jmemname.c`, `jdatadst.c` | other systems' memory and files |
| write, fstat and terminal paths of `syscalls.c`; switches and hex display of the bus | polling loops and registers without consequence |

## 7. Plan

Done: memory path and its abstract specification; video path; peripherals; SD card, FAT and both boot
programs; heap, reader and system calls; simulator and emulation; the JPEG library from pixels to bytes and
back; theorems about memory path, peripherals, C runtime, boot programs, refreshes and the display's ring, the JPEG
memory manager and lossless transformations.

Next, in this order:

1. Proofs about the video path with a sprite: its channel shares the port with the display's.
2. `TwoWayCache` as a component of its own, against `AtomicMemory`.
3. Compositions in the JPEG library: `EncoderPasses` with `JpegScan`'s restarts, `Scanlines` with
   `DecoderPasses`' coefficient controllers.
4. A theorem about the encoder's passes (`ScansWritten`): that the MCUs of a scan are counted right needs
   only the divisions of `JpegProofs`; what a block beyond the edge holds needs an induction along the MCU.
5. `memcheck.c` against memories with address faults; progressive default scripts of `jcparam.c`.

## 8. Files

`*.cfg` name the runs of `PROJECT.json`: `tlc -config MemSystem.cfg MCMemSystem`, and likewise
`VideoPath.cfg` and `VideoService.cfg` with `MCVideoPath`; `Peripherals.cfg` and
`PeripheralsServed.cfg` with `MCPeripherals`; `Runtime.cfg` and `ReadBytes.cfg` with `MCRuntime`; `Boot.cfg` and
`FatBuffer.cfg` with `MCBoot`; `ZpuSim.cfg` with `ZpuSim`; `Jpeg.cfg` and `StripBottom.cfg` with `MCJpeg`.  `tlapm MemSystemProofs.tla`,
`tlapm PeripheralProofs.tla`, `tlapm RuntimeProofs.tla`, `tlapm BootProofs.tla`, `tlapm VideoProofs.tla` and `tlapm JpegProofs.tla` check the proofs.  An operator
whose name ends in `Mutant` is a plausible mistake in the definition that follows it; replacing
the definition by it makes TLC report the property named with it in `PROJECT.json`.
