----------------------------- MODULE JpegMemory -----------------------------
(***************************************************************************)
(* The memory manager of the JPEG library (jmemmgr.c) over its system      *)
(* dependent part: pools of small objects carved from chunks, large        *)
(* objects, arrays and virtual arrays, all freed pool by pool.  With the   *)
(* back end the program is built with (jmemnobs.c) arrays are in memory as *)
(* a whole; with jmemansi.c they keep within a limit and use files.        *)
(*                                                                         *)
(* A virtual array is an array of rows of which a window may be in memory, *)
(* the others in a backing store.  The caller asks for a few adjacent rows *)
(* at a time and reads or writes them in the window before it asks for     *)
(* others.  A row is one value; the two kinds of arrays, of samples and of *)
(* blocks, have each a copy of the code and differ in the size of an       *)
(* element only.                                                           *)
(*                                                                         *)
(* The system gives a chunk as long as its memory lasts.  Sizes are in     *)
(* units of a few bytes, a pointer and a sample take one unit.             *)
(***************************************************************************)
EXTENDS Integers, Sequences, FiniteSets, FiniteSetsExt, SequencesExt

CONSTANTS RowValues,       \* what a caller puts into a row
          Unset,           \* what is in memory nobody has written
          MemoryJobs,      \* [ansi, memory, max_use, requests, objects, images]
          ALIGN, SmallHdr, LargeHdr, ManagerSize, ControlSize, SIZEOF_JBLOCK,
          MAX_ALLOC_CHUNK, MIN_SLOP,
          FirstSlop, ExtraSlop   \* per pool

VARIABLES virt,          \* the control blocks of the arrays, in the order of their requests
          written,       \* what a caller of each array is entitled to find in its rows
          held,          \* the rows handed out last: [array, start, end]
          memJob, memPhase,   \* "idle", "closed", "open", "realizing", "failed", "done"
          mem,                \* [small_list, large_list, total, chunks, files, error, last]
          objects,            \* the objects in use: [pool, chunk, from, size]
          limits,             \* of the realization under way: [avail, least, max_minheights, earlier]
          images              \* images begun

memoryVars == <<memJob, memPhase, mem, objects, limits, images, virt, written, held>>
arrayVars == <<virt, written, held>>

Pools == {"permanent", "image"}
Requests == [kind : {"sample", "block"}, pre_zero : BOOLEAN, width : Nat \ {0}, rows : Nat \ {0}, maxaccess : Nat \ {0}]

\* Headers and the largest chunk are multiples of the alignment, as jinit_memory_mgr and the unions
\* around the headers see to.
ASSUME MemoryAssumption ==
  /\ ALIGN \in Nat \ {0} /\ SIZEOF_JBLOCK \in Nat \ {0}
  /\ {SmallHdr, LargeHdr, ManagerSize, ControlSize, MAX_ALLOC_CHUNK, MIN_SLOP} \subseteq Nat
  /\ \A n \in {SmallHdr, LargeHdr, MAX_ALLOC_CHUNK} : n % ALIGN = 0
  /\ FirstSlop \in [Pools -> Nat] /\ ExtraSlop \in [Pools -> Nat]
  /\ \A job \in MemoryJobs :
       job.sizes \subseteq Nat \ {0} /\ job.max_use \in Int /\ job.requests \in Seq(Requests)
NoMemory == [small_list |-> [p \in Pools |-> << >>], large_list |-> [p \in Pools |-> << >>],
             total |-> 0, chunks |-> {}, files |-> 0, error |-> "", last |-> 0]
NoLimits == [avail |-> 0, least |-> 0, max_minheights |-> 0, earlier |-> {}]

-----------------------------------------------------------------------------
(* Virtual arrays.                                                         *)
Cells == RowValues \cup {0, Unset}
None == [array |-> 0, start |-> 0, end |-> 0]
Rows(n) == 0 .. n - 1

RequestVirt(kind, pre_zero, width, numrows, maxaccess) ==
  /\ virt' = Append(virt, [kind |-> kind, pre_zero |-> pre_zero, width |-> width,
                           rows_in_array |-> numrows, maxaccess |-> maxaccess,
                           realized |-> FALSE, rows_in_mem |-> 0, b_s_open |-> FALSE,
                           cur_start_row |-> 0, first_undef_row |-> 0, dirty |-> FALSE,
                           buffer |-> [k \in Rows(0) |-> Unset], store |-> [r \in Rows(numrows) |-> Unset]])
  /\ written' = Append(written, [r \in Rows(numrows) |-> IF pre_zero THEN 0 ELSE Unset])
  /\ UNCHANGED held

\* The window is chosen first, and a store opened for what it does not hold; memory follows.
Sized(a, rows) == [a EXCEPT !.rows_in_mem = rows, !.b_s_open = rows < a.rows_in_array]
Realized(a) ==
  [a EXCEPT !.realized = TRUE, !.buffer = [k \in Rows(a.rows_in_mem) |-> Unset],
            !.cur_start_row = 0, !.first_undef_row = 0, !.dirty = FALSE]
RealizeVirt(i, rows) ==
  /\ virt' = [virt EXCEPT ![i] = Realized(Sized(@, rows))]
  /\ UNCHANGED <<written, held>>
SizeOnly(i, rows) == virt' = [virt EXCEPT ![i] = Sized(@, rows)] /\ UNCHANGED <<written, held>>

-----------------------------------------------------------------------------
(* Access to rows.                                                         *)

\* Rows of the window that have something in them; the pieces they are moved in are left out.
Moved(a) == {r \in a.cur_start_row .. a.cur_start_row + a.rows_in_mem - 1 :
               r < a.first_undef_row /\ r < a.rows_in_array}
WrittenBack(a) ==
  [a EXCEPT !.store = [r \in Rows(a.rows_in_array) |->
                         IF r \in Moved(a) THEN a.buffer[r - a.cur_start_row] ELSE a.store[r]]]
ReadIn(a) ==
  [a EXCEPT !.buffer = [k \in Rows(a.rows_in_mem) |->
                          IF a.cur_start_row + k \in Moved(a) THEN a.store[a.cur_start_row + k] ELSE a.buffer[k]]]

OutsideWindow(a, start, end) == start < a.cur_start_row \/ end > a.cur_start_row + a.rows_in_mem

\* Forward, the window begins with the rows asked for; backward it ends with them.
NewStart(a, start, end) ==
  IF start > a.cur_start_row THEN start
  ELSE IF end < a.rows_in_mem THEN 0 ELSE end - a.rows_in_mem

SavedWindowMutant(a) == [a EXCEPT !.dirty = FALSE]
SavedWindow(a) == IF a.dirty THEN [WrittenBack(a) EXCEPT !.dirty = FALSE] ELSE a
Swapped(a, start, end) ==
  IF OutsideWindow(a, start, end)
  THEN ReadIn([SavedWindow(a) EXCEPT !.cur_start_row = NewStart(a, start, end)])
  ELSE a

\* Rows nobody has written are cleared, from the first of them or of those asked for.
UndefRow(a, start) == IF a.first_undef_row < start THEN start ELSE a.first_undef_row
Cleared(a, start, end) ==
  IF a.pre_zero /\ a.first_undef_row < end
  THEN [a EXCEPT !.buffer = [k \in Rows(a.rows_in_mem) |->
                               IF a.cur_start_row + k \in UndefRow(a, start) .. end - 1 THEN 0 ELSE a.buffer[k]]]
  ELSE a
Opened(a, start, end, writable) ==
  [a EXCEPT !.first_undef_row = IF writable /\ @ < end THEN end ELSE @,
            !.dirty = @ \/ writable]

BadAccess(a, start, end, writable) ==
  \/ end > a.rows_in_array \/ end - start > a.maxaccess \/ ~a.realized
  \/ a.first_undef_row < end /\ writable /\ a.first_undef_row < start
  \/ a.first_undef_row < end /\ ~writable /\ ~a.pre_zero
VirtualBug(a, start, end) == a.realized /\ OutsideWindow(a, start, end) /\ ~a.b_s_open

\* The rows as the caller gets them, and as it leaves them: `given` is what it puts into some.
Accessed(a, start, end, writable) ==
  Opened(Cleared(Swapped(a, start, end), start, end), start, end, writable)
RowsFilled(a, given) ==
  [a EXCEPT !.buffer = [k \in Rows(a.rows_in_mem) |->
                          IF a.cur_start_row + k \in DOMAIN given THEN given[a.cur_start_row + k] ELSE a.buffer[k]]]

\* A caller with leave to write gives every row that held nothing a value.
Givings(a, start, end, writable) ==
  IF ~writable THEN {<< >>}
  ELSE UNION {[S -> RowValues] : S \in {T \in SUBSET (start .. end - 1) :
                a.pre_zero \/ {r \in start .. end - 1 : r >= a.first_undef_row} \subseteq T}}

access_virt_array(i, start, end, writable) ==
  /\ ~BadAccess(virt[i], start, end, writable)
  /\ ~VirtualBug(virt[i], start, end)
  /\ \E given \in Givings(virt[i], start, end, writable) :
       /\ virt' = [virt EXCEPT ![i] = RowsFilled(Accessed(@, start, end, writable), given)]
       /\ written' = [written EXCEPT ![i] = [r \in DOMAIN @ |-> IF r \in DOMAIN given THEN given[r] ELSE @[r]]]
  /\ held' = [array |-> i, start |-> start, end |-> end]
access_virt_sarray(i, start, end, writable) ==
  virt[i].kind = "sample" /\ access_virt_array(i, start, end, writable)
access_virt_barray(i, start, end, writable) ==
  virt[i].kind = "block" /\ access_virt_array(i, start, end, writable)

ForgetArrays == virt' = << >> /\ written' = << >> /\ held' = None

-----------------------------------------------------------------------------
ArrayIdle == virt = << >> /\ written = << >> /\ held = None

\* The steps of the arrays, whatever windows there is memory for.
ArrayNext ==
  \/ \E kind \in {"sample", "block"}, z \in BOOLEAN, width \in Nat, rows, maxaccess \in Nat \ {0} :
       RequestVirt(kind, z, width, rows, maxaccess)
  \/ \E i \in DOMAIN virt : \E rows \in 1 .. virt[i].rows_in_array :
       /\ ~virt[i].realized
       /\ rows = virt[i].rows_in_array \/ rows >= virt[i].maxaccess
       /\ RealizeVirt(i, rows) \/ SizeOnly(i, rows)
  \/ \E i \in DOMAIN virt, w \in BOOLEAN : \E start \in 0 .. virt[i].rows_in_array : \E end \in start + 1 .. virt[i].rows_in_array :
       access_virt_array(i, start, end, w)
  \/ ForgetArrays

ArraySpec == ArrayIdle /\ [][ArrayNext]_arrayVars

HandedOut(a, w, start, end) ==
  /\ a.cur_start_row <= start /\ end <= a.cur_start_row + a.rows_in_mem
  /\ \A r \in start .. end - 1 : a.buffer[r - a.cur_start_row] = w[r]

\* The caller finds in the rows handed out what was last put into them, or zero where nothing was
\* and the array is one that starts cleared, wherever the window has moved since.
HeldRight == held.array # 0 => HandedOut(virt[held.array], written[held.array], held.start, held.end)

\* What that rests on: every row with something in it is right in the window, or in the store
\* when the window is elsewhere; a window that is not dirty agrees with the store.
InWindow(a, r) == a.cur_start_row <= r /\ r < a.cur_start_row + a.rows_in_mem
RowsRight(a, w) ==
  /\ \A r \in Rows(a.rows_in_array) : r < a.first_undef_row =>
       IF InWindow(a, r) THEN /\ a.buffer[r - a.cur_start_row] = w[r]
                              /\ a.dirty \/ ~a.b_s_open \/ a.store[r] = w[r]
       ELSE a.store[r] = w[r]
  /\ \A r \in Rows(a.rows_in_array) : a.pre_zero /\ r >= a.first_undef_row => w[r] = 0
  /\ a.b_s_open \/ (a.cur_start_row = 0 /\ a.rows_in_mem = a.rows_in_array)
  /\ a.rows_in_mem >= a.maxaccess \/ a.rows_in_mem = a.rows_in_array

\* The type of a control block.
RowsOfCells == UNION {[Rows(n) -> Cells] : n \in Nat}
ArrayRecord ==
  [kind : {"sample", "block"}, pre_zero : BOOLEAN, width : Nat, rows_in_array : Nat, maxaccess : Nat,
   realized : BOOLEAN, rows_in_mem : Nat, b_s_open : BOOLEAN, cur_start_row : Nat, first_undef_row : Nat,
   dirty : BOOLEAN, buffer : RowsOfCells, store : RowsOfCells]

\* No row is lost or mixed up by moving the window, and no access finds itself without a store
\* (jmemmgr.c, access_virt_sarray and access_virt_barray).
RowsKept ==
  /\ HeldRight
  /\ \A i \in DOMAIN virt : virt[i].realized => RowsRight(virt[i], written[i])

-----------------------------------------------------------------------------
(* The system: chunks [id, size] of what memory there is.                  *)
SumOf(S, F) == MapThenFoldSet(+, 0, LAMBDA x : F[x], LAMBDA T : CHOOSE x \in T : TRUE, S)
SizeOfChunks(chunks) == SumOf(chunks, [c \in chunks |-> c.size])
Fits(m, size) == SizeOfChunks(m.chunks) + size <= memJob.memory
FreshId(m) == CHOOSE id \in 1 .. Cardinality(m.chunks) + 1 : \A c \in m.chunks : c.id # id
jpeg_get(m, size) == [m EXCEPT !.chunks = @ \cup {[id |-> FreshId(m), size |-> size]}, !.total = @ + size, !.last = FreshId(m)]
Failed(m, error) == [m EXCEPT !.error = error]

-----------------------------------------------------------------------------
(* Objects.                                                                *)
Rounded(size) == ((size + ALIGN - 1) \div ALIGN) * ALIGN
Lesser(a, b) == IF a < b THEN a ELSE b

\* A new chunk for small objects has some room to spare, less when memory is short.
\* No chunk has 2^30 units (MAX_ALLOC_CHUNK is 1000000000), so 29 halvings are as many as it takes.
HalvedSlops(s) == {h \in MIN_SLOP .. s \div 2 : \E k \in 1 .. 29 : h = s \div 2^k}
Slops(m, pool, size) ==
  LET first == Lesser(IF m.small_list[pool] = << >> THEN FirstSlop[pool] ELSE ExtraSlop[pool],
                      MAX_ALLOC_CHUNK - (size + SmallHdr))
  IN {s \in {first} \cup HalvedSlops(first) : Fits(m, size + SmallHdr + s)}
NewSmallChunk(m, pool, size, slop) ==
  LET got == jpeg_get(m, size + SmallHdr + slop)
  IN [got EXCEPT !.small_list[pool] = Append(@, [id |-> got.last, used |-> 0, left |-> size + slop])]
Carved(m, pool, k, size) ==
  LET c == m.small_list[pool][k]
  IN  [m EXCEPT !.small_list[pool][k] = [c EXCEPT !.used = c.used + size, !.left = c.left - size],
                !.last = [pool |-> pool, chunk |-> c.id, from |-> SmallHdr + c.used, size |-> size]]

FirstWithRoom(m, pool, size) == SelectInSeq(m.small_list[pool], LAMBDA c : c.left >= size)
SmallPlaced(m, pool, size) ==
  IF FirstWithRoom(m, pool, size) # 0 THEN Carved(m, pool, FirstWithRoom(m, pool, size), size)
  ELSE IF Slops(m, pool, size) = {} THEN Failed(m, "out of memory")
  ELSE Carved(NewSmallChunk(m, pool, size, Max(Slops(m, pool, size))), pool, Len(m.small_list[pool]) + 1, size)
alloc_small(m, pool, size) ==
  IF m.error # "" THEN m
  ELSE IF size > MAX_ALLOC_CHUNK - SmallHdr THEN Failed(m, "out of memory")
  ELSE SmallPlaced(m, pool, Rounded(size))

LargePlaced(m, pool, size) ==
  LET got == jpeg_get(m, size + LargeHdr)
  IN IF ~Fits(m, size + LargeHdr) THEN Failed(m, "out of memory")
     ELSE [got EXCEPT !.large_list[pool] = <<[id |-> got.last, used |-> size, left |-> 0]>> \o @,
                      !.last = [pool |-> pool, chunk |-> got.last, from |-> LargeHdr, size |-> size]]
alloc_large(m, pool, size) ==
  IF m.error # "" THEN m
  ELSE IF size > MAX_ALLOC_CHUNK - LargeHdr THEN Failed(m, "out of memory")
  ELSE LargePlaced(m, pool, Rounded(size))

\* An array: pointers to its rows, and as many rows to a chunk as go into the largest.
alloc_array(m, pool, rowsize, numrows) ==
  LET perchunk == Lesser((MAX_ALLOC_CHUNK - LargeHdr) \div rowsize, numrows)
      pieces == [k \in 1 .. (numrows + perchunk - 1) \div perchunk |-> Lesser(perchunk, numrows - (k - 1) * perchunk)]
  IN IF rowsize > MAX_ALLOC_CHUNK - LargeHdr THEN Failed(m, "width overflow")
     ELSE FoldLeft(LAMBDA n, rows : alloc_large(n, pool, rows * rowsize), alloc_small(m, pool, numrows), pieces)
alloc_sarray(m, pool, samplesperrow, numrows) == alloc_array(m, pool, samplesperrow, numrows)
alloc_barray(m, pool, blocksperrow, numrows) == alloc_array(m, pool, blocksperrow * SIZEOF_JBLOCK, numrows)

\* The end of a call: an object more, or an error, which leaves what was allocated before it.
Settle(m) ==
  /\ mem' = m
  /\ memPhase' = IF m.error # "" THEN "failed" ELSE memPhase
Object(m) == IF m.error = "" THEN {m.last} ELSE {}

AllocObject ==
  /\ memPhase = "open" /\ virt = << >> /\ Cardinality(objects) < memJob.objects
  /\ \E pool \in Pools, size \in memJob.sizes :
       \E m \in {alloc_small(mem, pool, size), alloc_large(mem, pool, size)} :
         Settle(m) /\ objects' = objects \cup Object(m)
  /\ UNCHANGED <<memJob, limits, images, arrayVars>>

\* The array's pieces are not followed further as objects.
AllocArray ==
  /\ memPhase = "open" /\ virt = << >> /\ objects = {} /\ mem.large_list["image"] = << >>
  /\ \E width \in memJob.sizes, rows \in 1 .. 3 :
       \E m \in {alloc_sarray(mem, "image", width, rows), alloc_barray(mem, "image", width, rows)} : Settle(m)
  /\ UNCHANGED <<memJob, objects, limits, images, arrayVars>>

-----------------------------------------------------------------------------
(* The manager and its virtual arrays.                                     *)
NextRequest == memJob.requests[Len(virt) + 1]
request_virt_array(kind) ==
  /\ memPhase = "open" /\ Len(virt) < Len(memJob.requests)
  /\ NextRequest.kind = kind
  /\ \E m \in {alloc_small(mem, "image", ControlSize)} :
       /\ Settle(m) /\ objects' = objects \cup Object(m)
       /\ IF m.error = "" THEN RequestVirt(kind, NextRequest.pre_zero, NextRequest.width, NextRequest.rows, NextRequest.maxaccess)
          ELSE UNCHANGED arrayVars
  /\ UNCHANGED <<memJob, limits, images>>
request_virt_sarray == request_virt_array("sample")
request_virt_barray == request_virt_array("block")

ElementSize(a) == IF a.kind = "block" THEN SIZEOF_JBLOCK ELSE 1
RowSize(a) == a.width * ElementSize(a)
Unrealized == {i \in DOMAIN virt : ~virt[i].realized}
MinHeight(a) == (a.rows_in_array - 1) \div a.maxaccess + 1

jpeg_mem_available(least, most) == IF memJob.ansi THEN memJob.max_use - mem.total ELSE most

realize_virt_arrays ==
  /\ memPhase = "open" /\ Unrealized # {}
  /\ \E least \in {SumOf(Unrealized, [i \in Unrealized |-> virt[i].maxaccess * RowSize(virt[i])])},
        most \in {SumOf(Unrealized, [i \in Unrealized |-> virt[i].rows_in_array * RowSize(virt[i])])} :
       \E avail \in {jpeg_mem_available(least, most)} :
         limits' = [avail |-> avail, least |-> least,
                    max_minheights |-> IF avail >= most THEN 1000000000
                                       ELSE IF avail < least THEN 1 ELSE avail \div least,
                    earlier |-> DOMAIN virt \ Unrealized]
  /\ memPhase' = "realizing"
  /\ UNCHANGED <<memJob, mem, objects, images, arrayVars>>

\* One array of the loop: the store is open before the memory is there.
RowsInMem(a) ==
  IF MinHeight(a) <= limits.max_minheights THEN a.rows_in_array ELSE limits.max_minheights * a.maxaccess
jpeg_open_backing_store(a) == IF RowsInMem(a) < a.rows_in_array THEN [mem EXCEPT !.files = @ + 1] ELSE mem
ArrayMemory(a) ==
  IF a.kind = "sample" THEN alloc_sarray(jpeg_open_backing_store(a), "image", a.width, RowsInMem(a))
  ELSE alloc_barray(jpeg_open_backing_store(a), "image", a.width, RowsInMem(a))
\* There is no store at all (jmemnobs.c), or no temporary file is to be had for it (jmemansi.c).  The
\* manager has set the window's size by then; only an abort follows, which looks at b_s_open alone.
StoreWanted(i) == RowsInMem(virt[i]) < virt[i].rows_in_array
NoStore(i) == ~memJob.ansi /\ StoreWanted(i)
StoreError == IF memJob.ansi THEN "tfile create" ELSE "no backing store"
RealizeOne(i) ==
  /\ memPhase = "realizing" /\ i \in Unrealized
  /\ \/ StoreWanted(i) /\ Settle(Failed(mem, StoreError)) /\ UNCHANGED arrayVars
     \/ /\ ~NoStore(i)
        /\ \E m \in {ArrayMemory(virt[i])} :
             /\ mem' = m
             /\ memPhase' = IF m.error # "" THEN "failed" ELSE IF Unrealized = {i} THEN "open" ELSE memPhase
             /\ IF m.error = "" THEN RealizeVirt(i, RowsInMem(virt[i])) ELSE SizeOnly(i, RowsInMem(virt[i]))
  /\ UNCHANGED <<memJob, objects, limits, images>>

Access(i, start, end, writable) ==
  /\ memPhase = "open" /\ virt[i].realized
  /\ access_virt_sarray(i, start, end, writable) \/ access_virt_barray(i, start, end, writable)
  /\ UNCHANGED <<memJob, memPhase, mem, objects, limits, images>>
AccessRefused(i, start, end, writable) ==
  /\ memPhase = "open" /\ virt[i].realized
  /\ BadAccess(virt[i], start, end, writable) \/ VirtualBug(virt[i], start, end)
  /\ Settle(Failed(mem, IF VirtualBug(virt[i], start, end) THEN "virtual array bug" ELSE "bad access"))
  /\ UNCHANGED <<memJob, objects, limits, images, arrayVars>>

-----------------------------------------------------------------------------
(* Freeing.                                                                *)

\* The sizes given back are worked out from the headers.
ChunksOf(m, pool) == ToSet(m.small_list[pool]) \cup ToSet(m.large_list[pool])
SpaceFreed(m, pool) ==
  SumOf(ToSet(m.large_list[pool]), [c \in ToSet(m.large_list[pool]) |-> c.used + c.left + LargeHdr])
  + SumOf(ToSet(m.small_list[pool]), [c \in ToSet(m.small_list[pool]) |-> c.used + c.left + SmallHdr])
free_poolMutant(m, pool) ==
  [m EXCEPT !.large_list[pool] = << >>, !.small_list[pool] = << >>,
            !.chunks = {c \in @ : c.id \notin {d.id : d \in ToSet(m.large_list[pool])}},
            !.total = @ - SpaceFreed(m, pool)]
free_pool(m, pool) ==
  [m EXCEPT !.large_list[pool] = << >>, !.small_list[pool] = << >>,
            !.chunks = {c \in @ : c.id \notin {d.id : d \in ChunksOf(m, pool)}},
            !.total = @ - SpaceFreed(m, pool)]

StoresClosed(m) == [m EXCEPT !.files = @ - Cardinality({i \in DOMAIN virt : virt[i].b_s_open})]

\* Between images, and after an error, the application drops all that belongs to the image.
jpeg_abort_memory ==
  /\ memPhase \in {"open", "failed"} /\ images < memJob.images
  /\ mem' = [free_pool(StoresClosed(mem), "image") EXCEPT !.error = "", !.last = 0]
  /\ objects' = {o \in objects : o.pool # "image"}
  /\ ForgetArrays
  /\ memPhase' = "open" /\ images' = images + 1 /\ limits' = NoLimits
  /\ UNCHANGED memJob

self_destruct ==
  /\ memPhase \in {"open", "failed"}
  /\ \E m \in {free_pool(free_pool(StoresClosed(mem), "image"), "permanent")} :
       mem' = [m EXCEPT !.chunks = {c \in @ : c.id # 1}, !.last = 0]
  /\ objects' = {} /\ ForgetArrays
  /\ memPhase' = "done" /\ limits' = NoLimits
  /\ UNCHANGED <<memJob, images>>

\* The manager itself is the first chunk.
jinit_memory_mgr ==
  /\ memPhase = "closed"
  /\ IF Fits(mem, ManagerSize) THEN mem' = [jpeg_get(mem, ManagerSize) EXCEPT !.last = 0] /\ memPhase' = "open"
     ELSE mem' = mem /\ memPhase' = "done"
  /\ images' = 1
  /\ UNCHANGED <<memJob, objects, limits, arrayVars>>

MemoryEmpty == mem = NoMemory /\ objects = {} /\ limits = NoLimits /\ images = 0 /\ ArrayIdle
MemoryIdle == memPhase = "idle" /\ memJob = << >> /\ MemoryEmpty
MemoryInit == memPhase = "closed" /\ memJob \in MemoryJobs /\ MemoryEmpty

MemoryDone == memPhase = "done" /\ UNCHANGED memoryVars

AnyAccess ==
  \E i \in DOMAIN virt, w \in BOOLEAN : \E start \in Rows(virt[i].rows_in_array) :
    \E end \in start + 1 .. Lesser(virt[i].rows_in_array, start + virt[i].maxaccess) :
      Access(i, start, end, w) \/ AccessRefused(i, start, end, w)
MemoryNext ==
  \/ jinit_memory_mgr \/ AllocObject \/ AllocArray \/ request_virt_sarray \/ request_virt_barray
  \/ realize_virt_arrays \/ (\E i \in DOMAIN virt : RealizeOne(i)) \/ AnyAccess
  \/ jpeg_abort_memory \/ self_destruct \/ MemoryDone

MemorySpec == MemoryInit /\ [][MemoryNext]_memoryVars

-----------------------------------------------------------------------------
InUse == memPhase \in {"open", "realizing", "failed"}
ListedChunks == UNION {ChunksOf(mem, p) : p \in Pools}

\* The total the manager keeps is what the system gave, and every chunk is on one list.
SpaceAccounted ==
  /\ InUse => mem.total = SizeOfChunks(mem.chunks)
  /\ InUse => {c.id : c \in mem.chunks} = {1} \cup {c.id : c \in ListedChunks}
  /\ InUse => Cardinality(mem.chunks) = 1 + SumOf(Pools, [p \in Pools |-> Len(mem.small_list[p]) + Len(mem.large_list[p])])

\* Objects are inside their chunks, aligned and apart.
ObjectsApart ==
  /\ \A o \in objects : /\ (o.from - SmallHdr) % ALIGN = 0
                        /\ \E c \in mem.chunks : c.id = o.chunk /\ o.from + o.size <= c.size
  /\ \A o \in objects : \A n \in objects \ {o} :
       o.chunk = n.chunk => o.from + o.size <= n.from \/ n.from + n.size <= o.from

\* The windows of a realization keep to the memory there is, beyond the least they need.
InMemory == {i \in DOMAIN virt : virt[i].realized} \ limits.earlier
WithinLimit ==
  memPhase = "realizing" =>
    SumOf(InMemory, [i \in InMemory |-> virt[i].rows_in_mem * RowSize(virt[i])])
      <= (IF limits.avail > limits.least THEN limits.avail ELSE limits.least)

\* Memory is neither lost nor given away twice, also when a request fails half way or the image is
\* dropped after an error; destroyed, the manager has returned every chunk and closed every store
\* (jmemmgr.c).
MemorySound ==
  /\ SpaceAccounted /\ ObjectsApart /\ WithinLimit
  /\ memPhase = "done" => mem.chunks = {} /\ mem.files = 0
  /\ mem.error # "virtual array bug"

=============================================================================
