------------------------------ MODULE Syscalls ------------------------------
(***************************************************************************)
(* syscalls.c: the C library's calls, on the heap of malloc.c and the      *)
(* reader of rafile.c, and a program that uses them: it allocates and      *)
(* frees, opens files, reads and seeks, and closes what it has opened.     *)
(* The program frees what it owns and closes a descriptor once; it may     *)
(* fail to get memory, files and sectors at any time.                      *)
(***************************************************************************)
EXTENDS Heap, RaFile

CONSTANTS End,          \* &_end: where the heap begins
          MAX_FILES,
          RAFileBytes,  \* sizeof(RAFile)
          Programs,     \* what programs do: the sizes, in bytes, they ask malloc for, the
                        \* lengths they read and where they seek to
          MaxPtr,       \* bound: no read or seek beyond this position
          MaxBlocks,    \* bound: blocks the program holds at a time
          MaxFaults     \* bound: failing opens and failing sectors

ASSUME SyscallsAssumption ==
  /\ End \in 1 .. Units - 1 /\ Units - End >= ChunkUnits   \* there is memory above the program
  /\ MAX_FILES \in Nat
  /\ RAFileBytes \in Nat \ {0}
  /\ Programs \subseteq [requests : SUBSET Nat, reads : SUBSET (Nat \ {0}), seeks : SUBSET Nat]
  /\ MaxPtr \in Nat /\ MaxBlocks \in Nat /\ MaxFaults \in Nat

VARIABLES heap,         \* the headers of malloc.c
          Files,        \* the descriptor table; descriptor fd is entry fd - 2
          raFiles,      \* the RAFile of each descriptor
          program,      \* the one that runs
          mine,         \* program: blocks it holds
          held,         \* program: descriptors it holds
          suspect,      \* program: of these, the ones a failed call has left out of step
          faults,       \* failures so far
          misread,      \* history: a read has succeeded with wrong bytes
          answer        \* history: last block asked for, and what malloc said

heapVars == <<heap, answer>>
fileVars == <<program, Files, raFiles, held, suspect, misread>>
vars == <<program, heap, Files, raFiles, mine, held, suspect, faults, misread, answer>>

Descriptors == 3 .. MAX_FILES + 1
Given == End .. End + RoundDown(Units - End) - 1

\* _premain: an empty table, and all memory above the program into the pool.
Init == /\ program \in Programs
        /\ heap = MallocAdd(EmptyMemory, End, Units - End)
        /\ Files = [fd \in Descriptors |-> Null]
        /\ raFiles = [fd \in Descriptors |-> Opened]
        /\ mine = {} /\ held = {} /\ suspect = {}
        /\ faults = 0 /\ misread = FALSE /\ answer = << >>

-----------------------------------------------------------------------------
Allocate(bytes) ==
  LET got == Malloc(heap, bytes)
  IN /\ bytes > 0 => answer' = <<UnitsFor(bytes), got.block>>
     /\ bytes = 0 => UNCHANGED answer
     /\ Cardinality(mine) < MaxBlocks
     /\ heap' = got.heap
     /\ mine' = IF got.block = Null THEN mine ELSE mine \cup {got.block}
     /\ UNCHANGED <<fileVars, faults>>

Deallocate(b) == /\ b \in mine
                 /\ heap' = Free(heap, b)
                 /\ mine' = mine \ {b}
                 /\ answer' = << >>
                 /\ UNCHANGED <<fileVars, faults>>

-----------------------------------------------------------------------------
\* open(): the first empty entry.  Where malloc fails the entry stays empty, and so do the
\* ones tried after it.
EmptyEntries == {fd \in Descriptors : Files[fd] = Null}

OpenFull == EmptyEntries = {} /\ UNCHANGED vars

OpenNoMemory == /\ EmptyEntries # {}
                /\ Malloc(heap, RAFileBytes).block = Null
                /\ answer' = <<UnitsFor(RAFileBytes), Null>>
                /\ UNCHANGED <<heap, mine, faults, fileVars>>

OpenSucceeds == LET fd == Min(EmptyEntries)
                    got == Malloc(heap, RAFileBytes)
                IN /\ EmptyEntries # {} /\ got.block # Null
                   /\ heap' = got.heap
                   /\ answer' = <<UnitsFor(RAFileBytes), got.block>>
                   /\ Files' = [Files EXCEPT ![fd] = got.block]
                   /\ raFiles' = [raFiles EXCEPT ![fd] = Opened]
                   /\ held' = held \cup {fd}
                   /\ UNCHANGED <<program, mine, suspect, faults, misread>>

\* RAOpen fails: the block is freed, the entry keeps its address.
OpenFailsMutant == LET fd == Min(EmptyEntries)
                       got == Malloc(heap, RAFileBytes)
                   IN /\ EmptyEntries # {} /\ got.block # Null /\ faults < MaxFaults
                      /\ heap' = got.heap
                      /\ Files' = [Files EXCEPT ![fd] = got.block]
                      /\ faults' = faults + 1
                      /\ UNCHANGED <<program, mine, raFiles, held, suspect, misread, answer>>
OpenFails == LET fd == Min(EmptyEntries)
                 got == Malloc(heap, RAFileBytes)
             IN /\ EmptyEntries # {} /\ got.block # Null /\ faults < MaxFaults
                /\ heap' = Free(got.heap, got.block)
                /\ Files' = [Files EXCEPT ![fd] = got.block]
                /\ faults' = faults + 1
                /\ UNCHANGED <<program, mine, raFiles, held, suspect, misread, answer>>

Close(fd) == /\ fd \in held
             /\ heap' = Free(heap, Files[fd])
             /\ held' = held \ {fd} /\ suspect' = suspect \ {fd}
             /\ answer' = << >>
             /\ UNCHANGED <<program, Files, raFiles, mine, faults, misread>>

-----------------------------------------------------------------------------
\* What fails during a call: nothing, or a sector or a seek as long as faults are allowed.
Failing == {{}} \cup (IF faults < MaxFaults THEN {{s} : s \in {Chain} \cup 0 .. MaxPtr \div SectorSize} ELSE {})

\* read(): all bytes or, when a sector fails, none.
Read(fd, bytes, bad) ==
  LET f == raFiles[fd]
      done == RARead(f, bytes, bad)
      wrong == \E i \in 1 .. bytes : i \notin DOMAIN done.data \/ done.data[i] # f.ptr + i - 1
  IN /\ fd \in held /\ f.ptr + bytes <= MaxPtr
     /\ bad # {} => ~ done.ok
     /\ raFiles' = [raFiles EXCEPT ![fd] = done.file]
     /\ misread' = (misread \/ (done.ok /\ fd \notin suspect /\ wrong))
     /\ suspect' = IF done.ok THEN suspect ELSE suspect \cup {fd}
     /\ faults' = IF bad = {} THEN faults ELSE faults + 1
     /\ UNCHANGED <<program, heapVars, Files, mine, held>>

\* lseek(): says where it is, whether or not RASeek has succeeded.
Seek(fd, offset, bad) ==
  LET done == RASeek(raFiles[fd], offset, bad)
  IN /\ fd \in held /\ offset <= MaxPtr
     /\ bad # {} => ~ done.ok
     /\ raFiles' = [raFiles EXCEPT ![fd] = done.file]
     /\ suspect' = IF done.ok THEN suspect ELSE suspect \cup {fd}
     /\ faults' = IF bad = {} THEN faults ELSE faults + 1
     /\ UNCHANGED <<program, heapVars, Files, mine, held, misread>>

SeekSet(fd, offset, bad) == Seek(fd, offset, bad)
SeekCur(fd, offset, bad) == Seek(fd, raFiles[fd].ptr + offset, bad)

Next == \/ \E bytes \in program.requests : Allocate(bytes)
        \/ \E b \in mine : Deallocate(b)
        \/ OpenFull \/ OpenNoMemory \/ OpenSucceeds \/ OpenFails
        \/ \E fd \in held : Close(fd)
        \/ \E fd \in held, bad \in Failing :
             \/ \E bytes \in program.reads : Read(fd, bytes, bad)
             \/ \E offset \in program.seeks : SeekSet(fd, offset, bad) \/ SeekCur(fd, offset, bad)

Spec == Init /\ [][Next]_vars

-----------------------------------------------------------------------------
\* Every variable has its type.
TypeOK == /\ program \in Programs
          /\ heap \in [Nodes -> Headers]
          /\ Files \in [Descriptors -> Addresses \cup {Null}]
          /\ raFiles \in [Descriptors -> [sector : Nat, ptr : Nat, buffer : Nat \cup {NoSector}]]
          /\ mine \subseteq Addresses
          /\ held \subseteq Descriptors /\ suspect \subseteq held
          /\ faults \in 0 .. MaxFaults /\ misread \in BOOLEAN
          /\ answer = << >> \/ answer \in Nat \X (Addresses \cup {Null})

\* malloc.c: after any sequence of calls both chains list exactly what they should, in step
\* with each other: all blocks by address, the free ones once each.
ChainsInStep == MainChainSorted(heap) /\ FreeChainExact(heap)

\* malloc.c: splitting and merging lose no memory and leave no two free blocks side by side.
NothingLost == Tiles(heap, Given) /\ Merged(heap)

\* The heap as a whole.
HeapSound == TypeOK /\ ChainsInStep /\ NothingLost

\* syscalls.c on malloc.c: every block in use belongs to exactly one owner, the program or a
\* descriptor it holds, although the table keeps the addresses of files long closed.
OneOwner == /\ UsedBlocks(heap) = mine \cup {Files[fd] : fd \in held}
            /\ \A fd \in held : Files[fd] \notin mine
            /\ \A fd, other \in held : Files[fd] = Files[other] => fd = other

\* read() on rafile.c: bytes that are reported read are the file's bytes at the position,
\* until a sector or a seek has failed for this descriptor.
ReadsExact == ~ misread

\* malloc.c promises what Allocator says: blocks that do not overlap, and no refusal while a
\* stretch of free units is long enough.
Promised == INSTANCE Allocator
  WITH Arena <- Given, Sizes <- {UnitsFor(bytes) : bytes \in {RAFileBytes} \cup UNION {p.requests : p \in Programs}},
       Refused <- Null, used <- [a \in UsedBlocks(heap) |-> heap[a].size]
ImplementsAllocator == Promised!AllocatorSpec
=============================================================================
