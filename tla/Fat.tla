-------------------------------- MODULE Fat --------------------------------
(***************************************************************************)
(* minfat.c on the SD driver: finding the volume, following its cluster    *)
(* chains, looking a name up in the root directory and loading a file.     *)
(* One step is one sd_read_sector with what is done with the sector.       *)
(*                                                                         *)
(* A sector is represented by what it is, [is, of, n]: the n-th sector of  *)
(* the FAT, of the root directory, or of a file.  Volumes are well formed. *)
(***************************************************************************)
EXTENDS SdCard, Sequences, FiniteSets

CONSTANTS Volumes,          \* what may be on the card
          LinksPerSector,   \* by format: 128 links of 32 bits or 256 of 16
          SwapRange,        \* 2^28: a word that goes through SwapBBBB loses the bits above
          JunkLinks,        \* links read from a buffer that holds something else
          Geometries        \* geometry variables that were never set: nothing clears them

EndOfChain == 1000          \* 0x0FFFFFF8 or 0xFFF8: a cluster beyond the card

\* A volume: format, start of its partition if it has a table, sizes, and per cluster the
\* sector of the root directory or file it begins with, and the cluster after it.
FatAssumption == /\ \A v \in Volumes :
                      /\ v.fat32 \in BOOLEAN /\ v.mbr \in BOOLEAN /\ v.start \in Nat
                      /\ v.clusterSize \in {1, 2, 4, 8} /\ v.rootSectors \in Nat
                      /\ DOMAIN v.holds = DOMAIN v.link
                 /\ LinksPerSector \in [BOOLEAN -> Nat \ {0}] /\ SwapRange \in Nat \ {0}
ASSUME FatAssumption

VARIABLES volume,               \* the one on the card
          sector_buffer,
          buffered_fat_index,
          drive,                \* the geometry
          fat,                  \* place in FindDrive, FileOpen and LoadFile
          memory,               \* sector-sized pieces of RAM that have been loaded
          misled                \* history: a link of this file was not read and cluster 0 taken for it

fatVars == <<volume, sector_buffer, buffered_fat_index, drive, fat, memory, misled>>

Sector(is, of, n) == [is |-> is, of |-> of, n |-> n]
Other == Sector("other", "", 0)
Piece(name, n) == Sector("data", name, n)

FatInit == /\ volume \in Volumes
           /\ sector_buffer = Other /\ buffered_fat_index = 0
           /\ drive \in Geometries
           /\ fat = [at |-> "idle", name |-> "", to |-> 0, cluster |-> 0, sector |-> 0, left |-> 0, ok |-> FALSE]
           /\ memory = << >> /\ misled = FALSE

-----------------------------------------------------------------------------
\* The volume's own geometry, as the boot sector tells it.
Geometry(v, start) ==
  LET fat_start == start + v.reserved
      afterFats == fat_start + 2 * v.fatSize
  IN [fat32 |-> v.fat32, cluster_size |-> v.clusterSize, fat_start |-> fat_start,
      data_start |-> IF v.fat32 THEN afterFats ELSE afterFats + v.rootSectors,
      root_directory_cluster |-> v.rootCluster,
      root_directory_start |-> IF v.fat32 THEN (v.rootCluster - 2) * v.clusterSize + afterFats ELSE afterFats,
      root_directory_size |-> IF v.fat32 THEN v.clusterSize ELSE v.rootSectors]

\* What is in a sector of a card with this volume.
SectorOf(v, lba) ==
  LET g == Geometry(v, v.start)
      cluster == (lba - g.data_start) \div v.clusterSize + 2
      offset == (lba - g.data_start) % v.clusterSize
  IN IF lba = 0 /\ v.mbr THEN Sector("mbr", "", 0)
     ELSE IF lba = v.start THEN Sector("boot", "", 0)
     ELSE IF lba \in g.fat_start .. g.fat_start + 2 * v.fatSize - 1
          THEN Sector("fat", "", (lba - g.fat_start) % v.fatSize)
     ELSE IF ~ v.fat32 /\ lba \in g.root_directory_start .. g.data_start - 1
          THEN Sector("dir", "", lba - g.root_directory_start)
     ELSE IF lba >= g.data_start /\ cluster \in DOMAIN v.holds
          THEN [v.holds[cluster] EXCEPT !.n = @ + offset]
     ELSE Other

SectorAt(lba) == SectorOf(volume, lba)

Got(got) == IF got = None THEN sector_buffer ELSE SectorAt(got)

\* swap.c: 0xff00000 for the mask of the top byte.
SwapBBBBMutant(n) == 0
SwapBBBB(n) == n % SwapRange

-----------------------------------------------------------------------------
\* FindDrive: a file system in sector 0, or in the first partition.
Parse(buffer, start) ==
  IF buffer.is = "boot" /\ volume.recognised
  THEN drive' = Geometry(volume, start) /\ fat' = [fat EXCEPT !.at = "found"]
  ELSE drive' = [drive EXCEPT !.fat32 = buffer.is = "boot" /\ volume.fat32] /\ fat' = [fat EXCEPT !.at = "nothing"]

ReadMbr == /\ fat.at = "find"
           /\ buffered_fat_index' = -1
           /\ \E got \in Outcomes(0) :
                /\ sd_read_sector(0, got)
                /\ sector_buffer' = Got(got)
                /\ IF got = None
                   THEN /\ fat' = [fat EXCEPT !.at = "nothing"]
                        /\ drive' = [drive EXCEPT !.fat32 = FALSE]
                   ELSE IF SectorAt(got).is = "mbr"
                   THEN /\ fat' = [fat EXCEPT !.at = "partition"]
                        /\ drive' = [drive EXCEPT !.fat32 = FALSE]
                   ELSE Parse(SectorAt(got), 0)
           /\ UNCHANGED <<volume, memory, misled>>

ReadBoot == LET start == SwapBBBB(volume.start)
            IN /\ fat.at = "partition"
               /\ \E got \in Outcomes(start) :
                    /\ sd_read_sector(start, got)
                    /\ sector_buffer' = Got(got)
                    /\ IF got = None THEN fat' = [fat EXCEPT !.at = "nothing"] /\ UNCHANGED drive
                       ELSE Parse(SectorAt(got), start)
               /\ UNCHANGED <<volume, buffered_fat_index, memory, misled>>

-----------------------------------------------------------------------------
\* GetCluster: the link is in the buffered sector of the FAT, or that sector is read.  The
\* answer is 0 when it cannot be read; the buffer may not hold what the index says.
LinkSector(cluster) == cluster \div LinksPerSector[drive.fat32]

LinksIn(buffer, cluster) ==
  IF buffer.is # "fat" THEN JunkLinks
  ELSE LET entry == buffer.n * LinksPerSector[drive.fat32] + (cluster % LinksPerSector[drive.fat32])
       IN {IF entry \in {0, 1} THEN EndOfChain
           ELSE IF entry \in DOMAIN volume.link THEN volume.link[entry] ELSE 0}

GetCluster(cluster, link) ==
  LET sb == LinkSector(cluster)
  IN IF sb = buffered_fat_index
     THEN /\ link \in LinksIn(sector_buffer, cluster)
          /\ UNCHANGED <<sector_buffer, buffered_fat_index, sdVars>>
     ELSE \E got \in Outcomes(drive.fat_start + sb) :
            /\ sd_read_sector(drive.fat_start + sb, got)
            /\ IF got = None
               THEN link = 0 /\ UNCHANGED <<sector_buffer, buffered_fat_index>>
               ELSE /\ sector_buffer' = SectorAt(got)
                    /\ buffered_fat_index' = sb
                    /\ link \in LinksIn(SectorAt(got), cluster)

Links == {0, EndOfChain} \cup JunkLinks \cup DOMAIN volume.link

\* The first sector of a cluster; cluster 0 lies before the data.
ClusterStart(cluster) == drive.data_start + drive.cluster_size * (cluster - 2)

-----------------------------------------------------------------------------
\* LoadFile begins with FileOpen.
OpenFrom(name, to) ==
  [at |-> "dir", name |-> name, to |-> to, cluster |-> drive.root_directory_cluster,
   sector |-> drive.root_directory_start,
   left |-> IF drive.fat32 THEN drive.cluster_size ELSE drive.root_directory_size, ok |-> FALSE]

Names(buffer) == IF buffer.is = "dir" THEN volume.dir[buffer.n] ELSE {}

\* A sector of the directory; when it cannot be read the buffer is looked at all the same.
DirSector == /\ fat.at = "dir" /\ fat.left > 0
             /\ \E got \in Outcomes(fat.sector) :
                  /\ sd_read_sector(fat.sector, got)
                  /\ sector_buffer' = Got(got)
             /\ fat' = IF fat.name \in Names(sector_buffer')
                       THEN LET f == volume.files[fat.name]
                                count == (SwapBBBB(f.size) + SectorBytes - 1) \div SectorBytes
                            IN [fat EXCEPT !.at = IF count = 0 THEN "returned" ELSE "data", !.ok = count = 0,
                                           !.cluster = f.cluster, !.sector = 0, !.left = count]
                       ELSE [fat EXCEPT !.sector = @ + 1, !.left = @ - 1]
             /\ UNCHANGED <<volume, buffered_fat_index, drive, memory, misled>>

NotFound == fat' = [fat EXCEPT !.at = "returned"]

DirEnd == /\ fat.at = "dir" /\ fat.left = 0 /\ ~ drive.fat32
          /\ NotFound
          /\ UNCHANGED <<volume, sector_buffer, buffered_fat_index, drive, memory, misled, sdVars>>

\* FAT32: the next cluster of the directory.
DirLinkMutant == /\ fat.at = "dir" /\ fat.left = 0 /\ drive.fat32
                 /\ \E link \in Links :
                      /\ GetCluster(fat.cluster, link)
                      /\ fat' = [fat EXCEPT !.cluster = link, !.sector = ClusterStart(link),
                                   !.left = drive.cluster_size]
                 /\ UNCHANGED <<volume, drive, memory, misled>>
DirLink == /\ fat.at = "dir" /\ fat.left = 0 /\ drive.fat32
           /\ \E link \in Links :
                /\ GetCluster(fat.cluster, link)
                /\ IF link = EndOfChain THEN NotFound
                   ELSE fat' = [fat EXCEPT !.cluster = link, !.sector = ClusterStart(link), !.left = drive.cluster_size]
           /\ UNCHANGED <<volume, drive, memory, misled>>

\* A sector of the file goes straight to where it is loaded.
LoadFailsMutant == fat' = [fat EXCEPT !.at = "returned", !.ok = TRUE]
LoadFails == fat' = [fat EXCEPT !.at = "returned", !.ok = FALSE]

ClusterEndsMutant(sector) == sector % drive.cluster_size = 0
ClusterEnds(sector) == (sector + 1) % drive.cluster_size = 0

DataSector ==
  LET sb == ClusterStart(fat.cluster) + (fat.sector % drive.cluster_size)
  IN
  /\ fat.at = "data"
  /\ \E got \in Outcomes(sb) :
       /\ sd_read_sector(sb, got)
       /\ IF got = None THEN LoadFails /\ UNCHANGED memory
          ELSE LET here == fat.to + fat.sector
               IN /\ memory' = [a \in DOMAIN memory \cup {here} |-> IF a = here THEN SectorAt(got) ELSE memory[a]]
                  /\ fat' = [fat EXCEPT !.sector = @ + 1, !.left = @ - 1,
                               !.at = IF ClusterEnds(fat.sector) THEN "link"
                                      ELSE IF fat.left = 1 THEN "returned" ELSE "data",
                               !.ok = fat.left = 1]
  /\ UNCHANGED <<volume, sector_buffer, buffered_fat_index, drive, misled>>

\* The file's next cluster; that there is none, or that it was not read, is not noticed here.
DataLink ==
  /\ fat.at = "link"
  /\ \E link \in Links :
       /\ GetCluster(fat.cluster, link)
       /\ fat' = [fat EXCEPT !.cluster = link, !.at = IF fat.left = 0 THEN "returned" ELSE "data"]
       /\ misled' = (misled \/ (link = 0 /\ fat.left > 0))
  /\ UNCHANGED <<volume, drive, memory>>

FatNext == ReadMbr \/ ReadBoot \/ DirSector \/ DirEnd \/ DirLink \/ DataSector \/ DataLink

\* LoadFile(name, to), called; FileOpen forgets the buffered FAT sector.
LoadFile(name, to) == /\ fat' = OpenFrom(name, to)
                      /\ buffered_fat_index' = -1 /\ misled' = FALSE
                      /\ UNCHANGED <<volume, sector_buffer, drive, memory, sdVars>>

FatType == /\ volume \in Volumes
           /\ sector_buffer.is \in {"other", "mbr", "boot", "fat", "dir", "data"}
           /\ buffered_fat_index \in Int
           /\ fat.at \in {"idle", "find", "partition", "found", "nothing", "dir", "data", "link", "returned"}
           /\ fat.left \in Nat /\ fat.ok \in BOOLEAN /\ misled \in BOOLEAN
=============================================================================
