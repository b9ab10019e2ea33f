------------------------------- MODULE MCBoot -------------------------------
(***************************************************************************)
(* Instances of Boot: volumes of six clusters with two or four links in a   *)
(* sector of the FAT, files that change the FAT sector at every step, and  *)
(* programs of a few records.                                              *)
(***************************************************************************)
EXTENDS Boot

File(name, n) == Piece(name, n)
Dir(n) == Sector("dir", "", n)
Load(digits, name) == [is |-> "load", digits |-> digits, name |-> name]
Mark(is) == [is |-> is, digits |-> << >>, name |-> ""]

\* The last image replaces the first; one file is not there, one is empty.
Plain == <<Mark("#"), Load(<<1, 0>>, "A"), Load(<<2, 0>>, "C"), Load(<<3, 1>>, "E"), Load(<<1, 0>>, "B"), Mark("G")>>
Showing == <<Load(<<9, 0>>, "A"), Load(<<0, 0>>, "B"), Mark("blank")>>
Looping == <<Mark("#"), Load(<<1, 0>>, "B"), Mark("L")>>

\* FAT16 from sector 0, one sector a cluster, two sectors of directory.
Fat16 == [fat32 |-> FALSE, mbr |-> FALSE, start |-> 0, recognised |-> TRUE, clusterSize |-> 1, reserved |-> 1,
          fatSize |-> 2, rootSectors |-> 2, rootCluster |-> 0,
          holds |-> 2 :> File("A", 0) @@ 3 :> File("MST", 0) @@ 4 :> File("A", 2) @@ 5 :> File("B", 0) @@ 6 :> File("A", 1),
          link |-> 2 :> 6 @@ 3 :> EndOfChain @@ 4 :> EndOfChain @@ 5 :> EndOfChain @@ 6 :> 4,
          dir |-> 0 :> {"B", "E"} @@ 1 :> {"MST", "A"},
          files |-> "MST" :> [cluster |-> 3, size |-> 90] @@ "A" :> [cluster |-> 2, size |-> 1300]
                    @@ "B" :> [cluster |-> 5, size |-> 512] @@ "E" :> [cluster |-> 0, size |-> 0],
          manifest |-> Plain]

\* FAT32 in a partition, two sectors a cluster, one cluster of directory.
Fat32 == [fat32 |-> TRUE, mbr |-> TRUE, start |-> 3, recognised |-> TRUE, clusterSize |-> 2, reserved |-> 1,
          fatSize |-> 4, rootSectors |-> 0, rootCluster |-> 2,
          holds |-> 2 :> Dir(0) @@ 3 :> File("A", 0) @@ 4 :> File("MST", 0) @@ 5 :> File("A", 4) @@ 6 :> File("B", 0)
                    @@ 7 :> File("A", 2),
          link |-> 2 :> EndOfChain @@ 3 :> 7 @@ 4 :> EndOfChain @@ 5 :> EndOfChain @@ 6 :> EndOfChain @@ 7 :> 5,
          dir |-> 0 :> {"MST"} @@ 1 :> {"A", "B"},
          files |-> "MST" :> [cluster |-> 4, size |-> 300] @@ "A" :> [cluster |-> 3, size |-> 2100]
                    @@ "B" :> [cluster |-> 6, size |-> 1024],
          manifest |-> Plain]

WellKept == {Fat16, Fat32, [Fat16 EXCEPT !.manifest = Showing], [Fat32 EXCEPT !.manifest = Looping],
             [Fat32 EXCEPT !.recognised = FALSE], [Fat32 EXCEPT !.start = 4099]}

\* A directory of two clusters, the manifest in the second.
Grown == [Fat32 EXCEPT !.holds = 5 :> Dir(2) @@ 2 :> Dir(0) @@ 4 :> File("MST", 0) @@ 6 :> File("B", 0) @@ 3 :> File("A", 0),
                       !.link = 2 :> 5 @@ 5 :> EndOfChain @@ 4 :> EndOfChain @@ 6 :> EndOfChain @@ 3 :> EndOfChain,
                       !.dir = 0 :> {} @@ 1 :> {"A"} @@ 2 :> {"MST"} @@ 3 :> {"B"}]
GrownOnly == {Grown}

Links2Or4 == [wide \in BOOLEAN |-> IF wide THEN 2 ELSE 4]
Junk == {0, 3, EndOfChain}
Unset == [fat32 |-> FALSE, cluster_size |-> 0, fat_start |-> 0, data_start |-> 0, root_directory_cluster |-> 0,
          root_directory_start |-> 0, root_directory_size |-> 0]
Leftover == [fat32 |-> FALSE, cluster_size |-> 1, fat_start |-> 2, data_start |-> 8, root_directory_cluster |-> 5,
             root_directory_start |-> 4, root_directory_size |-> 2]
PowerUp == {Unset, Leftover}
Nobody == {}

Records(type, address, data) == [type |-> type, address |-> address, data |-> data]
Sent == {<<Records(0, 0, <<72>>), Records(1, 16, <<18, 171>>), Records(3, 18, <<255>>), Records(7, 16, << >>)>>,
         <<Records(2, 4, <<1, 2>>), Records(5, 1, << >>), Records(1, 5, <<3>>), Records(8, 4, << >>)>>,
         <<Records(1, 0, <<7>>), Records(9, 0, << >>)>>}
Damages == {S, NewLine, 0, 3, 9, 15}
Silence == {<<Records(9, 0, << >>)>>}

\* What BootProofs takes for granted holds here, but for the grown directory.
InOrder == WarmsUpInTime /\ CardsInOrder /\ FilesListed /\ ImagesApart /\ ProgramsInOrder
ASSUME InstanceInOrder == Volumes = GrownOnly \/ InOrder
=============================================================================
