------------------------- MODULE MCStoragePlanning -------------------------
(* Disks of at most three partitions: 14 usable sectors in 2-sector MiB.   *)
EXTENDS StoragePlanning

Row(n, start, end, kind, guid) ==
    [number |-> n, start |-> start, end |-> end, kind |-> kind,
     attributes |-> 0, guid |-> guid]
Esp == Row(1, 2, 3, "esp", "g1")
SomeTables ==
    {{}, {Esp}, {Esp, Row(4, 4, 7, "linux", "g2")}, {Row(2, 5, 5, "ntfs", "g1")},
     {Esp, Row(3, 4, 14, "ntfs", "g2")}, {Esp, Row(2, 4, 13, "ntfs", "g2")},
     {Esp, Row(2, 4, 11, "ntfs", "g2"), Row(4, 14, 14, "linux", "g3")},
     {Row(3, 1, 1, "linux", "g3"), Row(2, 2, 10, "ntfs", "g2"), Row(1, 11, 12, "esp", "g1")},
     {Esp, Row(2, 6, 11, "linux", "g2"), Row(3, 12, 13, "linux", "g3")}}
Range(start, end) == [start |-> start, end |-> end]
SomeExtents == {Range(1, 14), Range(2, 5), Range(4, 14), Range(8, 14), Range(4, 5), Range(6, 9), Range(8, 11),
                Range(12, 13), Range(6, 14)}
=============================================================================
