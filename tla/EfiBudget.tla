----------------------------- MODULE EfiBudget -----------------------------
(***************************************************************************)
(* The space a reused ESP must have (source_budget and mounted_esp_budget  *)
(* in linux/ro_installer_manual.py).  The worker walks the EFI source and  *)
(* adds up a budget.  Beside it the model keeps what a FAT volume grows by *)
(* when the same tree is copied: whole clusters for the files, and for the *)
(* directories, where a long name takes many entries.                      *)
(***************************************************************************)
EXTENDS Integers, Sequences

CONSTANTS
    Cluster,    \* bytes of a cluster
    PerCluster, \* directory entries that fit into one
    LongName,   \* entries the longest name takes
    Headroom,   \* the fixed 16 MiB, in clusters
    MaxCount,   \* 4096: entries of the source
    MaxDepth,   \* 8
    MaxBytes,   \* 1 GiB: bytes of the source
    Sizes,      \* file sizes
    Free        \* clusters the ESP may have free

ASSUME FatAssumption ==
    /\ Cluster \in Nat \ {0} /\ PerCluster \in Nat \ {0, 1} /\ LongName \in Nat
    /\ Headroom \in Nat /\ MaxCount \in Nat /\ MaxDepth \in Nat /\ MaxBytes \in Nat
    /\ Sizes \subseteq Nat /\ Free \subseteq Nat

\* The longest name takes 21 entries of 32 bytes.  They fit into one cluster of
\* 1024 bytes or more; in one of 512 they do not, and then the 16 MiB are 32768
\* clusters, more than there can be names.
ASSUME NamesAssumption ==
    \/ LongName <= PerCluster
    \/ LongName <= 2 * PerCluster /\ MaxCount <= Headroom

VARIABLES
    open,       \* directories being walked, with the entries seen: innermost first
    count,      \* entries seen
    bytes,      \* source_bytes
    allocated,  \* clusters of the files
    answer,     \* "none", "refused", "insufficient" or "sufficient"
    available,  \* clusters free on the ESP when the walk has ended
    grown       \* clusters the copy takes on the volume

vars == <<open, count, bytes, allocated, answer, available, grown>>

-----------------------------------------------------------------------------
Clusters(size) == (size + Cluster - 1) \div Cluster

\* Mutant: one cluster for each name, as if no name were longer than a cluster.
RequiredOncePerName == allocated + count + 4 + Headroom
Required == allocated + 2 * count + 4 + Headroom

\* The FAT volume.  A directory holds two entries of its own.
FileTakes(size) == size \div Cluster + (IF size % Cluster = 0 THEN 0 ELSE 1)
DirectoryTakes(entries) == (2 + LongName * entries + PerCluster - 1) \div PerCluster
EntryTakes(entries) == DirectoryTakes(entries + 1) - DirectoryTakes(entries)

\* The copied directory, and a cluster by which its parent may grow.
Init ==
    /\ open = <<0>> /\ count = 0 /\ bytes = 0 /\ allocated = 0
    /\ answer = "none" /\ available = 0
    /\ grown = DirectoryTakes(0) + 1

Walking == answer = "none" /\ open # <<>>

\* A directory entry is seen and found well formed.
Enter ==
    /\ Walking /\ count < MaxCount
    /\ count' = count + 1

File ==
    /\ Enter
    /\ \E size \in Sizes :
          /\ bytes + size <= MaxBytes
          /\ bytes' = bytes + size
          /\ allocated' = allocated + Clusters(size)
          /\ grown' = grown + EntryTakes(Head(open)) + FileTakes(size)
    /\ open' = <<Head(open) + 1>> \o Tail(open)
    /\ UNCHANGED <<answer, available>>

Directory ==
    /\ Enter /\ Len(open) <= MaxDepth
    /\ open' = <<0, Head(open) + 1>> \o Tail(open)
    /\ grown' = grown + EntryTakes(Head(open)) + DirectoryTakes(0)
    /\ UNCHANGED <<bytes, allocated, answer, available>>

Leave ==
    /\ Walking /\ open' = Tail(open)
    /\ UNCHANGED <<count, bytes, allocated, answer, available, grown>>

\* A limit, a name, a link, a mount point, a missing boot loader: no budget at all.
Refuse ==
    /\ answer = "none" /\ answer' = "refused"
    /\ UNCHANGED <<open, count, bytes, allocated, available, grown>>

\* The free space is read after the walk.
Answer ==
    /\ answer = "none" /\ open = <<>>
    /\ available' \in Free
    /\ answer' = IF available' >= Required THEN "sufficient" ELSE "insufficient"
    /\ UNCHANGED <<open, count, bytes, allocated, grown>>

Next == File \/ Directory \/ Leave \/ Refuse \/ Answer

Spec == Init /\ [][Next]_vars

-----------------------------------------------------------------------------
\* An ESP that is called sufficient takes the whole copy, whatever the tree: many
\* directories, long names, files a byte longer than a cluster.
SufficientFits == answer = "sufficient" => grown <= available

\* The budget is ahead of the volume after every entry.
Ahead ==
    /\ grown <= allocated + count * (IF LongName <= PerCluster THEN 2 ELSE 3) + 2
    /\ count <= MaxCount
=============================================================================
