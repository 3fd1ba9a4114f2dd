---------------------------- MODULE ManualProbe ----------------------------
(***************************************************************************)
(* May these partitions be reused?  (linux/ro_installer_manual.py)  The    *)
(* manual plan names an ESP, or a root, or both, that exist already.  The  *)
(* worker reads the table, looks into each of them through an exclusive    *)
(* descriptor, and reads the table again; other programs repartition,      *)
(* format and mount, disks are exchanged and the kernel lags.              *)
(***************************************************************************)
EXTENDS Naturals, Sequences

CONSTANT MaxChanges    \* bound: what other programs do

\* A disk is known by its sequence number.  Each partition lies somewhere, and
\* what lies there has some content.
Place == {"a", "b"}
Content == {"fat", "fat, broken", "btrfs", "btrfs, many devices", "ext4", "ntfs"}

VARIABLES
    ask,       \* the choice: [roles that reuse a partition, keeps, admission]
    disk,      \* the disk behind the path: [seq, row, content]; row: role -> place
    kernel,    \* where the kernel shows the partitions: role -> place
    twin,      \* another volume has the UUID of the ESP
    mounted,   \* the partitions that are mounted
    todo,      \* roles still to be looked into
    at,        \* "start", a step within a role, "again", or the end
    snapshot,  \* rows of the first reading
    fd,        \* what the open descriptor reads: [seq, place], or none
    found,     \* file system found by blkid: role -> content
    truth,     \* history: what blkid really looked at: role -> [seq, place, twin]
    changes

vars == <<ask, disk, kernel, twin, mounted, todo, at, snapshot, fd, found, truth, changes>>
job == <<ask, todo, at, snapshot, fd, found, truth>>
world == <<ask, disk, kernel, twin, mounted, changes>>

Expected == 1                      \* diskSequence of the confirmed device
Role == CHOOSE r \in todo : todo = {"esp", "root"} => r = "esp"
None == [seq |-> 0, place |-> "a"]

Init ==
    /\ ask \in [roles: SUBSET {"esp", "root"}, keeps: BOOLEAN, admission: BOOLEAN]
    /\ \E content \in [{"esp", "root"} -> Content] :
          disk = [seq |-> Expected, row |-> [r \in {"esp", "root"} |-> "a"],
                  content |-> [r \in {"esp", "root"} |-> [p \in Place |->
                                 IF p = "a" THEN content[r] ELSE "ntfs"]]]
    /\ kernel = disk.row /\ twin \in BOOLEAN /\ mounted = {}
    /\ todo = ask.roles /\ at = "start" /\ snapshot = disk.row /\ fd = None
    /\ found = [r \in {"esp", "root"} |-> "ntfs"]
    /\ truth = [r \in {"esp", "root"} |-> [seq |-> 0, place |-> "a", twin |-> FALSE]]
    /\ changes = 0

-----------------------------------------------------------------------------
\* probe_device: this disk, and the kernel shows what the table says.
Probed == disk.seq = Expected /\ kernel = disk.row

\* Mutant: the path is trusted.
DescribedByPath(opened) == TRUE

\* partition_descriptor: the kernel's partition is where the plan has it, on the
\* disk of the plan, and the open descriptor is that partition.
Described(opened) ==
    /\ disk.seq = Expected /\ kernel[Role] = snapshot[Role]
    /\ opened => fd.seq = Expected /\ fd.place = snapshot[Role]

ReadTable ==
    /\ at = "start" /\ Probed
    /\ snapshot' = disk.row
    /\ at' = IF todo = {} THEN "again" ELSE "describe"
    /\ UNCHANGED <<todo, fd, found, truth, world>>

Describe ==
    /\ at = "describe" /\ Described(FALSE)
    /\ at' = "open"
    /\ UNCHANGED <<todo, snapshot, fd, found, truth, world>>

\* O_EXCL: not while it is mounted.
Open ==
    /\ at = "open" /\ Role \notin mounted
    /\ fd' = [seq |-> disk.seq, place |-> kernel[Role]]
    /\ at' = "bind"
    /\ UNCHANGED <<todo, snapshot, found, truth, world>>

Bind ==
    /\ at = "bind" /\ Described(TRUE)
    /\ at' = "signature"
    /\ UNCHANGED <<todo, snapshot, fd, found, truth, world>>

\* A descriptor of a disk that is gone reads nothing.
Seen == disk.content[Role][fd.place]
Class(content) == IF content \in {"fat", "fat, broken"} THEN "vfat"
                  ELSE IF content \in {"btrfs", "btrfs, many devices"} THEN "btrfs"
                  ELSE content
Allowed == [esp |-> {"vfat"}, root |-> {"btrfs", "ext4"}]

Signature ==
    /\ at = "signature" /\ fd.seq = disk.seq
    /\ Class(Seen) \in Allowed[Role]
    /\ found' = [found EXCEPT ![Role] = Seen]
    /\ truth' = [truth EXCEPT ![Role] = [seq |-> fd.seq, place |-> fd.place, twin |-> twin]]
    /\ at' = "health"
    /\ UNCHANGED <<todo, snapshot, fd, world>>

\* fsck.fat -n and the search for the UUID; the superblock of a btrfs.
Healthy ==
    ask.admission =>
        /\ Role = "esp" /\ ask.keeps => Seen = "fat" /\ ~twin
        /\ Class(found[Role]) = "btrfs" => Seen = "btrfs"

Health ==
    /\ at = "health" /\ fd.seq = disk.seq /\ Healthy
    /\ found' = [found EXCEPT ![Role] = Seen]
    /\ truth' = [truth EXCEPT ![Role].twin = twin]
    /\ at' = "close"
    /\ UNCHANGED <<todo, snapshot, fd, world>>

Close ==
    /\ at = "close" /\ Described(TRUE)
    /\ fd' = None /\ todo' = todo \ {Role}
    /\ at' = IF todo' = {} THEN "again" ELSE "describe"
    /\ UNCHANGED <<snapshot, found, truth, world>>

ReadAgain ==
    /\ at = "again" /\ Probed /\ disk.row = snapshot
    /\ at' = "eligible"
    /\ UNCHANGED <<todo, snapshot, fd, found, truth, world>>

\* A check that does not hold, a deadline, an output limit.
Refuse ==
    /\ at \notin {"eligible", "refused"}
    /\ at' = "refused" /\ fd' = None
    /\ UNCHANGED <<todo, snapshot, found, truth, world>>

-----------------------------------------------------------------------------
\* The others.  What is open exclusively cannot be mounted, formatted by mkfs, or
\* taken from under the descriptor by a new table; the table itself can be written.
InUse(r) == r \in mounted \/ (fd.seq = disk.seq /\ todo # {} /\ r = Role)
Change == at \notin {"eligible", "refused"} /\ changes < MaxChanges /\ changes' = changes + 1

Repartition ==
    /\ Change
    /\ \E r \in {"esp", "root"}, p \in Place : disk' = [disk EXCEPT !.row[r] = p]
    /\ UNCHANGED <<kernel, twin, mounted, job>>

Reread ==
    /\ at \notin {"eligible", "refused"}
    /\ kernel' = [r \in {"esp", "root"} |-> IF InUse(r) THEN kernel[r] ELSE disk.row[r]]
    /\ UNCHANGED <<disk, twin, mounted, changes, job>>

Format ==
    /\ Change
    /\ \E r \in {"esp", "root"}, c \in Content :
          ~InUse(r) /\ disk' = [disk EXCEPT !.content[r][kernel[r]] = c]
    /\ UNCHANGED <<kernel, twin, mounted, job>>

Mount ==
    /\ Change
    /\ \E r \in {"esp", "root"} : ~InUse(r) /\ mounted' = mounted \cup {r}
    /\ UNCHANGED <<disk, kernel, twin, job>>

\* Another disk takes over the path.
Replace ==
    /\ Change
    /\ \E content \in Content :
          disk' = [seq |-> disk.seq + 1, row |-> disk.row,
                   content |-> [r \in {"esp", "root"} |-> [p \in Place |-> content]]]
    /\ kernel' = disk.row /\ mounted' = {}
    /\ UNCHANGED <<twin, job>>

PlugTwin ==
    /\ Change
    /\ twin' = ~twin
    /\ UNCHANGED <<disk, kernel, mounted, job>>

Next ==
    \/ ReadTable \/ Describe \/ Open \/ Bind \/ Signature \/ Health \/ Close \/ ReadAgain
    \/ Refuse \/ Repartition \/ Reread \/ Format \/ Mount \/ Replace \/ PlugTwin

Spec == Init /\ [][Next]_vars

-----------------------------------------------------------------------------
\* Partitions are called eligible only for what lies in them: each was read on the
\* disk and at the place of the plan, its file system suits its role, and an ESP
\* that is kept was sound and the only one with its UUID.
EligibleIsThePlans ==
    at = "eligible" => \A r \in ask.roles :
        /\ truth[r].seq = Expected /\ truth[r].place = snapshot[r]
        /\ Class(found[r]) \in Allowed[r]
        /\ ask.admission => found[r] # "btrfs, many devices"
        /\ ask.admission /\ ask.keeps /\ r = "esp" => found[r] = "fat" /\ ~truth[r].twin
=============================================================================
