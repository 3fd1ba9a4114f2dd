-------------------------- MODULE StoragePlanning --------------------------
(***************************************************************************)
(* Storage plans on an existing GPT (linux/ro_installer_gpt.py): the three *)
(* planners, and the way of a confirmed plan through the helper's          *)
(* admission, the gate, the writer and the final check of the layout,      *)
(* while other programs may change the table and the kernel may lag.       *)
(***************************************************************************)
EXTENDS Integers, FiniteSets

CONSTANTS
    First, Last,     \* usable sectors
    Slots,           \* entries of the table (entryCount)
    MaxParts,        \* MAX_PARTITIONS
    Align,           \* sectors per MiB
    EspSize,         \* 512 MiB
    RootMin,         \* 40 GiB: the floor of a root, and of what a source keeps
    Slack,           \* 1 GiB above the file system's minimum
    Guids,           \* partition GUIDs
    Tables,          \* the tables a disk may have at first
    Extents,         \* ranges a user may draw for a new partition
    RootSizes,       \* root sizes a user may ask of a shrink
    Minimums,        \* minima the NTFS inspection may report
    MaxForeign       \* bound: changes other programs make

ASSUME GeometryAssumption ==
    /\ First \in Nat /\ Last \in Nat /\ Slots \in Nat /\ MaxParts \in Nat
    /\ Align \in Nat \ {0} /\ EspSize \in Nat \ {0} /\ RootMin \in Nat \ {0}
    /\ Slack \in Nat
    /\ EspSize % Align = 0
ASSUME InputAssumption ==
    /\ Extents \subseteq [start: Nat, end: Nat]
    /\ \A n \in RootSizes : n \in Nat /\ n >= RootMin /\ n % Align = 0
    /\ Minimums \subseteq Nat

VARIABLES
    table,      \* the partition table on the disk: [parts, rest]
    kernel,     \* the kernel's view: <<number, start, end>>
    step,       \* "idle", "confirmed", "admitted", "open", "written" or the end
    choice,     \* what the user selected
    base,       \* the snapshot the confirmed plan was made from
    plan,       \* the intent that was confirmed
    ids,        \* GUIDs allocated to the partitions to be made
    proof,      \* the preservation fingerprint bound at admission
    foreign     \* changes other programs have made

vars == <<table, kernel, step, choice, base, plan, ids, proof, foreign>>

-----------------------------------------------------------------------------
(* Tables (normalize_snapshot).                                            *)

Kind == {"esp", "linux", "ntfs"}
Partition == [number: 1..Slots, start: First..Last, end: First..Last,
              kind: Kind, attributes: {0, 1}, guid: Guids]

Overlap(p, start, end) == p.start <= end /\ start <= p.end
Numbers(parts) == {p.number : p \in parts}

Valid(parts) ==
    /\ parts \subseteq Partition
    /\ \A p \in parts : p.start <= p.end
    /\ \A p, q \in parts : p # q => /\ p.number # q.number /\ p.guid # q.guid
                                    /\ ~Overlap(p, q.start, q.end)
Normal(parts) == Valid(parts) /\ Cardinality(parts) <= MaxParts

View(parts) == {<<p.number, p.start, p.end>> : p \in parts}

\* read_snapshot under probe_device: the table is whole, and what the kernel shows.
Readable == Normal(table.parts) /\ kernel = View(table.parts)

-----------------------------------------------------------------------------
(* The planners.  Each yields the one plan, or none.                       *)

Up(x) == ((x + Align - 1) \div Align) * Align
Down(x) == (x \div Align) * Align

Free(parts, start, end) == \A p \in parts : ~Overlap(p, start, end)
\* Mutant: the space after the last partition is forgotten.
GapsBetween(parts) ==
    {g \in [start: {First} \cup {p.end + 1 : p \in parts}, end: {p.start - 1 : p \in parts}] :
        g.start <= g.end /\ Free(parts, g.start, g.end)}

Gaps(parts) ==
    {g \in [start: {First} \cup {p.end + 1 : p \in parts},
            end: {Last} \cup {p.start - 1 : p \in parts}] :
        g.start <= g.end /\ Free(parts, g.start, g.end)}

OpenSlots(parts) == (1..Slots) \ Numbers(parts)
Lowest(slots) == CHOOSE n \in slots : \A m \in slots : n <= m

Binding(new, number, start, end) ==
    [new |-> new, number |-> number, start |-> start, end |-> end]
Intent(esp, root, source, sourceEnd) ==
    [esp |-> esp, root |-> root, source |-> source, sourceEnd |-> sourceEnd]

\* compact_plan: an ESP and a root fill one whole gap.
CompactPlan(parts, extent) ==
    LET espStart == Up(extent.start)
        rootStart == espStart + EspSize
        rootEnd == Down(extent.end + 1) - 1
        espSlot == Lowest(OpenSlots(parts))
        rootSlot == Lowest(OpenSlots(parts) \ {espSlot})
    IN  IF /\ extent \in Gaps(parts)
           /\ Cardinality(OpenSlots(parts)) >= 2
           /\ rootEnd - rootStart + 1 >= RootMin
        THEN {Intent(Binding(TRUE, espSlot, espStart, rootStart - 1),
                     Binding(TRUE, rootSlot, rootStart, rootEnd), 0, 0)}
        ELSE {}

\* manual_plan, one role: an existing partition of its type or a new one.
Existing(parts, number, kind, least) ==
    {Binding(FALSE, p.number, p.start, p.end) :
        p \in {q \in parts : /\ q.number = number /\ q.kind = kind
                             /\ q.attributes = 0 /\ q.end - q.start + 1 >= least}}
\* Mutant: a drawn range need only start in free space.
CreatedFromFree(parts, slots, extent, least) ==
    IF /\ extent.start % Align = 0 /\ (extent.end + 1) % Align = 0
       /\ \E g \in Gaps(parts) : extent.start \in g.start..g.end
       /\ slots # {}
       /\ extent.end - extent.start + 1 >= least
    THEN {Binding(TRUE, Lowest(slots), extent.start, extent.end)} ELSE {}

Created(parts, slots, extent, least) ==
    IF /\ extent.start % Align = 0 /\ (extent.end + 1) % Align = 0
       /\ \E g \in Gaps(parts) : g.start <= extent.start /\ extent.end <= g.end
       /\ extent.start <= extent.end
       /\ slots # {}
       /\ extent.end - extent.start + 1 >= least
    THEN {Binding(TRUE, Lowest(slots), extent.start, extent.end)} ELSE {}
Role(parts, slots, c, kind, least) ==
    IF c.new THEN Created(parts, slots, c.extent, least)
             ELSE Existing(parts, c.number, kind, least)

ManualPlan(parts, esp, root) ==
    UNION {{Intent(e, r, 0, 0) :
              r \in {r \in Role(parts, OpenSlots(parts) \ {e.number}, root, "linux", RootMin) :
                       /\ e.number # r.number /\ ~Overlap(e, r.start, r.end)
                       /\ Cardinality(parts) + (IF e.new THEN 1 ELSE 0)
                                             + (IF r.new THEN 1 ELSE 0) <= MaxParts}} :
             e \in Role(parts, OpenSlots(parts), esp, "esp", EspSize)}

\* ntfs_shrink_plan: the source gives up its end for a root of the given size, and
\* only if no gap could hold that root.
ShrinkPlan(parts, source, esp, size, minimum) ==
    LET following == {g.end : g \in {g \in Gaps(parts) : g.start = source.end + 1}}
        zoneEnd == IF following = {} THEN source.end ELSE CHOOSE e \in following : TRUE
        rootEnd == Down(zoneEnd + 1) - 1
        rootStart == rootEnd + 1 - size
        retained == rootStart - source.start
    IN  IF /\ source # esp /\ source.kind = "ntfs" /\ esp.kind = "esp"
           /\ source.attributes = 0 /\ esp.attributes = 0
           /\ source.start % Align = 0 /\ esp.end - esp.start + 1 >= EspSize
           /\ minimum <= source.end - source.start + 1
           /\ Cardinality(parts) < MaxParts /\ OpenSlots(parts) # {}
           /\ \A g \in Gaps(parts) : Down(g.end + 1) - Up(g.start) < size
           /\ rootStart <= source.end /\ rootStart > source.start
           /\ retained >= RootMin /\ retained >= minimum + Slack
        THEN {Intent(Binding(FALSE, esp.number, esp.start, esp.end),
                     Binding(TRUE, Lowest(OpenSlots(parts)), rootStart, rootEnd),
                     source.number, rootStart - 1)}
        ELSE {}

RoleChoices == [new: {TRUE}, extent: Extents] \cup [new: {FALSE}, number: 1..Slots]
Choices ==
    [mode: {"free_space"}, extent: Extents]
      \cup [mode: {"manual"}, esp: RoleChoices, root: RoleChoices]
      \cup [mode: {"ntfs"}, source: 1..Slots, esp: 1..Slots, size: RootSizes,
            minimum: Minimums]

At(parts, number) == {p \in parts : p.number = number}
Plans(parts, c) ==
    IF c.mode = "free_space" THEN CompactPlan(parts, c.extent)
    ELSE IF c.mode = "manual" THEN ManualPlan(parts, c.esp, c.root)
    ELSE UNION {ShrinkPlan(parts, p, q, c.size, c.minimum) :
                  p \in At(parts, c.source), q \in At(parts, c.esp)}

-----------------------------------------------------------------------------
(* What a plan makes of a table.                                           *)

Made(b, kind, guid) ==
    IF ~b.new THEN {}
    ELSE {[number |-> b.number, start |-> b.start, end |-> b.end, kind |-> kind,
           attributes |-> 0, guid |-> guid]}
MadeBy(p, g) == Made(p.esp, "esp", g.esp) \cup Made(p.root, "linux", g.root)
Trimmed(q, p) == IF q.number = p.source THEN [q EXCEPT !.end = p.sourceEnd] ELSE q
After(parts, p, g) == {Trimmed(q, p) : q \in parts} \cup MadeBy(p, g)

Owned(p) == {b.number : b \in {b \in {p.esp, p.root} : b.new}}

\* The preservation proofs: everything but the owned slots, and the end of a
\* source that is to shrink.
Masked(t, p) ==
    [t EXCEPT !.parts = {IF q.number = p.source THEN [q EXCEPT !.end = 0] ELSE q :
                           q \in {q \in t.parts : q.number \notin Owned(p)}}]

-----------------------------------------------------------------------------
Init ==
    /\ table \in [parts: Tables, rest: {0}]
    /\ kernel = View(table.parts)
    /\ step = "idle" /\ choice = {} /\ base = table /\ plan = {} /\ ids = {}
    /\ proof = {} /\ foreign = 0

\* The user confirms the plan computed from the snapshot on screen.
Confirm ==
    /\ step = "idle" /\ Readable
    /\ \E c \in Choices : /\ plan' \in Plans(table.parts, c)
                          /\ choice' = c
    /\ base' = table /\ step' = "confirmed"
    /\ UNCHANGED <<table, kernel, ids, proof, foreign>>

\* The plan recomputed from the disk is the confirmed one, fingerprint included.
Recomputed == Readable /\ table = base /\ plan \in Plans(table.parts, choice)

\* Admission under the installer lease: fresh GUIDs and the preservation proof.
Admit ==
    /\ step = "confirmed" /\ Recomputed
    /\ choice.mode = "free_space" => Cardinality(table.parts) + 2 <= MaxParts
    /\ \E esp \in Guids, root \in Guids :
          /\ esp # root
          /\ \A p \in table.parts : p.guid \notin {esp, root}
          /\ ids' = [esp |-> esp, root |-> root]
    /\ proof' = Masked(table, plan)
    /\ step' = "admitted"
    /\ UNCHANGED <<table, kernel, choice, base, plan, foreign>>

\* The last look before the first write.
OpenGate ==
    /\ step = "admitted" /\ Recomputed /\ Masked(table, plan) = proof
    /\ step' = "open"
    /\ UNCHANGED <<table, kernel, choice, base, plan, ids, proof, foreign>>

\* sfdisk --append: the slots and sectors must still be free, and nothing else is
\* looked at.  The kernel is not told.
AppendEntries ==
    /\ step = "open" /\ choice.mode \in {"free_space", "manual"}
    /\ Valid(table.parts \cup MadeBy(plan, ids))
    /\ table' = [table EXCEPT !.parts = @ \cup MadeBy(plan, ids)]
    /\ step' = "written"
    /\ UNCHANGED <<kernel, choice, base, plan, ids, proof, foreign>>

\* The NTFS transaction replaces the table it planned from (NtfsTransaction).
RewriteTable ==
    /\ step = "open" /\ choice.mode = "ntfs" /\ table = base
    /\ table' = [table EXCEPT !.parts = After(@, plan, ids)]
    /\ step' = "written"
    /\ UNCHANGED <<kernel, choice, base, plan, ids, proof, foreign>>

\* verifyCreated and verify_ntfs_created_layout: every other row as before, the
\* new rows as planned.
AsPlanned(parts) ==
    IF choice.mode = "ntfs" THEN parts = After(base.parts, plan, ids)
    ELSE /\ base.parts \subseteq parts
         /\ MadeBy(plan, ids) \subseteq parts
         /\ Cardinality(parts) = Cardinality(base.parts) + Cardinality(MadeBy(plan, ids))

\* Mutant: the final check compares the rows and not the proof.
AcceptRows ==
    /\ step = "written" /\ Readable
    /\ AsPlanned(table.parts)
    /\ step' = "accepted"
    /\ UNCHANGED <<table, kernel, choice, base, plan, ids, proof, foreign>>

Accept ==
    /\ step = "written" /\ Readable
    /\ Masked(table, plan) = proof /\ AsPlanned(table.parts)
    /\ step' = "accepted"
    /\ UNCHANGED <<table, kernel, choice, base, plan, ids, proof, foreign>>

\* Any check that does not hold, and any probe or tool that fails.
Refuse ==
    /\ step \in {"confirmed", "admitted", "open", "written"}
    /\ step' = "refused"
    /\ UNCHANGED <<table, kernel, choice, base, plan, ids, proof, foreign>>

\* partprobe, udev: the kernel adopts the table that is on the disk.
Reread ==
    /\ kernel # View(table.parts)
    /\ kernel' = View(table.parts)
    /\ UNCHANGED <<table, step, choice, base, plan, ids, proof, foreign>>

\* Another program deletes, shortens or relabels a partition, adds one, or
\* changes what a snapshot does not show.
Edited(t) ==
    {[t EXCEPT !.parts = @ \ {p}] : p \in t.parts}
      \cup {[t EXCEPT !.parts = (@ \ {p}) \cup {[p EXCEPT !.end = @ - 1]}] :
              p \in {p \in t.parts : p.start < p.end}}
      \cup {[t EXCEPT !.parts = (@ \ {p}) \cup {[p EXCEPT !.attributes = 1 - @]}] :
              p \in t.parts}
      \cup {[t EXCEPT !.parts = @ \cup
              {[number |-> n, start |-> g.start, end |-> g.end, kind |-> "linux",
                attributes |-> 0, guid |-> id]}] :
              n \in OpenSlots(t.parts), g \in Gaps(t.parts),
              id \in {id \in Guids : \A p \in t.parts : p.guid # id}}
      \cup {[t EXCEPT !.rest = 1 - @]}

ForeignEdit ==
    /\ step \notin {"accepted", "refused"} /\ foreign < MaxForeign
    /\ table' \in Edited(table)
    /\ foreign' = foreign + 1
    /\ UNCHANGED <<kernel, step, choice, base, plan, ids, proof>>

Next ==
    \/ Confirm \/ Admit \/ OpenGate \/ AppendEntries \/ RewriteTable \/ Accept
    \/ Refuse \/ Reread \/ ForeignEdit

Spec == Init /\ [][Next]_vars

-----------------------------------------------------------------------------
(* Properties.                                                             *)

Aligned(b) == b.start % Align = 0 /\ (b.end + 1) % Align = 0

\* Every confirmed plan leads from the table it was made for to a table without
\* overlap, double slot or range outside the disk: what it makes is aligned, big
\* enough and in free slots, what it does not name stays as it is, and a source
\* only loses its end and keeps the floor, and the file system's minimum with room.
PlanSound ==
    step # "idle" =>
        /\ \A g \in [esp: Guids, root: Guids] :
              g.esp # g.root /\ (\A p \in base.parts : p.guid \notin {g.esp, g.root})
                 => Valid(After(base.parts, plan, g))
        /\ plan.esp.end - plan.esp.start + 1 >= EspSize
        /\ plan.root.end - plan.root.start + 1 >= RootMin
        /\ \A b \in {plan.esp, plan.root} : b.new => Aligned(b) /\ b.number \notin Numbers(base.parts)
        /\ \A p \in base.parts : p.number = plan.source =>
              /\ plan.sourceEnd < p.end
              /\ plan.sourceEnd - p.start + 1 >= RootMin
              /\ plan.sourceEnd - p.start + 1 >= choice.minimum + Slack

\* What is accepted is what was confirmed: the table of the confirmation, changed
\* as the plan says and nowhere else, whatever other programs did in between, and
\* the kernel shows the same partitions.
AsConfirmed ==
    step = "accepted" => /\ table = [base EXCEPT !.parts = After(@, plan, ids)]
                         /\ kernel = View(table.parts)

\* Where an aligned root of this size may start if it ends no later than here.
Starts(size, least, most) == {r \in least..most : r % Align = 0 /\ r + size - 1 <= Last}
Room(parts, size) ==
    {r \in Starts(size, First, Last) : Free(parts, r, r + size - 1)}

\* Room in a gap for an ESP and a root, from the ESP's start to the root's end; and
\* where a source may be cut for a root of a size.
Fits(x) == {f \in (x.start..x.end) \X (x.start..x.end) :
              /\ f[1] % Align = 0 /\ (f[2] + 1) % Align = 0
              /\ f[2] >= f[1] + EspSize + RootMin - 1}
Cuts(parts, p, size, minimum) ==
    {r \in Starts(size, p.start + 1, p.end) :
       /\ Free(parts \ {p}, r, r + size - 1)
       /\ r - p.start >= RootMin /\ r - p.start >= minimum + Slack}

CompactExact(parts, x) ==
    LET able == x \in Gaps(parts) /\ Cardinality(OpenSlots(parts)) >= 2
    IN  {<<p.esp.start, p.root.end>> : p \in CompactPlan(parts, x)} =
           IF able THEN {f \in Fits(x) : \A o \in Fits(x) : f[1] <= o[1] /\ o[2] <= f[2]}
                   ELSE {}
ShrinkExact(parts, p, q, size, minimum) ==
    LET cuts == Cuts(parts, p, size, minimum)
        able == /\ p.kind = "ntfs" /\ q.kind = "esp" /\ {p.attributes, q.attributes} = {0}
                /\ p.start % Align = 0 /\ q.end - q.start + 1 >= EspSize
                /\ OpenSlots(parts) # {} /\ Cardinality(parts) < MaxParts
                /\ Room(parts, size) = {}
    IN  {x.root.start : x \in ShrinkPlan(parts, p, q, size, minimum)} =
           IF able THEN {r \in cuts : \A o \in cuts : o <= r} ELSE {}

\* The planners find the best plan, and one whenever there is one: a free-space
\* root cannot grow inside its gap; a source is cut only if no aligned root of that
\* size fits anywhere, and then as little as the floors and the alignment allow.
PlannersExact ==
    step = "idle" /\ Readable =>
        /\ \A x \in Extents : CompactExact(table.parts, x)
        /\ \A p, q \in table.parts, n \in RootSizes, m \in Minimums :
              ShrinkExact(table.parts, p, q, n, m)
=============================================================================
