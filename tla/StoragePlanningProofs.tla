------------------------ MODULE StoragePlanningProofs ------------------------
(***************************************************************************)
(* Proofs about storage plans: the three planners make sound plans and the *)
(* best ones, and what the helper accepts in the end is what was confirmed. *)
(***************************************************************************)
EXTENDS StoragePlanning, FiniteSetTheorems, WellFoundedInduction, TLAPS

-----------------------------------------------------------------------------
(* The inductive invariant.                                                *)

\* What a planner owes for a table: new partitions in open slots, inside the disk, aligned,
\* apart from each other and from every partition as the plan leaves it; a source that only
\* loses its end; room for an ESP and a root.
Sound(parts, p) ==
    /\ \A b \in {p.esp, p.root} :
          b.new => /\ b.number \in OpenSlots(parts)
                   /\ b.start \in First..Last /\ b.end \in First..Last /\ b.start <= b.end
                   /\ Aligned(b)
                   /\ \A q \in parts : ~Overlap(Trimmed(q, p), b.start, b.end)
    /\ p.esp.new /\ p.root.new => /\ p.esp.number # p.root.number
                                  /\ ~Overlap(p.esp, p.root.start, p.root.end)
    /\ \A q \in parts :
          q.number = p.source =>
             p.sourceEnd \in Int /\ q.start <= p.sourceEnd /\ p.sourceEnd < q.end
    /\ p.esp.end - p.esp.start + 1 >= EspSize
    /\ p.root.end - p.root.start + 1 >= RootMin

\* A table has its partitions and the rest, nothing else.
Shaped(t) == t = [parts |-> t.parts, rest |-> t.rest]
\* What admission bound: fresh GUIDs, and the preservation proof of the confirmed table.
Bound == /\ ids \in [esp: Guids, root: Guids] /\ ids.esp # ids.root
         /\ \A p \in base.parts : p.guid \notin {ids.esp, ids.root}
         /\ proof = Masked(base, plan)
\* The inductive invariant: once confirmed, the plan is one the planner made for the choice
\* from a table that was whole, and once admitted, what was bound is about that table.
PlanInv ==
    /\ Shaped(table)
    /\ step \in {"idle", "confirmed", "admitted", "open", "written", "accepted", "refused"}
    /\ step # "idle" => /\ Shaped(base) /\ Normal(base.parts)
                        /\ choice \in Choices /\ plan \in Plans(base.parts, choice)
    /\ step \in {"admitted", "open", "written", "accepted"} => Bound

-----------------------------------------------------------------------------
(* Alignment.                                                              *)

\* Floor division leaves a remainder below the divisor.
LEMMA DivisionBy ==
    ASSUME NEW x \in Int, NEW p \in Nat \ {0}
    PROVE  /\ x \div p \in Int /\ x % p \in 0..(p - 1)
           /\ x = (x \div p) * p + (x % p)
BY SMTT(20)

\* Division by the alignment.
LEMMA Division ==
    ASSUME NEW x \in Int
    PROVE  /\ x \div Align \in Int /\ x % Align \in 0..(Align - 1)
           /\ x = (x \div Align) * Align + (x % Align)
<1>1. Align \in Nat \ {0}  BY GeometryAssumption
<1> QED BY <1>1, DivisionBy

\* A product with the alignment is aligned.
LEMMA MultipleOf ==
    ASSUME NEW k \in Int
    PROVE  k * Align \in Int /\ (k * Align) % Align = 0
<1>1. Align \in Int /\ Align >= 1  BY GeometryAssumption
<1>2. k * Align \in Int  BY <1>1
<1>3. PICK q \in Int, r \in 0..(Align - 1) :
         k * Align = q * Align + r /\ r = (k * Align) % Align
  <2> DEFINE m == k * Align
  <2>1. m \in Int  BY <1>2
  <2> HIDE DEF m
  <2>2. /\ m \div Align \in Int /\ m % Align \in 0..(Align - 1)
        /\ m = (m \div Align) * Align + (m % Align)
    BY <2>1, Division
  <2> DEFINE d == m \div Align
             s == m % Align
  <2>3. d \in Int /\ s \in 0..(Align - 1) /\ m = d * Align + s  BY <2>2
  <2>4. s = m % Align  OBVIOUS
  <2> HIDE DEF d, s
  <2>5. \E q \in Int, r \in 0..(Align - 1) : m = q * Align + r /\ r = m % Align
    BY <2>3, <2>4
  <2> QED BY <2>5 DEF m
<1>4. (k - q) * Align = r  BY <1>1, <1>3
<1>5. k - q < 1
  <2>1. k - q >= 1 => (k - q) * Align >= Align  BY <1>1, <1>3
  <2> QED BY <2>1, <1>1, <1>3, <1>4
<1>6. k - q > -1
  <2>1. k - q <= -1 => (k - q) * Align <= -Align  BY <1>1, <1>3
  <2> QED BY <2>1, <1>1, <1>3, <1>4
<1>7. k = q  BY <1>3, <1>5, <1>6
<1> QED BY <1>2, <1>3, <1>4, <1>7, <1>1

\* An aligned number is a product with the alignment.
LEMMA Multiple ==
    ASSUME NEW x \in Int, x % Align = 0
    PROVE  \E k \in Int : x = k * Align
<1>1. PICK k \in Int : x = k * Align + 0  BY Division
<1>2. Align \in Int  BY GeometryAssumption
<1>3. x = k * Align  BY <1>1, <1>2
<1> QED BY <1>3

\* Sums and differences of aligned numbers are aligned.
LEMMA MultipleSum ==
    ASSUME NEW x \in Int, NEW y \in Int, x % Align = 0, y % Align = 0
    PROVE  (x + y) % Align = 0 /\ (x - y) % Align = 0
<1>1. PICK j \in Int, k \in Int : x = j * Align /\ y = k * Align  BY Multiple
<1>2. x + y = (j + k) * Align /\ x - y = (j - k) * Align  BY <1>1, GeometryAssumption
<1>3. j + k \in Int /\ j - k \in Int  OBVIOUS
<1> QED BY <1>2, <1>3, MultipleOf

\* Down and Up give the aligned neighbours of a sector.
LEMMA Rounding ==
    ASSUME NEW x \in Int
    PROVE  /\ Down(x) \in Int /\ Down(x) % Align = 0 /\ Down(x) <= x /\ x < Down(x) + Align
           /\ Up(x) \in Int /\ Up(x) % Align = 0 /\ x <= Up(x) /\ Up(x) < x + Align
<1>1. Align \in Int /\ Align >= 1  BY GeometryAssumption
<1>2. ASSUME NEW y \in Int
      PROVE  /\ (y \div Align) * Align \in Int /\ ((y \div Align) * Align) % Align = 0
             /\ (y \div Align) * Align <= y /\ y < (y \div Align) * Align + Align
  <2>1. /\ y \div Align \in Int /\ y % Align \in 0..(Align - 1)
        /\ y = (y \div Align) * Align + (y % Align)
    BY Division
  <2>2. /\ (y \div Align) * Align \in Int /\ ((y \div Align) * Align) % Align = 0
    BY <2>1, MultipleOf
  <2> QED BY <1>1, <2>1, <2>2
<1>3. x + Align - 1 \in Int  BY <1>1
<1>4. /\ Down(x) \in Int /\ Down(x) % Align = 0 /\ Down(x) <= x /\ x < Down(x) + Align
  BY <1>2 DEF Down
<1>5. /\ Up(x) \in Int /\ Up(x) % Align = 0 /\ Up(x) <= x + Align - 1
      /\ x + Align - 1 < Up(x) + Align
  BY <1>2, <1>3 DEF Up
<1> QED BY <1>1, <1>4, <1>5

\* Of two aligned numbers less than one alignment apart, the first is no greater.
LEMMA NextMultiple ==
    ASSUME NEW x \in Int, NEW y \in Int, x % Align = 0, y % Align = 0, x < y + Align
    PROVE  x <= y
<1>1. Align \in Int /\ Align >= 1  BY GeometryAssumption
<1>2. PICK j \in Int, k \in Int : x = j * Align /\ y = k * Align  BY Multiple
<1>3. j <= k
  <2>1. SUFFICES ASSUME j >= k + 1 PROVE FALSE  OBVIOUS
  <2>2. (j - (k + 1)) * Align >= 0  BY <1>1, <2>1
  <2>3. j * Align >= k * Align + Align  BY <1>1, <2>2
  <2> QED BY <1>1, <1>2, <2>3
<1>4. (k - j) * Align >= 0  BY <1>1, <1>3
<1> QED BY <1>1, <1>2, <1>4

\* No aligned number lies between a sector and its rounding.
LEMMA RoundingExact ==
    ASSUME NEW x \in Int, NEW m \in Int, m % Align = 0
    PROVE  (m <= x => m <= Down(x)) /\ (x <= m => Up(x) <= m)
<1>1. Align \in Int /\ Align >= 1  BY GeometryAssumption
<1>2. /\ Down(x) \in Int /\ Down(x) % Align = 0 /\ x < Down(x) + Align
      /\ Up(x) \in Int /\ Up(x) % Align = 0 /\ Up(x) < x + Align
  BY <1>1, Rounding
<1>3. m <= x => m <= Down(x)
  <2> SUFFICES ASSUME m <= x PROVE m <= Down(x)  OBVIOUS
  <2>1. m < Down(x) + Align  BY <1>1, <1>2
  <2> QED BY <1>2, <2>1, NextMultiple
<1>4. x <= m => Up(x) <= m
  <2> SUFFICES ASSUME x <= m PROVE Up(x) <= m  OBVIOUS
  <2>1. Up(x) < m + Align  BY <1>1, <1>2
  <2> QED BY <1>2, <2>1, NextMultiple
<1> QED BY <1>3, <1>4

-----------------------------------------------------------------------------
(* Gaps and slots.                                                         *)

\* The fields of a partition and their ranges.
LEMMA PartitionFields ==
    ASSUME NEW p \in Partition
    PROVE  /\ p = [number |-> p.number, start |-> p.start, end |-> p.end, kind |-> p.kind,
                   attributes |-> p.attributes, guid |-> p.guid]
           /\ p.number \in 1..Slots /\ p.number \in Int
           /\ p.start \in First..Last /\ p.end \in First..Last
           /\ p.start \in Int /\ p.end \in Int
           /\ p.kind \in Kind /\ p.attributes \in {0, 1} /\ p.guid \in Guids
<1>1. First \in Int /\ Last \in Int /\ Slots \in Int  BY GeometryAssumption
<1> QED BY <1>1 DEF Partition

\* A gap lies inside the disk and holds no partition.
LEMMA GapFacts ==
    ASSUME NEW parts \in SUBSET Partition, NEW g \in Gaps(parts)
    PROVE  /\ g = [start |-> g.start, end |-> g.end]
           /\ g.start \in First..Last /\ g.end \in First..Last
           /\ g.start \in Int /\ g.end \in Int /\ g.start <= g.end
           /\ Free(parts, g.start, g.end)
<1>1. First \in Int /\ Last \in Int  BY GeometryAssumption
<1>2. /\ g.start \in {First} \cup {p.end + 1 : p \in parts}
      /\ g.end \in {Last} \cup {p.start - 1 : p \in parts}
      /\ g.start <= g.end /\ Free(parts, g.start, g.end)
      /\ g = [start |-> g.start, end |-> g.end]
  BY DEF Gaps
<1>3. \A p \in parts : p.start \in First..Last /\ p.end \in First..Last
  BY PartitionFields
<1>4. g.start \in Int /\ First <= g.start
  BY <1>1, <1>2, <1>3
<1>5. g.end \in Int /\ g.end <= Last
  BY <1>1, <1>2, <1>3
<1> QED BY <1>1, <1>2, <1>4, <1>5

\* A part of a free range is free.
LEMMA FreeWithin ==
    ASSUME NEW parts \in SUBSET Partition, NEW a \in Int, NEW b \in Int,
           NEW c \in Int, NEW d \in Int, Free(parts, a, b), a <= c, d <= b
    PROVE  Free(parts, c, d)
<1>1. SUFFICES ASSUME NEW p \in parts PROVE ~Overlap(p, c, d)  BY DEF Free
<1>2. ~Overlap(p, a, b)  BY DEF Free
<1>3. p.start \in Int /\ p.end \in Int  BY PartitionFields
<1> QED BY <1>2, <1>3 DEF Overlap

\* The lowest of some slots is one of them and no greater than any other.
LEMMA LowestIsLeast ==
    ASSUME NEW slots \in SUBSET Nat, slots # {}
    PROVE  Lowest(slots) \in slots /\ \A n \in slots : Lowest(slots) <= n
<1> DEFINE R == OpToRel(<, Nat)
<1>1. IsWellFoundedOn(R, Nat)
  BY NatLessThanWellFounded
<1>2. \A x, y \in Nat : x < y => <<x, y>> \in R
  BY DEF OpToRel
<1> HIDE DEF R
<1>3. PICK x \in slots : \A y \in slots : ~ (<<y, x>> \in R)
  BY <1>1, WFMin
<1>4. ASSUME NEW y \in slots PROVE x <= y
  <2>1. x \in Nat /\ y \in Nat /\ ~(y < x)  BY <1>2, <1>3
  <2> QED BY <2>1
<1> QED BY <1>4 DEF Lowest

\* The lowest of some slots is one of them.
LEMMA LowestIsOne ==
    ASSUME NEW slots \in SUBSET Nat, slots # {}
    PROVE  Lowest(slots) \in slots
BY LowestIsLeast

\* An open slot is a slot of the table that no partition has.
LEMMA OpenSlotFacts ==
    ASSUME NEW parts \in SUBSET Partition, NEW n \in OpenSlots(parts)
    PROVE  n \in 1..Slots /\ n \in Nat /\ n \notin Numbers(parts) /\ \A p \in parts : p.number # n
<1>1. Slots \in Nat  BY GeometryAssumption
<1> QED BY <1>1 DEF OpenSlots, Numbers

\* The lowest open slot is open.
LEMMA OneOpenSlot ==
    ASSUME NEW parts \in SUBSET Partition, OpenSlots(parts) # {}
    PROVE  Lowest(OpenSlots(parts)) \in OpenSlots(parts)
<1>1. OpenSlots(parts) \in SUBSET Nat  BY GeometryAssumption DEF OpenSlots
<1> QED BY <1>1, LowestIsOne

\* With two open slots, the two lowest are open and differ.
LEMMA TwoOpenSlots ==
    ASSUME NEW parts \in SUBSET Partition, Cardinality(OpenSlots(parts)) >= 2,
           NEW a, a = Lowest(OpenSlots(parts)),
           NEW b, b = Lowest(OpenSlots(parts) \ {a})
    PROVE  a \in OpenSlots(parts) /\ b \in OpenSlots(parts) /\ a # b
<1> DEFINE O == OpenSlots(parts)
<1>1. O \in SUBSET Nat  BY GeometryAssumption DEF OpenSlots
<1>2. IsFiniteSet(O)
  <2>1. Slots \in Int /\ 1 \in Int  BY GeometryAssumption
  <2>2. IsFiniteSet(1..Slots)  BY <2>1, FS_Interval
  <2>3. O \in SUBSET (1..Slots)  BY DEF OpenSlots
  <2> QED BY <2>2, <2>3, FS_Subset
<1> HIDE DEF O
<1>3. Cardinality(O) >= 2 /\ a = Lowest(O) /\ b = Lowest(O \ {a})  BY DEF O
<1>4. O # {}  BY <1>3, FS_EmptySet
<1>5. a \in O  BY <1>1, <1>3, <1>4, LowestIsOne
<1>6. Cardinality(O \ {a}) = Cardinality(O) - 1
  BY <1>2, <1>5, FS_RemoveElement
<1>7. Cardinality(O) \in Nat  BY <1>2, FS_CardinalityType
<1>8. O \ {a} # {}
  <2>1. Cardinality(O \ {a}) # 0  BY <1>3, <1>6, <1>7
  <2> QED BY <2>1, FS_EmptySet
<1>9. O \ {a} \in SUBSET Nat  BY <1>1
<1>10. b \in O \ {a}  BY <1>3, <1>8, <1>9, LowestIsOne
<1> QED BY <1>5, <1>10 DEF O

-----------------------------------------------------------------------------
(* The planners.                                                           *)

\* compact_plan makes sound plans.
LEMMA CompactSound ==
    ASSUME NEW parts \in SUBSET Partition, NEW extent, NEW p \in CompactPlan(parts, extent)
    PROVE  Sound(parts, p) /\ p.source = 0
<1> DEFINE espStart == Up(extent.start)
           rootStart == espStart + EspSize
           rootEnd == Down(extent.end + 1) - 1
           espSlot == Lowest(OpenSlots(parts))
           rootSlot == Lowest(OpenSlots(parts) \ {espSlot})
           esp == Binding(TRUE, espSlot, espStart, rootStart - 1)
           root == Binding(TRUE, rootSlot, rootStart, rootEnd)
<1>1. /\ extent \in Gaps(parts) /\ Cardinality(OpenSlots(parts)) >= 2
      /\ rootEnd - rootStart + 1 >= RootMin
      /\ p = Intent(esp, root, 0, 0)
  BY DEF CompactPlan
<1>2. p.esp = esp /\ p.root = root /\ p.source = 0
  BY <1>1 DEF Intent
<1>3. /\ esp.new = TRUE /\ esp.number = espSlot /\ esp.start = espStart
      /\ esp.end = rootStart - 1
  BY DEF Binding
<1>4. /\ root.new = TRUE /\ root.number = rootSlot /\ root.start = rootStart
      /\ root.end = rootEnd
  BY DEF Binding
<1>5. /\ espSlot \in OpenSlots(parts) /\ rootSlot \in OpenSlots(parts) /\ espSlot # rootSlot
  BY <1>1, TwoOpenSlots
<1>6. /\ extent.start \in First..Last /\ extent.end \in First..Last
      /\ extent.start \in Int /\ extent.end \in Int
      /\ Free(parts, extent.start, extent.end)
  BY <1>1, GapFacts
<1>7. /\ espStart \in Int /\ espStart % Align = 0 /\ extent.start <= espStart
  BY <1>6, Rounding
<1>8. /\ rootEnd \in Int /\ (rootEnd + 1) % Align = 0 /\ rootEnd <= extent.end
  <2>1. extent.end + 1 \in Int  BY <1>6
  <2>2. /\ Down(extent.end + 1) \in Int /\ Down(extent.end + 1) % Align = 0
        /\ Down(extent.end + 1) <= extent.end + 1
    BY <2>1, Rounding
  <2>3. rootEnd + 1 = Down(extent.end + 1)  BY <2>2
  <2> QED BY <1>6, <2>2, <2>3
<1>9. /\ EspSize \in Int /\ EspSize >= 1 /\ RootMin \in Int /\ RootMin >= 1 /\ EspSize % Align = 0
      /\ First \in Int /\ Last \in Int
  BY GeometryAssumption
<1>11. rootStart = espStart + EspSize  OBVIOUS
<1> HIDE DEF espStart, rootStart, rootEnd, espSlot, rootSlot, esp, root
<1>10. rootStart \in Int /\ rootStart % Align = 0 /\ (rootStart - 1) + 1 = rootStart
  <2>1. (espStart + EspSize) % Align = 0  BY <1>7, <1>9, MultipleSum
  <2> QED BY <1>7, <1>9, <1>11, <2>1
<1>12. /\ espStart \in First..Last /\ rootStart - 1 \in First..Last /\ espStart <= rootStart - 1
       /\ rootStart \in First..Last /\ rootEnd \in First..Last /\ rootStart <= rootEnd
  BY <1>1, <1>6, <1>7, <1>8, <1>9, <1>10, <1>11
<1>13. Free(parts, espStart, rootStart - 1) /\ Free(parts, rootStart, rootEnd)
  <2>1. rootStart - 1 \in Int /\ rootStart - 1 <= extent.end /\ extent.start <= rootStart
    BY <1>6, <1>7, <1>8, <1>9, <1>10, <1>11, <1>12
  <2> QED BY <1>6, <1>7, <1>8, <1>10, <2>1, FreeWithin
<1>14. \A q \in parts : Trimmed(q, p) = q
  <2>1. \A q \in parts : q.number # 0  BY PartitionFields
  <2> QED BY <1>2, <2>1 DEF Trimmed
<1>15. Aligned(esp) /\ Aligned(root)
  BY <1>3, <1>4, <1>7, <1>8, <1>10 DEF Aligned
<1>16. ASSUME NEW b \in {esp, root}
       PROVE  /\ b.number \in OpenSlots(parts)
              /\ b.start \in First..Last /\ b.end \in First..Last /\ b.start <= b.end
              /\ Aligned(b) /\ \A q \in parts : ~Overlap(Trimmed(q, p), b.start, b.end)
  <2>1. CASE b = esp  BY <2>1, <1>3, <1>5, <1>12, <1>13, <1>14, <1>15 DEF Free
  <2>2. CASE b = root  BY <2>2, <1>4, <1>5, <1>12, <1>13, <1>14, <1>15 DEF Free
  <2> QED BY <2>1, <2>2
<1>17. esp.number # root.number /\ ~Overlap(esp, root.start, root.end)
  BY <1>3, <1>4, <1>5, <1>7, <1>8, <1>10 DEF Overlap
<1>18. \A q \in parts : q.number # p.source  BY <1>2, PartitionFields
<1>19. esp.end - esp.start + 1 >= EspSize /\ root.end - root.start + 1 >= RootMin
  BY <1>1, <1>3, <1>4, <1>7, <1>8, <1>9, <1>10, <1>11
<1> QED BY <1>2, <1>16, <1>17, <1>18, <1>19 DEF Sound

\* A role of a manual plan is big enough, and a new one is in an open slot and free space.
LEMMA RoleFacts ==
    ASSUME NEW parts \in SUBSET Partition, NEW slots \in SUBSET OpenSlots(parts),
           NEW c \in RoleChoices, NEW kind, NEW least,
           NEW b \in Role(parts, slots, c, kind, least)
    PROVE  /\ b.start \in Int /\ b.end \in Int /\ b.end - b.start + 1 >= least
           /\ b.new = c.new
           /\ b.new => /\ b.number \in slots
                       /\ b.start \in First..Last /\ b.end \in First..Last /\ b.start <= b.end
                       /\ Aligned(b) /\ Free(parts, b.start, b.end)
<1>1. CASE c.new
  <2> DEFINE x == c.extent
  <2>1. b \in Created(parts, slots, x, least)  BY <1>1 DEF Role
  <2>2. /\ x.start % Align = 0 /\ (x.end + 1) % Align = 0
        /\ \E g \in Gaps(parts) : g.start <= x.start /\ x.end <= g.end
        /\ x.start <= x.end /\ slots # {} /\ x.end - x.start + 1 >= least
        /\ b = Binding(TRUE, Lowest(slots), x.start, x.end)
    BY <2>1 DEF Created
  <2>3. x.start \in Int /\ x.end \in Int
    <3>1. x \in Extents  BY <1>1 DEF RoleChoices
    <3> QED BY <3>1, InputAssumption
  <2> HIDE DEF x
  <2>4. b.new = TRUE /\ b.number = Lowest(slots) /\ b.start = x.start /\ b.end = x.end
    BY <2>2 DEF Binding
  <2>5. PICK g \in Gaps(parts) : g.start <= x.start /\ x.end <= g.end  BY <2>2
  <2>6. /\ g.start \in First..Last /\ g.end \in First..Last /\ g.start \in Int /\ g.end \in Int
        /\ Free(parts, g.start, g.end)
    BY <2>5, GapFacts
  <2>7. Free(parts, x.start, x.end)  BY <2>3, <2>5, <2>6, FreeWithin
  <2>8. Lowest(slots) \in slots
    <3>1. slots \in SUBSET Nat  BY GeometryAssumption DEF OpenSlots
    <3> QED BY <2>2, <3>1, LowestIsOne
  <2>9. x.start \in First..Last /\ x.end \in First..Last
    BY <2>2, <2>3, <2>5, <2>6, GeometryAssumption
  <2>10. c.new = TRUE  BY <1>1 DEF RoleChoices
  <2> QED BY <2>2, <2>3, <2>4, <2>7, <2>8, <2>9, <2>10 DEF Aligned
<1>2. CASE ~c.new
  <2>1. b \in Existing(parts, c.number, kind, least)  BY <1>2 DEF Role
  <2>2. PICK p \in parts : b = Binding(FALSE, p.number, p.start, p.end)
                           /\ p.end - p.start + 1 >= least
    BY <2>1 DEF Existing
  <2>3. b.new = FALSE /\ b.start = p.start /\ b.end = p.end  BY <2>2 DEF Binding
  <2>4. c.new = FALSE  BY <1>2 DEF RoleChoices
  <2> QED BY <2>2, <2>3, <2>4, PartitionFields
<1> QED BY <1>1, <1>2

\* manual_plan makes sound plans.
LEMMA ManualSound ==
    ASSUME NEW parts \in SUBSET Partition, NEW esp \in RoleChoices, NEW root \in RoleChoices,
           NEW p \in ManualPlan(parts, esp, root)
    PROVE  Sound(parts, p) /\ p.source = 0
<1>1. PICK e \in Role(parts, OpenSlots(parts), esp, "esp", EspSize) :
        \E r \in Role(parts, OpenSlots(parts) \ {e.number}, root, "linux", RootMin) :
          e.number # r.number /\ ~Overlap(e, r.start, r.end) /\ p = Intent(e, r, 0, 0)
  BY DEF ManualPlan
<1>2. PICK r \in Role(parts, OpenSlots(parts) \ {e.number}, root, "linux", RootMin) :
          e.number # r.number /\ ~Overlap(e, r.start, r.end) /\ p = Intent(e, r, 0, 0)
  BY <1>1
<1>3. p.esp = e /\ p.root = r /\ p.source = 0
  BY <1>2 DEF Intent
<1>4. /\ e.start \in Int /\ e.end \in Int /\ e.end - e.start + 1 >= EspSize
      /\ e.new => /\ e.number \in OpenSlots(parts)
                  /\ e.start \in First..Last /\ e.end \in First..Last /\ e.start <= e.end
                  /\ Aligned(e) /\ Free(parts, e.start, e.end)
  BY RoleFacts
<1>5. /\ r.start \in Int /\ r.end \in Int /\ r.end - r.start + 1 >= RootMin
      /\ r.new => /\ r.number \in OpenSlots(parts) \ {e.number}
                  /\ r.start \in First..Last /\ r.end \in First..Last /\ r.start <= r.end
                  /\ Aligned(r) /\ Free(parts, r.start, r.end)
  <2> DEFINE S == OpenSlots(parts) \ {e.number}
  <2>1. S \in SUBSET OpenSlots(parts)  OBVIOUS
  <2>2. r \in Role(parts, S, root, "linux", RootMin)  OBVIOUS
  <2> HIDE DEF S
  <2>3. /\ r.start \in Int /\ r.end \in Int /\ r.end - r.start + 1 >= RootMin
        /\ r.new => /\ r.number \in S
                    /\ r.start \in First..Last /\ r.end \in First..Last /\ r.start <= r.end
                    /\ Aligned(r) /\ Free(parts, r.start, r.end)
    BY <2>1, <2>2, RoleFacts
  <2> QED BY <2>3 DEF S
<1>6. \A q \in parts : q.number # 0  BY PartitionFields
<1>7. \A q \in parts : Trimmed(q, p) = q  BY <1>3, <1>6 DEF Trimmed
<1>8. ASSUME NEW b \in {e, r}, b.new
      PROVE  /\ b.number \in OpenSlots(parts)
             /\ b.start \in First..Last /\ b.end \in First..Last /\ b.start <= b.end
             /\ Aligned(b) /\ \A q \in parts : ~Overlap(Trimmed(q, p), b.start, b.end)
  <2>1. CASE b = e  BY <2>1, <1>4, <1>7, <1>8 DEF Free
  <2>2. CASE b = r  BY <2>2, <1>5, <1>7, <1>8 DEF Free
  <2> QED BY <2>1, <2>2
<1> QED BY <1>2, <1>3, <1>4, <1>5, <1>6, <1>8 DEF Sound

\* ntfs_shrink_plan makes sound plans, and the source keeps the floor and the minimum.
LEMMA ShrinkSound ==
    ASSUME NEW parts, Valid(parts), NEW source \in parts, NEW esp \in parts,
           NEW size \in RootSizes, NEW minimum \in Minimums,
           NEW p \in ShrinkPlan(parts, source, esp, size, minimum)
    PROVE  /\ Sound(parts, p)
           /\ p.source = source.number /\ p.sourceEnd < source.end
           /\ p.sourceEnd - source.start + 1 >= RootMin
           /\ p.sourceEnd - source.start + 1 >= minimum + Slack
<1> DEFINE following == {g.end : g \in {g \in Gaps(parts) : g.start = source.end + 1}}
           zoneEnd == IF following = {} THEN source.end ELSE CHOOSE e \in following : TRUE
           rootEnd == Down(zoneEnd + 1) - 1
           rootStart == rootEnd + 1 - size
           retained == rootStart - source.start
           root == Binding(TRUE, Lowest(OpenSlots(parts)), rootStart, rootEnd)
           old == Binding(FALSE, esp.number, esp.start, esp.end)
<1>1. /\ esp.end - esp.start + 1 >= EspSize /\ OpenSlots(parts) # {}
      /\ rootStart <= source.end /\ rootStart > source.start
      /\ retained >= RootMin /\ retained >= minimum + Slack
      /\ p = Intent(old, root, source.number, rootStart - 1)
  BY DEF ShrinkPlan
<1>2. parts \in SUBSET Partition  BY DEF Valid
<1>3. /\ p.esp = old /\ p.root = root /\ p.source = source.number /\ p.sourceEnd = rootStart - 1
  BY <1>1 DEF Intent
<1>4. old.new = FALSE /\ old.start = esp.start /\ old.end = esp.end  BY DEF Binding
<1>5. /\ root.new = TRUE /\ root.number = Lowest(OpenSlots(parts))
      /\ root.start = rootStart /\ root.end = rootEnd
  BY DEF Binding
<1>6. \A q \in parts : /\ q.start \in Int /\ q.end \in Int /\ q.number \in Int
                       /\ q.start \in First..Last /\ q.end \in First..Last /\ q.start <= q.end
  BY <1>2, PartitionFields DEF Valid
<1>7. /\ size \in Int /\ size >= RootMin /\ size % Align = 0 /\ RootMin \in Int /\ RootMin >= 1
      /\ First \in Int /\ Last \in Int /\ minimum \in Int /\ Slack \in Int
  BY GeometryAssumption, InputAssumption
<1>8. /\ zoneEnd \in Int /\ zoneEnd >= source.end /\ zoneEnd <= Last
      /\ \/ zoneEnd = source.end
         \/ Free(parts, source.end + 1, zoneEnd)
  <2>1. CASE following = {}  BY <2>1, <1>6, <1>7
  <2>2. CASE following # {}
    <3>1. zoneEnd \in following  BY <2>2
    <3>2. PICK g \in Gaps(parts) : g.start = source.end + 1 /\ zoneEnd = g.end  BY <3>1
    <3>3. /\ g.start \in Int /\ g.end \in Int /\ g.start <= g.end /\ g.end \in First..Last
          /\ Free(parts, g.start, g.end)
      BY <3>2, <1>2, GapFacts
    <3>4. source.end \in Int  BY <1>6
    <3>5. zoneEnd = g.end /\ g.start = source.end + 1  BY <3>2
    <3> HIDE DEF zoneEnd
    <3>6. Free(parts, source.end + 1, zoneEnd)  BY <3>3, <3>5
    <3>7. zoneEnd \in Int /\ zoneEnd >= source.end /\ zoneEnd <= Last
      BY <3>3, <3>4, <3>5, <1>7
    <3> QED BY <3>6, <3>7
  <2> QED BY <2>1, <2>2
<1> HIDE DEF following, zoneEnd
<1>9. /\ rootEnd \in Int /\ (rootEnd + 1) % Align = 0 /\ rootEnd <= zoneEnd
  <2>1. zoneEnd + 1 \in Int  BY <1>8
  <2>2. /\ Down(zoneEnd + 1) \in Int /\ Down(zoneEnd + 1) % Align = 0
        /\ Down(zoneEnd + 1) <= zoneEnd + 1
    BY <2>1, Rounding
  <2>3. rootEnd + 1 = Down(zoneEnd + 1)  BY <2>2
  <2> QED BY <1>8, <2>2, <2>3
<1>10. rootStart = rootEnd + 1 - size /\ retained = rootStart - source.start  OBVIOUS
<1> HIDE DEF rootEnd, rootStart, retained, root, old
<1>11. rootStart \in Int /\ rootStart % Align = 0 /\ rootEnd = rootStart + size - 1
  <2>1. rootEnd + 1 \in Int  BY <1>9
  <2>2. ((rootEnd + 1) - size) % Align = 0  BY <1>7, <1>9, <2>1, MultipleSum
  <2> QED BY <1>7, <1>9, <1>10, <2>2
<1>12. /\ rootStart \in First..Last /\ rootEnd \in First..Last /\ rootStart <= rootEnd
  BY <1>1, <1>6, <1>7, <1>8, <1>9, <1>11
<1>13. Aligned(root)  BY <1>5, <1>9, <1>11 DEF Aligned
<1>14. root.number \in OpenSlots(parts)  BY <1>1, <1>2, <1>5, OneOpenSlot
<1>15. ASSUME NEW q \in parts PROVE ~Overlap(Trimmed(q, p), rootStart, rootEnd)
  <2>1. CASE q.number = source.number
    <3>1. Trimmed(q, p).start = q.start /\ Trimmed(q, p).end = rootStart - 1
      <4>1. Trimmed(q, p) = [q EXCEPT !.end = rootStart - 1]  BY <2>1, <1>3 DEF Trimmed
      <4>2. q = [number |-> q.number, start |-> q.start, end |-> q.end, kind |-> q.kind,
                 attributes |-> q.attributes, guid |-> q.guid]
        BY <1>2, PartitionFields
      <4> QED BY <4>1, <4>2
    <3> QED BY <3>1, <1>11 DEF Overlap
  <2>2. CASE q.number # source.number
    <3>1. Trimmed(q, p) = q  BY <2>2, <1>3 DEF Trimmed
    <3>2. ~Overlap(q, source.start, source.end)  BY <2>2 DEF Valid
    <3>3. Free(parts, source.end + 1, zoneEnd) => ~Overlap(q, source.end + 1, zoneEnd)
      BY DEF Free
    <3>4. CASE zoneEnd = source.end
      BY <3>1, <3>2, <3>4, <1>1, <1>6, <1>8, <1>9, <1>11 DEF Overlap
    <3>5. CASE Free(parts, source.end + 1, zoneEnd)
      BY <3>1, <3>2, <3>3, <3>5, <1>1, <1>6, <1>8, <1>9, <1>11 DEF Overlap
    <3> QED BY <3>4, <3>5, <1>8
  <2> QED BY <2>1, <2>2
<1>16. \A q \in parts : q.number = source.number => q = source  BY DEF Valid
<1>17. /\ p.sourceEnd \in Int /\ source.start <= p.sourceEnd /\ p.sourceEnd < source.end
  BY <1>1, <1>3, <1>6, <1>11
<1>18. root.end - root.start + 1 >= RootMin
  BY <1>5, <1>7, <1>9, <1>11
<1>19. /\ p.sourceEnd - source.start + 1 >= RootMin
       /\ p.sourceEnd - source.start + 1 >= minimum + Slack
  BY <1>1, <1>3, <1>6, <1>7, <1>10, <1>11
<1>20. Sound(parts, p)
  <2>1. \A b \in {old, root} :
          b.new => /\ b.number \in OpenSlots(parts)
                   /\ b.start \in First..Last /\ b.end \in First..Last /\ b.start <= b.end
                   /\ Aligned(b) /\ \A q \in parts : ~Overlap(Trimmed(q, p), b.start, b.end)
    BY <1>4, <1>5, <1>12, <1>13, <1>14, <1>15
  <2>2. \A q \in parts :
          q.number = p.source =>
             p.sourceEnd \in Int /\ q.start <= p.sourceEnd /\ p.sourceEnd < q.end
    BY <1>3, <1>16, <1>17
  <2> QED BY <2>1, <2>2, <1>1, <1>3, <1>4, <1>18 DEF Sound
<1> QED BY <1>3, <1>17, <1>19, <1>20

\* Every planner makes sound plans.
LEMMA PlansAreSound ==
    ASSUME NEW parts, Valid(parts), NEW c \in Choices, NEW p \in Plans(parts, c)
    PROVE  /\ Sound(parts, p)
           /\ \A q \in parts : q.number = p.source =>
                 /\ p.sourceEnd < q.end
                 /\ p.sourceEnd - q.start + 1 >= RootMin
                 /\ p.sourceEnd - q.start + 1 >= c.minimum + Slack
           /\ c.mode \in {"free_space", "manual", "ntfs"}
           /\ c.mode # "ntfs" => p.source = 0
<1>1. parts \in SUBSET Partition  BY DEF Valid
<1>2. \A q \in parts : q.number # 0  BY <1>1, PartitionFields
<1>3. c.mode \in {"free_space", "manual", "ntfs"}
  BY DEF Choices
<1>4. CASE c.mode = "free_space"
  <2>1. p \in CompactPlan(parts, c.extent)  BY <1>4 DEF Plans
  <2>2. Sound(parts, p) /\ p.source = 0  BY <1>1, <2>1, CompactSound
  <2> QED BY <1>2, <1>3, <2>2
<1>5. CASE c.mode = "manual"
  <2>1. p \in ManualPlan(parts, c.esp, c.root)  BY <1>5 DEF Plans
  <2>2. c.esp \in RoleChoices /\ c.root \in RoleChoices  BY <1>5 DEF Choices
  <2>3. Sound(parts, p) /\ p.source = 0  BY <1>1, <2>1, <2>2, ManualSound
  <2> QED BY <1>2, <1>3, <2>3
<1>6. CASE c.mode = "ntfs"
  <2>1. PICK s \in At(parts, c.source), e \in At(parts, c.esp) :
          p \in ShrinkPlan(parts, s, e, c.size, c.minimum)
    BY <1>6 DEF Plans
  <2>2. c.size \in RootSizes /\ c.minimum \in Minimums  BY <1>6 DEF Choices
  <2>3. s \in parts /\ e \in parts  BY DEF At
  <2>4. /\ Sound(parts, p) /\ p.source = s.number /\ p.sourceEnd < s.end
        /\ p.sourceEnd - s.start + 1 >= RootMin
        /\ p.sourceEnd - s.start + 1 >= c.minimum + Slack
    BY <2>1, <2>2, <2>3, ShrinkSound
  <2>5. \A q \in parts : q.number = s.number => q = s  BY <2>3 DEF Valid
  <2> QED BY <1>3, <1>6, <2>4, <2>5
<1> QED BY <1>3, <1>4, <1>5, <1>6

\* A partition the plan trims keeps its slot, GUID and start, and does not grow.
LEMMA TrimmedFields ==
    ASSUME NEW parts \in SUBSET Partition, NEW p, Sound(parts, p), NEW q \in parts
    PROVE  LET t == Trimmed(q, p)
           IN  /\ t.number = q.number /\ t.guid = q.guid /\ t.start = q.start
               /\ t.end <= q.end /\ (q.start <= q.end => t.start <= t.end)
               /\ t.end \in Int /\ t \in Partition
<1>1. /\ q = [number |-> q.number, start |-> q.start, end |-> q.end, kind |-> q.kind,
              attributes |-> q.attributes, guid |-> q.guid]
      /\ q.start \in First..Last /\ q.end \in First..Last /\ q.end \in Int
  BY PartitionFields
<1>2. CASE q.number # p.source
  <2>1. Trimmed(q, p) = q  BY <1>2 DEF Trimmed
  <2> QED BY <1>1, <2>1
<1>3. CASE q.number = p.source
  <2>1. Trimmed(q, p) = [q EXCEPT !.end = p.sourceEnd]  BY <1>3 DEF Trimmed
  <2>2. p.sourceEnd \in Int /\ q.start <= p.sourceEnd /\ p.sourceEnd < q.end
    BY <1>3 DEF Sound
  <2>3. First \in Int /\ Last \in Int  BY GeometryAssumption
  <2>4. p.sourceEnd \in First..Last  BY <1>1, <2>2, <2>3
  <2> DEFINE t == Trimmed(q, p)
  <2>5. t = [number |-> q.number, start |-> q.start, end |-> p.sourceEnd, kind |-> q.kind,
             attributes |-> q.attributes, guid |-> q.guid]
    BY <1>1, <2>1
  <2>6. t \in Partition  BY <2>4, <2>5 DEF Partition
  <2>7. /\ t.number = q.number /\ t.guid = q.guid /\ t.start = q.start
        /\ t.end = p.sourceEnd
    BY <2>5
  <2> HIDE DEF t
  <2>8. /\ t.end <= q.end /\ (q.start <= q.end => t.start <= t.end) /\ t.end \in Int
    BY <1>1, <2>2, <2>7
  <2> QED BY <2>6, <2>7, <2>8 DEF t
<1> QED BY <1>2, <1>3

\* A partition the plan makes has the slot, range and GUID allotted to it.
LEMMA MadeFacts ==
    ASSUME NEW parts \in SUBSET Partition, NEW p, Sound(parts, p),
           NEW g \in [esp: Guids, root: Guids], g.esp # g.root,
           NEW n \in MadeBy(p, g)
    PROVE  \/ /\ p.esp.new
              /\ n = [number |-> p.esp.number, start |-> p.esp.start, end |-> p.esp.end,
                      kind |-> "esp", attributes |-> 0, guid |-> g.esp]
              /\ n \in Partition /\ p.esp.number \in OpenSlots(parts)
              /\ p.esp.start <= p.esp.end /\ n.start <= n.end
              /\ \A q \in parts : ~Overlap(Trimmed(q, p), p.esp.start, p.esp.end)
           \/ /\ p.root.new
              /\ n = [number |-> p.root.number, start |-> p.root.start, end |-> p.root.end,
                      kind |-> "linux", attributes |-> 0, guid |-> g.root]
              /\ n \in Partition /\ p.root.number \in OpenSlots(parts)
              /\ p.root.start <= p.root.end /\ n.start <= n.end
              /\ \A q \in parts : ~Overlap(Trimmed(q, p), p.root.start, p.root.end)
<1>1. \A b \in {p.esp, p.root} :
         b.new => /\ b.number \in OpenSlots(parts) /\ b.number \in 1..Slots
                  /\ b.start \in First..Last /\ b.end \in First..Last /\ b.start <= b.end
                  /\ \A q \in parts : ~Overlap(Trimmed(q, p), b.start, b.end)
  BY OpenSlotFacts DEF Sound
<1>2. CASE n \in Made(p.esp, "esp", g.esp)
  <2>1. /\ p.esp.new
        /\ n = [number |-> p.esp.number, start |-> p.esp.start, end |-> p.esp.end,
                kind |-> "esp", attributes |-> 0, guid |-> g.esp]
    BY <1>2 DEF Made
  <2>2. n \in Partition  BY <1>1, <2>1 DEF Partition, Kind
  <2>3. n.start = p.esp.start /\ n.end = p.esp.end  BY <2>1
  <2> QED BY <1>1, <2>1, <2>2, <2>3
<1>3. CASE n \in Made(p.root, "linux", g.root)
  <2>1. /\ p.root.new
        /\ n = [number |-> p.root.number, start |-> p.root.start, end |-> p.root.end,
                kind |-> "linux", attributes |-> 0, guid |-> g.root]
    BY <1>3 DEF Made
  <2>2. n \in Partition  BY <1>1, <2>1 DEF Partition, Kind
  <2>3. n.start = p.root.start /\ n.end = p.root.end  BY <2>1
  <2> QED BY <1>1, <2>1, <2>2, <2>3
<1> QED BY <1>2, <1>3 DEF MadeBy

\* A sound plan turns a whole table into a whole table.
LEMMA AfterIsValid ==
    ASSUME NEW parts, Valid(parts), NEW p, Sound(parts, p),
           NEW g \in [esp: Guids, root: Guids], g.esp # g.root,
           \A q \in parts : q.guid \notin {g.esp, g.root}
    PROVE  Valid(After(parts, p, g))
<1> DEFINE T == {Trimmed(q, p) : q \in parts}
           M == MadeBy(p, g)
           Apart(a, b) == /\ a.number # b.number /\ a.guid # b.guid
                          /\ ~Overlap(a, b.start, b.end)
<1>1. parts \in SUBSET Partition  BY DEF Valid
<1>2. \A q \in parts : /\ q.number \in 1..Slots /\ q.start \in Int /\ q.end \in Int
                       /\ q.start <= q.end
  BY <1>1, PartitionFields DEF Valid
<1>3. ASSUME NEW n \in M PROVE n \in Partition /\ n.start <= n.end
  BY <1>1, MadeFacts
<1>4. ASSUME NEW t \in T PROVE t \in Partition /\ t.start <= t.end
  <2>1. PICK q \in parts : t = Trimmed(q, p)  OBVIOUS
  <2> QED BY <1>1, <1>2, <2>1, TrimmedFields
<1>5. ASSUME NEW s \in T, NEW t \in T, s # t PROVE Apart(s, t)
  <2>1. PICK q \in parts, r \in parts : s = Trimmed(q, p) /\ t = Trimmed(r, p)  OBVIOUS
  <2>2. /\ s.number = q.number /\ s.guid = q.guid /\ s.start = q.start
        /\ s.end <= q.end /\ s.end \in Int
    BY <1>1, <2>1, TrimmedFields
  <2>3. /\ t.number = r.number /\ t.guid = r.guid /\ t.start = r.start
        /\ t.end <= r.end /\ t.end \in Int
    BY <1>1, <2>1, TrimmedFields
  <2>4. q # r  BY <1>5, <2>1
  <2>5. q.number # r.number /\ q.guid # r.guid /\ ~Overlap(q, r.start, r.end)
    BY <2>4 DEF Valid
  <2>6. ~Overlap(s, t.start, t.end)
    BY <1>2, <2>2, <2>3, <2>5 DEF Overlap
  <2> QED BY <2>2, <2>3, <2>5, <2>6
<1>6. ASSUME NEW t \in T, NEW n \in M PROVE Apart(t, n)
  <2>1. PICK q \in parts : t = Trimmed(q, p)  OBVIOUS
  <2>2. t.number = q.number /\ t.guid = q.guid  BY <1>1, <2>1, TrimmedFields
  <2>3. n.guid \in {g.esp, g.root} /\ n.number \in OpenSlots(parts)
        /\ ~Overlap(t, n.start, n.end)
    BY <1>1, <2>1, MadeFacts
  <2>4. q.number # n.number  BY <1>1, <2>3, OpenSlotFacts
  <2> QED BY <2>2, <2>3, <2>4
<1>7. ASSUME NEW m \in M, NEW n \in M, m # n PROVE Apart(m, n)
  <2>1. \/ m \in Made(p.esp, "esp", g.esp) /\ n \in Made(p.root, "linux", g.root)
        \/ n \in Made(p.esp, "esp", g.esp) /\ m \in Made(p.root, "linux", g.root)
    BY <1>7 DEF Made, MadeBy
  <2>2. ASSUME NEW e \in Made(p.esp, "esp", g.esp), NEW r \in Made(p.root, "linux", g.root)
        PROVE  Apart(e, r) /\ Apart(r, e)
    <3>1. /\ p.esp.new /\ e.number = p.esp.number /\ e.start = p.esp.start
          /\ e.end = p.esp.end /\ e.guid = g.esp
      BY DEF Made
    <3>2. /\ p.root.new /\ r.number = p.root.number /\ r.start = p.root.start
          /\ r.end = p.root.end /\ r.guid = g.root
      BY DEF Made
    <3>3. /\ p.esp.number # p.root.number /\ ~Overlap(p.esp, p.root.start, p.root.end)
      BY <3>1, <3>2 DEF Sound
    <3>4. e \in Partition /\ r \in Partition  BY <1>3 DEF MadeBy
    <3>5. /\ e.start \in Int /\ e.end \in Int /\ r.start \in Int /\ r.end \in Int
      BY <3>4, PartitionFields
    <3> QED BY <3>1, <3>2, <3>3, <3>5 DEF Overlap
  <2> QED BY <2>1, <2>2
<1>8. ASSUME NEW t \in T, NEW n \in M PROVE Apart(n, t)
  <2>1. Apart(t, n)  BY <1>6
  <2>2. /\ t.start \in Int /\ t.end \in Int /\ n.start \in Int /\ n.end \in Int
    BY <1>3, <1>4, PartitionFields
  <2> QED BY <2>1, <2>2 DEF Overlap
<1>9. After(parts, p, g) = T \cup M  BY DEF After
<1> HIDE DEF T, M
<1>10. T \cup M \subseteq Partition  BY <1>3, <1>4
<1>11. \A x, y \in T \cup M : x # y => Apart(x, y)
  BY <1>5, <1>6, <1>7, <1>8
<1> QED BY <1>3, <1>4, <1>9, <1>10, <1>11 DEF Valid

-----------------------------------------------------------------------------
(* From the confirmation to the final check.                               *)

\* Partitions with slots of their own are finitely many.
LEMMA ValidIsFinite ==
    ASSUME NEW parts, Valid(parts)
    PROVE  IsFiniteSet(parts)
<1> DEFINE f == [p \in parts |-> p.number]
<1>1. f \in Injection(parts, 1..Slots)
  <2>1. \A p \in parts : p.number \in 1..Slots  BY PartitionFields DEF Valid
  <2>2. \A p, q \in parts : p.number = q.number => p = q  BY DEF Valid
  <2> QED BY <2>1, <2>2 DEF Injection, IsInjective
<1>2. 1 \in Int /\ Slots \in Int  BY GeometryAssumption
<1>3. IsFiniteSet(1..Slots)  BY <1>2, FS_Interval
<1> QED BY <1>1, <1>3, FS_Injection

\* What a plan makes was not in the table before.
LEMMA MadeIsNew ==
    ASSUME NEW parts, Valid(parts), NEW p, Sound(parts, p),
           NEW g \in [esp: Guids, root: Guids], g.esp # g.root,
           \A q \in parts : q.guid \notin {g.esp, g.root}
    PROVE  IsFiniteSet(MadeBy(p, g)) /\ parts \cap MadeBy(p, g) = {}
<1>1. parts \in SUBSET Partition  BY DEF Valid
<1>2. IsFiniteSet(Made(p.esp, "esp", g.esp)) /\ IsFiniteSet(Made(p.root, "linux", g.root))
  BY FS_EmptySet, FS_Singleton DEF Made
<1>3. IsFiniteSet(MadeBy(p, g))  BY <1>2, FS_Union DEF MadeBy
<1>4. \A n \in MadeBy(p, g) : n.guid \in {g.esp, g.root}
  BY DEF MadeBy, Made
<1> QED BY <1>3, <1>4

\* The final check, rows and preservation proof, leaves one table: the planned one.  For an
\* appended table that is a matter of counting: every old and every new row is there, and as
\* many rows as these.
LEMMA AcceptedIsPlanned ==
    ASSUME Shaped(table), Shaped(base), Valid(table.parts), Valid(base.parts),
           choice \in Choices, plan \in Plans(base.parts, choice), Bound,
           Masked(table, plan) = proof, AsPlanned(table.parts)
    PROVE  table = [base EXCEPT !.parts = After(@, plan, ids)]
<1>1. /\ Sound(base.parts, plan)
      /\ choice.mode # "ntfs" => plan.source = 0
  BY PlansAreSound
<1>2. table.rest = base.rest
  <2>1. Masked(table, plan) = Masked(base, plan)  BY DEF Bound
  <2>2. Masked(table, plan).rest = table.rest /\ Masked(base, plan).rest = base.rest
    BY DEF Masked, Shaped
  <2> QED BY <2>1, <2>2
<1>3. table.parts = After(base.parts, plan, ids)
  <2>1. CASE choice.mode = "ntfs"  BY <2>1 DEF AsPlanned
  <2>2. CASE choice.mode # "ntfs"
    <3> DEFINE M == MadeBy(plan, ids)
               B == base.parts
               P == table.parts
    <3>1. /\ B \subseteq P /\ M \subseteq P /\ Cardinality(P) = Cardinality(B) + Cardinality(M)
      BY <2>2 DEF AsPlanned
    <3>2. IsFiniteSet(P) /\ IsFiniteSet(B)  BY ValidIsFinite
    <3>3. IsFiniteSet(M) /\ B \cap M = {}  BY <1>1, MadeIsNew DEF Bound
    <3>4. After(B, plan, ids) = B \cup M
      <4>1. plan.source = 0  BY <1>1, <2>2
      <4>2. \A q \in B : q.number # 0  BY PartitionFields DEF Valid
      <4>3. \A q \in B : Trimmed(q, plan) = q  BY <4>1, <4>2 DEF Trimmed
      <4>4. {Trimmed(q, plan) : q \in B} = B  BY <4>3
      <4> QED BY <4>4 DEF After
    <3> HIDE DEF M, B, P
    <3>5. Cardinality(B \cup M) = Cardinality(B) + Cardinality(M) - Cardinality(B \cap M)
      BY <3>2, <3>3, FS_Union
    <3>6. Cardinality(B \cap M) = 0  BY <3>3, FS_EmptySet
    <3>7. Cardinality(B) \in Nat /\ Cardinality(M) \in Nat
      BY <3>2, <3>3, FS_CardinalityType
    <3>8. Cardinality(P) = Cardinality(B \cup M)  BY <3>1, <3>5, <3>6, <3>7
    <3>9. B \cup M \in SUBSET P  BY <3>1
    <3>10. P = B \cup M  BY <3>2, <3>8, <3>9, FS_Subset
    <3> QED BY <3>4, <3>10 DEF P, B
  <2> QED BY <2>1, <2>2
<1> QED BY <1>2, <1>3 DEF Shaped

\* Before anything is confirmed there is nothing to keep.
LEMMA InitPlan == Init => PlanInv /\ AsConfirmed
<1> SUFFICES ASSUME Init PROVE PlanInv /\ AsConfirmed  OBVIOUS
<1>1. table \in [parts: Tables, rest: {0}]  BY DEF Init
<1>2. Shaped(table)  BY <1>1 DEF Shaped
<1> QED BY <1>2 DEF Init, PlanInv, AsConfirmed

\* Another program leaves a table a table.
LEMMA EditKeepsShape ==
    ASSUME NEW t, Shaped(t), NEW u \in Edited(t)
    PROVE  Shaped(u)
BY DEF Edited, Shaped

\* Every step keeps the invariant: a step of another program or of the kernel after the
\* confirmation does not touch what was confirmed, and the final check sees what they did.
LEMMA StepPlan == PlanInv /\ AsConfirmed /\ [Next]_vars => PlanInv' /\ AsConfirmed'
<1> SUFFICES ASSUME PlanInv, AsConfirmed, [Next]_vars PROVE PlanInv' /\ AsConfirmed'
  OBVIOUS
<1>1. CASE Confirm
  BY <1>1 DEF Confirm, PlanInv, AsConfirmed, Readable, Bound
<1>2. CASE Admit
  <2>1. /\ step = "confirmed" /\ step' = "admitted" /\ table = base /\ proof' = Masked(table, plan)
        /\ UNCHANGED <<table, kernel, choice, base, plan, foreign>>
    BY <1>2 DEF Admit, Recomputed
  <2>2. /\ ids' \in [esp: Guids, root: Guids] /\ ids'.esp # ids'.root
        /\ \A p \in table.parts : p.guid \notin {ids'.esp, ids'.root}
    <3>1. PICK e \in Guids, r \in Guids :
             /\ e # r /\ (\A p \in table.parts : p.guid \notin {e, r})
             /\ ids' = [esp |-> e, root |-> r]
      BY <1>2 DEF Admit
    <3> QED BY <3>1
  <2>3. Bound'  BY <2>1, <2>2 DEF Bound, Masked, Owned
  <2> QED BY <2>1, <2>3 DEF PlanInv, AsConfirmed
<1>3. CASE OpenGate
  BY <1>3 DEF OpenGate, PlanInv, AsConfirmed, Bound
<1>4. CASE AppendEntries
  BY <1>4 DEF AppendEntries, PlanInv, AsConfirmed, Bound, Shaped
<1>5. CASE RewriteTable
  BY <1>5 DEF RewriteTable, PlanInv, AsConfirmed, Bound, Shaped
<1>6. CASE Accept
  <2>1. /\ step = "written" /\ step' = "accepted" /\ Readable /\ Masked(table, plan) = proof
        /\ AsPlanned(table.parts)
        /\ UNCHANGED <<table, kernel, choice, base, plan, ids, proof, foreign>>
    BY <1>6 DEF Accept
  <2>2. /\ Shaped(table) /\ Shaped(base) /\ Valid(table.parts) /\ Valid(base.parts) /\ Bound
        /\ choice \in Choices /\ plan \in Plans(base.parts, choice)
        /\ kernel = View(table.parts)
    BY <2>1 DEF PlanInv, Readable, Normal
  <2>3. table = [base EXCEPT !.parts = After(@, plan, ids)]
    BY <2>1, <2>2, AcceptedIsPlanned
  <2> QED BY <2>1, <2>2, <2>3 DEF PlanInv, AsConfirmed, Bound
<1>7. CASE Refuse
  BY <1>7 DEF Refuse, PlanInv, AsConfirmed, Bound
<1>8. CASE Reread
  <2>1. step # "accepted"  BY <1>8 DEF Reread, AsConfirmed
  <2> QED BY <1>8, <2>1 DEF Reread, PlanInv, AsConfirmed, Bound
<1>9. CASE ForeignEdit
  <2>1. Shaped(table')  BY <1>9, EditKeepsShape DEF ForeignEdit, PlanInv
  <2> QED BY <1>9, <2>1 DEF ForeignEdit, PlanInv, AsConfirmed, Bound
<1>10. CASE UNCHANGED vars
  BY <1>10 DEF vars, PlanInv, AsConfirmed, Bound
<1> QED BY <1>1, <1>2, <1>3, <1>4, <1>5, <1>6, <1>7, <1>8, <1>9, <1>10 DEF Next

\* What is accepted is the confirmed table changed as the plan says and nowhere else, and the
\* kernel shows the same partitions, for any geometry, tables, choices and foreign changes
\* (the final checks of ro_installer_gpt.py and ro_installer_ntfs_commit.py).
THEOREM AcceptedAsConfirmed == Spec => []AsConfirmed
<1>1. Init => PlanInv /\ AsConfirmed  BY InitPlan
<1>2. PlanInv /\ AsConfirmed /\ [Next]_vars => (PlanInv /\ AsConfirmed)'  BY StepPlan
<1> QED BY <1>1, <1>2, PTL DEF Spec

\* From the confirmation to the end, plan, choice and base are those of the confirmation.
THEOREM ConfirmedIsKept == Spec => []PlanInv
<1>1. Init => PlanInv /\ AsConfirmed  BY InitPlan
<1>2. PlanInv /\ AsConfirmed /\ [Next]_vars => (PlanInv /\ AsConfirmed)'  BY StepPlan
<1> QED BY <1>1, <1>2, PTL DEF Spec

\* A plan a planner made for a whole table has every part of PlanSound.
LEMMA PlanInvIsSound == PlanInv => PlanSound
<1> SUFFICES ASSUME PlanInv, step # "idle" PROVE PlanSound  BY DEF PlanSound
<1>1. Valid(base.parts) /\ choice \in Choices /\ plan \in Plans(base.parts, choice)
  BY DEF PlanInv, Normal
<1>2. /\ Sound(base.parts, plan)
      /\ \A q \in base.parts : q.number = plan.source =>
            /\ plan.sourceEnd < q.end
            /\ plan.sourceEnd - q.start + 1 >= RootMin
            /\ plan.sourceEnd - q.start + 1 >= choice.minimum + Slack
  BY <1>1, PlansAreSound
<1>3. \A g \in [esp: Guids, root: Guids] :
         g.esp # g.root /\ (\A p \in base.parts : p.guid \notin {g.esp, g.root})
            => Valid(After(base.parts, plan, g))
  BY <1>1, <1>2, AfterIsValid
<1>4. \A b \in {plan.esp, plan.root} :
         b.new => Aligned(b) /\ b.number \notin Numbers(base.parts)
  BY <1>2 DEF Sound, OpenSlots
<1>5. /\ plan.esp.end - plan.esp.start + 1 >= EspSize
      /\ plan.root.end - plan.root.start + 1 >= RootMin
  BY <1>2 DEF Sound
<1> QED BY <1>2, <1>3, <1>4, <1>5 DEF PlanSound

\* Every confirmed plan leads from its table to a table without overlap, double slot or range
\* outside the disk, aligned and big enough, and a source keeps its floors, for every geometry,
\* table and choice (compact_plan, manual_plan, ntfs_shrink_plan).
THEOREM PlansSound == Spec => []PlanSound
BY ConfirmedIsKept, PlanInvIsSound, PTL

-----------------------------------------------------------------------------
(* The best plan.                                                          *)

\* Numbers with an upper bound have a greatest.
LEMMA GreatestOfBounded ==
    ASSUME NEW S \in SUBSET Int, S # {}, NEW b \in Int, \A x \in S : x <= b
    PROVE  \E m \in S : \A x \in S : x <= m
<1> DEFINE D == {b - x : x \in S}
<1>1. D \in SUBSET Nat /\ D # {}
  <2>1. \A x \in S : b - x \in Nat  OBVIOUS
  <2> QED BY <2>1
<1>2. Lowest(D) \in D /\ \A y \in D : Lowest(D) <= y
  <2>1. \A y \in D : y \in Nat  BY <1>1
  <2> HIDE DEF D
  <2> QED BY <1>1, LowestIsLeast
<1>3. PICK m \in S : Lowest(D) = b - m  BY <1>2
<1>4. ASSUME NEW x \in S PROVE x <= m
  <2>1. b - m <= b - x  BY <1>2, <1>3
  <2> QED BY <2>1
<1> QED BY <1>4

\* A free range of the disk lies in a gap.
LEMMA GapCovers ==
    ASSUME NEW parts \in SUBSET Partition, NEW a \in Int, NEW b \in Int,
           First <= a, a <= b, b <= Last, Free(parts, a, b)
    PROVE  \E g \in Gaps(parts) : g.start <= a /\ b <= g.end
<1>1. First \in Int /\ Last \in Int  BY GeometryAssumption
<1>2. \A q \in parts : /\ q.start \in Int /\ q.end \in Int
                       /\ q.end < a \/ b < q.start
  BY PartitionFields DEF Free, Overlap
<1> DEFINE S == {First} \cup {q.end + 1 : q \in {q \in parts : q.end < a}}
           E == {-Last} \cup {-(q.start - 1) : q \in {q \in parts : b < q.start}}
<1>3. PICK s \in S : \A x \in S : x <= s
  <2>1. S \in SUBSET Int /\ S # {} /\ \A x \in S : x <= a  BY <1>1, <1>2
  <2> HIDE DEF S
  <2> QED BY <2>1, GreatestOfBounded
<1>4. PICK e \in E : \A x \in E : x <= e
  <2>1. E \in SUBSET Int /\ E # {} /\ \A x \in E : x <= -b  BY <1>1, <1>2
  <2>2. -b \in Int  OBVIOUS
  <2> HIDE DEF E
  <2> QED BY <2>1, <2>2, GreatestOfBounded
<1>5. s \in Int /\ s <= a /\ s \in {First} \cup {q.end + 1 : q \in parts}
  BY <1>1, <1>2
<1>6. /\ -e \in Int /\ e \in Int /\ b <= -e
      /\ -e \in {Last} \cup {q.start - 1 : q \in parts}
  BY <1>1, <1>2
<1>7. ASSUME NEW q \in parts PROVE q.end < s \/ -e < q.start
  <2>1. CASE q.end < a
    <3>1. q.end + 1 \in S  BY <2>1
    <3>2. q.end + 1 <= s  BY <1>3, <3>1
    <3> QED BY <1>2, <1>5, <3>2
  <2>2. CASE b < q.start
    <3>1. -(q.start - 1) \in E  BY <2>2
    <3>2. -(q.start - 1) <= e  BY <1>4, <3>1
    <3> QED BY <1>2, <1>6, <3>2
  <2> QED BY <1>2, <2>1, <2>2
<1> HIDE DEF S, E
<1>8. Free(parts, s, -e)
  <2>1. SUFFICES ASSUME NEW q \in parts PROVE ~Overlap(q, s, -e)  BY DEF Free
  <2> QED BY <1>2, <1>5, <1>6, <1>7 DEF Overlap
<1> DEFINE g == [start |-> s, end |-> -e]
<1>9. g.start <= g.end  BY <1>5, <1>6
<1>10. g \in Gaps(parts)  BY <1>5, <1>6, <1>8, <1>9 DEF Gaps
<1> QED BY <1>5, <1>6, <1>10

\* Gaps with the same start have the same end.
LEMMA OneGap ==
    ASSUME NEW parts, Valid(parts), NEW g \in Gaps(parts), NEW h \in Gaps(parts),
           g.start = h.start
    PROVE  g.end <= h.end
<1>1. parts \in SUBSET Partition  BY DEF Valid
<1>2. SUFFICES ASSUME h.end < g.end PROVE FALSE
  BY <1>1, GapFacts
<1>3. /\ h.start \in Int /\ h.end \in Int /\ h.start <= h.end
      /\ g.end \in Int /\ g.end \in First..Last /\ Free(parts, g.start, g.end)
  BY <1>1, GapFacts
<1>4. h.end # Last  BY <1>2, <1>3, GeometryAssumption
<1>5. PICK q \in parts : h.end = q.start - 1
  BY <1>4 DEF Gaps
<1>6. q.start \in Int /\ q.end \in Int /\ q.start <= q.end
  BY <1>1, PartitionFields DEF Valid
<1>7. ~Overlap(q, g.start, g.end)  BY <1>3 DEF Free
<1> QED BY <1>2, <1>3, <1>5, <1>6, <1>7 DEF Overlap

\* The gap test of ntfs_shrink_plan asks whether an aligned root fits anywhere on the disk.
LEMMA RoomIsInGaps ==
    ASSUME NEW parts \in SUBSET Partition, NEW size \in RootSizes
    PROVE  Room(parts, size) = {} <=> \A g \in Gaps(parts) : Down(g.end + 1) - Up(g.start) < size
<1>1. /\ First \in Int /\ Last \in Int
      /\ size \in Int /\ size >= 1 /\ size % Align = 0
  BY GeometryAssumption, InputAssumption
<1>2. ASSUME NEW r \in Room(parts, size)
      PROVE  \E g \in Gaps(parts) : ~(Down(g.end + 1) - Up(g.start) < size)
  <2>1. /\ r \in First..Last /\ r % Align = 0 /\ r + size - 1 <= Last
        /\ Free(parts, r, r + size - 1)
    BY DEF Room, Starts
  <2>2. r \in Int /\ r + size - 1 \in Int /\ First <= r /\ r <= r + size - 1  BY <1>1, <2>1
  <2>3. PICK g \in Gaps(parts) : g.start <= r /\ r + size - 1 <= g.end
    BY <2>1, <2>2, GapCovers
  <2>4. g.start \in Int /\ g.end \in Int  BY <2>3, GapFacts
  <2>5. g.end + 1 \in Int /\ r + size \in Int /\ r + size <= g.end + 1
    BY <1>1, <2>2, <2>3, <2>4
  <2>6. (r + size) % Align = 0  BY <1>1, <2>1, <2>2, MultipleSum
  <2>7. r + size <= Down(g.end + 1) /\ Down(g.end + 1) \in Int
    BY <2>5, <2>6, RoundingExact, Rounding
  <2>8. Up(g.start) <= r /\ Up(g.start) \in Int
    BY <2>1, <2>2, <2>3, <2>4, RoundingExact, Rounding
  <2>9. ~(Down(g.end + 1) - Up(g.start) < size)  BY <1>1, <2>2, <2>7, <2>8
  <2> QED BY <2>9
<1>3. ASSUME NEW g \in Gaps(parts), ~(Down(g.end + 1) - Up(g.start) < size)
      PROVE  Up(g.start) \in Room(parts, size)
  <2>1. /\ g.start \in Int /\ g.end \in Int /\ First <= g.start /\ g.end <= Last
        /\ Free(parts, g.start, g.end)
    BY <1>1, GapFacts
  <2>2. g.end + 1 \in Int  BY <2>1
  <2>3. Down(g.end + 1) \in Int /\ Down(g.end + 1) <= g.end + 1  BY <2>2, Rounding
  <2>4. Up(g.start) \in Int /\ Up(g.start) % Align = 0 /\ g.start <= Up(g.start)
    BY <2>1, Rounding
  <2> DEFINE r == Up(g.start)
             d == Down(g.end + 1)
  <2>5. r \in Int /\ g.start <= r /\ d \in Int /\ d <= g.end + 1 /\ ~(d - r < size)
    BY <1>3, <2>3, <2>4
  <2> HIDE DEF r, d
  <2>6. r + size - 1 \in Int /\ r + size - 1 <= g.end /\ r \in First..Last
        /\ r + size - 1 <= Last
    BY <1>1, <2>1, <2>5
  <2>7. Free(parts, r, r + size - 1)
    BY <2>1, <2>5, <2>6, FreeWithin
  <2> QED BY <2>4, <2>6, <2>7 DEF Room, Starts, r
<1> QED BY <1>2, <1>3

\* The last sector a root cut from a source may use, and where that root starts, as
\* ntfs_shrink_plan computes them.
ZoneEnd(parts, source) ==
    LET following == {g.end : g \in {g \in Gaps(parts) : g.start = source.end + 1}}
    IN  IF following = {} THEN source.end ELSE CHOOSE e \in following : TRUE
RootStart(parts, source, size) == (Down(ZoneEnd(parts, source) + 1) - 1) + 1 - size

\* The zone behind a source is free, and no free range behind the source ends after it.
LEMMA ZoneFacts ==
    ASSUME NEW parts, Valid(parts), NEW p \in parts, NEW z, z = ZoneEnd(parts, p)
    PROVE  /\ z \in Int /\ p.end <= z /\ z <= Last
           /\ z # p.end => Free(parts, p.end + 1, z)
           /\ \A b \in Int : p.end < b /\ b <= Last /\ Free(parts, p.end + 1, b) => b <= z
<1>1. parts \in SUBSET Partition  BY DEF Valid
<1>2. /\ p.start \in Int /\ p.end \in Int /\ p.start <= p.end /\ p.end <= Last /\ First <= p.end
      /\ Last \in Int /\ First \in Int
  BY <1>1, PartitionFields, GeometryAssumption DEF Valid
<1> DEFINE following == {g.end : g \in {g \in Gaps(parts) : g.start = p.end + 1}}
<1>3. z = IF following = {} THEN p.end ELSE CHOOSE e \in following : TRUE
  BY DEF ZoneEnd
<1>4. ASSUME NEW g \in Gaps(parts), g.start = p.end + 1
      PROVE  z = g.end
  <2>1. following # {}  BY <1>4
  <2>2. z \in following  BY <1>3, <2>1
  <2>3. PICK h \in Gaps(parts) : h.start = p.end + 1 /\ z = h.end  BY <2>2
  <2>4. g.end <= h.end /\ h.end <= g.end  BY <1>4, <2>3, OneGap
  <2>5. g.end \in Int /\ h.end \in Int  BY <1>1, GapFacts
  <2> QED BY <2>3, <2>4, <2>5
<1>5. /\ z \in Int /\ p.end <= z /\ z <= Last
      /\ z # p.end => Free(parts, p.end + 1, z)
  <2>1. CASE following = {}  BY <1>2, <1>3, <2>1
  <2>2. CASE following # {}
    <3>1. PICK g \in Gaps(parts) : g.start = p.end + 1  BY <2>2
    <3>2. z = g.end  BY <1>4, <3>1
    <3>3. /\ g.end \in Int /\ g.start <= g.end /\ g.end \in First..Last
          /\ Free(parts, g.start, g.end)
      BY <1>1, GapFacts
    <3> HIDE DEF following
    <3> QED BY <1>2, <3>1, <3>2, <3>3
  <2> QED BY <2>1, <2>2
<1>6. ASSUME NEW b \in Int, p.end < b, b <= Last, Free(parts, p.end + 1, b)
      PROVE  b <= z
  <2>1. p.end + 1 \in Int /\ First <= p.end + 1 /\ p.end + 1 <= b  BY <1>2, <1>6
  <2>2. PICK g \in Gaps(parts) : g.start <= p.end + 1 /\ b <= g.end
    BY <1>1, <1>6, <2>1, GapCovers
  <2>3. g.start \in Int /\ g.end \in Int /\ Free(parts, g.start, g.end)  BY <1>1, GapFacts
  <2>4. ~Overlap(p, g.start, g.end)  BY <2>3 DEF Free
  <2>5. g.start = p.end + 1  BY <1>2, <1>6, <2>1, <2>2, <2>3, <2>4 DEF Overlap
  <2>6. z = g.end  BY <1>4, <2>5
  <2> QED BY <2>2, <2>6
<1> QED BY <1>5, <1>6

\* ntfs_shrink_plan with the start of the root named.
LEMMA ShrinkPlanIs ==
    ASSUME NEW parts, NEW source, NEW esp, NEW size, NEW minimum
    PROVE  LET r == RootStart(parts, source, size)
           IN  ShrinkPlan(parts, source, esp, size, minimum) =
                 IF /\ source # esp /\ source.kind = "ntfs" /\ esp.kind = "esp"
                    /\ source.attributes = 0 /\ esp.attributes = 0
                    /\ source.start % Align = 0 /\ esp.end - esp.start + 1 >= EspSize
                    /\ minimum <= source.end - source.start + 1
                    /\ Cardinality(parts) < MaxParts /\ OpenSlots(parts) # {}
                    /\ \A g \in Gaps(parts) : Down(g.end + 1) - Up(g.start) < size
                    /\ r <= source.end /\ r > source.start
                    /\ r - source.start >= RootMin /\ r - source.start >= minimum + Slack
                 THEN {Intent(Binding(FALSE, esp.number, esp.start, esp.end),
                              Binding(TRUE, Lowest(OpenSlots(parts)), r,
                                      Down(ZoneEnd(parts, source) + 1) - 1),
                              source.number, r - 1)}
                 ELSE {}
BY DEF ShrinkPlan, RootStart, ZoneEnd

\* Where no root fits, RootStart is no less than any cut, inside the source, and a cut itself
\* if the source keeps its floors.
LEMMA CutFacts ==
    ASSUME NEW parts, Valid(parts), NEW p \in parts, NEW n \in RootSizes, NEW m \in Minimums,
           NEW r, r = RootStart(parts, p, n), Room(parts, n) = {}
    PROVE  /\ r \in Int
           /\ \A o \in Cuts(parts, p, n, m) : o \in Int /\ o <= r
           /\ r <= p.end
           /\ (/\ r > p.start /\ r - p.start >= RootMin /\ r - p.start >= m + Slack)
                => r \in Cuts(parts, p, n, m)
<1> DEFINE z == ZoneEnd(parts, p)
<1>1. parts \in SUBSET Partition  BY DEF Valid
<1>2. /\ p.start \in Int /\ p.end \in Int /\ p.start <= p.end /\ p.end <= Last /\ First <= p.start
      /\ Last \in Int /\ First \in Int
  BY <1>1, PartitionFields, GeometryAssumption DEF Valid
<1>3. /\ n \in Int /\ n >= 1 /\ n % Align = 0 /\ m \in Int
      /\ RootMin \in Int /\ RootMin >= 1 /\ Slack \in Int
  BY GeometryAssumption, InputAssumption
<1>4. /\ z \in Int /\ p.end <= z /\ z <= Last
      /\ z # p.end => Free(parts, p.end + 1, z)
      /\ \A b \in Int : p.end < b /\ b <= Last /\ Free(parts, p.end + 1, b) => b <= z
  BY ZoneFacts
<1>5. r = Down(z + 1) - 1 + 1 - n  BY DEF RootStart
<1> HIDE DEF z
<1>6. /\ Down(z + 1) \in Int /\ Down(z + 1) % Align = 0 /\ Down(z + 1) <= z + 1
  <2>1. z + 1 \in Int  BY <1>4
  <2> QED BY <2>1, Rounding
<1>7. r \in Int /\ r + n = Down(z + 1) /\ r + n - 1 \in Int /\ r + n - 1 <= z
  BY <1>3, <1>4, <1>5, <1>6
<1>8. r % Align = 0
  <2>1. r = Down(z + 1) - n  BY <1>3, <1>6, <1>7
  <2> QED BY <1>3, <1>6, <2>1, MultipleSum
<1>9. ASSUME NEW o \in Cuts(parts, p, n, m)
      PROVE  o \in Int /\ o <= r
  <2>1. /\ o \in (p.start + 1)..p.end /\ o % Align = 0 /\ o + n - 1 <= Last
        /\ Free(parts \ {p}, o, o + n - 1)
    BY DEF Cuts, Starts
  <2>2. o \in Int /\ p.start < o /\ o <= p.end /\ o + n - 1 \in Int  BY <1>2, <1>3, <2>1
  <2>3. o + n - 1 <= z
    <3>1. CASE o + n - 1 <= p.end  BY <1>2, <1>4, <2>2, <3>1
    <3>2. CASE o + n - 1 > p.end
      <4>1. ASSUME NEW q \in parts PROVE ~Overlap(q, p.end + 1, o + n - 1)
        <5>1. q.start \in Int /\ q.end \in Int  BY <1>1, PartitionFields
        <5>2. CASE q = p  BY <5>2, <5>1 DEF Overlap
        <5>3. CASE q # p
          <6>1. ~Overlap(q, o, o + n - 1)  BY <2>1, <5>3 DEF Free
          <6> QED BY <1>2, <2>2, <5>1, <6>1 DEF Overlap
        <5> QED BY <5>2, <5>3
      <4>2. Free(parts, p.end + 1, o + n - 1)  BY <4>1 DEF Free
      <4> QED BY <1>4, <2>1, <2>2, <3>2, <4>2
    <3> QED BY <3>1, <3>2, <1>2, <2>2
  <2>4. o + n \in Int /\ z + 1 \in Int /\ o + n <= z + 1  BY <1>3, <1>4, <2>2, <2>3
  <2>5. (o + n) % Align = 0  BY <1>3, <2>1, <2>2, MultipleSum
  <2>6. o + n <= Down(z + 1)  BY <2>4, <2>5, RoundingExact
  <2> QED BY <1>3, <1>6, <1>7, <2>2, <2>6
<1>10. r <= p.end
  <2>1. SUFFICES ASSUME r > p.end PROVE FALSE  BY <1>2, <1>7
  <2>2. z # p.end  BY <1>2, <1>3, <1>4, <1>7, <2>1
  <2>3. Free(parts, p.end + 1, z) /\ p.end + 1 \in Int /\ p.end + 1 <= r
    BY <1>2, <1>4, <1>7, <2>1, <2>2
  <2>4. Free(parts, r, r + n - 1)
    BY <1>1, <1>4, <1>7, <2>3, FreeWithin
  <2>5. r \in First..Last /\ r + n - 1 <= Last  BY <1>2, <1>3, <1>4, <1>7, <2>1
  <2>6. r \in Room(parts, n)  BY <1>8, <2>4, <2>5 DEF Room, Starts
  <2> QED BY <2>6
<1>11. ASSUME r > p.start, r - p.start >= RootMin, r - p.start >= m + Slack
       PROVE  r \in Cuts(parts, p, n, m)
  <2>1. ASSUME NEW q \in parts \ {p} PROVE ~Overlap(q, r, r + n - 1)
    <3>1. q.start \in Int /\ q.end \in Int /\ q.start <= q.end
      BY <1>1, PartitionFields DEF Valid
    <3>2. ~Overlap(q, p.start, p.end)  BY DEF Valid
    <3>3. z = p.end \/ ~Overlap(q, p.end + 1, z)  BY <1>4 DEF Free
    <3>4. CASE z = p.end
      BY <3>1, <3>2, <3>4, <1>2, <1>7, <1>11 DEF Overlap
    <3>5. CASE ~Overlap(q, p.end + 1, z)
      BY <3>1, <3>2, <3>5, <1>2, <1>4, <1>7, <1>10, <1>11 DEF Overlap
    <3> QED BY <3>3, <3>4, <3>5
  <2>2. Free(parts \ {p}, r, r + n - 1)  BY <2>1 DEF Free
  <2>3. r \in (p.start + 1)..p.end /\ r + n - 1 <= Last
    BY <1>2, <1>4, <1>7, <1>10, <1>11
  <2> QED BY <1>8, <1>11, <2>2, <2>3 DEF Cuts, Starts
<1> QED BY <1>7, <1>9, <1>10, <1>11

\* ntfs_shrink_plan cuts a source where it must and as little as it can.
LEMMA ShrinkIsExact ==
    ASSUME NEW parts, Normal(parts), NEW p \in parts, NEW q \in parts,
           NEW n \in RootSizes, NEW m \in Minimums
    PROVE  ShrinkExact(parts, p, q, n, m)
<1> DEFINE able == /\ p.kind = "ntfs" /\ q.kind = "esp" /\ {p.attributes, q.attributes} = {0}
                   /\ p.start % Align = 0 /\ q.end - q.start + 1 >= EspSize
                   /\ OpenSlots(parts) # {} /\ Cardinality(parts) < MaxParts
                   /\ Room(parts, n) = {}
           r == RootStart(parts, p, n)
           S == ShrinkPlan(parts, p, q, n, m)
           C == Cuts(parts, p, n, m)
           best == {c \in C : \A o \in C : o <= c}
           enough == r > p.start /\ r - p.start >= RootMin /\ r - p.start >= m + Slack
<1> SUFFICES {x.root.start : x \in S} = IF able THEN best ELSE {}
  BY DEF ShrinkExact
<1>1. parts \in SUBSET Partition /\ Valid(parts)  BY DEF Normal, Valid
<1>2. Room(parts, n) = {} <=> \A g \in Gaps(parts) : Down(g.end + 1) - Up(g.start) < n
  BY <1>1, RoomIsInGaps
<1> DEFINE the == Intent(Binding(FALSE, q.number, q.start, q.end),
                         Binding(TRUE, Lowest(OpenSlots(parts)), r,
                                 Down(ZoneEnd(parts, p) + 1) - 1), p.number, r - 1)
           fit == /\ p # q /\ p.kind = "ntfs" /\ q.kind = "esp"
                  /\ p.attributes = 0 /\ q.attributes = 0
                  /\ p.start % Align = 0 /\ q.end - q.start + 1 >= EspSize
                  /\ m <= p.end - p.start + 1
                  /\ Cardinality(parts) < MaxParts /\ OpenSlots(parts) # {}
                  /\ \A g \in Gaps(parts) : Down(g.end + 1) - Up(g.start) < n
                  /\ r <= p.end /\ r > p.start
                  /\ r - p.start >= RootMin /\ r - p.start >= m + Slack
<1>3. S = IF fit THEN {the} ELSE {}  BY ShrinkPlanIs
<1>4. the.root.start = r  BY DEF Intent, Binding
<1>5. fit => able /\ enough  BY <1>2
<1>6. /\ p.start \in Int /\ p.end \in Int /\ m \in Int /\ Slack \in Nat
  BY <1>1, PartitionFields, GeometryAssumption, InputAssumption
<1>7. ASSUME able
      PROVE  /\ r \in Int
             /\ \A o \in Cuts(parts, p, n, m) : o \in Int /\ o <= r
             /\ r <= p.end
             /\ enough => r \in Cuts(parts, p, n, m)
  <2>1. Room(parts, n) = {}  BY <1>7
  <2> QED BY <1>1, <2>1, CutFacts
<1>8. able /\ enough => fit
  <2>1. SUFFICES ASSUME able, enough PROVE fit  OBVIOUS
  <2>2. p.attributes = 0 /\ q.attributes = 0 /\ p # q  BY <2>1
  <2>3. r \in Int /\ r <= p.end  BY <1>7, <2>1
  <2> HIDE DEF r
  <2>4. m <= p.end - p.start + 1  BY <1>6, <2>1, <2>3
  <2> QED BY <1>2, <2>1, <2>2, <2>3, <2>4
<1> HIDE DEF r, the, fit
<1>9. CASE fit
  <2>1. able /\ enough  BY <1>5, <1>9
  <2>2. /\ r \in Int /\ r \in Cuts(parts, p, n, m)
        /\ \A o \in Cuts(parts, p, n, m) : o \in Int /\ o <= r
    BY <1>7, <2>1
  <2>3. r \in best  BY <2>2
  <2>4. ASSUME NEW c \in best PROVE c = r  BY <2>2
  <2>5. best = {r}  BY <2>3, <2>4
  <2>6. {x.root.start : x \in S} = {r}  BY <1>3, <1>4, <1>9
  <2> QED BY <2>1, <2>5, <2>6
<1>10. CASE ~fit
  <2>1. {x.root.start : x \in S} = {}  BY <1>3, <1>10
  <2>2. CASE ~able  BY <2>1, <2>2
  <2>3. CASE able
    <3>1. SUFFICES ASSUME NEW o \in Cuts(parts, p, n, m) PROVE FALSE
      BY <2>1, <2>3
    <3>2. o \in Int /\ o <= r /\ r \in Int  BY <1>7, <2>3
    <3>3. o \in (p.start + 1)..p.end /\ o - p.start >= RootMin /\ o - p.start >= m + Slack
      BY DEF Cuts, Starts
    <3>4. RootMin \in Int  BY GeometryAssumption
    <3>5. enough  BY <1>6, <3>2, <3>3, <3>4
    <3> QED BY <1>8, <1>10, <2>3, <3>5
  <2> QED BY <2>2, <2>3
<1> QED BY <1>9, <1>10

\* compact_plan fills its gap.
LEMMA CompactIsExact ==
    ASSUME NEW parts \in SUBSET Partition, NEW x \in Extents
    PROVE  CompactExact(parts, x)
<1> DEFINE able == x \in Gaps(parts) /\ Cardinality(OpenSlots(parts)) >= 2
           B == {f \in Fits(x) : \A o \in Fits(x) : f[1] <= o[1] /\ o[2] <= f[2]}
           A == {<<p.esp.start, p.root.end>> : p \in CompactPlan(parts, x)}
           e == Up(x.start)
           s == e + EspSize
           r == Down(x.end + 1) - 1
           espSlot == Lowest(OpenSlots(parts))
           the == Intent(Binding(TRUE, espSlot, e, s - 1),
                         Binding(TRUE, Lowest(OpenSlots(parts) \ {espSlot}), s, r), 0, 0)
<1> SUFFICES A = IF able THEN B ELSE {}
  BY DEF CompactExact
<1>1. CompactPlan(parts, x) = IF able /\ r - s + 1 >= RootMin THEN {the} ELSE {}
  BY DEF CompactPlan
<1>2. the.esp.start = e /\ the.root.end = r  BY DEF Intent, Binding
<1>3. x.start \in Int /\ x.end \in Int  BY InputAssumption
<1>4. EspSize \in Int /\ EspSize >= 1 /\ RootMin \in Int /\ RootMin >= 1
  BY GeometryAssumption
<1>5. e \in Int /\ e % Align = 0 /\ x.start <= e  BY <1>3, Rounding
<1>6. r \in Int /\ (r + 1) % Align = 0 /\ r <= x.end /\ r + 1 = Down(x.end + 1)
  <2>1. x.end + 1 \in Int  BY <1>3
  <2>2. /\ Down(x.end + 1) \in Int /\ Down(x.end + 1) % Align = 0
        /\ Down(x.end + 1) <= x.end + 1
    BY <2>1, Rounding
  <2>3. r + 1 = Down(x.end + 1)  BY <2>2
  <2> QED BY <1>3, <2>2, <2>3
<1>7. s = e + EspSize  OBVIOUS
<1> HIDE DEF e, r, s, the
<1>8. ASSUME NEW f \in Fits(x)
      PROVE  /\ f[1] \in Int /\ f[2] \in Int /\ f = <<f[1], f[2]>>
             /\ e <= f[1] /\ f[2] <= r /\ f[2] >= f[1] + EspSize + RootMin - 1
  <2>1. /\ f = <<f[1], f[2]>> /\ f[1] \in x.start..x.end /\ f[2] \in x.start..x.end
        /\ f[1] % Align = 0 /\ (f[2] + 1) % Align = 0
        /\ f[2] >= f[1] + EspSize + RootMin - 1
    BY DEF Fits
  <2>2. f[1] \in Int /\ x.start <= f[1] /\ f[2] \in Int /\ f[2] <= x.end  BY <1>3, <2>1
  <2>3. e <= f[1]  BY <1>3, <2>1, <2>2, RoundingExact DEF e
  <2>4. f[2] + 1 \in Int /\ x.end + 1 \in Int /\ f[2] + 1 <= x.end + 1  BY <1>3, <2>2
  <2>5. f[2] + 1 <= Down(x.end + 1)  BY <2>1, <2>4, RoundingExact
  <2>6. f[2] <= r  BY <1>6, <2>2, <2>5
  <2> QED BY <2>1, <2>2, <2>3, <2>6
<1>9. CASE able /\ r - s + 1 >= RootMin
  <2>1. A = {<<e, r>>}  BY <1>1, <1>2, <1>9
  <2>2. <<e, r>> \in Fits(x)
    <3>1. r >= e + EspSize + RootMin - 1  BY <1>4, <1>5, <1>6, <1>7, <1>9
    <3>2. e \in x.start..x.end /\ r \in x.start..x.end  BY <1>3, <1>4, <1>5, <1>6, <3>1
    <3> QED BY <1>5, <1>6, <3>1, <3>2 DEF Fits
  <2>3. <<e, r>> \in B  BY <1>8, <2>2
  <2>4. ASSUME NEW f \in B PROVE f = <<e, r>>
    <3>1. f \in Fits(x) /\ f[1] <= e /\ r <= f[2]  BY <2>2
    <3>2. f[1] = e /\ f[2] = r  BY <1>5, <1>6, <1>8, <3>1
    <3> QED BY <1>8, <3>1, <3>2
  <2>5. B = {<<e, r>>}  BY <2>3, <2>4
  <2> QED BY <1>9, <2>1, <2>5
<1>10. CASE able /\ ~(r - s + 1 >= RootMin)
  <2>1. A = {}  BY <1>1, <1>10
  <2>2. ASSUME NEW f \in Fits(x) PROVE FALSE
    BY <1>4, <1>5, <1>6, <1>7, <1>8, <1>10
  <2> QED BY <1>10, <2>1, <2>2
<1>11. CASE ~able  BY <1>1, <1>11
<1> QED BY <1>9, <1>10, <1>11

\* The planners find the best plan, and one whenever there is one, for every geometry and table.
THEOREM PlannersAreExact == Spec => []PlannersExact
<1>1. PlannersExact
  <2> SUFFICES ASSUME step = "idle", Readable PROVE PlannersExact  BY DEF PlannersExact
  <2>1. Normal(table.parts) /\ table.parts \in SUBSET Partition
    BY DEF Readable, Normal, Valid
  <2> QED BY <2>1, CompactIsExact, ShrinkIsExact DEF PlannersExact
<1> QED BY <1>1, PTL
==============================================================================
