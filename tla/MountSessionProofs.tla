------------------------- MODULE MountSessionProofs -------------------------
(***************************************************************************)
(* Proofs about MountSession, for every set of plans, every number of      *)
(* mounts and every amount of trouble.  The inductive invariant tells what *)
(* each place in the code knows: ids stand for mounts, a running unmount   *)
(* has just seen that everything is the session's (Core), the layout is    *)
(* that of the plan (PlanInv), where a kept EFI partition can still be     *)
(* seen whole and writable in the course of mountProtectedEsp (ProtectInv) *)
(* and after it (ShieldInv), and what cleanup has achieved when it has     *)
(* come to a place (CleanupInv).                                           *)
(***************************************************************************)
EXTENDS MountSession, FiniteSetTheorems, WellFoundedInduction, TLAPS

(* The least of some numbers is one of them. *)
LEMMA LowestIsOne ==
    ASSUME NEW ids \in SUBSET Nat, ids # {}
    PROVE  Lowest(ids) \in ids
<1> DEFINE R == OpToRel(<, Nat)
<1>1. IsWellFoundedOn(R, Nat)
    BY NatLessThanWellFounded
<1>2. \A x, y \in Nat : x < y => <<x, y>> \in R
    BY DEF OpToRel
<1> HIDE DEF R
<1>3. PICK x \in ids : \A y \in ids : ~ (<<y, x>> \in R)
    BY <1>1, WFMin
<1>4. ASSUME NEW y \in ids PROVE x <= y
  <2>1. x \in Nat /\ y \in Nat /\ ~(y < x)
    BY <1>2, <1>3
  <2>2. QED
    BY <2>1
<1>5. QED
    BY <1>3, <1>4 DEF Lowest

(* Ids not in use are numbers up to the bound. *)
LEMMA UnusedFacts ==
    /\ Unused \subseteq 1..MaxIds /\ Unused \subseteq Nat
    /\ IsFiniteSet(Unused) /\ Cardinality(Unused) \in Nat
    /\ Unused # {} => Lowest(Unused) \in Unused
<1>1. Unused \subseteq 1..MaxIds /\ Unused \subseteq Nat
    BY DEF Unused
<1>2. IsFiniteSet(1..MaxIds)
    BY FS_Interval, BoundsAssumption
<1>3. IsFiniteSet(Unused)
    BY <1>1, <1>2, FS_Subset
<1>4. Cardinality(Unused) \in Nat
    BY <1>3, FS_CardinalityType
<1>5. Unused # {} => Lowest(Unused) \in Unused
    BY <1>1, LowestIsOne
<1>6. QED
    BY <1>1, <1>3, <1>4, <1>5

(* The foreign mount of a command gets an id of its own. *)
LEMMA StageRowFacts ==
    ASSUME PlaceType, Unused # {}, NEW p \in {"home", "efi"},
           NEW row, row = Row(Lowest(Unused), Shape(p, "foreign", TRUE, TRUE))
    PROVE  /\ row \in RowSet /\ row.dev = "foreign"
           /\ \A m \in table : m.id # row.id
<1>1. Lowest(Unused) \in 1..MaxIds /\ \A m \in table : m.id # Lowest(Unused)
    BY UnusedFacts DEF Unused
<1>2. QED
    BY <1>1 DEF Row, Shape, RowSet, Places, Depth, Devices

(* What a command mounts has the shapes asked for, under ids not in use. *)
LEMMA MadeFacts ==
    ASSUME PlaceType, WantedInv, NEW part \in Halves(inner.wanted),
           Cardinality(inner.wanted) <= Cardinality(Unused)
    PROVE  /\ Made(part) \subseteq RowSet
           /\ \A m \in Made(part) : ShapeOf(m) \in part /\ \A n \in table : m.id # n.id
           /\ OneEach(Made(part))
           /\ part \subseteq inner.wanted
           /\ \A s : inner.wanted = {s} /\ s.at # "pts" => Single(Made(part))
<1> DEFINE i == Lowest(Unused)
           j == Lowest(Unused \ {i})
<1>1. part \subseteq inner.wanted /\ inner.wanted \subseteq ShapeSet
    BY DEF Halves, PlaceType, InnerSet
<1>2. inner.wanted # {} => i \in Unused
  <2>1. CASE inner.wanted = {}
    BY <2>1
  <2>2. CASE \E s \in ShapeSet : s.at # "pts" /\ inner.wanted = {s}
    <3>1. Cardinality(inner.wanted) = 1
      BY <2>2, FS_Singleton
    <3>2. Unused # {}
      BY <3>1, UnusedFacts, FS_EmptySet
    <3>3. QED
      BY <3>2, UnusedFacts
  <2>3. CASE \E s, t \in ShapeSet : s.at # "pts" /\ t.at = "pts" /\ inner.wanted = {s, t}
    <3>1. PICK s \in ShapeSet, t \in ShapeSet : s # t /\ inner.wanted = {s, t}
      BY <2>3
    <3>2. Cardinality({s}) = 1 /\ IsFiniteSet({s})
      BY FS_Singleton
    <3>3. Cardinality({s} \cup {t}) = 2
      <4>1. Cardinality({s} \cup {t}) = IF t \in {s} THEN Cardinality({s}) ELSE Cardinality({s}) + 1
        BY <3>2, FS_AddElement
      <4>2. QED
        BY <3>1, <3>2, <4>1
    <3>4. Cardinality(inner.wanted) = 2
      <4>1. {s} \cup {t} = {s, t}
        OBVIOUS
      <4>2. QED
        BY <3>1, <3>3, <4>1
    <3>5. Unused # {}
      BY <3>4, UnusedFacts, FS_EmptySet
    <3>6. QED
      BY <3>5, UnusedFacts
  <2>4. QED
    BY <2>1, <2>2, <2>3 DEF WantedInv
<1>3. (\E s \in part : s.at = "pts") => j \in Unused \ {i}
  <2> SUFFICES ASSUME NEW s \in part, s.at = "pts" PROVE j \in Unused \ {i}
    OBVIOUS
  <2>1. s \in inner.wanted
    BY <1>1
  <2>2. PICK u \in ShapeSet, t \in ShapeSet : u # t /\ inner.wanted = {u, t}
    BY <2>1 DEF WantedInv
  <2>3. Cardinality({u}) = 1 /\ IsFiniteSet({u})
    BY FS_Singleton
  <2>4. Cardinality({u} \cup {t}) = 2
    <3>1. Cardinality({u} \cup {t}) = IF t \in {u} THEN Cardinality({u}) ELSE Cardinality({u}) + 1
      BY <2>3, FS_AddElement
    <3>2. QED
      BY <2>2, <2>3, <3>1
  <2>5. {u} \cup {t} = inner.wanted
    BY <2>2
  <2>6. Cardinality(inner.wanted) = 2
    BY <2>4, <2>5
  <2>7. Unused \ {i} # {}
    <3>1. SUFFICES ASSUME Unused \subseteq {i} PROVE FALSE
      OBVIOUS
    <3>2. Cardinality({i}) = 1 /\ IsFiniteSet({i})
      BY FS_Singleton
    <3>3. Cardinality(Unused) <= 1
      BY <3>1, <3>2, FS_Subset
    <3>4. QED
      BY <2>6, <3>3, UnusedFacts
  <2>8. Unused \ {i} \in SUBSET Nat
    BY UnusedFacts
  <2>9. QED
    BY <2>7, <2>8, LowestIsOne
<1>4. \A s \in part : IF s.at = "pts" THEN j \in Unused \ {i} ELSE i \in Unused
    BY <1>1, <1>2, <1>3
<1>5. \A s, t \in part : (s.at = "pts" <=> t.at = "pts") => s = t
    BY <1>1 DEF WantedInv
<1>6. Made(part) = {Row(IF s.at = "pts" THEN j ELSE i, s) : s \in part}
    BY DEF Made
<1> HIDE DEF i, j
<1>7. \A n \in table : n.id \notin Unused
    BY DEF Unused
<1>8. ASSUME NEW m \in Made(part)
      PROVE  /\ m \in RowSet /\ ShapeOf(m) \in part
             /\ \A n \in table : m.id # n.id
             /\ \E s \in part : m = Row(IF s.at = "pts" THEN j ELSE i, s)
  <2>1. PICK s \in part : m = Row(IF s.at = "pts" THEN j ELSE i, s)
    BY <1>6
  <2>2. m.id \in Unused
    BY <1>4, <2>1 DEF Row
  <2>3. m.id \in 1..MaxIds
    BY <2>2, UnusedFacts
  <2>4. s \in ShapeSet
    BY <1>1
  <2>5. m \in RowSet
    BY <2>1, <2>3, <2>4 DEF Row, RowSet, ShapeSet
  <2>6. ShapeOf(m) = s
    BY <2>1, <2>4 DEF Row, ShapeOf, Shape, ShapeSet
  <2>7. QED
    BY <1>7, <2>1, <2>2, <2>5, <2>6
<1>9. OneEach(Made(part))
  <2> SUFFICES ASSUME NEW m \in Made(part), NEW n \in Made(part), m.id = n.id
               PROVE  m = n
    BY DEF OneEach
  <2>1. PICK s \in part : m = Row(IF s.at = "pts" THEN j ELSE i, s)
    BY <1>8
  <2>2. PICK t \in part : n = Row(IF t.at = "pts" THEN j ELSE i, t)
    BY <1>8
  <2>3. m.id = (IF s.at = "pts" THEN j ELSE i) /\ n.id = (IF t.at = "pts" THEN j ELSE i)
    BY <2>1, <2>2 DEF Row
  <2>4. s.at = "pts" <=> t.at = "pts"
    BY <1>4, <2>3
  <2>5. QED
    BY <1>5, <2>1, <2>2, <2>4
<1>10. ASSUME NEW s, inner.wanted = {s}, s.at # "pts" PROVE Single(Made(part))
    BY <1>1, <1>8, <1>10 DEF Single
<1>11. QED
    BY <1>1, <1>8, <1>9, <1>10

(* What a kind of mount makes. *)
LEMMA WantedFacts ==
    ASSUME NEW kind \in Kinds, NEW at \in Places, at # "pts"
    PROVE  /\ kind = "private" => Wanted(kind, at) = {}
           /\ kind = "rbind" => Wanted(kind, at) = {Shape("dev", "host", TRUE, TRUE),
                                                    Shape("pts", "host", TRUE, TRUE)}
           /\ kind = "root" => Wanted(kind, at) = {Shape(at, Part(2), TRUE, TRUE)}
           /\ kind = "efi" => Wanted(kind, at) = {Shape("efi", Part(1), TRUE, TRUE)}
           /\ kind = "probe" => Wanted(kind, at) = {Shape("probe", "esp", TRUE, FALSE)}
           /\ kind = "stage" => Wanted(kind, at) = {Shape("stage", Part(1), TRUE, TRUE)}
           /\ kind = "base" => Wanted(kind, at) = {Shape("efi", "esp", TRUE, TRUE)}
           /\ kind = "vendor" => Wanted(kind, at) = {Shape("vendor", "esp", FALSE, TRUE)}
<1>1. Wanted("private", at) = {}
    BY DEF Wanted
<1>2. Wanted("rbind", at) = {Shape("dev", "host", TRUE, TRUE), Shape("pts", "host", TRUE, TRUE)}
    BY DEF Wanted
<1>3. Wanted("root", at) = {Shape(at, Part(2), TRUE, TRUE)}
    BY DEF Wanted
<1>4. Wanted("efi", at) = {Shape("efi", Part(1), TRUE, TRUE)}
    BY DEF Wanted
<1>5. Wanted("probe", at) = {Shape("probe", "esp", TRUE, FALSE)}
    BY DEF Wanted
<1>6. Wanted("stage", at) = {Shape("stage", Part(1), TRUE, TRUE)}
    BY DEF Wanted
<1>7. Wanted("base", at) = {Shape("efi", "esp", TRUE, TRUE)}
    BY DEF Wanted
<1>8. Wanted("vendor", at) = {Shape("vendor", "esp", FALSE, TRUE)}
    BY DEF Wanted
<1>9. QED
    BY <1>1, <1>2, <1>3, <1>4, <1>5, <1>6, <1>7, <1>8

(* Parts are devices of the plan's disk. *)
LEMMA PartFacts ==
    /\ Part(1) \in Devices /\ Part(2) \in Devices /\ Part(2) # "esp"
    /\ Part(1) = "esp" \/ Part(1) = "first"
    /\ layout # "none" => Part(1) = "esp" /\ Part(2) = "root"
    BY DEF Part, Devices

(* A shape has the fields it is made of. *)
LEMMA ShapeFacts ==
    ASSUME NEW at \in Places, NEW dev \in Devices, NEW whole \in BOOLEAN, NEW rw \in BOOLEAN
    PROVE  /\ Shape(at, dev, whole, rw) \in ShapeSet
           /\ Shape(at, dev, whole, rw).at = at /\ Shape(at, dev, whole, rw).dev = dev
           /\ Shape(at, dev, whole, rw).whole = whole /\ Shape(at, dev, whole, rw).rw = rw
    BY DEF Shape, ShapeSet

(* The places and devices by name. *)
LEMMA PlaceFacts ==
    /\ Places = {"mnt", "home", "dev", "stage", "probe", "pts", "efi", "vendor"}
    /\ Devices = {"first", "second", "esp", "root", "host", "foreign"}
    BY DEF Places, Depth, Devices

(* What a kind of mount wants is one thing, or two; whole and writable only where an
   EFI partition may be; by the names of a wiped disk only without a layout. *)
LEMMA StartCore ==
    ASSUME PlaceType, NEW kind \in Kinds, NEW at \in Places, at # "pts",
           kind = "stage" => at = "stage"
    PROVE  /\ Wanted(kind, at) \subseteq ShapeSet
           /\ \/ Wanted(kind, at) = {}
              \/ \E s \in ShapeSet : s.at # "pts" /\ Wanted(kind, at) = {s}
              \/ \E s, t \in ShapeSet : s.at # "pts" /\ t.at = "pts" /\ Wanted(kind, at) = {s, t}
           /\ \A s \in Wanted(kind, at) : Bare(s) => s.at \in {"stage", "efi"}
           /\ kind = "probe" \/ layout # "none" => \A s \in Wanted(kind, at) : ~Wiped(s)
<1>1. CASE kind = "private"
    BY <1>1, WantedFacts
<1>2. CASE kind = "rbind"
  <2> DEFINE s == Shape("dev", "host", TRUE, TRUE)
             t == Shape("pts", "host", TRUE, TRUE)
  <2>1. s \in ShapeSet /\ t \in ShapeSet /\ s.at = "dev" /\ t.at = "pts"
        /\ s.dev = "host" /\ t.dev = "host"
    <3>1. /\ "dev" \in Places /\ "pts" \in Places /\ "host" \in Devices
          /\ TRUE \in BOOLEAN
      BY PlaceFacts
    <3>2. QED
      BY <3>1 DEF Shape, ShapeSet
  <2>2. Wanted(kind, at) = {s, t}
    BY <1>2, WantedFacts
  <2> HIDE DEF s, t
  <2>3. QED
    BY <2>1, <2>2 DEF Bare, Wiped
<1>3. ASSUME NEW p \in Places, NEW dev \in Devices, NEW whole \in BOOLEAN, NEW rw \in BOOLEAN,
             p # "pts", Wanted(kind, at) = {Shape(p, dev, whole, rw)},
             dev = "esp" /\ whole /\ rw => p \in {"stage", "efi"},
             kind = "probe" \/ layout # "none" => dev \notin {"first", "second"}
      PROVE  /\ Wanted(kind, at) \subseteq ShapeSet
             /\ \E s \in ShapeSet : s.at # "pts" /\ Wanted(kind, at) = {s}
             /\ \A s \in Wanted(kind, at) : Bare(s) => s.at \in {"stage", "efi"}
             /\ kind = "probe" \/ layout # "none" => \A s \in Wanted(kind, at) : ~Wiped(s)
  <2> DEFINE s == Shape(p, dev, whole, rw)
  <2>1. s \in ShapeSet /\ s.at = p /\ s.dev = dev /\ s.whole = whole /\ s.rw = rw
    BY ShapeFacts
  <2> HIDE DEF s
  <2>2. Wanted(kind, at) = {s}
    BY <1>3 DEF s
  <2>3. QED
    BY <1>3, <2>1, <2>2 DEF Bare, Wiped
<1>4. CASE kind = "root"
  <2>1. Wanted(kind, at) = {Shape(at, Part(2), TRUE, TRUE)}
    BY <1>4, WantedFacts
  <2>2. QED
    BY <1>3, <1>4, <2>1, PartFacts
<1>5. CASE kind = "efi"
  <2>1. Wanted(kind, at) = {Shape("efi", Part(1), TRUE, TRUE)}
    BY <1>5, WantedFacts
  <2>2. QED
    BY <1>3, <1>5, <2>1, PartFacts, PlaceFacts
<1>6. CASE kind = "probe"
  <2>1. Wanted(kind, at) = {Shape("probe", "esp", TRUE, FALSE)}
    BY <1>6, WantedFacts
  <2>2. QED
    BY <1>3, <1>6, <2>1, PlaceFacts
<1>7. CASE kind = "stage"
  <2>1. Wanted(kind, at) = {Shape("stage", Part(1), TRUE, TRUE)}
    BY <1>7, WantedFacts
  <2>2. QED
    BY <1>3, <1>7, <2>1, PartFacts, PlaceFacts
<1>8. CASE kind = "base"
  <2>1. Wanted(kind, at) = {Shape("efi", "esp", TRUE, TRUE)}
    BY <1>8, WantedFacts
  <2>2. QED
    BY <1>3, <1>8, <2>1, PlaceFacts
<1>9. CASE kind = "vendor"
  <2>1. Wanted(kind, at) = {Shape("vendor", "esp", FALSE, TRUE)}
    BY <1>9, WantedFacts
  <2>2. QED
    BY <1>3, <1>9, <2>1, PlaceFacts
<1>10. QED
    BY <1>1, <1>2, <1>4, <1>5, <1>6, <1>7, <1>8, <1>9 DEF Kinds

(* A call of mount is refused, fails, or hands what is wanted to the supervisor. *)
LEMMA StartMountFacts ==
    ASSUME NEW kind, NEW at, StartMount(kind, at)
    PROVE  /\ UNCHANGED <<plan, table, pending, busy, trouble, owned>>
           /\ unsafe' \in {unsafe, TRUE}
           /\ \/ inner' = NoCall /\ ret' = FALSE
              \/ /\ Allowed(kind) /\ Known /\ ret' = ret /\ unsafe' = unsafe
                 /\ kind = "private" \/ At(table, at) = {}
                 /\ inner' = [op |-> IF kind = "private" THEN "private" ELSE "mount",
                              step |-> "run", at |-> at, wanted |-> Wanted(kind, at),
                              made |-> {}, ok |-> FALSE]
    BY DEF StartMount, Answer, NoCall, world

(* A call of unmount fails, or it has seen that everything is the session's. *)
LEMMA StartUnmountFacts ==
    ASSUME NEW at, StartUnmount(at)
    PROVE  /\ UNCHANGED <<plan, table, pending, busy, trouble, owned, unsafe>>
           /\ Served
           /\ \/ inner' = NoCall /\ ret' = FALSE
              \/ /\ Known /\ ~busy /\ ret' = ret /\ Cardinality(At(owned, at)) = 1
                 /\ inner' = [op |-> "unmount", step |-> "run", at |-> at, wanted |-> {},
                              made |-> At(owned, at), ok |-> FALSE]
    BY DEF StartUnmount, Answer, NoCall, world

(* The fields of a session that is in no call. *)
LEMMA NoCallFacts ==
    /\ NoCall \in InnerSet /\ NoCall.wanted = {} /\ NoCall.op = "none"
    /\ NoCall.at = "mnt" /\ NoCall.made = {} /\ NoCall.step = "none" /\ NoCall.ok = FALSE
    BY DEF NoCall, InnerSet, Places, Depth

(* A call that starts keeps what it does not touch. *)
LEMMA NewCallKeeps ==
    ASSUME IdInv, NameInv, BareInv, UNCHANGED <<plan, table, pending, owned>>,
           inner' \in InnerSet, inner'.op # "none", inner'.step = "run",
           inner'.op = "unmount" => Known /\ Served,
           \/ inner'.wanted = {}
           \/ \E s \in ShapeSet : s.at # "pts" /\ inner'.wanted = {s}
           \/ \E s, t \in ShapeSet : s.at # "pts" /\ t.at = "pts" /\ inner'.wanted = {s, t},
           \A s \in inner'.wanted : Bare(s) => s.at \in {"stage", "efi"},
           plan = "ntfs" => \A s \in inner'.wanted : ~Wiped(s)
    PROVE  IdInv' /\ WantedInv' /\ CallInv' /\ NameInv' /\ BareInv'
<1>1. IdInv'
    BY DEF IdInv, OneEach
<1>2. WantedInv'
    BY DEF WantedInv
<1>3. CallInv'
    BY DEF CallInv, Free, Known, Served
<1>4. NameInv'
    BY DEF NameInv, Wiped
<1>5. BareInv'
    BY DEF BareInv, Bare
<1>6. QED
    BY <1>1, <1>2, <1>3, <1>4, <1>5

(* A call that is answered at once keeps what it does not touch. *)
LEMMA NoCallKeeps ==
    ASSUME IdInv, NameInv, BareInv, UNCHANGED <<plan, table, pending, owned>>,
           inner' = NoCall
    PROVE  IdInv' /\ WantedInv' /\ CallInv' /\ NameInv' /\ BareInv'
<1>1. IdInv'
    BY DEF IdInv, OneEach
<1>2. WantedInv'
    BY NoCallFacts DEF WantedInv
<1>3. CallInv'
    BY NoCallFacts DEF CallInv, Free, Known, Served
<1>4. NameInv'
    BY NoCallFacts DEF NameInv, Wiped
<1>5. BareInv'
    BY NoCallFacts DEF BareInv, Bare
<1>6. QED
    BY <1>1, <1>2, <1>3, <1>4, <1>5

(* The start of a mount keeps the core of the invariant. *)
LEMMA StartMountKeeps ==
    ASSUME PlaceType, Core, PlanInv, NEW kind \in Kinds, NEW at \in Places, at # "pts",
           kind = "stage" => at = "stage",
           plan # "full" => kind = "probe" \/ started \/ layout # "none",
           StartMount(kind, at)
    PROVE  Core' /\ inner' \in InnerSet
<1>1. CASE inner' = NoCall
    BY <1>1, StartMountFacts, NoCallKeeps, NoCallFacts DEF Core
<1>2. CASE inner' # NoCall
  <2>1. /\ Allowed(kind) /\ UNCHANGED <<plan, table, pending, owned>>
        /\ inner' = [op |-> IF kind = "private" THEN "private" ELSE "mount",
                     step |-> "run", at |-> at, wanted |-> Wanted(kind, at),
                     made |-> {}, ok |-> FALSE]
    BY <1>2, StartMountFacts
  <2>2. inner'.wanted = Wanted(kind, at)
    BY <2>1
  <2>3. inner' \in InnerSet
    BY <2>1, StartCore DEF InnerSet
  <2>4. inner'.op \in {"mount", "private"} /\ inner'.step = "run"
    BY <2>1
  <2>5. kind = "probe" \/ started => kind = "probe" \/ layout = "ntfs"
    BY <2>1 DEF Allowed, FallbackClosed
  <2>6. plan = "ntfs" => \A s \in inner'.wanted : ~Wiped(s)
    BY <2>2, <2>5, StartCore
  <2>7. \A s \in inner'.wanted : Bare(s) => s.at \in {"stage", "efi"}
    BY <2>2, StartCore
  <2>8. \/ inner'.wanted = {}
        \/ \E s \in ShapeSet : s.at # "pts" /\ inner'.wanted = {s}
        \/ \E s, t \in ShapeSet : s.at # "pts" /\ t.at = "pts" /\ inner'.wanted = {s, t}
    BY <2>2, StartCore
  <2>9. Core'
    BY <2>1, <2>3, <2>4, <2>6, <2>7, <2>8, NewCallKeeps DEF Core
  <2>10. QED
    BY <2>3, <2>9
<1>3. QED
    BY <1>1, <1>2

(* The start of an unmount keeps the core of the invariant. *)
LEMMA StartUnmountKeeps ==
    ASSUME PlaceType, Core, NEW at \in Places, StartUnmount(at)
    PROVE  Core' /\ inner' \in InnerSet
<1>1. CASE inner' = NoCall
    BY <1>1, StartUnmountFacts, NoCallKeeps, NoCallFacts DEF Core
<1>2. CASE inner' # NoCall
  <2>1. /\ Known /\ Served /\ UNCHANGED <<plan, table, pending, owned>>
        /\ inner' = [op |-> "unmount", step |-> "run", at |-> at, wanted |-> {},
                     made |-> At(owned, at), ok |-> FALSE]
    BY <1>2, StartUnmountFacts
  <2>2. inner'.wanted = {} /\ inner'.op = "unmount" /\ inner'.step = "run"
    BY <2>1
  <2>3. inner' \in InnerSet
    BY <2>1 DEF InnerSet, PlaceType, At
  <2>4. Core'
    BY <2>1, <2>2, <2>3, NewCallKeeps DEF Core
  <2>5. QED
    BY <2>3, <2>4
<1>3. QED
    BY <1>1, <1>2

(* What a command does to the mounts, now or later. *)
LEMMA CommandFacts ==
    ASSUME PlaceType, Served, NEW add \in SUBSET RowSet, NEW del \in SUBSET RowSet,
           NEW ok \in BOOLEAN, Command(add, del, ok)
    PROVE  /\ table' \subseteq table \cup add /\ table' \subseteq RowSet
           /\ pending' \in CommandSet /\ pending'.add \subseteq add
           /\ trouble' \in 0..MaxTrouble
           /\ \/ table' = (table \ del) \cup add /\ Served'
              \/ ~ok /\ UNCHANGED table
           /\ ok => Served'
           /\ \/ table' \in {table, (table \ del) \cup add} /\ Served'
              \/ table' = table /\ pending' = [add |-> add, del |-> del]
<1>1. CASE table' = (table \ del) \cup add /\ UNCHANGED <<pending, trouble>>
    BY <1>1 DEF Served, NoCommand, PlaceType, CommandSet
<1>2. CASE ~ok /\ UNCHANGED <<table, pending, trouble>>
    BY <1>2 DEF Served, NoCommand, PlaceType, CommandSet
<1>3. CASE /\ ~ok /\ trouble < MaxTrouble /\ trouble' = trouble + 1
           /\ pending' = [add |-> add, del |-> del] /\ UNCHANGED table
  <2>1. trouble' \in 0..MaxTrouble
    BY <1>3, BoundsAssumption DEF PlaceType
  <2>2. QED
    BY <1>3, <2>1 DEF PlaceType, CommandSet
<1>4. QED
    BY <1>1, <1>2, <1>3 DEF Command

(* A command keeps ids apart if what it leaves has ids of its own. *)
LEMMA CommandIds ==
    ASSUME PlaceType, Served, IdInv, NEW add \in SUBSET RowSet, NEW del \in SUBSET RowSet,
           NEW ok \in BOOLEAN, Command(add, del, ok), OneEach((table \ del) \cup add),
           UNCHANGED owned
    PROVE  IdInv'
<1>1. OneEach(table) /\ OneEach(owned)
    BY DEF IdInv
<1>2. CASE table' \in {table, (table \ del) \cup add} /\ Served'
  <2>1. (table' \ pending'.del) \cup pending'.add = table'
    BY <1>2 DEF Served, NoCommand
  <2>2. OneEach(table')
    BY <1>1, <1>2
  <2>3. QED
    BY <1>1, <2>1, <2>2 DEF IdInv
<1>3. CASE table' = table /\ pending' = [add |-> add, del |-> del]
    BY <1>1, <1>3 DEF IdInv
<1>4. QED
    BY <1>2, <1>3, CommandFacts

(* Nothing the core speaks of changes. *)
LEMMA QuietKeeps ==
    ASSUME Core, UNCHANGED <<plan, table, pending, owned, inner>>
    PROVE  Core'
    BY DEF Core, IdInv, OneEach, WantedInv, CallInv, Free, Served, NameInv, Wiped, BareInv, Bare

(* The supervisor's mount keeps the core of the invariant. *)
LEMMA MountRunsKeeps ==
    ASSUME PlaceType, Core, MountRuns
    PROVE  Core' /\ PlaceType'
<1>1. PICK part \in Halves(inner.wanted), ok \in BOOLEAN :
          /\ ok => part = inner.wanted
          /\ IF Cardinality(inner.wanted) <= Cardinality(Unused)
             THEN Command(Made(part), {}, ok)
             ELSE ~ok /\ UNCHANGED <<table, pending, trouble>>
          /\ inner' = [inner EXCEPT !.step = "read", !.ok = ok]
    BY DEF MountRuns
<1>2. /\ inner.op \in {"mount", "private"} /\ inner.step = "run" /\ Served
      /\ UNCHANGED <<plan, busy, owned, unsafe, flags, outer, ret>>
    BY DEF MountRuns
<1>3. inner' \in InnerSet /\ inner'.op = inner.op /\ inner'.step = "read"
      /\ inner'.wanted = inner.wanted /\ inner'.ok = ok
    BY <1>1 DEF PlaceType, InnerSet
<1>4. WantedInv'
    BY <1>3 DEF Core, WantedInv
<1>5. CASE UNCHANGED <<table, pending, trouble>> /\ ~ok
  <2>1. IdInv'
    BY <1>2, <1>5 DEF Core, IdInv, OneEach
  <2>2. CallInv'
    BY <1>2, <1>3, <1>5 DEF CallInv, Free
  <2>3. NameInv' /\ BareInv'
    BY <1>2, <1>3, <1>5 DEF Core, NameInv, BareInv, Bare, Wiped
  <2>4. PlaceType'
    BY <1>2, <1>3, <1>5 DEF PlaceType, flags
  <2>5. QED
    BY <1>4, <2>1, <2>2, <2>3, <2>4 DEF Core
<1>6. CASE Cardinality(inner.wanted) <= Cardinality(Unused) /\ Command(Made(part), {}, ok)
  <2>1. /\ Made(part) \subseteq RowSet
        /\ \A m \in Made(part) : ShapeOf(m) \in part /\ \A n \in table : m.id # n.id
        /\ OneEach(Made(part))
        /\ part \subseteq inner.wanted
    BY <1>6, MadeFacts DEF Core
  <2>2. OneEach((table \ {}) \cup Made(part))
    BY <2>1 DEF Core, IdInv, OneEach
  <2>3. IdInv'
    BY <1>2, <1>6, <2>1, <2>2, CommandIds DEF Core
  <2>4. /\ table' \subseteq table \cup Made(part) /\ table' \subseteq RowSet
        /\ pending' \in CommandSet /\ pending'.add \subseteq Made(part)
        /\ trouble' \in 0..MaxTrouble /\ (ok => Served')
    BY <1>2, <1>6, <2>1, CommandFacts
  <2>5. CallInv'
    BY <1>2, <1>3, <2>4 DEF CallInv, Free
  <2>6. \A m \in Made(part) : \E s \in inner.wanted :
            m.at = s.at /\ m.dev = s.dev /\ m.whole = s.whole /\ m.rw = s.rw
    <3> SUFFICES ASSUME NEW m \in Made(part)
                 PROVE  \E s \in inner.wanted :
                           m.at = s.at /\ m.dev = s.dev /\ m.whole = s.whole /\ m.rw = s.rw
      OBVIOUS
    <3>1. ShapeOf(m) \in inner.wanted
      BY <2>1
    <3>2. /\ m.at = ShapeOf(m).at /\ m.dev = ShapeOf(m).dev
          /\ m.whole = ShapeOf(m).whole /\ m.rw = ShapeOf(m).rw
      BY DEF ShapeOf, Shape
    <3>3. QED
      BY <3>1, <3>2
  <2>7. NameInv'
    BY <1>2, <1>3, <2>4, <2>6 DEF Core, NameInv, Wiped
  <2>8. BareInv'
    BY <1>2, <1>3, <2>4, <2>6 DEF Core, BareInv, Bare
  <2>9. PlaceType'
    BY <1>2, <1>3, <2>4 DEF PlaceType, CommandSet, flags
  <2>10. QED
    BY <1>4, <2>3, <2>5, <2>7, <2>8, <2>9 DEF Core
<1>7. QED
    BY <1>1, <1>5, <1>6

(* What the session reads after a mount keeps the core of the invariant. *)
LEMMA MountReadsKeeps ==
    ASSUME PlaceType, Core, MountReads
    PROVE  Core' /\ PlaceType'
<1>1. /\ UNCHANGED <<plan, table, pending, busy, trouble, flags, outer>> /\ inner' = NoCall
    BY DEF MountReads, Answer, world
<1>2. owned' = owned \/ owned' \subseteq table
    BY DEF MountReads
<1>3. OneEach(owned')
    BY <1>2 DEF Core, IdInv, OneEach
<1>4. IdInv'
    BY <1>1, <1>3 DEF Core, IdInv, OneEach
<1>5. WantedInv' /\ CallInv'
    BY <1>1, NoCallFacts DEF WantedInv, CallInv, Free, Served
<1>6. NameInv'
    BY <1>1, <1>2, NoCallFacts DEF Core, NameInv, Wiped
<1>7. BareInv'
    BY <1>1, <1>2, NoCallFacts DEF Core, BareInv, Bare
<1>8. PlaceType'
    BY <1>1, <1>2, NoCallFacts DEF PlaceType, flags
<1>9. QED
    BY <1>4, <1>5, <1>6, <1>7, <1>8 DEF Core

(* The supervisor's umount keeps the core of the invariant. *)
LEMMA UnmountRunsKeeps ==
    ASSUME PlaceType, Core, UnmountRuns
    PROVE  Core' /\ PlaceType'
<1>1. PICK ok \in BOOLEAN :
          /\ Command({}, Top(inner.at), ok)
          /\ inner' = [inner EXCEPT !.step = "read", !.ok = ok]
    BY DEF UnmountRuns
<1>2. /\ inner.op = "unmount" /\ inner.step = "run" /\ Served
      /\ UNCHANGED <<plan, busy, owned, unsafe, flags, outer, ret>>
    BY DEF UnmountRuns
<1>3. inner' \in InnerSet /\ inner'.op = "unmount" /\ inner'.step = "read"
      /\ inner'.wanted = inner.wanted /\ inner'.ok = ok
    BY <1>1, <1>2 DEF PlaceType, InnerSet
<1>4. Top(inner.at) \subseteq table /\ Top(inner.at) \in SUBSET RowSet
    BY DEF Top, OnTop, At, PlaceType
<1>5. OneEach((table \ Top(inner.at)) \cup {})
    BY DEF Core, IdInv, OneEach
<1>6. IdInv'
    BY <1>1, <1>2, <1>4, <1>5, CommandIds DEF Core
<1>7. /\ table' \subseteq table /\ table' \subseteq RowSet
      /\ pending' \in CommandSet /\ pending'.add = {}
      /\ trouble' \in 0..MaxTrouble /\ (ok => Served')
    BY <1>1, <1>2, <1>4, CommandFacts
<1>8. WantedInv' /\ CallInv'
    BY <1>2, <1>3, <1>7 DEF Core, WantedInv, CallInv, Free
<1>9. NameInv'
    BY <1>2, <1>3, <1>7 DEF Core, NameInv, Wiped
<1>10. BareInv'
    BY <1>2, <1>3, <1>7 DEF Core, BareInv, Bare
<1>11. PlaceType'
    BY <1>2, <1>3, <1>7 DEF PlaceType, CommandSet, flags
<1>12. QED
    BY <1>6, <1>8, <1>9, <1>10, <1>11 DEF Core

(* What the session reads after a umount keeps the core of the invariant. *)
LEMMA UnmountReadsKeeps ==
    ASSUME PlaceType, Core, UnmountReads
    PROVE  Core' /\ PlaceType'
<1>1. /\ UNCHANGED <<plan, table, pending, busy, trouble, unsafe, flags, outer>> /\ inner' = NoCall
    BY DEF UnmountReads, Answer, world
<1>2. owned' \subseteq owned
    BY DEF UnmountReads
<1>3. OneEach(owned')
    BY <1>2 DEF Core, IdInv, OneEach
<1>4. IdInv'
    BY <1>1, <1>3 DEF Core, IdInv, OneEach
<1>5. WantedInv' /\ CallInv'
    BY <1>1, NoCallFacts DEF WantedInv, CallInv, Free, Served
<1>6. NameInv'
    BY <1>1, <1>2, NoCallFacts DEF Core, NameInv, Wiped
<1>7. BareInv'
    BY <1>1, <1>2, NoCallFacts DEF Core, BareInv, Bare
<1>8. PlaceType'
    BY <1>1, <1>2, NoCallFacts DEF PlaceType, flags
<1>9. QED
    BY <1>4, <1>5, <1>6, <1>7, <1>8 DEF Core

(* A command that takes effect late keeps the core of the invariant. *)
LEMMA LateEffectKeeps ==
    ASSUME PlaceType, Core, LateEffect
    PROVE  Core' /\ PlaceType'
<1>1. /\ UNCHANGED <<plan, busy, trouble, owned, unsafe, flags, outer, inner, ret>>
      /\ ~Served /\ pending' = NoCommand
      /\ table' \in {table, (table \ pending.del) \cup pending.add}
    BY DEF LateEffect, Served
<1>2. pending'.add = {} /\ pending'.del = {} /\ pending' \in CommandSet
    BY <1>1 DEF NoCommand, CommandSet
<1>3. (table' \ pending'.del) \cup pending'.add = table'
    BY <1>2
<1>4. IdInv'
    BY <1>1, <1>3 DEF Core, IdInv, OneEach
<1>5. WantedInv'
    BY <1>1 DEF Core, WantedInv
<1>6. CallInv'
    BY <1>1 DEF Core, CallInv, Free, Served
<1>7. NameInv'
    BY <1>1, <1>2 DEF Core, NameInv, Wiped
<1>8. BareInv'
    BY <1>1, <1>2 DEF Core, BareInv, Bare
<1>9. PlaceType'
    BY <1>1, <1>2 DEF PlaceType, CommandSet, flags
<1>10. QED
    BY <1>4, <1>5, <1>6, <1>7, <1>8, <1>9 DEF Core

(* What the commands of a stage do keeps the core of the invariant. *)
LEMMA StageCommandKeeps ==
    ASSUME PlaceType, Core, StageCommand
    PROVE  Core' /\ PlaceType'
<1>1. /\ UNCHANGED <<plan, owned, unsafe, flags, outer, inner, ret>>
      /\ Calm /\ Served /\ trouble < MaxTrouble /\ trouble' = trouble + 1
    BY DEF StageCommand
<1>2. trouble' \in 0..MaxTrouble
    BY <1>1, BoundsAssumption DEF PlaceType
<1>3. WantedInv'
    BY <1>1 DEF Core, WantedInv
<1>4. CallInv'
    BY <1>1 DEF Core, CallInv, Calm, Free, NoCall
<1>5. pending = NoCommand /\ pending.add = {} /\ pending.del = {}
    BY <1>1 DEF Served, NoCommand
<1>6. ASSUME NEW add \in SUBSET RowSet, NEW del \in SUBSET RowSet,
             \A m \in add : m.dev = "foreign",
             OneEach((table \ del) \cup add),
             \/ table' = (table \ del) \cup add /\ UNCHANGED pending
             \/ pending' = [add |-> add, del |-> del] /\ UNCHANGED table
      PROVE  Core' /\ PlaceType'
  <2>1. pending' \in CommandSet /\ pending'.add \subseteq add
        /\ table' \subseteq table \cup add /\ table' \subseteq RowSet
    BY <1>5, <1>6 DEF PlaceType, CommandSet
  <2>2. OneEach(table') /\ OneEach((table' \ pending'.del) \cup pending'.add)
    <3>1. CASE table' = (table \ del) \cup add /\ UNCHANGED pending
      <4>1. (table' \ pending'.del) \cup pending'.add = table'
        BY <1>5, <3>1
      <4>2. QED
        BY <1>6, <3>1, <4>1
    <3>2. CASE pending' = [add |-> add, del |-> del] /\ UNCHANGED table
      BY <1>6, <3>2 DEF Core, IdInv
    <3>3. QED
      BY <1>6, <3>1, <3>2
  <2>3. IdInv'
    BY <1>1, <2>2 DEF Core, IdInv
  <2>4. NameInv'
    BY <1>1, <1>6, <2>1 DEF Core, NameInv, Wiped
  <2>5. BareInv'
    BY <1>1, <1>6, <2>1 DEF Core, BareInv, Bare
  <2>6. PlaceType'
    BY <1>1, <1>2, <2>1 DEF PlaceType, CommandSet, flags
  <2>7. QED
    BY <1>3, <1>4, <2>3, <2>4, <2>5, <2>6 DEF Core
<1>7. CASE UNCHANGED <<table, pending>>
  <2>1. Core'
    BY <1>1, <1>7, QuietKeeps
  <2>2. PlaceType'
    BY <1>1, <1>2, <1>7 DEF PlaceType, flags
  <2>3. QED
    BY <2>1, <2>2
<1>8. ASSUME NEW m \in table,
             \/ table' = table \ {m} /\ UNCHANGED pending
             \/ pending' = [add |-> {}, del |-> {m}] /\ UNCHANGED table
      PROVE  Core' /\ PlaceType'
  <2>1. {m} \in SUBSET RowSet /\ OneEach((table \ {m}) \cup {})
    BY DEF Core, IdInv, OneEach, PlaceType
  <2>2. (table \ {m}) \cup {} = table \ {m} /\ {} \in SUBSET RowSet
    OBVIOUS
  <2>3. \/ table' = (table \ {m}) \cup {} /\ UNCHANGED pending
        \/ pending' = [add |-> {}, del |-> {m}] /\ UNCHANGED table
    BY <1>8, <2>2
  <2>4. \A x \in {} : x.dev = "foreign"
    OBVIOUS
  <2>5. QED
    BY <1>6, <2>1, <2>2, <2>3, <2>4
<1>9. ASSUME NEW p \in {"home", "efi"}, Unused # {},
             NEW row, row = Row(Lowest(Unused), Shape(p, "foreign", TRUE, TRUE)),
             \/ table' = table \cup {row} /\ UNCHANGED pending
             \/ pending' = [add |-> {row}, del |-> {}] /\ UNCHANGED table
      PROVE  Core' /\ PlaceType'
  <2>1. row \in RowSet /\ row.dev = "foreign" /\ \A m \in table : m.id # row.id
    BY <1>9, StageRowFacts
  <2>2. {row} \in SUBSET RowSet /\ OneEach((table \ {}) \cup {row})
    BY <2>1 DEF Core, IdInv, OneEach
  <2>3. (table \ {}) \cup {row} = table \cup {row} /\ {} \in SUBSET RowSet
    OBVIOUS
  <2>4. \/ table' = (table \ {}) \cup {row} /\ UNCHANGED pending
        \/ pending' = [add |-> {row}, del |-> {}] /\ UNCHANGED table
    BY <1>9, <2>3
  <2>5. \A x \in {row} : x.dev = "foreign"
    BY <2>1
  <2>6. QED
    BY <1>6, <2>2, <2>3, <2>4, <2>5
<1>10. QED
  <2>1. CASE busy' = TRUE /\ UNCHANGED <<table, pending>>
    BY <1>7, <2>1
  <2>2. CASE \E m \in table :
                \/ table' = table \ {m} /\ UNCHANGED pending
                \/ pending' = [add |-> {}, del |-> {m}] /\ UNCHANGED table
    BY <1>8, <2>2
  <2>3. CASE /\ Unused # {} 
             /\ \E p \in {"home", "efi"} :
                LET row == Row(Lowest(Unused), Shape(p, "foreign", TRUE, TRUE))
                IN  \/ table' = table \cup {row} /\ UNCHANGED pending
                    \/ pending' = [add |-> {row}, del |-> {}] /\ UNCHANGED table
    BY <1>9, <2>3
  <2>4. QED
    BY <2>1, <2>2, <2>3 DEF StageCommand

(* The remount replaces a record by one with the same id, read-only. *)
LEMMA RemountFacts ==
    ASSUME PlaceType, Core, ProtectRemounts, outer'.step = "reread"
    PROVE  /\ ret /\ Known /\ Served /\ In("protect", "remount") /\ outer'.op = "protect"
           /\ UNCHANGED <<plan, busy, owned, unsafe, flags, inner, ret>>
           /\ \E m \in At(owned, "efi"), n \in RowSet, ok \in BOOLEAN :
                /\ n.id = m.id /\ n.at = m.at /\ n.dev = m.dev /\ n.whole = m.whole
                /\ n.rw = FALSE /\ Command({n}, {m}, ok) /\ Outer("protect", "reread", ok)
<1>1. outer' # Idle
    BY DEF Idle
<1>2. /\ ret /\ Known /\ Served /\ In("protect", "remount")
      /\ UNCHANGED <<plan, busy, owned, unsafe, flags, inner, ret>>
      /\ \E m \in At(owned, "efi"), ok \in BOOLEAN :
            /\ Command({[m EXCEPT !.rw = FALSE]}, {m}, ok)
            /\ Outer("protect", "reread", ok)
    BY <1>1 DEF ProtectRemounts, GiveUp
<1>3. PICK m \in At(owned, "efi"), ok \in BOOLEAN :
            /\ Command({[m EXCEPT !.rw = FALSE]}, {m}, ok)
            /\ Outer("protect", "reread", ok)
    BY <1>2
<1>4. m \in RowSet
    BY DEF At, PlaceType
<1> DEFINE n == [m EXCEPT !.rw = FALSE]
<1>5. n \in RowSet /\ n.id = m.id /\ n.at = m.at /\ n.dev = m.dev /\ n.whole = m.whole
      /\ n.rw = FALSE
    BY <1>4 DEF RowSet
<1> HIDE DEF n
<1>6. Command({n}, {m}, ok)
    BY <1>3 DEF n
<1>7. outer'.op = "protect"
    BY <1>3 DEF Outer
<1>8. QED
    BY <1>2, <1>3, <1>5, <1>6, <1>7

(* The read-only remount keeps the core of the invariant. *)
LEMMA ProtectRemountsKeeps ==
    ASSUME PlaceType, Core, ProtectRemounts
    PROVE  Core' /\ PlaceType'
<1>1. CASE outer'.step = "reread"
  <2>1. /\ ret /\ Known /\ Served /\ In("protect", "remount")
        /\ UNCHANGED <<plan, busy, owned, unsafe, flags, inner, ret>>
    BY <1>1, RemountFacts
  <2>2. PICK m \in At(owned, "efi"), n \in RowSet, ok \in BOOLEAN :
                /\ n.id = m.id /\ n.at = m.at /\ n.dev = m.dev /\ n.whole = m.whole
                /\ n.rw = FALSE /\ Command({n}, {m}, ok) /\ Outer("protect", "reread", ok)
    BY <1>1, RemountFacts
  <2>3. m \in RowSet /\ m \in table /\ {n} \in SUBSET RowSet /\ {m} \in SUBSET RowSet
    BY <2>1 DEF At, PlaceType, Known
  <2>4. OneEach((table \ {m}) \cup {n})
    BY <2>2, <2>3 DEF Core, IdInv, OneEach
  <2>5. IdInv'
    BY <2>1, <2>2, <2>3, <2>4, CommandIds DEF Core
  <2>6. /\ table' \subseteq table \cup {n} /\ table' \subseteq RowSet
        /\ pending' \in CommandSet /\ pending'.add \subseteq {n}
        /\ trouble' \in 0..MaxTrouble
    <3> DEFINE add == {n}
               del == {m}
    <3>1. Served /\ Command(add, del, ok) /\ add \in SUBSET RowSet /\ del \in SUBSET RowSet
      BY <2>1, <2>2, <2>3
    <3> HIDE DEF add, del
    <3>2. /\ table' \subseteq table \cup add /\ table' \subseteq RowSet
          /\ pending' \in CommandSet /\ pending'.add \subseteq add
          /\ trouble' \in 0..MaxTrouble
      BY <3>1, CommandFacts
    <3>3. QED
      BY <3>2 DEF add
  <2>7. WantedInv' /\ CallInv'
    BY <2>1 DEF Core, WantedInv, CallInv, In, Free, NoCall
  <2>8. NameInv'
    BY <2>1, <2>2, <2>3, <2>6 DEF Core, NameInv, Wiped
  <2>9. BareInv'
    BY <2>1, <2>2, <2>6 DEF Core, BareInv, Bare
  <2>10. PlaceType'
    BY <2>1, <2>2, <2>6 DEF PlaceType, CommandSet, flags, Outer, OuterSet
  <2>11. QED
    BY <2>5, <2>7, <2>8, <2>9, <2>10 DEF Core
<1>2. CASE outer'.step # "reread"
  <2>1. /\ UNCHANGED <<plan, table, pending, busy, trouble, owned, unsafe, inner, flags>>
        /\ outer' = Idle
    <3>1. ~ \E m \in At(owned, "efi"), ok \in BOOLEAN : Outer("protect", "reread", ok)
      BY <1>2 DEF Outer
    <3>2. GiveUp /\ UNCHANGED flags
      BY <3>1 DEF ProtectRemounts
    <3>3. QED
      BY <3>2 DEF GiveUp, world
  <2>2. Core'
    BY <2>1, QuietKeeps
  <2>3. PlaceType'
    BY <2>1 DEF PlaceType, Idle, flags, OuterSet
  <2>4. QED
    BY <2>2, <2>3
<1>3. QED
    BY <1>1, <1>2

(* The record that is read again keeps the core of the invariant. *)
LEMMA ProtectRereadsKeeps ==
    ASSUME PlaceType, Core, ProtectRereads
    PROVE  Core' /\ PlaceType'
<1>1. /\ UNCHANGED <<plan, table, pending, busy, trouble, inner, flags>>
      /\ owned' = owned \/ owned' = table
      /\ outer' = Idle \/ Outer("protect", "vendor", FALSE)
    BY DEF ProtectRereads, GiveUp, world
<1>2. IdInv'
    BY <1>1 DEF Core, IdInv, OneEach
<1>3. WantedInv'
    BY <1>1 DEF Core, WantedInv
<1>4. CallInv'
  <2>1. Free
    BY DEF ProtectRereads, In
  <2>2. QED
    BY <1>1, <2>1 DEF Core, CallInv, Free, NoCall
<1>5. NameInv'
    BY <1>1 DEF Core, NameInv, Wiped
<1>6. BareInv'
    BY <1>1 DEF Core, BareInv, Bare
<1>7. PlaceType'
  <2>1. \/ outer' = [op |-> "none", step |-> "none", good |-> FALSE]
        \/ outer' = [op |-> "protect", step |-> "vendor", good |-> FALSE]
    BY <1>1 DEF Outer, Idle
  <2>2. owned' \subseteq RowSet
    BY <1>1 DEF PlaceType
  <2>3. outer' \in OuterSet
    <3>1. CASE outer' = [op |-> "none", step |-> "none", good |-> FALSE]
      BY <3>1 DEF OuterSet
    <3>2. CASE outer' = [op |-> "protect", step |-> "vendor", good |-> FALSE]
      BY <3>2 DEF OuterSet
    <3>3. QED
      BY <2>1, <3>1, <3>2
  <2>4. UNCHANGED <<plan, trouble, table, todo, pending, report, layout, inner>>
    BY <1>1 DEF flags
  <2>5. QED
    BY <2>2, <2>3, <2>4 DEF PlaceType
<1>8. QED
    BY <1>2, <1>3, <1>4, <1>5, <1>6, <1>7 DEF Core

(* A place of a protocol call is one of those the type names. *)
LEMMA OuterFacts ==
    ASSUME NEW op \in {"none", "inspect", "protect", "cleanup"},
           NEW step \in {"none", "mount", "look", "close", "closed", "stage", "base",
                         "remount", "reread", "vendor", "unstage", "grant", "idle",
                         "next", "count", "last"},
           NEW good \in BOOLEAN, Outer(op, step, good)
    PROVE  outer' \in OuterSet
    BY DEF Outer, OuterSet

(* So is no call at all. *)
LEMMA IdleFacts == Idle \in OuterSet
    BY DEF Idle, OuterSet

(* The types of what a step that mounts nothing changes. *)
LEMMA PlaceKept ==
    ASSUME PlaceType, UNCHANGED <<plan, trouble, table, owned, pending, inner>>,
           outer' \in OuterSet, todo' \subseteq RowSet,
           report' \in {"none", "clean", "failed"},
           layout' \in {"none", "fresh", "reuse", "ntfs"}
    PROVE  PlaceType'
    BY DEF PlaceType

(* Every step keeps the core of the invariant and the types of records and sets. *)
LEMMA CoreKeeps ==
    ASSUME PlaceType, Core, PlanInv, [Next]_vars
    PROVE  Core' /\ PlaceType'
<1>1. CASE LateEffect
    BY <1>1, LateEffectKeeps
<1>2. CASE StageCommand
    BY <1>2, StageCommandKeeps
<1>3. CASE StageMounts
  <2>1. \/ StartMount("root", "mnt") \/ StartMount("root", "home")
        \/ StartMount("efi", "efi") \/ StartMount("rbind", "dev")
        \/ StartMount("private", "dev")
    BY <1>3 DEF StageMounts
  <2>2. (plan # "full" => started \/ layout # "none") /\ UNCHANGED <<flags, outer>>
    BY <1>3 DEF StageMounts
  <2>3. ASSUME NEW kind \in {"root", "efi", "rbind", "private"},
               NEW at \in {"mnt", "home", "efi", "dev"}, StartMount(kind, at)
        PROVE  Core' /\ PlaceType'
    <3>1. kind \in Kinds /\ at \in Places /\ at # "pts" /\ kind # "stage"
      BY PlaceFacts DEF Kinds
    <3>2. Core' /\ inner' \in InnerSet
      BY <2>2, <2>3, <3>1, StartMountKeeps
    <3>3. UNCHANGED <<plan, table, pending, trouble, owned>>
      BY <2>3, StartMountFacts
    <3>4. QED
      BY <2>2, <3>2, <3>3 DEF PlaceType, flags
  <2>4. QED
    BY <2>1, <2>3
<1>4. CASE StageUnmounts
  <2>1. StartUnmount("mnt") /\ "mnt" \in Places
    BY <1>4, PlaceFacts DEF StageUnmounts
  <2>2. Core' /\ inner' \in InnerSet
    BY <2>1, StartUnmountKeeps
  <2>3. UNCHANGED <<plan, table, pending, trouble, owned>>
    BY <2>1, StartUnmountFacts
  <2>4. PlaceType'
    BY <1>4, <2>2, <2>3 DEF StageUnmounts, PlaceType, flags, Outer, OuterSet
  <2>5. QED
    BY <2>2, <2>4
<1>5. CASE Initialize
  <2>1. UNCHANGED <<plan, table, pending, owned, inner>>
    BY <1>5 DEF Initialize, world
  <2>2. Core'
    BY <2>1, QuietKeeps
  <2>3. PlaceType'
    BY <1>5, <2>1 DEF Initialize, PlaceType, flags, world, Outer, OuterSet, Idle, In
  <2>4. QED
    BY <2>2, <2>3
<1>6. CASE ValidateTarget
  <2>1. UNCHANGED <<plan, table, pending, owned, inner>>
    BY <1>6 DEF ValidateTarget, world
  <2>2. Core'
    BY <2>1, QuietKeeps
  <2>3. PlaceType'
    BY <1>6, <2>1 DEF ValidateTarget, PlaceType, flags, world, Outer, OuterSet, Idle, In
  <2>4. QED
    BY <2>2, <2>3
<1>7. CASE BindLayout
  <2>1. UNCHANGED <<plan, table, pending, owned, inner>>
    BY <1>7 DEF BindLayout, world
  <2>2. Core'
    BY <2>1, QuietKeeps
  <2>3. layout' \in {"none", "fresh", "reuse", "ntfs"}
    BY <1>7, PlansAssumption DEF BindLayout, PlaceType
  <2>4. UNCHANGED <<outer, todo, report, trouble>>
    BY <1>7 DEF BindLayout, world
  <2>5. PlaceType'
    BY <2>1, <2>3, <2>4, PlaceKept DEF PlaceType
  <2>6. QED
    BY <2>2, <2>5
<1>8. CASE InspectStarts
  <2>1. UNCHANGED <<plan, table, pending, owned, inner>>
    BY <1>8 DEF InspectStarts, world
  <2>2. Core'
    BY <2>1, QuietKeeps
  <2>3. PlaceType'
    BY <1>8, <2>1 DEF InspectStarts, PlaceType, flags, world, Outer, OuterSet, Idle, In
  <2>4. QED
    BY <2>2, <2>3
<1>9. CASE ProtectStarts
  <2>1. UNCHANGED <<plan, table, pending, owned, inner>>
    BY <1>9 DEF ProtectStarts, world
  <2>2. Core'
    BY <2>1, QuietKeeps
  <2>3. PlaceType'
    BY <1>9, <2>1 DEF ProtectStarts, PlaceType, flags, world, Outer, OuterSet, Idle, In
  <2>4. QED
    BY <2>2, <2>3
<1>10. CASE CleanupStarts
  <2>1. UNCHANGED <<plan, table, pending, owned, inner>>
    BY <1>10 DEF CleanupStarts, world
  <2>2. Core'
    BY <2>1, QuietKeeps
  <2>3. outer' \in OuterSet
    <3>1. outer' = outer \/ outer' = Idle \/ Outer("cleanup", "idle", TRUE)
      BY <1>10 DEF CleanupStarts, Report
    <3>2. QED
      BY <3>1, OuterFacts, IdleFacts DEF PlaceType
  <2>4. UNCHANGED <<todo, layout, trouble>> /\ report' \in {report, "failed"}
    BY <1>10 DEF CleanupStarts, world, Report
  <2>5. PlaceType'
    BY <2>1, <2>3, <2>4, PlaceKept DEF PlaceType
  <2>6. QED
    BY <2>2, <2>5
<1>11. CASE MountRuns
    BY <1>11, MountRunsKeeps
<1>12. CASE MountReads
    BY <1>12, MountReadsKeeps
<1>13. CASE UnmountRuns
    BY <1>13, UnmountRunsKeeps
<1>14. CASE UnmountReads
    BY <1>14, UnmountReadsKeeps
<1>15. CASE InspectMounts
  <2>1. StartMount("probe", "probe")
    BY <1>15 DEF InspectMounts
  <2>2. "probe" \in Kinds /\ "probe" \in Places
    BY PlaceFacts DEF Kinds
  <2>4. Core' /\ inner' \in InnerSet
    BY <2>1, <2>2, StartMountKeeps
  <2>5. UNCHANGED <<plan, table, pending, trouble, owned>>
    BY <2>1, StartMountFacts
  <2>6. PlaceType'
    BY <1>15, <2>4, <2>5 DEF InspectMounts, PlaceType, flags, Outer, OuterSet
  <2>7. QED
    BY <2>4, <2>6
<1>16. CASE InspectLooks
  <2>1. UNCHANGED <<plan, table, pending, owned, inner>>
    BY <1>16 DEF InspectLooks, world
  <2>2. Core'
    BY <2>1, QuietKeeps
  <2>3. outer' \in OuterSet
    <3>1. Outer("inspect", "close", FALSE) \/ Outer("inspect", "close", TRUE)
      BY <1>16 DEF InspectLooks
    <3>2. QED
      BY <3>1, OuterFacts
  <2>4. UNCHANGED <<todo, layout, report, trouble>>
    BY <1>16 DEF InspectLooks, world, flags
  <2>5. PlaceType'
    BY <2>1, <2>3, <2>4, PlaceKept DEF PlaceType
  <2>6. QED
    BY <2>2, <2>5
<1>17. CASE InspectCloses
  <2>1. StartUnmount("probe") /\ "probe" \in Places
    BY <1>17, PlaceFacts DEF InspectCloses
  <2>2. Core' /\ inner' \in InnerSet
    BY <2>1, StartUnmountKeeps
  <2>3. UNCHANGED <<plan, table, pending, trouble, owned>>
    BY <2>1, StartUnmountFacts
  <2>4. PlaceType'
    BY <1>17, <2>2, <2>3 DEF InspectCloses, PlaceType, flags, Outer, OuterSet
  <2>5. QED
    BY <2>2, <2>4
<1>18. CASE InspectEnds
  <2>1. UNCHANGED <<plan, table, pending, owned, inner>>
    BY <1>18 DEF InspectEnds, world
  <2>2. Core'
    BY <2>1, QuietKeeps
  <2>3. PlaceType'
    BY <1>18, <2>1 DEF InspectEnds, PlaceType, flags, world, Outer, OuterSet, Idle, In
  <2>4. QED
    BY <2>2, <2>3
<1>19. CASE ProtectStages
  <2>1. StartMount("stage", "stage")
    BY <1>19 DEF ProtectStages
  <2>2. "stage" \in Kinds /\ "stage" \in Places
    BY PlaceFacts DEF Kinds
  <2>3. plan # "full" => layout # "none"
    BY <1>19 DEF ProtectStages, In, PlanInv, ReusesEsp
  <2>4. Core' /\ inner' \in InnerSet
    BY <2>1, <2>2, <2>3, StartMountKeeps
  <2>5. UNCHANGED <<plan, table, pending, trouble, owned>>
    BY <2>1, StartMountFacts
  <2>6. PlaceType'
    BY <1>19, <2>4, <2>5 DEF ProtectStages, PlaceType, flags, Outer, OuterSet
  <2>7. QED
    BY <2>4, <2>6
<1>20. CASE ProtectLooks
  <2>1. UNCHANGED <<plan, table, pending, owned, inner>>
    BY <1>20 DEF ProtectLooks, world, GiveUp
  <2>2. Core'
    BY <2>1, QuietKeeps
  <2>3. outer' \in OuterSet
    <3>1. outer' = Idle \/ Outer("protect", "base", FALSE)
      BY <1>20 DEF ProtectLooks, GiveUp
    <3>2. QED
      BY <3>1, OuterFacts, IdleFacts
  <2>4. UNCHANGED <<todo, layout, report, trouble>>
    BY <1>20 DEF ProtectLooks, GiveUp, world, flags
  <2>5. PlaceType'
    BY <2>1, <2>3, <2>4, PlaceKept DEF PlaceType
  <2>6. QED
    BY <2>2, <2>5
<1>21. CASE ProtectBinds
  <2>1. StartMount("base", "efi")
    BY <1>21 DEF ProtectBinds
  <2>2. "base" \in Kinds /\ "efi" \in Places
    BY PlaceFacts DEF Kinds
  <2>3. plan # "full" => layout # "none"
    BY <1>21 DEF ProtectBinds, In, PlanInv, ReusesEsp
  <2>4. Core' /\ inner' \in InnerSet
    BY <2>1, <2>2, <2>3, StartMountKeeps
  <2>5. UNCHANGED <<plan, table, pending, trouble, owned>>
    BY <2>1, StartMountFacts
  <2>6. PlaceType'
    BY <1>21, <2>4, <2>5 DEF ProtectBinds, PlaceType, flags, Outer, OuterSet
  <2>7. QED
    BY <2>4, <2>6
<1>22. CASE ProtectRemounts
    BY <1>22, ProtectRemountsKeeps
<1>23. CASE ProtectRereads
    BY <1>23, ProtectRereadsKeeps
<1>24. CASE ProtectVendors
  <2>1. StartMount("vendor", "vendor")
    BY <1>24 DEF ProtectVendors
  <2>2. "vendor" \in Kinds /\ "vendor" \in Places
    BY PlaceFacts DEF Kinds
  <2>3. plan # "full" => layout # "none"
    BY <1>24 DEF ProtectVendors, In, PlanInv, ReusesEsp
  <2>4. Core' /\ inner' \in InnerSet
    BY <2>1, <2>2, <2>3, StartMountKeeps
  <2>5. UNCHANGED <<plan, table, pending, trouble, owned>>
    BY <2>1, StartMountFacts
  <2>6. PlaceType'
    BY <1>24, <2>4, <2>5 DEF ProtectVendors, PlaceType, flags, Outer, OuterSet
  <2>7. QED
    BY <2>4, <2>6
<1>25. CASE ProtectUnstages
  <2>1. CASE ~ret /\ GiveUp
    <3>1. UNCHANGED <<plan, table, pending, trouble, owned, inner, flags>> /\ outer' = Idle
      BY <1>25, <2>1 DEF ProtectUnstages, GiveUp, world
    <3>2. Core'
      BY <3>1, QuietKeeps
    <3>3. PlaceType'
      BY <3>1 DEF PlaceType, flags, Idle, OuterSet
    <3>4. QED
      BY <3>2, <3>3
  <2>2. CASE StartUnmount("stage") /\ Outer("protect", "grant", FALSE)
    <3>1. "stage" \in Places /\ UNCHANGED flags
      BY <1>25, PlaceFacts DEF ProtectUnstages
    <3>2. Core' /\ inner' \in InnerSet
      BY <2>2, <3>1, StartUnmountKeeps
    <3>3. UNCHANGED <<plan, table, pending, trouble, owned>>
      BY <2>2, StartUnmountFacts
    <3>4. PlaceType'
      BY <2>2, <3>1, <3>2, <3>3 DEF PlaceType, flags, Outer, OuterSet
    <3>5. QED
      BY <3>2, <3>4
  <2>3. QED
    BY <1>25, <2>1, <2>2 DEF ProtectUnstages
<1>26. CASE ProtectGrants
  <2>1. UNCHANGED <<plan, table, pending, owned, inner>>
    BY <1>26 DEF ProtectGrants, world
  <2>2. Core'
    BY <2>1, QuietKeeps
  <2>3. PlaceType'
    BY <1>26, <2>1 DEF ProtectGrants, PlaceType, flags, world, Outer, OuterSet, Idle, In
  <2>4. QED
    BY <2>2, <2>3
<1>27. CASE CleanupAsks
  <2>1. UNCHANGED <<plan, table, pending, owned, inner>>
    BY <1>27 DEF CleanupAsks, world
  <2>2. Core'
    BY <2>1, QuietKeeps
  <2>3. outer' \in OuterSet
    <3>1. outer' = Idle \/ Outer("cleanup", "next", TRUE)
      BY <1>27 DEF CleanupAsks, Report
    <3>2. QED
      BY <3>1, OuterFacts, IdleFacts
  <2>4. /\ UNCHANGED <<layout, trouble>> /\ report' \in {report, "failed"}
        /\ todo' \in {todo, owned}
    BY <1>27 DEF CleanupAsks, Report, world
  <2>5. PlaceType'
    BY <2>1, <2>3, <2>4, PlaceKept DEF PlaceType
  <2>6. QED
    BY <2>2, <2>5
<1>28. CASE CleanupUnmounts
  <2>1. PICK m \in todo : StartUnmount(m.at) /\ todo' = todo \ {m}
    BY <1>28 DEF CleanupUnmounts, Deepest
  <2>2. m.at \in Places
    BY DEF PlaceType, RowSet
  <2>3. Core' /\ inner' \in InnerSet
    BY <2>1, <2>2, StartUnmountKeeps
  <2>4. UNCHANGED <<plan, table, pending, trouble, owned>>
    BY <2>1, StartUnmountFacts
  <2>5. PlaceType'
    BY <1>28, <2>1, <2>3, <2>4
       DEF CleanupUnmounts, KeepFlagsButTodo, PlaceType, In, Outer, OuterSet
  <2>6. QED
    BY <2>3, <2>5
<1>29. CASE CleanupCounts
  <2>1. UNCHANGED <<plan, table, pending, owned, inner>>
    BY <1>29 DEF CleanupCounts, world
  <2>2. Core'
    BY <2>1, QuietKeeps
  <2>3. PlaceType'
    BY <1>29, <2>1 DEF CleanupCounts, PlaceType, flags, world, Outer, OuterSet, Idle, In
  <2>4. QED
    BY <2>2, <2>3
<1>30. CASE CleanupReadsRest
  <2>1. UNCHANGED <<plan, table, pending, owned, inner>>
    BY <1>30 DEF CleanupReadsRest, world
  <2>2. Core'
    BY <2>1, QuietKeeps
  <2>3. PlaceType'
    BY <1>30, <2>1 DEF CleanupReadsRest, PlaceType, flags, world, Outer, OuterSet, Idle,
       In
  <2>4. QED
    BY <2>2, <2>3
<1>31. CASE CleanupEnds
  <2>1. UNCHANGED <<plan, table, pending, owned, inner>>
    BY <1>31 DEF CleanupEnds, world
  <2>2. Core'
    BY <2>1, QuietKeeps
  <2>3. outer' = Idle
    BY <1>31 DEF CleanupEnds, Report
  <2>4. UNCHANGED <<todo, layout, trouble>> /\ report' \in {"failed", "clean"}
    BY <1>31 DEF CleanupEnds, world, Report
  <2>5. PlaceType'
    BY <2>1, <2>3, <2>4, PlaceKept, IdleFacts DEF PlaceType
  <2>6. QED
    BY <2>2, <2>5
<1>32. CASE UNCHANGED vars
  <2>1. UNCHANGED <<plan, table, pending, owned, inner>>
    BY <1>32 DEF vars, world
  <2>2. Core'
    BY <2>1, QuietKeeps
  <2>3. PlaceType'
    BY <1>32 DEF vars, world, flags, PlaceType
  <2>4. QED
    BY <2>2, <2>3
<1>33. QED
    BY <1>1, <1>2, <1>3, <1>4, <1>5, <1>6, <1>7, <1>8, <1>9, <1>10, <1>11, <1>12, <1>13,
       <1>14, <1>15, <1>16, <1>17, <1>18, <1>19, <1>20, <1>21, <1>22, <1>23, <1>24, <1>25,
       <1>26, <1>27, <1>28, <1>29, <1>30, <1>31, <1>32
        DEF Next, CallStep, MountStep, InspectStep, ProtectStep, CleanupStep

(* Every step keeps the types of the flags. *)
LEMMA FlagKeeps ==
    ASSUME FlagType, [Next]_vars
    PROVE  FlagType'
<1> USE DEF FlagType, world, flags
<1>1. CASE LateEffect
    BY <1>1 DEF LateEffect, Served
<1>2. CASE StageCommand
    BY <1>2, StageRowFacts DEF StageCommand, Calm, Served
<1>3. CASE StageMounts
  <2>1. CASE StartMount("root", "mnt")
    BY <1>3, <2>1, StartMountFacts DEF StageMounts, Calm
  <2>2. CASE StartMount("root", "home")
    BY <1>3, <2>2, StartMountFacts DEF StageMounts, Calm
  <2>3. CASE StartMount("efi", "efi")
    BY <1>3, <2>3, StartMountFacts DEF StageMounts, Calm
  <2>4. CASE StartMount("rbind", "dev")
    BY <1>3, <2>4, StartMountFacts DEF StageMounts, Calm
  <2>5. CASE StartMount("private", "dev")
    BY <1>3, <2>5, StartMountFacts DEF StageMounts, Calm
  <2>6. QED
    BY <1>3, <2>1, <2>2, <2>3, <2>4, <2>5 DEF StageMounts
<1>4. CASE StageUnmounts
    BY <1>4, StartUnmountFacts DEF StageUnmounts, Calm
<1>5. CASE Initialize
    BY <1>5 DEF Initialize, Calm, Served
<1>6. CASE ValidateTarget
    BY <1>6 DEF ValidateTarget, Calm, Served
<1>7. CASE BindLayout
    BY <1>7 DEF BindLayout, Calm
<1>8. CASE InspectStarts
    BY <1>8 DEF InspectStarts, Calm, Outer
<1>9. CASE ProtectStarts
    BY <1>9 DEF ProtectStarts, Calm, Outer
<1>10. CASE CleanupStarts
    BY <1>10 DEF CleanupStarts, Calm, Outer, Report, Known
<1>11. CASE MountRuns
    BY <1>11, MadeFacts DEF MountRuns, Command
<1>12. CASE MountReads
    BY <1>12 DEF MountReads, Answer
<1>13. CASE UnmountRuns
    BY <1>13 DEF UnmountRuns, Command, Served, Top, OnTop
<1>14. CASE UnmountReads
    BY <1>14 DEF UnmountReads, Answer
<1>15. CASE InspectMounts
    BY <1>15, StartMountFacts DEF InspectMounts, In, Outer
<1>16. CASE InspectLooks
    BY <1>16 DEF InspectLooks, In, Outer
<1>17. CASE InspectCloses
    BY <1>17, StartUnmountFacts DEF InspectCloses, In, Outer
<1>18. CASE InspectEnds
    BY <1>18 DEF InspectEnds, In, Outer
<1>19. CASE ProtectStages
    BY <1>19, StartMountFacts DEF ProtectStages, In, Outer
<1>20. CASE ProtectLooks
    BY <1>20 DEF ProtectLooks, In, Outer, GiveUp
<1>21. CASE ProtectBinds
    BY <1>21, StartMountFacts DEF ProtectBinds, In, Outer
<1>22. CASE ProtectRemounts
    BY <1>22 DEF ProtectRemounts, In, Outer, GiveUp, Command
<1>23. CASE ProtectRereads
  <2>1. /\ unsafe' = unsafe \/ unsafe' = TRUE
        /\ ret' = ret \/ ret' = FALSE
        /\ flags' = flags /\ busy' = busy
    BY <1>23 DEF ProtectRereads, GiveUp, Outer
  <2> QED BY <2>1
<1>24. CASE ProtectVendors
    BY <1>24, StartMountFacts DEF ProtectVendors, In, Outer
<1>25. CASE ProtectUnstages
    BY <1>25, StartUnmountFacts DEF ProtectUnstages, In, Outer, GiveUp
<1>26. CASE ProtectGrants
    BY <1>26 DEF ProtectGrants, In, Outer
<1>27. CASE CleanupAsks
    BY <1>27 DEF CleanupAsks, In, Outer, Report
<1>28. CASE CleanupUnmounts
    BY <1>28, StartUnmountFacts DEF CleanupUnmounts, In, Outer, Deepest, KeepFlagsButTodo
<1>29. CASE CleanupCounts
    BY <1>29 DEF CleanupCounts, In, Outer
<1>30. CASE CleanupReadsRest
    BY <1>30 DEF CleanupReadsRest, In, Outer
<1>31. CASE CleanupEnds
    BY <1>31 DEF CleanupEnds, In, Outer, Report
<1>32. CASE UNCHANGED vars
    BY <1>32 DEF vars
<1>33. QED
    BY <1>1, <1>2, <1>3, <1>4, <1>5, <1>6, <1>7, <1>8, <1>9, <1>10, <1>11, <1>12, <1>13,
       <1>14, <1>15, <1>16, <1>17, <1>18, <1>19, <1>20, <1>21, <1>22, <1>23, <1>24, <1>25,
       <1>26, <1>27, <1>28, <1>29, <1>30, <1>31, <1>32
        DEF Next, CallStep, MountStep, InspectStep, ProtectStep, CleanupStep

(* Every step keeps the bound layout that of the plan. *)
LEMMA PlanKeeps ==
    ASSUME PlaceType, PlanInv, [Next]_vars
    PROVE  PlanInv'
<1> USE DEF PlaceType, PlanInv, ReusesEsp, NoCommand, NoCall, Idle, world, flags
<1>1. CASE LateEffect
    BY <1>1 DEF LateEffect, Served
<1>2. CASE StageCommand
    BY <1>2, StageRowFacts DEF StageCommand, Calm, Served
<1>3. CASE StageMounts
  <2>1. CASE StartMount("root", "mnt")
    BY <1>3, <2>1, StartMountFacts DEF StageMounts, Calm
  <2>2. CASE StartMount("root", "home")
    BY <1>3, <2>2, StartMountFacts DEF StageMounts, Calm
  <2>3. CASE StartMount("efi", "efi")
    BY <1>3, <2>3, StartMountFacts DEF StageMounts, Calm
  <2>4. CASE StartMount("rbind", "dev")
    BY <1>3, <2>4, StartMountFacts DEF StageMounts, Calm
  <2>5. CASE StartMount("private", "dev")
    BY <1>3, <2>5, StartMountFacts DEF StageMounts, Calm
  <2>6. QED
    BY <1>3, <2>1, <2>2, <2>3, <2>4, <2>5 DEF StageMounts
<1>4. CASE StageUnmounts
    BY <1>4, StartUnmountFacts DEF StageUnmounts, Calm
<1>5. CASE Initialize
    BY <1>5 DEF Initialize, Calm, Served
<1>6. CASE ValidateTarget
    BY <1>6 DEF ValidateTarget, Calm, Served
<1>7. CASE BindLayout
    BY <1>7 DEF BindLayout, Calm
<1>8. CASE InspectStarts
    BY <1>8 DEF InspectStarts, Calm, Outer
<1>9. CASE ProtectStarts
    BY <1>9 DEF ProtectStarts, Calm, Outer
<1>10. CASE CleanupStarts
  <2>1. UNCHANGED <<plan, layout, started, protected>>
    BY <1>10 DEF CleanupStarts, Report
  <2>2. outer' = Idle \/ outer' = outer \/ Outer("cleanup", "idle", TRUE)
    BY <1>10 DEF CleanupStarts, Report
  <2>3. outer = Idle
    BY <1>10 DEF CleanupStarts, Calm
  <2>4. outer'.op \in {"none", "cleanup"}
    BY <2>2, <2>3 DEF Outer
  <2>5. QED
    BY <2>1, <2>4
<1>11. CASE MountRuns
    BY <1>11, MadeFacts DEF MountRuns, Command
<1>12. CASE MountReads
    BY <1>12 DEF MountReads, Answer
<1>13. CASE UnmountRuns
    BY <1>13 DEF UnmountRuns, Command, Served, Top, OnTop
<1>14. CASE UnmountReads
    BY <1>14 DEF UnmountReads, Answer
<1>15. CASE InspectMounts
    BY <1>15, StartMountFacts DEF InspectMounts, In, Outer
<1>16. CASE InspectLooks
    BY <1>16 DEF InspectLooks, In, Outer
<1>17. CASE InspectCloses
    BY <1>17, StartUnmountFacts DEF InspectCloses, In, Outer
<1>18. CASE InspectEnds
    BY <1>18 DEF InspectEnds, In, Outer
<1>19. CASE ProtectStages
    BY <1>19, StartMountFacts DEF ProtectStages, In, Outer
<1>20. CASE ProtectLooks
    BY <1>20 DEF ProtectLooks, In, Outer, GiveUp
<1>21. CASE ProtectBinds
    BY <1>21, StartMountFacts DEF ProtectBinds, In, Outer
<1>22. CASE ProtectRemounts
    BY <1>22 DEF ProtectRemounts, In, Outer, GiveUp, Command
<1>23. CASE ProtectRereads
    BY <1>23 DEF ProtectRereads, In, Outer, GiveUp
<1>24. CASE ProtectVendors
    BY <1>24, StartMountFacts DEF ProtectVendors, In, Outer
<1>25. CASE ProtectUnstages
  <2>1. /\ UNCHANGED <<plan, layout, started, protected>>
    BY <1>25, StartUnmountFacts DEF ProtectUnstages, GiveUp, world
  <2>2. outer.op = "protect" /\ outer'.op \in {"none", "protect"}
    BY <1>25 DEF ProtectUnstages, In, Outer, GiveUp
  <2>3. QED
    BY <2>1, <2>2
<1>26. CASE ProtectGrants
    BY <1>26 DEF ProtectGrants, In, Outer
<1>27. CASE CleanupAsks
    BY <1>27 DEF CleanupAsks, In, Outer, Report
<1>28. CASE CleanupUnmounts
    BY <1>28, StartUnmountFacts DEF CleanupUnmounts, In, Outer, Deepest, KeepFlagsButTodo
<1>29. CASE CleanupCounts
    BY <1>29 DEF CleanupCounts, In, Outer
<1>30. CASE CleanupReadsRest
    BY <1>30 DEF CleanupReadsRest, In, Outer
<1>31. CASE CleanupEnds
    BY <1>31 DEF CleanupEnds, In, Outer, Report
<1>32. CASE UNCHANGED vars
    BY <1>32 DEF vars
<1>33. QED
    BY <1>1, <1>2, <1>3, <1>4, <1>5, <1>6, <1>7, <1>8, <1>9, <1>10, <1>11, <1>12, <1>13,
       <1>14, <1>15, <1>16, <1>17, <1>18, <1>19, <1>20, <1>21, <1>22, <1>23, <1>24, <1>25,
       <1>26, <1>27, <1>28, <1>29, <1>30, <1>31, <1>32
        DEF Next, CallStep, MountStep, InspectStep, ProtectStep, CleanupStep

(* Outside of mountProtectedEsp there is nothing to say about its places. *)
LEMMA ProtectElsewhere ==
    ASSUME outer'.op # "protect"
    PROVE  ProtectInv'
    BY DEF ProtectInv

(* What a command mounts has a shape that is wanted. *)
LEMMA BareMade ==
    ASSUME PlaceType, Core, NEW part \in Halves(inner.wanted),
           Cardinality(inner.wanted) <= Cardinality(Unused), \A s \in inner.wanted : ~Bare(s)
    PROVE  \A m \in Made(part) : ~Bare(m)
<1> SUFFICES ASSUME NEW m \in Made(part) PROVE ~Bare(m)
    OBVIOUS
<1>1. ShapeOf(m) \in inner.wanted
    BY MadeFacts DEF Core
<1>2. /\ m.at = ShapeOf(m).at /\ m.dev = ShapeOf(m).dev
      /\ m.whole = ShapeOf(m).whole /\ m.rw = ShapeOf(m).rw
    BY DEF ShapeOf, Shape
<1>3. QED
    BY <1>1, <1>2 DEF Bare

(* A command that runs adds what its call wants, or nothing. *)
LEMMA MountRunsFacts ==
    ASSUME PlaceType, Core, MountRuns
    PROVE  /\ UNCHANGED <<plan, busy, owned, unsafe, flags, outer, ret>>
           /\ inner.op \in {"mount", "private"} /\ inner.step = "run"
           /\ inner'.op = inner.op /\ inner'.step = "read" /\ inner'.at = inner.at
           /\ inner'.wanted = inner.wanted /\ inner'.made = inner.made
           /\ \/ UNCHANGED <<table, pending>> /\ ~inner'.ok
              \/ \E part \in Halves(inner.wanted) :
                    /\ Cardinality(inner.wanted) <= Cardinality(Unused)
                    /\ inner'.ok => part = inner.wanted
                    /\ table' \subseteq table \cup Made(part)
                    /\ pending'.add \subseteq Made(part)
<1>1. PICK part \in Halves(inner.wanted), ok \in BOOLEAN :
          /\ ok => part = inner.wanted
          /\ IF Cardinality(inner.wanted) <= Cardinality(Unused)
             THEN Command(Made(part), {}, ok)
             ELSE ~ok /\ UNCHANGED <<table, pending, trouble>>
          /\ inner' = [inner EXCEPT !.step = "read", !.ok = ok]
    BY DEF MountRuns
<1>2. /\ inner.op \in {"mount", "private"} /\ inner.step = "run" /\ Served
      /\ UNCHANGED <<plan, busy, owned, unsafe, flags, outer, ret>>
    BY DEF MountRuns
<1>3. /\ inner'.op = inner.op /\ inner'.step = "read" /\ inner'.at = inner.at
      /\ inner'.wanted = inner.wanted /\ inner'.made = inner.made /\ inner'.ok = ok
    BY <1>1 DEF PlaceType, InnerSet
<1>4. CASE Cardinality(inner.wanted) <= Cardinality(Unused)
  <2>1. Command(Made(part), {}, ok) /\ Made(part) \in SUBSET RowSet
    BY <1>1, <1>4, MadeFacts DEF Core
  <2>2. table' \subseteq table \cup Made(part) /\ pending'.add \subseteq Made(part)
    <3> DEFINE add == Made(part)
               del == {}
    <3>1. /\ Served /\ Command(add, del, ok)
          /\ add \in SUBSET RowSet /\ del \in SUBSET RowSet
      BY <1>2, <2>1
    <3> HIDE DEF add, del
    <3>2. table' \subseteq table \cup add /\ pending'.add \subseteq add
      BY <3>1, CommandFacts
    <3>3. QED
      BY <3>2 DEF add
  <2>3. QED
    BY <1>1, <1>2, <1>3, <1>4, <2>2
<1>5. CASE ~(Cardinality(inner.wanted) <= Cardinality(Unused))
    BY <1>1, <1>2, <1>3, <1>5
<1>6. QED
    BY <1>4, <1>5

(* A umount that runs adds nothing. *)
LEMMA UnmountRunsFacts ==
    ASSUME PlaceType, UnmountRuns
    PROVE  /\ UNCHANGED <<plan, busy, owned, unsafe, flags, outer, ret>>
           /\ inner.op = "unmount" /\ inner.step = "run"
           /\ inner'.op = inner.op /\ inner'.step = "read" /\ inner'.at = inner.at
           /\ inner'.wanted = inner.wanted /\ inner'.made = inner.made
           /\ table' \subseteq table /\ pending'.add = {}
<1>1. PICK ok \in BOOLEAN :
          /\ Command({}, Top(inner.at), ok)
          /\ inner' = [inner EXCEPT !.step = "read", !.ok = ok]
    BY DEF UnmountRuns
<1>2. /\ inner.op = "unmount" /\ inner.step = "run" /\ Served
      /\ UNCHANGED <<plan, busy, owned, unsafe, flags, outer, ret>>
    BY DEF UnmountRuns
<1>3. /\ inner'.op = inner.op /\ inner'.step = "read" /\ inner'.at = inner.at
      /\ inner'.wanted = inner.wanted /\ inner'.made = inner.made
    BY <1>1 DEF PlaceType, InnerSet
<1>4. Top(inner.at) \in SUBSET RowSet
    BY DEF Top, OnTop, At, PlaceType
<1>5. table' \subseteq table /\ pending'.add = {}
  <2> DEFINE add == {}
             del == Top(inner.at)
  <2>1. Served /\ Command(add, del, ok) /\ add \in SUBSET RowSet /\ del \in SUBSET RowSet
    BY <1>1, <1>2, <1>4
  <2> HIDE DEF add, del
  <2>2. table' \subseteq table \cup add /\ pending'.add \subseteq add
    BY <2>1, CommandFacts
  <2>3. QED
    BY <2>2 DEF add
<1>6. QED
    BY <1>2, <1>3, <1>5

(* A late effect adds nothing but what was pending. *)
LEMMA LateEffectFacts ==
    ASSUME LateEffect
    PROVE  /\ UNCHANGED <<plan, busy, owned, unsafe, flags, outer, inner, ret>>
           /\ ~Served /\ Served' /\ pending'.add = {}
           /\ table' \subseteq table \cup pending.add
    BY DEF LateEffect, Served, NoCommand

(* Every step keeps what the places of mountProtectedEsp tell. *)
LEMMA ProtectKeeps ==
    ASSUME PlaceType, Core, PlanInv, ProtectInv, [Next]_vars
    PROVE  ProtectInv'
<1>1. CASE LateEffect
  <2>1. /\ UNCHANGED <<owned, outer, inner, ret>> /\ ~Served /\ Served' /\ pending'.add = {}
        /\ table' \subseteq table \cup pending.add
    BY <1>1, LateEffectFacts
  <2> SUFFICES ASSUME outer.op = "protect" PROVE ProtectInv'
    BY <2>1, ProtectElsewhere
  <2>2. inner.op # "none" /\ inner.step = "read" => ~inner.ok
    BY <2>1 DEF Core, CallInv
  <2>3. OnlyStaged => OnlyStaged'
    BY <2>1 DEF OnlyStaged, Bare
  <2>4. Free' <=> Free
    BY <2>1 DEF Free
  <2>5. QED
    BY <2>1, <2>2, <2>3, <2>4 DEF ProtectInv, At, Free, Single
<1>2. CASE StageCommand
  <2>1. outer'.op # "protect"
    BY <1>2 DEF StageCommand, Calm, Idle
  <2>2. QED
    BY <2>1, ProtectElsewhere
<1>3. CASE StageMounts
  <2>1. outer'.op # "protect"
    BY <1>3 DEF StageMounts, Calm, Idle, flags
  <2>2. QED
    BY <2>1, ProtectElsewhere
<1>4. CASE StageUnmounts
  <2>1. outer'.op # "protect"
    BY <1>4 DEF StageUnmounts, Calm, Idle
  <2>2. QED
    BY <2>1, ProtectElsewhere
<1>5. CASE Initialize
  <2>1. outer'.op # "protect"
    BY <1>5 DEF Initialize, Calm, Idle
  <2>2. QED
    BY <2>1, ProtectElsewhere
<1>6. CASE ValidateTarget
  <2>1. outer'.op # "protect"
    BY <1>6 DEF ValidateTarget, Calm, Idle
  <2>2. QED
    BY <2>1, ProtectElsewhere
<1>7. CASE BindLayout
  <2>1. outer'.op # "protect"
    BY <1>7 DEF BindLayout, Calm, Idle
  <2>2. QED
    BY <2>1, ProtectElsewhere
<1>8. CASE InspectStarts
  <2>1. outer'.op # "protect"
    BY <1>8 DEF InspectStarts, Outer
  <2>2. QED
    BY <2>1, ProtectElsewhere
<1>9. CASE ProtectStarts
  <2>1. outer'.step = "stage"
    BY <1>9 DEF ProtectStarts, Outer
  <2>2. QED
    BY <2>1 DEF ProtectInv
<1>10. CASE CleanupStarts
  <2>1. outer' = outer \/ outer' = Idle \/ Outer("cleanup", "idle", TRUE)
    BY <1>10 DEF CleanupStarts, Report
  <2>2. outer = Idle
    BY <1>10 DEF CleanupStarts, Calm
  <2>3. outer'.op # "protect"
    BY <2>1, <2>2 DEF Idle, Outer
  <2>4. QED
    BY <2>3, ProtectElsewhere
<1>11. CASE MountRuns
  <2>1. /\ UNCHANGED <<owned, outer, ret>> /\ inner.op \in {"mount", "private"}
        /\ inner.step = "run" /\ inner'.op = inner.op /\ inner'.step = "read"
        /\ inner'.at = inner.at /\ inner'.wanted = inner.wanted
    BY <1>11, MountRunsFacts
  <2>2. \/ UNCHANGED <<table, pending>> /\ ~inner'.ok
        \/ \E part \in Halves(inner.wanted) :
              /\ Cardinality(inner.wanted) <= Cardinality(Unused)
              /\ inner'.ok => part = inner.wanted
              /\ table' \subseteq table \cup Made(part)
              /\ pending'.add \subseteq Made(part)
    BY <1>11, MountRunsFacts
  <2> SUFFICES ASSUME outer.op = "protect" PROVE ProtectInv'
    BY <2>1, ProtectElsewhere
  <2>3. OnlyStaged => OnlyStaged'
    <3>1. CASE UNCHANGED <<table, pending>>
      BY <2>1, <3>1 DEF OnlyStaged
    <3>2. ASSUME NEW part \in Halves(inner.wanted),
                 Cardinality(inner.wanted) <= Cardinality(Unused),
                 table' \subseteq table \cup Made(part), pending'.add \subseteq Made(part)
          PROVE  OnlyStaged => OnlyStaged'
      BY <2>1, <3>2, BareMade DEF OnlyStaged
    <3>3. QED
      BY <2>2, <3>1, <3>2
  <2>4. ~Free /\ ~Free'
    BY <2>1 DEF Free
  <2>5. outer.step = "remount" /\ inner'.ok => Single(table' \ owned')
    <3> SUFFICES ASSUME outer.step = "remount", inner'.ok PROVE Single(table' \ owned')
      OBVIOUS
    <3>1. inner.wanted = {Shape("efi", "esp", TRUE, TRUE)} /\ Known
      BY <2>1, <2>4 DEF ProtectInv
    <3>2. Shape("efi", "esp", TRUE, TRUE).at # "pts"
      BY DEF Shape
    <3>3. PICK part \in Halves(inner.wanted) :
              /\ Cardinality(inner.wanted) <= Cardinality(Unused)
              /\ table' \subseteq table \cup Made(part)
      BY <2>2
    <3>4. Single(Made(part))
      BY <3>1, <3>2, <3>3, MadeFacts DEF Core
    <3>5. QED
      BY <2>1, <3>1, <3>3, <3>4 DEF Known, Single
  <2>6. QED
    BY <2>1, <2>3, <2>4, <2>5 DEF ProtectInv
<1>12. CASE MountReads
  <2>1. UNCHANGED <<table, pending, outer>> /\ inner' = NoCall
    BY <1>12 DEF MountReads, Answer, world
  <2> SUFFICES ASSUME outer.op = "protect" PROVE ProtectInv'
    BY <2>1, ProtectElsewhere
  <2>2. ~Free /\ Free' /\ inner.op \in {"mount", "private"} /\ inner.step = "read"
    BY <1>12, <2>1, NoCallFacts DEF Free, MountReads
  <2>3. OnlyStaged => OnlyStaged'
    BY <2>1, NoCallFacts DEF OnlyStaged
  <2>4. outer.step = "remount" /\ ret' => Single(At(owned, "efi")')
    <3> SUFFICES ASSUME outer.step = "remount", ret' PROVE Single(At(owned', "efi"))
      BY DEF At
    <3>1. inner.ok /\ owned' = owned \cup (table \ owned)
      BY <1>12 DEF MountReads, Answer
    <3>2. Single(table \ owned) /\ At(owned, "efi") = {}
      BY <2>2, <3>1 DEF ProtectInv
    <3>3. QED
      BY <3>1, <3>2 DEF Single, At
  <2>5. outer.step = "grant" => FALSE
    BY <2>2 DEF ProtectInv
  <2>6. QED
    BY <2>1, <2>2, <2>3, <2>4, <2>5 DEF ProtectInv
<1>13. CASE UnmountRuns
  <2>1. /\ UNCHANGED <<owned, outer, ret>> /\ inner.op = "unmount"
        /\ inner.step = "run" /\ inner'.op = inner.op /\ inner'.step = "read"
        /\ inner'.at = inner.at /\ inner'.wanted = inner.wanted
        /\ table' \subseteq table /\ pending'.add = {}
    BY <1>13, UnmountRunsFacts
  <2> SUFFICES ASSUME outer.op = "protect" PROVE ProtectInv'
    BY <2>1, ProtectElsewhere
  <2>2. OnlyStaged => OnlyStaged'
    BY <2>1 DEF OnlyStaged
  <2>3. ~Free /\ ~Free'
    BY <2>1 DEF Free
  <2>4. QED
    BY <2>1, <2>2, <2>3 DEF ProtectInv
<1>14. CASE UnmountReads
  <2>1. UNCHANGED <<table, pending, outer>> /\ inner' = NoCall
    BY <1>14 DEF UnmountReads, Answer, world
  <2> SUFFICES ASSUME outer.op = "protect" PROVE ProtectInv'
    BY <2>1, ProtectElsewhere
  <2>2. ~Free /\ Free' /\ inner.op = "unmount" /\ inner.step = "read"
    BY <1>14, <2>1, NoCallFacts DEF Free, UnmountReads
  <2>3. OnlyStaged => OnlyStaged'
    BY <2>1, NoCallFacts DEF OnlyStaged
  <2>4. outer.step = "grant" /\ ret' => Served' /\ At(table, "stage")' = {}
    <3> SUFFICES ASSUME outer.step = "grant", ret' PROVE Served' /\ At(table', "stage") = {}
      BY DEF At
    <3>1. inner.ok /\ At(table, inner.at) = {}
      BY <1>14 DEF UnmountReads, Answer
    <3>2. inner.at = "stage" /\ Served
      BY <2>2, <3>1 DEF ProtectInv, Core, CallInv
    <3>3. QED
      BY <2>1, <3>1, <3>2 DEF Served, At
  <2>5. outer.step # "remount"
    BY <2>2 DEF ProtectInv
  <2>6. QED
    BY <2>1, <2>2, <2>3, <2>4, <2>5 DEF ProtectInv
<1>15. CASE InspectMounts
  <2>1. outer'.op # "protect"
    BY <1>15 DEF InspectMounts, Outer
  <2>2. QED
    BY <2>1, ProtectElsewhere
<1>16. CASE InspectLooks
  <2>1. outer'.op # "protect"
    BY <1>16 DEF InspectLooks, Outer
  <2>2. QED
    BY <2>1, ProtectElsewhere
<1>17. CASE InspectCloses
  <2>1. outer'.op # "protect"
    BY <1>17 DEF InspectCloses, Outer
  <2>2. QED
    BY <2>1, ProtectElsewhere
<1>18. CASE InspectEnds
  <2>1. outer'.op # "protect"
    BY <1>18 DEF InspectEnds, Idle
  <2>2. QED
    BY <2>1, ProtectElsewhere
<1>19. CASE ProtectStages
  <2>1. outer'.step = "look"
    BY <1>19 DEF ProtectStages, Outer
  <2>2. QED
    BY <2>1 DEF ProtectInv
<1>20. CASE ProtectLooks
  <2>1. CASE outer' = Idle
    BY <2>1, ProtectElsewhere DEF Idle
  <2>2. CASE outer' # Idle
    <3>1. /\ Known /\ Served /\ Free /\ Outer("protect", "base", FALSE)
          /\ UNCHANGED <<table, owned, pending, inner>>
      BY <1>20, <2>2 DEF ProtectLooks, GiveUp, world, In
    <3>2. outer'.step = "base" /\ Known' /\ Served' /\ Free'
      BY <3>1 DEF Outer, Known, Served, Free
    <3>3. QED
      BY <3>2 DEF ProtectInv
  <2>3. QED
    BY <2>1, <2>2
<1>21. CASE ProtectBinds
  <2>1. StartMount("base", "efi") /\ outer'.op = "protect" /\ outer'.step = "remount"
        /\ Served /\ UNCHANGED <<owned, table, pending>>
    BY <1>21, StartMountFacts DEF ProtectBinds, Outer, In, ProtectInv
  <2>2. CASE inner' = NoCall
    <3>1. ret' = FALSE /\ Free'
      <4>1. [op |-> "mount", step |-> "run", at |-> "efi", wanted |-> Wanted("base", "efi"),
             made |-> {}, ok |-> FALSE] # NoCall
        BY DEF NoCall
      <4>2. ret' = FALSE
        BY <2>1, <2>2, <4>1, StartMountFacts
      <4>3. QED
        BY <2>2, <4>2, NoCallFacts DEF Free
    <3>2. QED
      BY <2>1, <3>1 DEF ProtectInv
  <2>3. CASE inner' # NoCall
    <3>1. /\ Known /\ At(table, "efi") = {}
          /\ inner' = [op |-> "mount", step |-> "run", at |-> "efi",
                       wanted |-> Wanted("base", "efi"), made |-> {}, ok |-> FALSE]
      BY <2>1, <2>3, StartMountFacts
    <3>2. Wanted("base", "efi") = {Shape("efi", "esp", TRUE, TRUE)}
      BY DEF Wanted
    <3>3. /\ inner'.op = "mount" /\ inner'.at = "efi" /\ inner'.step = "run"
          /\ inner'.wanted = {Shape("efi", "esp", TRUE, TRUE)} /\ ~Free'
      BY <3>1, <3>2 DEF Free
    <3>4. At(owned, "efi")' = {} /\ Known' /\ Served'
      BY <2>1, <3>1 DEF At, Known, Served
    <3>5. QED
      BY <2>1, <3>3, <3>4 DEF ProtectInv
  <2>4. QED
    BY <2>2, <2>3
<1>22. CASE ProtectRemounts
  <2>1. CASE outer'.step = "reread"
    <3>1. /\ ret /\ Known /\ Served /\ In("protect", "remount") /\ outer'.op = "protect"
          /\ UNCHANGED <<plan, busy, owned, unsafe, flags, inner, ret>>
      BY <2>1, <1>22, RemountFacts
    <3>2. PICK m \in At(owned, "efi"), n \in RowSet, ok \in BOOLEAN :
                Command({n}, {m}, ok) /\ Outer("protect", "reread", ok)
      BY <2>1, <1>22, RemountFacts
    <3>3. Single(At(owned, "efi")) /\ Free
      BY <3>1 DEF ProtectInv, In
    <3>4. Single(At(owned, "efi"))' /\ Free'
      BY <3>1, <3>3 DEF Single, At, Free
    <3>5. outer'.good = ok
      BY <3>2 DEF Outer
    <3>6. ok => Served'
      BY <3>1, <3>2 DEF Command, Served
    <3>7. QED
      BY <2>1, <3>4, <3>5, <3>6 DEF ProtectInv
  <2>2. CASE outer'.step # "reread"
    <3>1. ~ \E m \in At(owned, "efi"), ok \in BOOLEAN : Outer("protect", "reread", ok)
      BY <2>2 DEF Outer
    <3>2. GiveUp
      BY <1>22, <3>1 DEF ProtectRemounts
    <3>3. outer'.op # "protect"
      BY <3>2 DEF GiveUp, Idle
    <3>4. QED
      BY <3>3, ProtectElsewhere
  <2>3. QED
    BY <2>1, <2>2
<1>23. CASE ProtectRereads
  <2>1. CASE outer' = Idle
    BY <2>1, ProtectElsewhere DEF Idle
  <2>2. CASE outer' # Idle
    <3>1. PICK m \in At(owned, "efi") :
            LET now    == {n \in table : n.id = m.id}
                others == owned \ {m}
            IN  /\ table = others \cup now /\ owned' = others \cup now
                /\ outer.good /\ \A n \in now : ~n.rw
                /\ Outer("protect", "vendor", FALSE)
      BY <1>23, <2>2 DEF ProtectRereads, GiveUp
    <3>2. /\ UNCHANGED <<table, pending, inner>> /\ Free /\ outer.op = "protect"
          /\ outer.step = "reread"
      BY <1>23 DEF ProtectRereads, world, In
    <3>3. Served /\ Single(At(owned, "efi"))
      BY <3>1, <3>2 DEF ProtectInv
    <3>4. plan \in {"reuse", "ntfs"}
      BY <3>2 DEF PlanInv, ReusesEsp
    <3>5. ASSUME NEW x \in table, Bare(x) PROVE x.at = "stage"
      <4>1. x.at \in {"stage", "efi"}
        BY <3>4, <3>5 DEF Core, BareInv
      <4>2. x.rw
        BY <3>5 DEF Bare
      <4>3. x \in owned \ {m}
        BY <3>1, <4>2
      <4>4. x.at # "efi"
        BY <3>3, <4>3 DEF Single, At
      <4>5. QED
        BY <4>1, <4>4
    <3>6. pending.add = {} /\ inner.wanted = {}
      BY <3>2, <3>3, NoCallFacts DEF Served, NoCommand, Core, CallInv
    <3>7. OnlyStaged'
      BY <3>2, <3>5, <3>6 DEF OnlyStaged, Bare
    <3>8. outer'.step = "vendor" /\ Free'
      BY <3>1, <3>2 DEF Outer, Free
    <3>9. QED
      BY <3>7, <3>8 DEF ProtectInv
  <2>3. QED
    BY <2>1, <2>2
<1>24. CASE ProtectVendors
  <2>1. StartMount("vendor", "vendor") /\ outer'.op = "protect" /\ outer'.step = "unstage"
        /\ OnlyStaged /\ UNCHANGED <<table, pending>>
    BY <1>24, StartMountFacts DEF ProtectVendors, Outer, In, ProtectInv
  <2>2. \A s \in inner'.wanted : ~Bare(s)
    <3>1. inner'.wanted = {} \/ inner'.wanted = Wanted("vendor", "vendor")
      <4>1. \/ inner' = NoCall
            \/ inner' = [op |-> "mount", step |-> "run", at |-> "vendor",
                         wanted |-> Wanted("vendor", "vendor"), made |-> {}, ok |-> FALSE]
        BY <2>1, StartMountFacts
      <4>2. QED
        BY <4>1, NoCallFacts
    <3>2. Wanted("vendor", "vendor") = {Shape("vendor", "esp", FALSE, TRUE)}
      BY DEF Wanted
    <3>3. ~Bare(Shape("vendor", "esp", FALSE, TRUE))
      BY DEF Bare, Shape
    <3>4. QED
      BY <3>1, <3>2, <3>3
  <2>3. OnlyStaged'
    BY <2>1, <2>2 DEF OnlyStaged, Bare
  <2>4. QED
    BY <2>1, <2>3 DEF ProtectInv
<1>25. CASE ProtectUnstages
  <2>1. CASE outer' = Idle
    BY <2>1, ProtectElsewhere DEF Idle
  <2>2. CASE outer' # Idle
    <3>1. StartUnmount("stage") /\ outer'.op = "protect" /\ outer'.step = "grant"
          /\ OnlyStaged /\ UNCHANGED <<table, pending>>
      <4>1. StartUnmount("stage") /\ Outer("protect", "grant", FALSE)
        BY <1>25, <2>2 DEF ProtectUnstages, GiveUp
      <4>2. OnlyStaged
        BY <1>25 DEF ProtectUnstages, In, ProtectInv
      <4>3. outer'.op = "protect" /\ outer'.step = "grant"
        BY <4>1 DEF Outer
      <4>4. QED
        BY <4>1, <4>2, <4>3, StartUnmountFacts
    <3>2. \/ inner' = NoCall /\ ret' = FALSE
          \/ inner' = [op |-> "unmount", step |-> "run", at |-> "stage", wanted |-> {},
                       made |-> At(owned, "stage"), ok |-> FALSE]
      BY <3>1, StartUnmountFacts
    <3>3. inner'.wanted = {}
      BY <3>2, NoCallFacts
    <3>4. OnlyStaged'
      BY <3>1, <3>3 DEF OnlyStaged
    <3>5. \/ Free' /\ ret' = FALSE
          \/ ~Free' /\ inner'.op = "unmount" /\ inner'.at = "stage"
      <4>1. CASE inner' = NoCall /\ ret' = FALSE
        <5>1. Free'
          BY <4>1, NoCallFacts DEF Free
        <5>2. QED
          BY <4>1, <5>1
      <4>2. CASE inner' = [op |-> "unmount", step |-> "run", at |-> "stage", wanted |-> {},
                           made |-> At(owned, "stage"), ok |-> FALSE]
        <5>1. inner'.op = "unmount" /\ inner'.at = "stage"
          BY <4>2
        <5>2. QED
          BY <5>1 DEF Free
      <4>3. QED
        BY <3>2, <4>1, <4>2
    <3>6. QED
      BY <3>1, <3>4, <3>5 DEF ProtectInv
  <2>3. QED
    BY <2>1, <2>2
<1>26. CASE ProtectGrants
  <2>1. outer'.op # "protect"
    BY <1>26 DEF ProtectGrants, Idle
  <2>2. QED
    BY <2>1, ProtectElsewhere
<1>27. CASE CleanupAsks
  <2>1. outer'.op # "protect"
    BY <1>27 DEF CleanupAsks, Report, Idle, Outer
  <2>2. QED
    BY <2>1, ProtectElsewhere
<1>28. CASE CleanupUnmounts
  <2>1. outer'.op # "protect"
    BY <1>28 DEF CleanupUnmounts, Outer
  <2>2. QED
    BY <2>1, ProtectElsewhere
<1>29. CASE CleanupCounts
  <2>1. outer'.op # "protect"
    BY <1>29 DEF CleanupCounts, Outer
  <2>2. QED
    BY <2>1, ProtectElsewhere
<1>30. CASE CleanupReadsRest
  <2>1. outer'.op # "protect"
    BY <1>30 DEF CleanupReadsRest, Outer
  <2>2. QED
    BY <2>1, ProtectElsewhere
<1>31. CASE CleanupEnds
  <2>1. outer'.op # "protect"
    BY <1>31 DEF CleanupEnds, Report, Idle
  <2>2. QED
    BY <2>1, ProtectElsewhere
<1>32. CASE UNCHANGED vars
  <2>1. UNCHANGED <<table, pending, owned, inner, outer, ret>>
    BY <1>32 DEF vars, world
  <2>2. OnlyStaged <=> OnlyStaged'
    BY <2>1 DEF OnlyStaged
  <2>3. QED
    BY <2>1, <2>2 DEF ProtectInv, Free, Known, Served, At, Single
<1>33. QED
    BY <1>1, <1>2, <1>3, <1>4, <1>5, <1>6, <1>7, <1>8, <1>9, <1>10, <1>11, <1>12, <1>13,
       <1>14, <1>15, <1>16, <1>17, <1>18, <1>19, <1>20, <1>21, <1>22, <1>23, <1>24, <1>25,
       <1>26, <1>27, <1>28, <1>29, <1>30, <1>31, <1>32
        DEF Next, CallStep, MountStep, InspectStep, ProtectStep, CleanupStep

(* A step that adds no mount and wants nothing new shows nothing new. *)
LEMMA NoBareKept ==
    ASSUME NoBare, table' \subseteq table \cup pending.add, pending'.add \subseteq pending.add,
           inner'.wanted \subseteq inner.wanted
    PROVE  NoBare'
    BY DEF NoBare, Bare

(* Once protection is granted no call wants the whole EFI partition writable. *)
LEMMA StartMountShielded ==
    ASSUME PlanInv, ShieldInv, protected, NEW kind \in Kinds, NEW at \in Places, at # "pts",
           StartMount(kind, at)
    PROVE  NoBare'
<1>1. NoBare /\ UNCHANGED <<table, pending>>
    BY StartMountFacts DEF ShieldInv, NoBare
<1>2. outer.op # "protect" /\ ReusesEsp
    BY DEF PlanInv
<1>3. \A s \in inner'.wanted : ~Bare(s)
  <2>1. CASE inner' = NoCall
    BY <2>1, NoCallFacts
  <2>2. CASE inner' # NoCall
    <3>1. Allowed(kind) /\ inner'.wanted = Wanted(kind, at)
      <4>1. /\ Allowed(kind)
            /\ inner' = [op |-> IF kind = "private" THEN "private" ELSE "mount",
                         step |-> "run", at |-> at, wanted |-> Wanted(kind, at),
                         made |-> {}, ok |-> FALSE]
        BY <2>2, StartMountFacts
      <4>2. QED
        BY <4>1
    <3>2. kind \in {"root", "probe", "rbind", "private"}
      BY <1>2, <3>1 DEF Allowed, Kinds
    <3>3. Part(2) # "esp"
      BY PartFacts
    <3>4. CASE kind = "root"
      <4>1. Wanted(kind, at) = {Shape(at, Part(2), TRUE, TRUE)}
        BY <3>4, WantedFacts
      <4>2. ~Bare(Shape(at, Part(2), TRUE, TRUE))
        BY <3>3 DEF Bare, Shape
      <4>3. QED
        BY <3>1, <4>1, <4>2
    <3>5. CASE kind = "probe"
      <4>1. Wanted(kind, at) = {Shape("probe", "esp", TRUE, FALSE)}
        BY <3>5, WantedFacts
      <4>2. ~Bare(Shape("probe", "esp", TRUE, FALSE))
        BY DEF Bare, Shape
      <4>3. QED
        BY <3>1, <4>1, <4>2
    <3>6. CASE kind = "rbind"
      <4>1. Wanted(kind, at) = {Shape("dev", "host", TRUE, TRUE),
                                Shape("pts", "host", TRUE, TRUE)}
        BY <3>6, WantedFacts
      <4>2. ~Bare(Shape("dev", "host", TRUE, TRUE)) /\ ~Bare(Shape("pts", "host", TRUE, TRUE))
        BY DEF Bare, Shape
      <4>3. QED
        BY <3>1, <4>1, <4>2
    <3>7. CASE kind = "private"
      BY <3>1, <3>7, WantedFacts
    <3>8. QED
      BY <3>2, <3>4, <3>5, <3>6, <3>7
  <2>3. QED
    BY <2>1, <2>2
<1>4. QED
    BY <1>1, <1>3 DEF NoBare, Bare

(* The start of an unmount wants nothing. *)
LEMMA StartUnmountBare ==
    ASSUME NoBare, NEW at, StartUnmount(at)
    PROVE  NoBare'
<1>1. UNCHANGED <<table, pending>>
    BY StartUnmountFacts
<1>2. inner'.wanted = {}
  <2>1. \/ inner' = NoCall
        \/ inner' = [op |-> "unmount", step |-> "run", at |-> at, wanted |-> {},
                     made |-> At(owned, at), ok |-> FALSE]
    BY StartUnmountFacts
  <2>2. QED
    BY <2>1, NoCallFacts
<1>3. QED
    BY <1>1, <1>2 DEF NoBare, Bare

(* Every step keeps the EFI partition shielded once protection is granted. *)
LEMMA ShieldKeeps ==
    ASSUME PlaceType, Core, PlanInv, ProtectInv, ShieldInv, [Next]_vars
    PROVE  ShieldInv'
<1>0. protected => NoBare
    BY DEF ShieldInv, NoBare
<1> SUFFICES protected' => NoBare'
    BY DEF ShieldInv, NoBare
<1>1. CASE LateEffect
  <2>1. /\ UNCHANGED <<protected, inner>> /\ pending'.add = {}
        /\ table' \subseteq table \cup pending.add
    BY <1>1, LateEffectFacts DEF flags
  <2>2. QED
    BY <2>1, <1>0, NoBareKept
<1>2. CASE StageCommand
  <2>1. UNCHANGED <<protected, inner>>
    BY <1>2 DEF StageCommand, flags
  <2>2. ASSUME NEW m \in table' \cup pending'.add, m \notin table \cup pending.add
        PROVE  ~Bare(m)
    <3>1. m.dev = "foreign"
      BY <1>2, <2>2 DEF StageCommand, Row, Shape
    <3>2. QED
      BY <3>1 DEF Bare
  <2>3. QED
    BY <2>1, <2>2, <1>0 DEF NoBare, Bare
<1>3. CASE StageMounts
  <2>1. \/ StartMount("root", "mnt") \/ StartMount("root", "home")
        \/ StartMount("efi", "efi") \/ StartMount("rbind", "dev")
        \/ StartMount("private", "dev")
    BY <1>3 DEF StageMounts
  <2>2. UNCHANGED protected
    BY <1>3 DEF StageMounts, flags
  <2>3. ASSUME NEW kind \in {"root", "efi", "rbind", "private"},
               NEW at \in {"mnt", "home", "efi", "dev"}, StartMount(kind, at), protected
        PROVE  NoBare'
    <3>1. kind \in Kinds /\ at \in Places /\ at # "pts"
      BY PlaceFacts DEF Kinds
    <3>2. QED
      BY <2>3, <3>1, StartMountShielded
  <2>4. QED
    BY <2>1, <2>2, <2>3
<1>4. CASE StageUnmounts
  <2>1. StartUnmount("mnt") /\ UNCHANGED protected
    BY <1>4 DEF StageUnmounts, flags
  <2>2. QED
    BY <2>1, <1>0, StartUnmountBare
<1>5. CASE Initialize
  <2>1. UNCHANGED <<protected, table, pending, inner>>
    BY <1>5 DEF Initialize, world, flags
  <2>2. QED
    BY <2>1, <1>0, NoBareKept
<1>6. CASE ValidateTarget
  <2>1. UNCHANGED <<protected, table, pending, inner>>
    BY <1>6 DEF ValidateTarget, world, flags
  <2>2. QED
    BY <2>1, <1>0, NoBareKept
<1>7. CASE BindLayout
  <2>1. UNCHANGED <<protected, table, pending, inner>>
    BY <1>7 DEF BindLayout, world, flags
  <2>2. QED
    BY <2>1, <1>0, NoBareKept
<1>8. CASE InspectStarts
  <2>1. UNCHANGED <<protected, table, pending, inner>>
    BY <1>8 DEF InspectStarts, world, flags
  <2>2. QED
    BY <2>1, <1>0, NoBareKept
<1>9. CASE ProtectStarts
  <2>1. UNCHANGED <<protected, table, pending, inner>>
    BY <1>9 DEF ProtectStarts, world, flags
  <2>2. QED
    BY <2>1, <1>0, NoBareKept
<1>10. CASE CleanupStarts
  <2>1. UNCHANGED <<protected, table, pending, inner>>
    BY <1>10 DEF CleanupStarts, world, flags, Report
  <2>2. QED
    BY <2>1, <1>0, NoBareKept
<1>11. CASE MountRuns
  <2>1. UNCHANGED protected /\ inner'.wanted = inner.wanted
    BY <1>11, MountRunsFacts DEF flags
  <2>2. \/ UNCHANGED <<table, pending>>
        \/ \E part \in Halves(inner.wanted) :
              /\ Cardinality(inner.wanted) <= Cardinality(Unused)
              /\ table' \subseteq table \cup Made(part)
              /\ pending'.add \subseteq Made(part)
    BY <1>11, MountRunsFacts
  <2>3. ASSUME NoBare, NEW part \in Halves(inner.wanted),
               Cardinality(inner.wanted) <= Cardinality(Unused),
               table' \subseteq table \cup Made(part), pending'.add \subseteq Made(part)
        PROVE  NoBare'
    BY <2>1, <2>3, BareMade DEF NoBare, Bare
  <2>4. NoBare /\ UNCHANGED <<table, pending>> => NoBare'
    BY <2>1, NoBareKept
  <2>5. QED
    BY <2>1, <2>2, <2>3, <2>4, <1>0
<1>12. CASE MountReads
  <2>1. UNCHANGED <<protected, table, pending>> /\ inner'.wanted = {}
    BY <1>12, NoCallFacts DEF MountReads, Answer, world, flags
  <2>2. QED
    BY <2>1, <1>0, NoBareKept
<1>13. CASE UnmountRuns
  <2>1. UNCHANGED protected /\ table' \subseteq table /\ pending'.add = {}
        /\ inner'.wanted = inner.wanted
    BY <1>13, UnmountRunsFacts DEF flags
  <2>2. QED
    BY <2>1, <1>0, NoBareKept
<1>14. CASE UnmountReads
  <2>1. UNCHANGED <<protected, table, pending>> /\ inner'.wanted = {}
    BY <1>14, NoCallFacts DEF UnmountReads, Answer, world, flags
  <2>2. QED
    BY <2>1, <1>0, NoBareKept
<1>15. CASE InspectMounts
  <2>1. StartMount("probe", "probe") /\ UNCHANGED protected
    BY <1>15 DEF InspectMounts, flags
  <2>2. "probe" \in Kinds /\ "probe" \in Places
    BY PlaceFacts DEF Kinds
  <2>3. QED
    BY <2>1, <2>2, StartMountShielded
<1>16. CASE InspectLooks
  <2>1. UNCHANGED <<protected, table, pending, inner>>
    BY <1>16 DEF InspectLooks, world, flags
  <2>2. QED
    BY <2>1, <1>0, NoBareKept
<1>17. CASE InspectCloses
  <2>1. StartUnmount("probe") /\ UNCHANGED protected
    BY <1>17 DEF InspectCloses, flags
  <2>2. QED
    BY <2>1, <1>0, StartUnmountBare
<1>18. CASE InspectEnds
  <2>1. UNCHANGED <<protected, table, pending, inner>>
    BY <1>18 DEF InspectEnds, world, flags
  <2>2. QED
    BY <2>1, <1>0, NoBareKept
<1>19. CASE ProtectStages
  <2>1. outer.op = "protect" /\ UNCHANGED protected
    BY <1>19 DEF ProtectStages, In, flags
  <2>2. QED
    BY <2>1 DEF PlanInv
<1>20. CASE ProtectLooks
  <2>1. outer.op = "protect" /\ UNCHANGED protected
    BY <1>20 DEF ProtectLooks, In, flags
  <2>2. QED
    BY <2>1 DEF PlanInv
<1>21. CASE ProtectBinds
  <2>1. outer.op = "protect" /\ UNCHANGED protected
    BY <1>21 DEF ProtectBinds, In, flags
  <2>2. QED
    BY <2>1 DEF PlanInv
<1>22. CASE ProtectRemounts
  <2>1. outer.op = "protect" /\ UNCHANGED protected
    BY <1>22 DEF ProtectRemounts, In, flags
  <2>2. QED
    BY <2>1 DEF PlanInv
<1>23. CASE ProtectRereads
  <2>1. outer.op = "protect" /\ UNCHANGED protected
    BY <1>23 DEF ProtectRereads, In, flags
  <2>2. QED
    BY <2>1 DEF PlanInv
<1>24. CASE ProtectVendors
  <2>1. outer.op = "protect" /\ UNCHANGED protected
    BY <1>24 DEF ProtectVendors, In, flags
  <2>2. QED
    BY <2>1 DEF PlanInv
<1>25. CASE ProtectUnstages
  <2>1. outer.op = "protect" /\ UNCHANGED protected
    BY <1>25 DEF ProtectUnstages, In, flags
  <2>2. QED
    BY <2>1 DEF PlanInv
<1>26. CASE ProtectGrants
  <2>1. /\ In("protect", "grant") /\ protected' = ret
        /\ UNCHANGED <<table, pending, inner>>
    BY <1>26 DEF ProtectGrants, world
  <2>2. OnlyStaged /\ (ret => Served /\ At(table, "stage") = {})
    BY <2>1 DEF In, Free, ProtectInv
  <2>3. inner.wanted = {}
    BY <2>1, NoCallFacts DEF In, Core, CallInv
  <2>4. ret => pending.add = {}
    BY <2>2 DEF Served, NoCommand
  <2>5. ret => NoBare
    BY <2>2, <2>3, <2>4 DEF OnlyStaged, At, NoBare
  <2>6. QED
    BY <2>1, <2>5, NoBareKept
<1>27. CASE CleanupAsks
  <2>1. UNCHANGED <<protected, table, pending, inner>>
    BY <1>27 DEF CleanupAsks, world, flags, Report
  <2>2. QED
    BY <2>1, <1>0, NoBareKept
<1>28. CASE CleanupUnmounts
  <2>1. UNCHANGED protected /\ \E m \in Deepest : StartUnmount(m.at)
    BY <1>28 DEF CleanupUnmounts, KeepFlagsButTodo
  <2>2. QED
    BY <2>1, <1>0, StartUnmountBare
<1>29. CASE CleanupCounts
  <2>1. UNCHANGED <<protected, table, pending, inner>>
    BY <1>29 DEF CleanupCounts, world, flags
  <2>2. QED
    BY <2>1, <1>0, NoBareKept
<1>30. CASE CleanupReadsRest
  <2>1. UNCHANGED <<protected, table, pending, inner>>
    BY <1>30 DEF CleanupReadsRest, world, flags
  <2>2. QED
    BY <2>1, <1>0, NoBareKept
<1>31. CASE CleanupEnds
  <2>1. UNCHANGED <<protected, table, pending, inner>>
    BY <1>31 DEF CleanupEnds, world, flags, Report
  <2>2. QED
    BY <2>1, <1>0, NoBareKept
<1>32. CASE UNCHANGED vars
  <2>1. UNCHANGED <<protected, table, pending, inner>>
    BY <1>32 DEF vars, world, flags
  <2>2. QED
    BY <2>1, <1>0, NoBareKept
<1>33. QED
    BY <1>1, <1>2, <1>3, <1>4, <1>5, <1>6, <1>7, <1>8, <1>9, <1>10, <1>11, <1>12, <1>13,
       <1>14, <1>15, <1>16, <1>17, <1>18, <1>19, <1>20, <1>21, <1>22, <1>23, <1>24, <1>25,
       <1>26, <1>27, <1>28, <1>29, <1>30, <1>31, <1>32
        DEF Next, CallStep, MountStep, InspectStep, ProtectStep, CleanupStep

(* Mounts with ids of their own are finitely many. *)
LEMMA RowsAreFinite ==
    ASSUME NEW S \in SUBSET RowSet, OneEach(S)
    PROVE  IsFiniteSet(S)
<1> DEFINE f == [m \in S |-> m.id]
<1>1. f \in Injection(S, 1..MaxIds)
  <2>1. f \in [S -> 1..MaxIds]
    BY DEF RowSet
  <2>2. \A m, n \in S : f[m] = f[n] => m = n
    BY DEF OneEach
  <2>3. QED
    BY <2>1, <2>2 DEF Injection, IsInjective
<1> HIDE DEF f
<1>2. IsFiniteSet(1..MaxIds)
    BY FS_Interval, BoundsAssumption
<1>3. QED
    BY <1>1, <1>2, FS_Injection

(* The one owned mount at the place of a mount is that mount. *)
LEMMA OnlyOne ==
    ASSUME PlaceType, Core, NEW m \in owned, Cardinality(At(owned, m.at)) = 1
    PROVE  At(owned, m.at) = {m}
<1> DEFINE S == At(owned, m.at)
<1>1. m \in S /\ S \subseteq owned
    BY DEF At
<1>2. IsFiniteSet(owned)
    BY RowsAreFinite DEF PlaceType, Core, IdInv
<1>3. IsFiniteSet(S) /\ Cardinality(S) = 1
    BY <1>1, <1>2, FS_Subset
<1> HIDE DEF S
<1>4. IsFiniteSet(S \ {m}) /\ Cardinality(S \ {m}) = Cardinality(S) - 1
    BY <1>1, <1>3, FS_RemoveElement
<1>5. Cardinality(S \ {m}) = 0
    BY <1>3, <1>4
<1>6. S \ {m} = {}
    BY <1>4, <1>5, FS_EmptySet
<1>7. QED
    BY <1>1, <1>6 DEF S

(* Outside of cleanup, without a success, there is nothing to say. *)
LEMMA CleanElsewhere ==
    ASSUME outer'.op # "cleanup", report' # "clean"
    PROVE  CleanupInv'
    BY DEF CleanupInv

(* Before the attempt there is neither cleanup nor its success. *)
LEMMA NotYet ==
    ASSUME CleanupInv, ~attempted
    PROVE  outer.op # "cleanup" /\ report # "clean"
    BY DEF CleanupInv

(* After a success nothing that cleanup has told of changes. *)
LEMMA CleanKept ==
    ASSUME CleanupInv, UNCHANGED <<table, owned, pending, busy, attempted, report, outer, inner,
                                   todo, ret>>
    PROVE  CleanupInv'
    BY DEF CleanupInv, Free, Served

(* After the attempt no mount starts. *)
LEMMA StartMountLate ==
    ASSUME attempted, NEW kind, NEW at, StartMount(kind, at)
    PROVE  inner' = NoCall
    BY StartMountFacts DEF Allowed

(* Every step keeps what the places of cleanup tell and what its success means. *)
LEMMA CleanupKeeps ==
    ASSUME PlaceType, Core, PlanInv, CleanupInv, [Next]_vars
    PROVE  CleanupInv'
<1>1. CASE LateEffect
  <2>1. /\ UNCHANGED <<busy, owned, outer, inner, ret, attempted, report, todo>>
        /\ ~Served /\ pending'.add = {} /\ table' \subseteq table \cup pending.add
    BY <1>1, LateEffectFacts DEF flags
  <2>2. report # "clean"
    BY <2>1 DEF CleanupInv
  <2>3. CASE outer.op = "cleanup"
    BY <2>1, <2>2, <2>3 DEF CleanupInv, Free
  <2>4. CASE outer.op # "cleanup"
    BY <2>1, <2>2, <2>4, CleanElsewhere
  <2>5. QED
    BY <2>3, <2>4
<1>2. CASE StageCommand
  <2>1. ~attempted /\ UNCHANGED report /\ outer'.op # "cleanup"
    BY <1>2 DEF StageCommand, Calm, Idle, flags
  <2>2. QED
    BY <2>1, NotYet, CleanElsewhere
<1>3. CASE StageMounts
  <2>1. outer = Idle /\ Free /\ UNCHANGED <<outer, attempted, report, todo>>
    BY <1>3 DEF StageMounts, Calm, flags
  <2>2. outer'.op # "cleanup"
    BY <2>1 DEF Idle
  <2>3. CASE report = "clean"
    <3>1. attempted
      BY <2>3 DEF CleanupInv
    <3>2. inner' = NoCall /\ UNCHANGED <<table, owned, pending, busy>>
      BY <1>3, <3>1, StartMountLate, StartMountFacts DEF StageMounts
    <3>3. Free'
      BY <3>2, NoCallFacts DEF Free
    <3>4. Served' <=> Served
      BY <3>2 DEF Served
    <3>5. QED
      BY <2>1, <2>2, <2>3, <3>2, <3>3, <3>4 DEF CleanupInv
  <2>4. CASE report # "clean"
    BY <2>1, <2>2, <2>4, CleanElsewhere
  <2>5. QED
    BY <2>3, <2>4
<1>4. CASE StageUnmounts
  <2>1. outer = Idle /\ owned # {} /\ UNCHANGED <<outer, report>>
    BY <1>4 DEF StageUnmounts, Calm, flags
  <2>2. outer'.op # "cleanup" /\ report' # "clean"
    BY <2>1 DEF Idle, CleanupInv
  <2>3. QED
    BY <2>2, CleanElsewhere
<1>5. CASE Initialize
  <2>1. UNCHANGED <<table, owned, pending, busy, attempted, report, outer, inner, todo, ret>>
    BY <1>5 DEF Initialize, world
  <2>2. QED
    BY <2>1, CleanKept
<1>6. CASE ValidateTarget
  <2>1. UNCHANGED <<table, owned, pending, busy, attempted, report, outer, inner, todo, ret>>
    BY <1>6 DEF ValidateTarget, world
  <2>2. QED
    BY <2>1, CleanKept
<1>7. CASE BindLayout
  <2>1. ~attempted /\ UNCHANGED report /\ outer'.op # "cleanup"
    BY <1>7 DEF BindLayout, Calm, Idle
  <2>2. QED
    BY <2>1, NotYet, CleanElsewhere
<1>8. CASE InspectStarts
  <2>1. ~attempted /\ UNCHANGED report /\ outer'.op # "cleanup"
    BY <1>8 DEF InspectStarts, Outer
  <2>2. QED
    BY <2>1, NotYet, CleanElsewhere
<1>9. CASE ProtectStarts
  <2>1. ~attempted /\ UNCHANGED report /\ outer'.op # "cleanup"
    BY <1>9 DEF ProtectStarts, Outer, flags
  <2>2. QED
    BY <2>1, NotYet, CleanElsewhere
<1>10. CASE CleanupStarts
  <2>1. outer = Idle /\ Free /\ UNCHANGED <<table, owned, pending, busy, inner, ret, todo>>
    BY <1>10 DEF CleanupStarts, Calm, world, Report
  <2>2. \/ report' = "failed" /\ (outer' = Idle \/ outer' = outer)
        \/ ~attempted /\ attempted' /\ Outer("cleanup", "idle", TRUE) /\ report' = report
    BY <1>10 DEF CleanupStarts, Report
  <2>3. CASE report' = "failed" /\ (outer' = Idle \/ outer' = outer)
    <3>1. outer'.op # "cleanup"
      BY <2>1, <2>3 DEF Idle
    <3>2. QED
      BY <2>3, <3>1, CleanElsewhere
  <2>4. CASE ~attempted /\ attempted' /\ Outer("cleanup", "idle", TRUE) /\ report' = report
    <3>1. report' # "clean"
      BY <2>4, NotYet
    <3>2. outer'.op = "cleanup" /\ outer'.step = "idle"
      BY <2>4 DEF Outer
    <3>3. inner'.op = "none" /\ inner'.wanted = {} /\ Free'
      BY <2>1, NoCallFacts DEF Core, CallInv, Free
    <3>4. QED
      BY <2>4, <3>1, <3>2, <3>3 DEF CleanupInv
  <2>5. QED
    BY <2>2, <2>3, <2>4
<1>11. CASE MountRuns
  <2>1. /\ UNCHANGED <<outer, report>> /\ inner.op \in {"mount", "private"}
    BY <1>11, MountRunsFacts DEF flags
  <2>2. outer'.op # "cleanup" /\ report' # "clean"
    BY <2>1 DEF CleanupInv, Free
  <2>3. QED
    BY <2>2, CleanElsewhere
<1>12. CASE MountReads
  <2>1. /\ UNCHANGED <<outer, report>> /\ inner.op \in {"mount", "private"}
    BY <1>12 DEF MountReads, flags
  <2>2. outer'.op # "cleanup" /\ report' # "clean"
    BY <2>1 DEF CleanupInv, Free
  <2>3. QED
    BY <2>2, CleanElsewhere
<1>13. CASE UnmountRuns
  <2>1. /\ UNCHANGED <<busy, owned, outer, ret, attempted, report, todo>>
        /\ inner.op = "unmount" /\ inner'.op = inner.op /\ inner'.wanted = inner.wanted
        /\ inner'.made = inner.made /\ pending'.add = {}
    BY <1>13, UnmountRunsFacts DEF flags
  <2>2. ~Free /\ ~Free' /\ report # "clean"
    BY <2>1 DEF CleanupInv, Free
  <2>3. CASE outer.op = "cleanup"
    BY <2>1, <2>2, <2>3 DEF CleanupInv
  <2>4. CASE outer.op # "cleanup"
    BY <2>1, <2>2, <2>4, CleanElsewhere
  <2>5. QED
    BY <2>3, <2>4
<1>14. CASE UnmountReads
  <2>1. /\ UNCHANGED <<pending, outer, attempted, report, todo>> /\ inner' = NoCall
        /\ inner.op = "unmount" /\ (ret' = FALSE \/ owned' = owned \ inner.made)
    BY <1>14 DEF UnmountReads, flags, world, Answer
  <2>2. ~Free /\ Free' /\ report # "clean"
    BY <2>1, NoCallFacts DEF CleanupInv, Free
  <2>3. CASE outer.op = "cleanup"
    <3>1. outer.step = "count" /\ attempted /\ pending.add = {}
          /\ (outer.good => owned = todo \cup inner.made /\ inner.made \cap todo = {})
      BY <2>2, <2>3 DEF CleanupInv
    <3>2. outer.good /\ ret' => owned' = todo
      BY <2>1, <3>1
    <3>3. QED
      BY <2>1, <2>2, <2>3, <3>1, <3>2, NoCallFacts DEF CleanupInv
  <2>4. CASE outer.op # "cleanup"
    BY <2>1, <2>2, <2>4, CleanElsewhere
  <2>5. QED
    BY <2>3, <2>4
<1>15. CASE InspectMounts
  <2>1. outer.op = "inspect" /\ UNCHANGED report /\ outer'.op # "cleanup"
    BY <1>15 DEF InspectMounts, In, flags, Outer
  <2>2. report # "clean"
    BY <2>1 DEF CleanupInv, Idle
  <2>3. QED
    BY <2>1, <2>2, CleanElsewhere
<1>16. CASE InspectLooks
  <2>1. outer.op = "inspect" /\ UNCHANGED report /\ outer'.op # "cleanup"
    BY <1>16 DEF InspectLooks, In, flags, Outer
  <2>2. report # "clean"
    BY <2>1 DEF CleanupInv, Idle
  <2>3. QED
    BY <2>1, <2>2, CleanElsewhere
<1>17. CASE InspectCloses
  <2>1. outer.op = "inspect" /\ UNCHANGED report /\ outer'.op # "cleanup"
    BY <1>17 DEF InspectCloses, In, flags, Outer
  <2>2. report # "clean"
    BY <2>1 DEF CleanupInv, Idle
  <2>3. QED
    BY <2>1, <2>2, CleanElsewhere
<1>18. CASE InspectEnds
  <2>1. outer.op = "inspect" /\ UNCHANGED report /\ outer'.op # "cleanup"
    BY <1>18 DEF InspectEnds, In, flags, Idle
  <2>2. report # "clean"
    BY <2>1 DEF CleanupInv, Idle
  <2>3. QED
    BY <2>1, <2>2, CleanElsewhere
<1>19. CASE ProtectStages
  <2>1. outer.op = "protect" /\ UNCHANGED report /\ outer'.op # "cleanup"
    BY <1>19 DEF ProtectStages, In, flags, Outer
  <2>2. report # "clean"
    BY <2>1 DEF CleanupInv, Idle
  <2>3. QED
    BY <2>1, <2>2, CleanElsewhere
<1>20. CASE ProtectLooks
  <2>1. outer.op = "protect" /\ UNCHANGED report
    BY <1>20 DEF ProtectLooks, In, flags
  <2>2. outer'.op # "cleanup"
    <3>1. outer' = Idle \/ outer'.op = "protect"
      BY <1>20 DEF ProtectLooks, Outer, GiveUp
    <3>2. QED
      BY <3>1 DEF Idle
  <2>3. report # "clean"
    BY <2>1 DEF CleanupInv, Idle
  <2>4. QED
    BY <2>1, <2>2, <2>3, CleanElsewhere
<1>21. CASE ProtectBinds
  <2>1. outer.op = "protect" /\ UNCHANGED report /\ outer'.op # "cleanup"
    BY <1>21 DEF ProtectBinds, In, flags, Outer
  <2>2. report # "clean"
    BY <2>1 DEF CleanupInv, Idle
  <2>3. QED
    BY <2>1, <2>2, CleanElsewhere
<1>22. CASE ProtectRemounts
  <2>1. outer.op = "protect" /\ UNCHANGED report
    BY <1>22 DEF ProtectRemounts, In, flags
  <2>2. outer'.op # "cleanup"
    <3>1. CASE GiveUp
      BY <3>1 DEF GiveUp, Idle
    <3>2. CASE \E m \in At(owned, "efi"), ok \in BOOLEAN : Outer("protect", "reread", ok)
      BY <3>2 DEF Outer
    <3>3. QED
      BY <1>22, <3>1, <3>2 DEF ProtectRemounts
  <2>3. report # "clean"
    BY <2>1 DEF CleanupInv, Idle
  <2>4. QED
    BY <2>1, <2>2, <2>3, CleanElsewhere
<1>23. CASE ProtectRereads
  <2>1. outer.op = "protect" /\ UNCHANGED report
    BY <1>23 DEF ProtectRereads, In, flags
  <2>2. outer'.op # "cleanup"
    <3>1. outer' = Idle \/ outer'.op = "protect"
      BY <1>23 DEF ProtectRereads, Outer, GiveUp
    <3>2. QED
      BY <3>1 DEF Idle
  <2>3. report # "clean"
    BY <2>1 DEF CleanupInv, Idle
  <2>4. QED
    BY <2>1, <2>2, <2>3, CleanElsewhere
<1>24. CASE ProtectVendors
  <2>1. outer.op = "protect" /\ UNCHANGED report /\ outer'.op # "cleanup"
    BY <1>24 DEF ProtectVendors, In, flags, Outer
  <2>2. report # "clean"
    BY <2>1 DEF CleanupInv, Idle
  <2>3. QED
    BY <2>1, <2>2, CleanElsewhere
<1>25. CASE ProtectUnstages
  <2>1. outer.op = "protect" /\ UNCHANGED report
    BY <1>25 DEF ProtectUnstages, In, flags
  <2>2. outer'.op # "cleanup"
    <3>1. outer' = Idle \/ outer'.op = "protect"
      BY <1>25 DEF ProtectUnstages, Outer, GiveUp
    <3>2. QED
      BY <3>1 DEF Idle
  <2>3. report # "clean"
    BY <2>1 DEF CleanupInv, Idle
  <2>4. QED
    BY <2>1, <2>2, <2>3, CleanElsewhere
<1>26. CASE ProtectGrants
  <2>1. outer.op = "protect" /\ UNCHANGED report /\ outer'.op # "cleanup"
    BY <1>26 DEF ProtectGrants, In, flags, Idle
  <2>2. report # "clean"
    BY <2>1 DEF CleanupInv, Idle
  <2>3. QED
    BY <2>1, <2>2, CleanElsewhere
<1>27. CASE CleanupAsks
  <2>1. /\ In("cleanup", "idle") /\ Served
        /\ UNCHANGED <<table, owned, pending, busy, inner, ret>>
    BY <1>27 DEF CleanupAsks, world
  <2>2. CASE Report("failed")
    <3>1. outer'.op # "cleanup" /\ report' # "clean"
      BY <2>2 DEF Report, Idle
    <3>2. QED
      BY <3>1, CleanElsewhere
  <2>3. CASE todo' = owned /\ Outer("cleanup", "next", TRUE) /\ UNCHANGED <<attempted, report>>
    <3>1. outer'.op = "cleanup" /\ outer'.step = "next"
      BY <2>3 DEF Outer
    <3>2. attempted /\ report # "clean" /\ Free'
      BY <2>1 DEF CleanupInv, In, Idle, Free
    <3>3. inner'.op = "none" /\ inner'.wanted = {}
      BY <2>1, NoCallFacts DEF Core, CallInv, Free, In
    <3>4. pending'.add = {}
      BY <2>1 DEF Served, NoCommand
    <3>5. QED
      BY <2>1, <2>3, <3>1, <3>2, <3>3, <3>4 DEF CleanupInv
  <2>4. QED
    BY <1>27, <2>2, <2>3 DEF CleanupAsks
<1>28. CASE CleanupUnmounts
  <2>1. PICK m \in Deepest : StartUnmount(m.at) /\ todo' = todo \ {m}
    BY <1>28 DEF CleanupUnmounts
  <2>2. /\ outer.op = "cleanup" /\ outer.step = "next"
        /\ outer'.op = "cleanup" /\ outer'.step = "count" /\ outer'.good = outer.good
        /\ UNCHANGED <<attempted, report>>
    BY <1>28 DEF CleanupUnmounts, In, Outer, KeepFlagsButTodo
  <2>3. UNCHANGED <<table, owned, pending, busy>>
    BY <2>1, StartUnmountFacts
  <2>4. attempted /\ report # "clean" /\ pending.add = {} /\ (outer.good => owned = todo)
    BY <2>2 DEF CleanupInv, Idle
  <2>5. \/ inner' = NoCall /\ ret' = FALSE
        \/ /\ Cardinality(At(owned, m.at)) = 1
           /\ inner' = [op |-> "unmount", step |-> "run", at |-> m.at, wanted |-> {},
                        made |-> At(owned, m.at), ok |-> FALSE]
    BY <2>1, StartUnmountFacts
  <2>6. m \in todo
    BY DEF Deepest
  <2>7. CASE inner' = NoCall /\ ret' = FALSE
    BY <2>2, <2>3, <2>4, <2>7, NoCallFacts DEF CleanupInv, Free
  <2>8. CASE /\ Cardinality(At(owned, m.at)) = 1
             /\ inner' = [op |-> "unmount", step |-> "run", at |-> m.at, wanted |-> {},
                          made |-> At(owned, m.at), ok |-> FALSE]
    <3>1. inner'.op = "unmount" /\ inner'.wanted = {} /\ inner'.made = At(owned, m.at)
      BY <2>8
    <3>2. outer.good => inner'.made = {m} /\ owned = todo
      BY <2>4, <2>6, <2>8, <3>1, OnlyOne
    <3>3. ~Free'
      BY <3>1 DEF Free
    <3>4. outer.good => owned' = todo' \cup inner'.made /\ inner'.made \cap todo' = {}
      BY <2>1, <2>3, <2>6, <3>2
    <3>5. QED
      BY <2>2, <2>3, <2>4, <3>1, <3>3, <3>4 DEF CleanupInv
  <2>9. QED
    BY <2>5, <2>7, <2>8
<1>29. CASE CleanupCounts
  <2>1. /\ outer.op = "cleanup" /\ outer.step = "count" /\ Free
        /\ outer'.op = "cleanup" /\ outer'.step = "next" /\ outer'.good = (outer.good /\ ret)
        /\ UNCHANGED <<table, owned, pending, busy, inner, attempted, report, todo>>
    BY <1>29 DEF CleanupCounts, In, Outer, flags, world
  <2>2. outer.good /\ ret => owned = todo
    BY <2>1 DEF CleanupInv
  <2>3. /\ attempted /\ inner.wanted = {} /\ inner.op = "none" /\ report # "clean"
        /\ pending.add = {} /\ Free'
    BY <2>1 DEF CleanupInv, Idle, Free
  <2>4. QED
    BY <2>1, <2>2, <2>3 DEF CleanupInv
<1>30. CASE CleanupReadsRest
  <2>1. /\ outer.op = "cleanup" /\ outer.step = "next" /\ Free /\ todo = {}
        /\ outer'.op = "cleanup" /\ outer'.step = "last"
        /\ outer'.good = (outer.good /\ table = {})
        /\ UNCHANGED <<table, owned, pending, busy, inner, attempted, report, todo>>
    BY <1>30 DEF CleanupReadsRest, In, Outer, flags, world
  <2>2. outer.good => owned = {}
    BY <2>1 DEF CleanupInv
  <2>3. /\ attempted /\ inner.wanted = {} /\ inner.op = "none" /\ report # "clean"
        /\ pending.add = {} /\ Free'
    BY <2>1 DEF CleanupInv, Idle, Free
  <2>4. QED
    BY <2>1, <2>2, <2>3 DEF CleanupInv
<1>31. CASE CleanupEnds
  <2>1. /\ In("cleanup", "last") /\ Served /\ outer' = Idle /\ attempted'
        /\ UNCHANGED <<table, owned, pending, busy, inner>>
    BY <1>31 DEF CleanupEnds, Report, world
  <2>2. outer'.op # "cleanup"
    BY <2>1 DEF Idle
  <2>3. CASE Report("failed")
    <3>1. report' # "clean"
      BY <2>3 DEF Report
    <3>2. QED
      BY <2>2, <3>1, CleanElsewhere
  <2>4. CASE outer.good /\ ~busy
    <3>1. table = {} /\ owned = {}
      BY <2>1, <2>4 DEF CleanupInv, In
    <3>2. Free' /\ Served'
      BY <2>1 DEF In, Free, Served
    <3>3. QED
      BY <2>1, <2>2, <2>4, <3>1, <3>2 DEF CleanupInv
  <2>5. QED
    BY <1>31, <2>3, <2>4 DEF CleanupEnds
<1>32. CASE UNCHANGED vars
  <2>1. UNCHANGED <<table, owned, pending, busy, attempted, report, outer, inner, todo, ret>>
    BY <1>32 DEF vars, world, flags
  <2>2. QED
    BY <2>1, CleanKept
<1>33. QED
    BY <1>1, <1>2, <1>3, <1>4, <1>5, <1>6, <1>7, <1>8, <1>9, <1>10, <1>11, <1>12, <1>13,
       <1>14, <1>15, <1>16, <1>17, <1>18, <1>19, <1>20, <1>21, <1>22, <1>23, <1>24, <1>25,
       <1>26, <1>27, <1>28, <1>29, <1>30, <1>31, <1>32
        DEF Next, CallStep, MountStep, InspectStep, ProtectStep, CleanupStep

(* The first state satisfies the inductive invariant. *)
LEMMA InitIInv == Init => IInv
<1> SUFFICES ASSUME Init PROVE IInv
    OBVIOUS
<1>1. Row(1, Shape("home", "foreign", TRUE, TRUE)) =
        [id |-> 1, at |-> "home", dev |-> "foreign", whole |-> TRUE, rw |-> TRUE]
    BY DEF Row, Shape
<1>2. \/ table = {}
      \/ table = {[id |-> 1, at |-> "home", dev |-> "foreign", whole |-> TRUE, rw |-> TRUE]}
    BY <1>1 DEF Init
<1>3. FlagType
    BY DEF Init, FlagType
<1>4. PlaceType
  <2>1. table \subseteq RowSet
    <3>1. 1 \in 1..MaxIds /\ "home" \in Places /\ "foreign" \in Devices
      BY PlaceFacts, BoundsAssumption
    <3>2. [id |-> 1, at |-> "home", dev |-> "foreign", whole |-> TRUE, rw |-> TRUE] \in RowSet
      BY <3>1 DEF RowSet
    <3>3. QED
      BY <1>2, <3>2
  <2>2. pending \in CommandSet /\ inner \in InnerSet /\ outer \in OuterSet
    BY NoCallFacts, IdleFacts DEF Init, NoCommand, CommandSet
  <2>3. trouble \in 0..MaxTrouble
    BY BoundsAssumption DEF Init
  <2>4. /\ plan \in Plans /\ owned = {} /\ todo = {} /\ report = "none"
        /\ layout = "none"
    BY DEF Init
  <2>5. QED
    BY <2>1, <2>2, <2>3, <2>4 DEF PlaceType
<1>5. pending.add = {} /\ pending.del = {} /\ owned = {} /\ inner = NoCall
    BY DEF Init, NoCommand
<1>6. \A m, n \in table : m = n /\ m.dev = "foreign"
  <2> DEFINE row == [id |-> 1, at |-> "home", dev |-> "foreign", whole |-> TRUE, rw |-> TRUE]
  <2>1. row.dev = "foreign"
    OBVIOUS
  <2>2. table = {} \/ table = {row}
    BY <1>2
  <2> HIDE DEF row
  <2>3. QED
    BY <2>1, <2>2
<1>7. Core
  <2>1. IdInv
    <3>1. OneEach(table) /\ OneEach(owned)
      BY <1>5, <1>6 DEF OneEach
    <3>2. (table \ pending.del) \cup pending.add = table
      BY <1>5
    <3>3. QED
      BY <3>1, <3>2 DEF IdInv
  <2>2. WantedInv /\ CallInv
    BY <1>5, NoCallFacts DEF WantedInv, CallInv, Free
  <2>3. NameInv
    BY <1>5, <1>6, NoCallFacts DEF NameInv, Wiped
  <2>4. BareInv
    BY <1>5, <1>6, NoCallFacts DEF BareInv, Bare
  <2>5. QED
    BY <2>1, <2>2, <2>3, <2>4 DEF Core
<1>8. PlanInv /\ ProtectInv /\ ShieldInv /\ CleanupInv
    BY DEF Init, PlanInv, ProtectInv, ShieldInv, CleanupInv, Idle
<1>9. QED
    BY <1>3, <1>4, <1>7, <1>8 DEF IInv, TypeOK

(* Every step preserves it. *)
LEMMA NextIInv == IInv /\ [Next]_vars => IInv'
<1> SUFFICES ASSUME IInv, [Next]_vars PROVE IInv'
    OBVIOUS
<1>1. FlagType /\ PlaceType /\ Core /\ PlanInv /\ ProtectInv /\ ShieldInv /\ CleanupInv
    BY DEF IInv, TypeOK
<1>2. FlagType'
    BY <1>1, FlagKeeps
<1>3. PlaceType' /\ Core'
    BY <1>1, CoreKeeps
<1>4. PlanInv'
    BY <1>1, PlanKeeps
<1>5. ProtectInv'
    BY <1>1, ProtectKeeps
<1>6. ShieldInv'
    BY <1>1, ShieldKeeps
<1>7. CleanupInv'
    BY <1>1, CleanupKeeps
<1>8. QED
    BY <1>2, <1>3, <1>4, <1>5, <1>6, <1>7 DEF IInv, TypeOK

(* The inductive invariant holds in every state a mount session reaches. *)
THEOREM Inductive == Spec => []IInv
    BY InitIInv, NextIInv, PTL DEF Spec

(* Every variable keeps its type, for every set of plans and every bound. *)
THEOREM TypeCorrect == Spec => []TypeOK
<1>1. IInv => TypeOK
    BY DEF IInv
<1>2. QED
    BY <1>1, Inductive, PTL

(* cleanup() reports success only when no mount, no record, no command and no
   descendant is left, however many mounts, lost replies and strangers there are. *)
THEOREM TruthfulCleanup == Spec => []CleanupTruthful
<1>1. IInv => CleanupTruthful
    BY DEF IInv, CleanupInv, CleanupTruthful
<1>2. QED
    BY <1>1, Inductive, PTL

(* Once mountProtectedEsp has granted protection, the whole of the reused EFI
   partition is never writable again below /mnt, whatever is lost or late. *)
THEOREM ShieldHolds == Spec => []EspShielded
<1>1. IInv => EspShielded
    BY DEF IInv, ShieldInv, NoBare, Bare, EspShielded
<1>2. QED
    BY <1>1, Inductive, PTL

(* After an NTFS inspection has started no mount serves the names of a wiped
   disk, even when the inspection failed and no layout was ever bound. *)
THEOREM NeverTheWipedNames == Spec => []NtfsNeverFallsBack
<1>1. IInv => NtfsNeverFallsBack
    BY DEF IInv, PlanInv, Core, NameInv, Wiped, NtfsNeverFallsBack
<1>2. QED
    BY <1>1, Inductive, PTL

(* A umount of the session takes only what the session mounted. *)
THEOREM UnmountsItsOwn == Spec => OnlyOwnedUnmounted
<1>1. IInv /\ [Next]_vars
        => [inner.op = "unmount" /\ inner.step = "run" => table \ table' \subseteq owned]_vars
    BY DEF IInv, Core, CallInv
<1>2. QED
    BY <1>1, Inductive, PTL DEF Spec, OnlyOwnedUnmounted

=============================================================================
