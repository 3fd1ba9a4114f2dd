------------------------- MODULE ManualWorkerProofs -------------------------
(***************************************************************************)
(* Proofs about the worker of a manual plan.  The budget: for every        *)
(* cluster size, headroom and limit of EfiBudget's assumptions, an ESP     *)
(* that is called sufficient takes the copy.  The probe: a partition that  *)
(* is called eligible is the plan's, whatever other programs do.           *)
(***************************************************************************)
EXTENDS ManualWorker, TLAPS

-----------------------------------------------------------------------------
(* The budget.                                                             *)

\* Whole clusters: what the worker counts for a file is what FAT gives it.
LEMMA FileClusters ==
    ASSUME NEW size \in Nat
    PROVE  Clusters(size) \in Nat /\ FileTakes(size) \in Nat /\ FileTakes(size) <= Clusters(size)
<1>1. Cluster \in Nat \ {0}  BY FatAssumption
<1>2. PICK q \in Nat, r \in 0..(Cluster - 1) : size = q * Cluster + r
  <2>1. /\ size \div Cluster \in Nat /\ size % Cluster \in 0..(Cluster - 1)
        /\ size = (size \div Cluster) * Cluster + (size % Cluster)
    BY <1>1, SMTT(20)
  <2> QED  BY <2>1
<1>3. size \div Cluster = q /\ size % Cluster = r
  BY <1>1, <1>2, SMTT(20)
<1>4. CASE r = 0
  <2>1. (size + Cluster - 1) \div Cluster = q
    BY <1>1, <1>2, <1>4, SMTT(20)
  <2> QED  BY <1>2, <1>3, <1>4, <2>1 DEF Clusters, FileTakes
<1>5. CASE r # 0
  <2>1. (size + Cluster - 1) \div Cluster = q + 1
    BY <1>1, <1>2, <1>5, SMTT(20)
  <2> QED  BY <1>2, <1>3, <1>5, <2>1 DEF Clusters, FileTakes
<1> QED  BY <1>4, <1>5

\* Adding no more than one divisor (two divisors) raises a quotient by at most one (two).
LEMMA QuotientSteps ==
    ASSUME NEW a \in Nat, NEW l \in Nat, NEW p \in Nat \ {0}
    PROVE  /\ a \div p \in Nat /\ (a + l) \div p \in Nat
           /\ a \div p <= (a + l) \div p
           /\ l <= p => (a + l) \div p <= a \div p + 1
           /\ l <= 2 * p => (a + l) \div p <= a \div p + 2
<1>1. PICK q \in Nat, r \in 0..(p - 1) : a = q * p + r /\ a \div p = q
  <2>1. a \div p \in Nat /\ a % p \in 0..(p - 1) /\ a = (a \div p) * p + (a % p)
    BY SMTT(20)
  <2> QED  BY <2>1
<1>2. PICK u \in Nat, v \in 0..(p - 1) : a + l = u * p + v /\ (a + l) \div p = u
  <2>1. (a + l) \div p \in Nat /\ (a + l) % p \in 0..(p - 1)
        /\ a + l = ((a + l) \div p) * p + ((a + l) % p)
    BY SMTT(20)
  <2> QED  BY <2>1
<1>3. q <= u
  <2>1. SUFFICES ASSUME u + 1 <= q PROVE FALSE  BY <1>1, <1>2
  <2>2. (u + 1) * p <= q * p  BY <1>1, <1>2, <2>1, SMTT(20)
  <2> QED  BY <1>1, <1>2, <2>2, SMTT(20)
<1>4. ASSUME l <= p PROVE u <= q + 1
  <2>1. SUFFICES ASSUME q + 2 <= u PROVE FALSE  BY <1>1, <1>2
  <2>2. (q + 2) * p <= u * p  BY <1>1, <1>2, <2>1, SMTT(20)
  <2> QED  BY <1>1, <1>2, <1>4, <2>2, SMTT(20)
<1>5. ASSUME l <= 2 * p PROVE u <= q + 2
  <2>1. SUFFICES ASSUME q + 3 <= u PROVE FALSE  BY <1>1, <1>2
  <2>2. (q + 3) * p <= u * p  BY <1>1, <1>2, <2>1, SMTT(20)
  <2> QED  BY <1>1, <1>2, <1>5, <2>2, SMTT(20)
<1> QED  BY <1>1, <1>2, <1>3, <1>4, <1>5

\* An entry makes its directory grow by one cluster, or two in the smallest clusters.
LEMMA EntryClusters ==
    ASSUME NEW k \in Nat
    PROVE  /\ EntryTakes(k) \in Nat
           /\ LongName <= PerCluster => EntryTakes(k) <= 1
           /\ LongName <= 2 * PerCluster => EntryTakes(k) <= 2
<1> DEFINE a == 2 + LongName * k + PerCluster - 1
<1>1. PerCluster \in Nat \ {0} /\ LongName \in Nat  BY FatAssumption
<1>2. a \in Nat /\ 2 + LongName * (k + 1) + PerCluster - 1 = a + LongName
  <2>1. LongName * k \in Nat /\ LongName * (k + 1) = LongName * k + LongName
    BY <1>1, SMTT(20)
  <2> QED  BY <1>1, <2>1
<1>3. EntryTakes(k) = (a + LongName) \div PerCluster - (a \div PerCluster)
  BY <1>2 DEF EntryTakes, DirectoryTakes
<1> HIDE DEF a
<1> QED  BY <1>1, <1>2, <1>3, QuotientSteps

LEMMA EmptyDirectory == DirectoryTakes(0) = 1
<1>1. PerCluster \in Nat \ {0, 1} /\ LongName \in Nat  BY FatAssumption
<1>2. LongName * 0 = 0  BY <1>1
<1>3. (PerCluster + 1) \div PerCluster = 1  BY <1>1, SMTT(20)
<1> QED  BY <1>1, <1>2, <1>3 DEF DirectoryTakes

-----------------------------------------------------------------------------
PerEntry == IF LongName <= PerCluster THEN 2 ELSE 3

IInv ==
    /\ open \in Seq(Nat) /\ count \in Nat /\ bytes \in Nat /\ allocated \in Nat
    /\ grown \in Nat /\ available \in Nat
    /\ Ahead
    /\ answer = "sufficient" => available >= Required

LEMMA InitIInv == Init => IInv
<1> SUFFICES ASSUME Init PROVE IInv  OBVIOUS
<1>1. MaxCount \in Nat  BY FatAssumption
<1> QED  BY <1>1, EmptyDirectory DEF Init, IInv, Ahead

\* The volume's growth for one entry stays within the budget's.
LEMMA OneEntry ==
    ASSUME NEW k \in Nat, NEW more \in Nat, more <= 1
    PROVE  EntryTakes(k) + more <= PerEntry
<1>1. PerCluster \in Nat /\ LongName \in Nat  BY FatAssumption
<1>2. CASE LongName <= PerCluster  BY <1>1, <1>2, EntryClusters DEF PerEntry
<1>3. CASE ~(LongName <= PerCluster)
  <2>1. LongName <= 2 * PerCluster  BY <1>3, NamesAssumption
  <2> QED  BY <1>1, <1>3, <2>1, EntryClusters DEF PerEntry
<1> QED  BY <1>2, <1>3

LEMMA NextIInv == IInv /\ [Next]_vars => IInv'
<1> SUFFICES ASSUME IInv, [Next]_vars PROVE IInv'  OBVIOUS
<1>0. MaxCount \in Nat /\ Sizes \subseteq Nat /\ Free \subseteq Nat /\ PerEntry \in Nat
  BY FatAssumption DEF PerEntry
<1>t. /\ open \in Seq(Nat) /\ count \in Nat /\ bytes \in Nat /\ allocated \in Nat
      /\ grown \in Nat /\ available \in Nat
      /\ grown <= allocated + count * PerEntry + 2 /\ count <= MaxCount
      /\ answer = "sufficient" => available >= Required
  BY DEF IInv, Ahead, PerEntry
<1>h. open # <<>> => Head(open) \in Nat /\ Tail(open) \in Seq(Nat)  BY <1>t
<1>q. ASSUME open' \in Seq(Nat), count' \in Nat, bytes' \in Nat, allocated' \in Nat,
             grown' \in Nat, available' \in Nat,
             grown' <= allocated' + count' * PerEntry + 2, count' <= MaxCount,
             (answer = "sufficient" => available >= Required)'
      PROVE  IInv'
  BY <1>q DEF IInv, Ahead, PerEntry
<1>c. (count + 1) * PerEntry = count * PerEntry + PerEntry /\ count * PerEntry \in Nat
  <2>1. PerEntry \in {2, 3}  BY DEF PerEntry
  <2> QED  BY <1>t, <2>1
<1>1. CASE File
  <2>1. PICK size \in Sizes :
          /\ bytes' = bytes + size
          /\ allocated' = allocated + Clusters(size)
          /\ grown' = grown + EntryTakes(Head(open)) + FileTakes(size)
    BY <1>1 DEF File
  <2>2. open # <<>> /\ count' = count + 1 /\ count' <= MaxCount /\ answer' = "none"
        /\ open' = <<Head(open) + 1>> \o Tail(open) /\ available' = available
    BY <1>0, <1>1, <1>t DEF File, Enter, Walking
  <2>3. size \in Nat  BY <1>0
  <2>4. /\ Clusters(size) \in Nat /\ FileTakes(size) \in Nat /\ FileTakes(size) <= Clusters(size)
    BY <2>3, FileClusters
  <2>5. EntryTakes(Head(open)) \in Nat /\ EntryTakes(Head(open)) <= PerEntry
    <3>1. Head(open) \in Nat  BY <1>h, <2>2
    <3>2. EntryTakes(Head(open)) \in Nat  BY <3>1, EntryClusters
    <3>3. EntryTakes(Head(open)) + 0 <= PerEntry  BY <3>1, OneEntry
    <3> QED  BY <3>2, <3>3
  <2>6. open' \in Seq(Nat)  BY <1>h, <2>2
  <2>7. grown' <= allocated' + count' * PerEntry + 2 /\ grown' \in Nat /\ allocated' \in Nat
    <3> DEFINE p == count * PerEntry
    <3> DEFINE n == count' * PerEntry
    <3>1. p \in Nat /\ n = p + PerEntry /\ grown <= allocated + p + 2  BY <1>t, <1>c, <2>2
    <3>2. /\ grown' = grown + EntryTakes(Head(open)) + FileTakes(size)
          /\ allocated' = allocated + Clusters(size)
      BY <2>1
    <3> HIDE DEF p, n
    <3>3. grown' <= allocated' + n + 2 /\ grown' \in Nat /\ allocated' \in Nat
      <4>1. PerEntry \in Nat /\ grown \in Nat /\ allocated \in Nat  BY <1>0, <1>t
      <4> QED  BY ONLY <2>4, <2>5, <3>1, <3>2, <4>1
    <3> QED  BY <3>3 DEF n
  <2> QED  BY <1>q, <1>t, <2>1, <2>2, <2>3, <2>6, <2>7
<1>2. CASE Directory
  <2>2. /\ open # <<>> /\ count' = count + 1 /\ count' <= MaxCount /\ answer' = "none"
        /\ open' = <<0, Head(open) + 1>> \o Tail(open) /\ available' = available
        /\ bytes' = bytes /\ allocated' = allocated
        /\ grown' = grown + EntryTakes(Head(open)) + 1
    BY <1>0, <1>2, <1>t, EmptyDirectory DEF Directory, Enter, Walking
  <2>5. EntryTakes(Head(open)) \in Nat /\ EntryTakes(Head(open)) + 1 <= PerEntry
    <3>1. Head(open) \in Nat  BY <1>h, <2>2
    <3>2. EntryTakes(Head(open)) \in Nat  BY <3>1, EntryClusters
    <3>3. 1 \in Nat /\ 1 <= 1  OBVIOUS
    <3> QED  BY <3>1, <3>2, <3>3, OneEntry
  <2>6. open' \in Seq(Nat)  BY <1>h, <2>2
  <2>7. grown' <= allocated' + count' * PerEntry + 2 /\ grown' \in Nat
    <3> DEFINE p == count * PerEntry
    <3> DEFINE n == count' * PerEntry
    <3>1. p \in Nat /\ n = p + PerEntry /\ grown <= allocated + p + 2  BY <1>t, <1>c, <2>2
    <3> HIDE DEF p, n
    <3>2. allocated' = allocated /\ grown' = grown + EntryTakes(Head(open)) + 1  BY <2>2
    <3>3. grown' <= allocated' + n + 2 /\ grown' \in Nat
      <4>1. PerEntry \in Nat /\ grown \in Nat /\ allocated \in Nat  BY <1>0, <1>t
      <4> QED  BY ONLY <2>5, <3>1, <3>2, <4>1
    <3> QED  BY <3>3 DEF n
  <2> QED  BY <1>q, <1>t, <2>2, <2>6, <2>7
<1>3. CASE Leave
  BY <1>3, <1>t, <1>h, <1>q DEF Leave, Walking, Required
<1>4. CASE Refuse
  BY <1>4, <1>t, <1>q DEF Refuse, Required
<1>5. CASE Answer
  <2>1. available' \in Nat /\ (answer' = "sufficient" => available' >= Required')
    BY <1>0, <1>5, <1>t DEF Answer, Required
  <2> QED  BY <1>5, <1>t, <1>q, <2>1 DEF Answer
<1>6. CASE UNCHANGED vars
  BY <1>6, <1>t, <1>q DEF vars, Required
<1> QED  BY <1>1, <1>2, <1>3, <1>4, <1>5, <1>6 DEF Next

\* The headroom makes up for names that are longer than a cluster.
LEMMA WithinBudget == IInv => SufficientFits
<1> SUFFICES ASSUME IInv, answer = "sufficient" PROVE grown <= available
  BY DEF SufficientFits
<1>1. available >= allocated + 2 * count + 4 + Headroom
  BY DEF IInv, Required
<1>2. Headroom \in Nat /\ MaxCount \in Nat /\ count \in Nat /\ count <= MaxCount
  BY FatAssumption DEF IInv, Ahead
<1>3. CASE LongName <= PerCluster
  BY <1>1, <1>2, <1>3 DEF IInv, Ahead
<1>4. CASE ~(LongName <= PerCluster)
  <2>1. MaxCount <= Headroom  BY <1>4, NamesAssumption
  <2> QED  BY <1>1, <1>2, <1>4, <2>1 DEF IInv, Ahead
<1> QED  BY <1>3, <1>4

\* An ESP that source_budget calls sufficient takes the whole copy, for every cluster
\* size, name length and tree within the limits.
THEOREM BudgetSuffices == Spec => []SufficientFits
<1>1. Init => IInv  BY InitIInv
<1>2. IInv /\ [Next]_vars => IInv'  BY NextIInv
<1>3. IInv => SufficientFits  BY WithinBudget
<1> QED  BY <1>1, <1>2, <1>3, PTL DEF Spec

-----------------------------------------------------------------------------
(* The probe.                                                              *)

\* The partitions a manual plan may reuse, and the steps at which one is being looked into.
Roles == {"esp", "root"}
Looking == {"describe", "open", "bind", "signature", "health", "close"}

\* Types of the variables of the probe.
ProbeTypes ==
    /\ ask \in [roles: SUBSET Roles, keeps: BOOLEAN, admission: BOOLEAN]
    /\ disk \in [seq: Nat, row: [Roles -> Probe!Place],
                 content: [Roles -> [Probe!Place -> Probe!Content]]]
    /\ kernel \in [Roles -> Probe!Place] /\ snapshot \in [Roles -> Probe!Place]
    /\ fd \in [seq: Nat, place: Probe!Place]
    /\ found \in [Roles -> Probe!Content] /\ twin \in BOOLEAN
    /\ truth \in [Roles -> [seq: Nat, place: Probe!Place, twin: BOOLEAN]]

\* What the probe owes for a role it is done with.
Sound(r) ==
    /\ truth[r].seq = Probe!Expected /\ truth[r].place = snapshot[r]
    /\ Probe!Class(found[r]) \in Probe!Allowed[r]
    /\ ask.admission => found[r] # "btrfs, many devices"
    /\ ask.admission /\ ask.keeps /\ r = "esp" => found[r] = "fat" /\ ~truth[r].twin

\* The inductive invariant of the probe: every role that is done is sound; between the
\* description of the open descriptor and its closing, that descriptor reads the partition of
\* the plan, whose content nobody else can change; and once the signature is taken, content
\* and finding are the same as long as the disk is.
ProbeInv ==
    /\ ProbeTypes
    /\ todo \subseteq ask.roles
    /\ at \in Looking \cup {"start", "again", "eligible", "refused"}
    /\ at = "start" => todo = ask.roles
    /\ at \in Looking => todo # {}
    /\ at \in {"again", "eligible"} => todo = {}
    /\ at \in Looking \cup {"again", "eligible"} => \A r \in ask.roles \ todo : Sound(r)
    /\ fd.seq <= disk.seq
    /\ at \in {"signature", "health", "close"} =>
          fd.seq = Probe!Expected /\ fd.place = snapshot[Probe!Role]
    /\ at = "health" =>
          /\ truth[Probe!Role].seq = fd.seq /\ truth[Probe!Role].place = fd.place
          /\ Probe!Class(found[Probe!Role]) \in Probe!Allowed[Probe!Role]
          /\ fd.seq = disk.seq => Probe!Seen = found[Probe!Role]
    /\ at = "close" => Sound(Probe!Role)

\* While roles are left, the next one is one of them.
LEMMA RoleIsOne ==
    ASSUME todo \subseteq Roles, todo # {}
    PROVE  Probe!Role \in todo /\ Probe!Role \in Roles
<1>1. \E r \in todo : todo = {"esp", "root"} => r = "esp"
  <2>1. CASE todo = {"esp", "root"}  BY <2>1
  <2>2. CASE todo # {"esp", "root"}  BY <2>2
  <2> QED BY <2>1, <2>2
<1>2. Probe!Role \in todo  BY <1>1 DEF Probe!Role
<1> QED BY <1>2

\* The worker starts with nothing looked into.
LEMMA ChooseProbe == Choose => ProbeInv
<1> SUFFICES ASSUME Choose PROVE ProbeInv  OBVIOUS
<1>1. Probe!Init  BY DEF Choose
<1>2. /\ ask \in [roles: SUBSET Roles, keeps: BOOLEAN, admission: BOOLEAN]
      /\ todo = ask.roles /\ at = "start" /\ fd = Probe!None
      /\ kernel = disk.row /\ snapshot = disk.row /\ twin \in BOOLEAN
      /\ found = [r \in Roles |-> "ntfs"]
      /\ truth = [r \in Roles |-> [seq |-> 0, place |-> "a", twin |-> FALSE]]
  BY <1>1 DEF Probe!Init, Roles
<1>3. PICK content \in [Roles -> Probe!Content] :
          disk = [seq |-> Probe!Expected, row |-> [r \in Roles |-> "a"],
                  content |-> [r \in Roles |-> [p \in Probe!Place |->
                                 IF p = "a" THEN content[r] ELSE "ntfs"]]]
  BY <1>1 DEF Probe!Init, Roles
<1>4. "a" \in Probe!Place /\ "ntfs" \in Probe!Content /\ Probe!Expected = 1
  BY DEF Probe!Place, Probe!Content, Probe!Expected
<1>5. disk \in [seq: Nat, row: [Roles -> Probe!Place],
                content: [Roles -> [Probe!Place -> Probe!Content]]]
  BY <1>3, <1>4
<1>6. fd = [seq |-> 0, place |-> "a"]  BY <1>2 DEF Probe!None
<1>7. ProbeTypes  BY <1>2, <1>4, <1>5, <1>6 DEF ProbeTypes
<1>8. fd.seq <= disk.seq  BY <1>3, <1>4, <1>6
<1> QED BY <1>2, <1>7, <1>8 DEF ProbeInv, Looking

\* The role is a matter of the roles that are left.
LEMMA RoleStays == todo' = todo => Probe!Role' = Probe!Role
BY DEF Probe!Role

\* The steps of the worker keep the invariant.
LEMMA JobStep ==
    ASSUME ProbeInv,
           \/ Probe!ReadTable \/ Probe!Describe \/ Probe!Open \/ Probe!Bind
           \/ Probe!Signature \/ Probe!Health \/ Probe!Close \/ Probe!ReadAgain
    PROVE  ProbeInv'
<1> DEFINE r == Probe!Role
<1>0. /\ ProbeTypes /\ todo \subseteq Roles
      /\ todo # {} => r \in todo /\ r \in Roles
  BY RoleIsOne DEF ProbeInv, ProbeTypes
<1>1. todo' = todo => r' = r  BY RoleStays
<1>s. ASSUME NEW x \in Roles, UNCHANGED <<ask, snapshot>>,
             truth'[x] = truth[x], found'[x] = found[x]
      PROVE  Sound(x)' <=> Sound(x)
  BY <1>s DEF Sound, Probe!Class, Probe!Allowed, Probe!Expected
<1>2. CASE Probe!ReadTable
  <2>1. /\ at = "start" /\ snapshot' = disk.row /\ at' \in {"again", "describe"}
        /\ at' = IF todo = {} THEN "again" ELSE "describe"
        /\ UNCHANGED <<todo, fd, found, truth, ask, disk, kernel, twin, mounted>>
    BY <1>2 DEF Probe!ReadTable, Probe!world
  <2>2. ProbeTypes'  BY <1>0, <2>1 DEF ProbeTypes
  <2>3. todo' = ask'.roles  BY <2>1 DEF ProbeInv
  <2> QED BY <2>1, <2>2, <2>3 DEF ProbeInv, Looking
<1>3. CASE Probe!Describe
  <2>1. /\ at = "describe" /\ at' = "open"
        /\ UNCHANGED <<todo, snapshot, fd, found, truth, ask, disk, kernel, twin, mounted>>
    BY <1>3 DEF Probe!Describe, Probe!world
  <2>2. ProbeTypes'  BY <1>0, <2>1 DEF ProbeTypes
  <2>3. \A x \in ask.roles \ todo : Sound(x)'  BY <1>0, <1>s, <2>1 DEF ProbeInv, ProbeTypes, Looking
  <2> QED BY <2>1, <2>2, <2>3 DEF ProbeInv, Looking
<1>4. CASE Probe!Open
  <2>1. /\ at = "open" /\ at' = "bind" /\ fd' = [seq |-> disk.seq, place |-> kernel[r]]
        /\ UNCHANGED <<todo, snapshot, found, truth, ask, disk, kernel, twin, mounted>>
    BY <1>4 DEF Probe!Open, Probe!world
  <2>2. todo # {}  BY <2>1 DEF ProbeInv, Looking
  <2>3. disk.seq \in Nat /\ kernel[r] \in Probe!Place  BY <1>0, <2>2 DEF ProbeTypes
  <2>4. fd'.seq = disk.seq /\ fd' \in [seq: Nat, place: Probe!Place]  BY <2>1, <2>3
  <2>5. ProbeTypes'  BY <1>0, <2>1, <2>4 DEF ProbeTypes
  <2>6. \A x \in ask.roles \ todo : Sound(x)'  BY <1>0, <1>s, <2>1 DEF ProbeInv, ProbeTypes, Looking
  <2>7. fd'.seq <= disk'.seq  BY <2>1, <2>3, <2>4
  <2> QED BY <2>1, <2>5, <2>6, <2>7 DEF ProbeInv, Looking
<1>5. CASE Probe!Bind
  <2>1. /\ at = "bind" /\ at' = "signature" /\ fd.seq = Probe!Expected /\ fd.place = snapshot[r]
        /\ UNCHANGED <<todo, snapshot, fd, found, truth, ask, disk, kernel, twin, mounted>>
    BY <1>5 DEF Probe!Bind, Probe!world, Probe!Described
  <2>2. ProbeTypes'  BY <1>0, <2>1 DEF ProbeTypes
  <2>3. \A x \in ask.roles \ todo : Sound(x)'  BY <1>0, <1>s, <2>1 DEF ProbeInv, ProbeTypes, Looking
  <2>4. fd'.seq = Probe!Expected /\ fd'.place = snapshot'[r']  BY <1>1, <2>1
  <2> QED BY <2>1, <2>2, <2>3, <2>4 DEF ProbeInv, Looking, Probe!Expected
<1>6. CASE Probe!Signature
  <2> DEFINE seen == Probe!Seen
  <2>1. /\ at = "signature" /\ at' = "health" /\ fd.seq = disk.seq
        /\ Probe!Class(seen) \in Probe!Allowed[r]
        /\ found' = [found EXCEPT ![r] = seen]
        /\ truth' = [truth EXCEPT ![r] = [seq |-> fd.seq, place |-> fd.place, twin |-> twin]]
        /\ UNCHANGED <<todo, snapshot, fd, ask, disk, kernel, twin, mounted>>
    BY <1>6 DEF Probe!Signature, Probe!world
  <2>2. r \in todo /\ r \in Roles  BY <1>0, <2>1 DEF ProbeInv, Looking
  <2>3. seen \in Probe!Content  BY <1>0, <2>2 DEF ProbeTypes, Probe!Seen
  <2>4. Probe!Seen' = seen  BY <1>1, <2>1 DEF Probe!Seen
  <2> HIDE DEF seen
  <2>5. [seq |-> fd.seq, place |-> fd.place, twin |-> twin]
           \in [seq: Nat, place: Probe!Place, twin: BOOLEAN]
    BY <1>0 DEF ProbeTypes
  <2>6. ProbeTypes'  BY <1>0, <2>1, <2>3, <2>5 DEF ProbeTypes
  <2>7. found'[r] = seen /\ truth'[r] = [seq |-> fd.seq, place |-> fd.place, twin |-> twin]
    BY <1>0, <2>1, <2>2 DEF ProbeTypes
  <2>8. \A x \in ask.roles \ todo : Sound(x)'
    <3>1. \A x \in Roles : x # r => found'[x] = found[x] /\ truth'[x] = truth[x]
      BY <1>0, <2>1 DEF ProbeTypes
    <3> QED BY <1>0, <1>s, <2>1, <2>2, <3>1 DEF ProbeInv, ProbeTypes, Looking
  <2>9. fd'.seq = Probe!Expected /\ fd'.place = snapshot'[r']  BY <1>1, <2>1 DEF ProbeInv
  <2>10. /\ truth'[r'].seq = fd'.seq /\ truth'[r'].place = fd'.place
         /\ Probe!Class(found'[r']) \in Probe!Allowed[r']
         /\ Probe!Seen' = found'[r']
    BY <1>1, <2>1, <2>4, <2>7
  <2>11. fd'.seq <= disk'.seq  BY <2>1 DEF ProbeInv
  <2>12. /\ todo' \subseteq ask'.roles /\ todo' # {}  BY <2>1, <2>2 DEF ProbeInv
  <2>13. at' = "health" => /\ truth'[Probe!Role'].seq = fd'.seq
                           /\ truth'[Probe!Role'].place = fd'.place
                           /\ Probe!Class(found[Probe!Role])' \in Probe!Allowed[Probe!Role]'
                           /\ (fd.seq = disk.seq => Probe!Seen = found[Probe!Role])'
    BY <2>10 DEF Probe!Class, Probe!Allowed
  <2> HIDE DEF r
  <2> QED BY <2>1, <2>6, <2>8, <2>9, <2>11, <2>12, <2>13 DEF ProbeInv, Looking, r
<1>7. CASE Probe!Health
  <2> DEFINE seen == Probe!Seen
  <2>1. /\ at = "health" /\ at' = "close" /\ fd.seq = disk.seq /\ Probe!Healthy
        /\ found' = [found EXCEPT ![r] = seen]
        /\ truth' = [truth EXCEPT ![r].twin = twin]
        /\ UNCHANGED <<todo, snapshot, fd, ask, disk, kernel, twin, mounted>>
    BY <1>7 DEF Probe!Health, Probe!world
  <2>2. r \in todo /\ r \in Roles  BY <1>0, <2>1 DEF ProbeInv, Looking
  <2>3. seen \in Probe!Content  BY <1>0, <2>2 DEF ProbeTypes, Probe!Seen
  <2>4. seen = found[r] /\ Probe!Class(seen) \in Probe!Allowed[r]
    BY <2>1 DEF ProbeInv
  <2>5. ask.admission => /\ r = "esp" /\ ask.keeps => seen = "fat" /\ ~twin
                         /\ Probe!Class(found[r]) = "btrfs" => seen = "btrfs"
    BY <2>1 DEF Probe!Healthy
  <2>6. ask.admission => seen # "btrfs, many devices"
    BY <2>4, <2>5 DEF Probe!Class
  <2> HIDE DEF seen
  <2>7. ProbeTypes'
    <3>1. found' \in [Roles -> Probe!Content]  BY <1>0, <2>1, <2>2, <2>3 DEF ProbeTypes
    <3>2. truth' \in [Roles -> [seq: Nat, place: Probe!Place, twin: BOOLEAN]]
      <4>1. truth[r] \in [seq: Nat, place: Probe!Place, twin: BOOLEAN] /\ twin \in BOOLEAN
        BY <1>0, <2>2 DEF ProbeTypes
      <4>2. [truth[r] EXCEPT !.twin = twin] \in [seq: Nat, place: Probe!Place, twin: BOOLEAN]
        BY <4>1
      <4>3. truth' = [truth EXCEPT ![r] = [truth[r] EXCEPT !.twin = twin]]  BY <2>1
      <4> QED BY <1>0, <2>2, <4>2, <4>3 DEF ProbeTypes
    <3> QED BY <1>0, <2>1, <3>1, <3>2 DEF ProbeTypes
  <2>8. /\ found'[r] = seen /\ truth'[r].seq = truth[r].seq /\ truth'[r].place = truth[r].place
        /\ truth'[r].twin = twin
    BY <1>0, <2>1, <2>2 DEF ProbeTypes
  <2>9. \A x \in ask.roles \ todo : Sound(x)'
    <3>1. \A x \in Roles : x # r => found'[x] = found[x] /\ truth'[x] = truth[x]
      BY <1>0, <2>1 DEF ProbeTypes
    <3> QED BY <1>0, <1>s, <2>1, <2>2, <3>1 DEF ProbeInv, ProbeTypes, Looking
  <2>10. fd'.seq = Probe!Expected /\ fd'.place = snapshot'[r']  BY <1>1, <2>1 DEF ProbeInv
  <2>11. truth[r].seq = Probe!Expected /\ truth[r].place = snapshot[r]
    BY <2>1 DEF ProbeInv
  <2>12. Sound(Probe!Role)'
    BY <1>1, <2>1, <2>4, <2>5, <2>6, <2>8, <2>11
       DEF Sound, Probe!Class, Probe!Allowed, Probe!Expected
  <2>13. /\ todo' \subseteq ask'.roles /\ todo' # {}  BY <2>1, <2>2 DEF ProbeInv
  <2>14. fd'.seq <= disk'.seq  BY <2>1 DEF ProbeInv
  <2> QED BY <2>1, <2>7, <2>9, <2>10, <2>12, <2>13, <2>14 DEF ProbeInv, Looking
<1>8. CASE Probe!Close
  <2>1. /\ at = "close" /\ fd' = Probe!None /\ todo' = todo \ {r}
        /\ at' = IF todo' = {} THEN "again" ELSE "describe"
        /\ UNCHANGED <<snapshot, found, truth, ask, disk, kernel, twin, mounted>>
    BY <1>8 DEF Probe!Close, Probe!world
  <2>2. fd' = [seq |-> 0, place |-> "a"] /\ "a" \in Probe!Place  BY <2>1 DEF Probe!None, Probe!Place
  <2>3. ProbeTypes'  BY <1>0, <2>1, <2>2 DEF ProbeTypes
  <2>4. Sound(r)  BY <2>1 DEF ProbeInv
  <2>5. \A x \in ask.roles \ todo : Sound(x)  BY <2>1 DEF ProbeInv, Looking
  <2> HIDE DEF r
  <2>6. \A x \in ask.roles \ todo' : Sound(x)  BY <2>1, <2>4, <2>5
  <2>7. \A x \in ask'.roles \ todo' : Sound(x)'  BY <1>0, <1>s, <2>1, <2>6 DEF ProbeTypes
  <2>8. fd'.seq <= disk'.seq  BY <1>0, <2>1, <2>2 DEF ProbeTypes
  <2>9. todo' \subseteq ask'.roles  BY <2>1 DEF ProbeInv
  <2> QED BY <2>1, <2>3, <2>7, <2>8, <2>9 DEF ProbeInv, Looking
<1>9. CASE Probe!ReadAgain
  <2>1. /\ at = "again" /\ at' = "eligible"
        /\ UNCHANGED <<todo, snapshot, fd, found, truth, ask, disk, kernel, twin, mounted>>
    BY <1>9 DEF Probe!ReadAgain, Probe!world
  <2>2. ProbeTypes'  BY <1>0, <2>1 DEF ProbeTypes
  <2>3. \A x \in ask.roles \ todo : Sound(x)'  BY <1>0, <1>s, <2>1 DEF ProbeInv, ProbeTypes, Looking
  <2> QED BY <2>1, <2>2, <2>3 DEF ProbeInv, Looking
<1> QED BY <1>2, <1>3, <1>4, <1>5, <1>6, <1>7, <1>8, <1>9

\* So does a step of another program that keeps the content under an open descriptor.
LEMMA WorldStep ==
    ASSUME ProbeInv, UNCHANGED <<ask, todo, at, snapshot, fd, found, truth>>,
           ProbeTypes', fd.seq <= disk'.seq,
           at = "health" /\ fd.seq = disk'.seq => fd.seq = disk.seq /\ Probe!Seen' = Probe!Seen
    PROVE  ProbeInv'
<1>1. Probe!Role' = Probe!Role  BY RoleStays
<1>2. \A r \in Roles : Sound(r)' <=> Sound(r)
  BY DEF Sound, Probe!Class, Probe!Allowed, Probe!Expected
<1>3. at' \in Looking \cup {"again", "eligible"} => \A r \in ask'.roles \ todo' : Sound(r)'
  BY <1>2 DEF ProbeInv, ProbeTypes
<1>4. at' = "close" => Sound(Probe!Role)'
  <2>1. at' = "close" => Sound(Probe!Role)  BY DEF ProbeInv
  <2> QED BY <1>1, <2>1 DEF Sound, Probe!Class, Probe!Allowed, Probe!Expected
<1>5. at' = "health" => (fd.seq = disk.seq => Probe!Seen = found[Probe!Role])'
  BY <1>1 DEF ProbeInv
<1>6. at' = "health" => /\ truth'[Probe!Role'].seq = fd'.seq
                        /\ truth'[Probe!Role'].place = fd'.place
                        /\ Probe!Class(found[Probe!Role])' \in Probe!Allowed[Probe!Role]'
  BY <1>1 DEF ProbeInv, Probe!Class, Probe!Allowed
<1>7. at' \in {"signature", "health", "close"} =>
          fd'.seq = Probe!Expected /\ fd'.place = snapshot'[Probe!Role']
  BY <1>1 DEF ProbeInv
<1>8. /\ todo' \subseteq ask'.roles
      /\ at' \in Looking \cup {"start", "again", "eligible", "refused"}
      /\ at' = "start" => todo' = ask'.roles
      /\ at' \in Looking => todo' # {}
      /\ at' \in {"again", "eligible"} => todo' = {}
      /\ fd'.seq <= disk'.seq
  BY DEF ProbeInv
<1> QED BY <1>3, <1>4, <1>5, <1>6, <1>7, <1>8 DEF ProbeInv, Probe!Expected

\* The steps of other programs do: a new disk has a new sequence number, and what is open
\* exclusively is not formatted.
LEMMA OthersStep ==
    ASSUME ProbeInv,
           \/ Probe!Repartition \/ Probe!Reread \/ Probe!Format \/ Probe!Mount
           \/ Probe!Replace \/ Probe!PlugTwin
    PROVE  ProbeInv'
<1>0. /\ ProbeTypes /\ fd.seq <= disk.seq /\ disk.seq \in Nat /\ fd.seq \in Nat
      /\ at = "health" => Probe!Role \in Roles /\ todo # {}
  BY RoleIsOne DEF ProbeInv, ProbeTypes, Looking
<1>j. Probe!job' = Probe!job => UNCHANGED <<ask, todo, at, snapshot, fd, found, truth>>
  BY DEF Probe!job
<1>1. CASE Probe!Repartition
  <2>1. PICK r \in Roles, p \in Probe!Place : disk' = [disk EXCEPT !.row[r] = p]
    BY <1>1 DEF Probe!Repartition, Roles
  <2>2. /\ UNCHANGED <<kernel, twin, mounted>>
        /\ UNCHANGED <<ask, todo, at, snapshot, fd, found, truth>>
    BY <1>1, <1>j DEF Probe!Repartition
  <2>3. disk'.seq = disk.seq /\ disk'.content = disk.content
    BY <1>0, <2>1 DEF ProbeTypes
  <2>4. ProbeTypes'  BY <1>0, <2>1, <2>2 DEF ProbeTypes
  <2>5. Probe!Seen' = Probe!Seen  BY <2>2, <2>3, RoleStays DEF Probe!Seen
  <2> QED BY <1>0, <2>2, <2>3, <2>4, <2>5, WorldStep
<1>2. CASE Probe!Reread
  <2>1. UNCHANGED <<disk, twin, mounted>> /\ UNCHANGED <<ask, todo, at, snapshot, fd, found, truth>>
    BY <1>2, <1>j DEF Probe!Reread
  <2>2. kernel' \in [Roles -> Probe!Place]
    BY <1>0, <1>2 DEF ProbeTypes, Probe!Reread, Roles
  <2>3. ProbeTypes'  BY <1>0, <2>1, <2>2 DEF ProbeTypes
  <2>4. Probe!Seen' = Probe!Seen  BY <2>1, RoleStays DEF Probe!Seen
  <2> QED BY <1>0, <2>1, <2>3, <2>4, WorldStep
<1>3. CASE Probe!Format
  <2>1. PICK r \in Roles, c \in Probe!Content :
           ~Probe!InUse(r) /\ disk' = [disk EXCEPT !.content[r][kernel[r]] = c]
    BY <1>3 DEF Probe!Format, Roles
  <2>2. /\ UNCHANGED <<kernel, twin, mounted>>
        /\ UNCHANGED <<ask, todo, at, snapshot, fd, found, truth>>
    BY <1>3, <1>j DEF Probe!Format
  <2>3. disk'.seq = disk.seq /\ \A x \in Roles : x # r => disk'.content[x] = disk.content[x]
    BY <1>0, <2>1 DEF ProbeTypes
  <2>4. ProbeTypes'  BY <1>0, <2>1, <2>2 DEF ProbeTypes
  <2>5. at = "health" /\ fd.seq = disk'.seq => fd.seq = disk.seq /\ Probe!Seen' = Probe!Seen
    <3> SUFFICES ASSUME at = "health", fd.seq = disk.seq PROVE Probe!Seen' = Probe!Seen
      BY <2>3
    <3>1. r # Probe!Role  BY <1>0, <2>1 DEF Probe!InUse
    <3>2. Probe!Role' = Probe!Role  BY <2>2, RoleStays
    <3>3. disk'.content[Probe!Role] = disk.content[Probe!Role]  BY <1>0, <2>3, <3>1
    <3> QED BY <2>2, <3>2, <3>3 DEF Probe!Seen
  <2> QED BY <1>0, <2>2, <2>3, <2>4, <2>5, WorldStep
<1>4. CASE Probe!Mount
  <2>1. UNCHANGED <<disk, kernel, twin>> /\ UNCHANGED <<ask, todo, at, snapshot, fd, found, truth>>
    BY <1>4, <1>j DEF Probe!Mount
  <2>2. ProbeTypes'  BY <1>0, <2>1 DEF ProbeTypes
  <2>3. Probe!Seen' = Probe!Seen  BY <2>1, RoleStays DEF Probe!Seen
  <2> QED BY <1>0, <2>1, <2>2, <2>3, WorldStep
<1>5. CASE Probe!Replace
  <2>1. PICK c \in Probe!Content :
          disk' = [seq |-> disk.seq + 1, row |-> disk.row,
                   content |-> [r \in Roles |-> [p \in Probe!Place |-> c]]]
    BY <1>5 DEF Probe!Replace, Roles
  <2>2. /\ kernel' = disk.row /\ twin' = twin
        /\ UNCHANGED <<ask, todo, at, snapshot, fd, found, truth>>
    BY <1>5, <1>j DEF Probe!Replace
  <2>3. disk'.seq = disk.seq + 1  BY <2>1
  <2>4. fd.seq < disk'.seq  BY <1>0, <2>3
  <2>5. disk' \in [seq: Nat, row: [Roles -> Probe!Place],
                   content: [Roles -> [Probe!Place -> Probe!Content]]]
    BY <1>0, <2>1 DEF ProbeTypes
  <2>6. ProbeTypes'  BY <1>0, <2>2, <2>5 DEF ProbeTypes
  <2>7. fd.seq <= disk'.seq /\ fd.seq # disk'.seq  BY <1>0, <2>3, <2>4
  <2> QED BY <2>2, <2>6, <2>7, WorldStep
<1>6. CASE Probe!PlugTwin
  <2>1. /\ twin' = ~twin /\ UNCHANGED <<disk, kernel, mounted>>
        /\ UNCHANGED <<ask, todo, at, snapshot, fd, found, truth>>
    BY <1>6, <1>j DEF Probe!PlugTwin
  <2>2. twin' \in BOOLEAN  BY <2>1
  <2>3. ProbeTypes'  BY <1>0, <2>1, <2>2 DEF ProbeTypes
  <2>4. Probe!Seen' = Probe!Seen  BY <2>1, RoleStays DEF Probe!Seen
  <2> QED BY <1>0, <2>1, <2>3, <2>4, WorldStep
<1> QED BY <1>1, <1>2, <1>3, <1>4, <1>5, <1>6

\* A refusal owes nothing.
LEMMA RefuseStep == ProbeInv /\ Probe!Refuse => ProbeInv'
<1> SUFFICES ASSUME ProbeInv, Probe!Refuse PROVE ProbeInv'  OBVIOUS
<1>1. /\ at' = "refused" /\ fd' = Probe!None
      /\ UNCHANGED <<todo, snapshot, found, truth, ask, disk, kernel, twin, mounted>>
  BY DEF Probe!Refuse, Probe!world
<1>2. fd' = [seq |-> 0, place |-> "a"] /\ "a" \in Probe!Place
  BY <1>1 DEF Probe!None, Probe!Place
<1>3. ProbeTypes'  BY <1>1, <1>2 DEF ProbeInv, ProbeTypes
<1>4. fd'.seq <= disk'.seq  BY <1>1, <1>2 DEF ProbeInv, ProbeTypes
<1>5. todo' \subseteq ask'.roles  BY <1>1 DEF ProbeInv
<1> QED BY <1>1, <1>3, <1>4, <1>5 DEF ProbeInv, Looking

\* The budget does not touch the probe.
LEMMA SameProbe == ProbeInv /\ UNCHANGED probeVars => ProbeInv'
<1> SUFFICES ASSUME ProbeInv, UNCHANGED probeVars PROVE ProbeInv'  OBVIOUS
<1>1. UNCHANGED <<ask, disk, kernel, twin, mounted, todo, at, snapshot, fd, found, truth>>
  BY DEF probeVars
<1>2. ProbeTypes'  BY <1>1 DEF ProbeInv, ProbeTypes
<1>3. Probe!Seen' = Probe!Seen  BY <1>1, RoleStays DEF Probe!Seen
<1> QED BY <1>1, <1>2, <1>3, WorldStep DEF ProbeInv

\* Every step of the worker process keeps the invariant.
LEMMA WorkerStep == ProbeInv /\ [Layout \/ Budget]_workerVars => ProbeInv'
<1> SUFFICES ASSUME ProbeInv, [Layout \/ Budget]_workerVars PROVE ProbeInv'  OBVIOUS
<1>1. CASE Layout
  <2>1. Probe!Next  BY <1>1 DEF Layout
  <2> QED BY <2>1, JobStep, RefuseStep, OthersStep DEF Probe!Next
<1>2. CASE Budget  BY <1>2, SameProbe DEF Budget
<1>3. CASE UNCHANGED workerVars  BY <1>3, SameProbe DEF workerVars
<1> QED BY <1>1, <1>2, <1>3

\* Partitions are called eligible only for what lies in them, on the disk and at the place of
\* the plan, whatever number of changes other programs make meanwhile (inspect_manual and
\* partition_descriptor in ro_installer_manual.py).
THEOREM OnlyThePlansPartitions == Worker => []EligibleIsThePlans
<1>1. Choose => ProbeInv  BY ChooseProbe
<1>2. ProbeInv /\ [Layout \/ Budget]_workerVars => ProbeInv'  BY WorkerStep
<1>3. ProbeInv => EligibleIsThePlans
  BY DEF ProbeInv, Sound, EligibleIsThePlans, Probe!EligibleIsThePlans
<1> QED BY <1>1, <1>2, <1>3, PTL DEF Worker

\* A worker does one of its two jobs: seen from either, the process is that job.
LEMMA PartsOfTheWorker == Worker => Spec /\ Probe!Spec
<1>1. Choose => Init /\ Probe!Init  BY DEF Choose
<1>2. [Layout \/ Budget]_workerVars => [Next]_vars /\ [Probe!Next]_(Probe!vars)
  <2> SUFFICES ASSUME [Layout \/ Budget]_workerVars
               PROVE  [Next]_vars /\ [Probe!Next]_(Probe!vars)
    OBVIOUS
  <2>1. CASE Layout  BY <2>1 DEF Layout
  <2>2. CASE Budget  BY <2>2 DEF Budget, probeVars, Probe!vars
  <2>3. CASE UNCHANGED workerVars  BY <2>3 DEF workerVars, probeVars, Probe!vars
  <2> QED BY <2>1, <2>2, <2>3
<1> QED BY <1>1, <1>2, PTL DEF Worker, Spec, Probe!Spec

\* So an ESP the worker calls sufficient takes the whole copy.
THEOREM CopyFits == Worker => []SufficientFits
BY PartsOfTheWorker, BudgetSuffices, PTL
=============================================================================
