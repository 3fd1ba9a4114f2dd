-------------------------- MODULE ObservationProofs --------------------------
(***************************************************************************)
(* Proofs about what observes an installation: the store that its session  *)
(* records live in, the record of one session, and the client that drives  *)
(* the guest of the QEMU tests.                                            *)
(***************************************************************************)
EXTENDS RecordStore, SessionRecords, GuestAgent, SequenceTheorems, FiniteSetTheorems,
        WellFoundedInduction, TLAPS

-----------------------------------------------------------------------------
(* The inductive invariant.                                                *)

Live == {s \in Session : state[s] = "live"}
\* Directories a start has done with.
Scanned == Present \ (unread \cup {scan.in})
\* The space of some sessions' files f.
BlocksOf(f, s) == UNION {{<<s, m>>} \X (1..f[s][m]) : m \in Member}
Weight(f, T) == Cardinality(UNION {BlocksOf(f, s) : s \in T})
FilesSize(f, s) == f[s]["events"] + f[s]["summary"] + f[s]["temp"]

\* The types.
StoreTyped ==
    /\ leased \in BOOLEAN
    /\ state \in [Session -> {"absent", "live", "closed", "refused"}]
    /\ files \in [Session -> [Member -> Nat]]
    /\ starter \in Session \cup {None} /\ unread \subseteq Session
    /\ scan \in [in : Session \cup {None}, left : SUBSET Member, locking : BOOLEAN,
                 size : Nat, active : BOOLEAN]
    /\ used \in Nat

\* Where a start is: it looks only into directories that are there, and nobody else starts.
ScanInv ==
    /\ IsFiniteSet(Present) /\ unread \subseteq Present
    /\ scan.in = None => scan = Idle
    /\ scan.in # None => starter # None /\ scan.in \in Present \ unread
    /\ starter = None => unread = {}
    /\ starter # None => state[starter] = "absent"

\* There is room for one more session whenever a start stands between two directories.
RoomInv ==
    /\ Cardinality(Present) <= MaxSessions
    /\ starter # None /\ scan.in = None => Cardinality(Present \ unread) < MaxSessions

\* A start has reserved the worst case for each session that it found alive and that still is:
\* a journal whose lock was free stays free.
LiveInv ==
    /\ starter # None => Cardinality(Live \cap Scanned) * Reservation <= used
    /\ Cardinality(Live) * Reservation <= StoreBytes
    /\ scan.in # None /\ "events" \notin scan.left /\ ~scan.locking /\ ~scan.active =>
          state[scan.in] # "live"

\* No session writes more than its limits.
FileInv ==
    \A s \in Session :
        /\ files[s]["events"] <= SessionBytes
        /\ files[s]["summary"] <= SummaryBytes /\ files[s]["temp"] <= SummaryBytes
        /\ s \notin Present => files[s] = Empty

\* The size a start has measured in the directory it is in.
Measured ==
    (IF "events" \in scan.left THEN 0 ELSE files[scan.in]["events"])
    + (IF "summary" \in scan.left THEN 0 ELSE files[scan.in]["summary"])
    + (IF "temp" \in scan.left THEN 0 ELSE files[scan.in]["temp"])

\* Under the lease nothing is written while a start measures, so it measures the truth; and
\* beside the one session alive there is room for its worst case.
SumInv ==
    leased =>
        /\ starter # None => Live = {} /\ used = Weight(files, Scanned)
        /\ scan.in # None => ~scan.active /\ scan.size = Measured
        /\ \A s, t \in Live : s = t
        /\ Live = {} => Weight(files, Present) <= StoreBytes
        /\ \A t \in Live : Weight(files, Present \ {t}) + Reservation <= StoreBytes

StoreInv == StoreTyped /\ ScanInv /\ RoomInv /\ LiveInv /\ FileInv /\ SumInv

-----------------------------------------------------------------------------
(* Adding up.                                                              *)

\* More sessions at their worst case take more room.
LEMMA Product ==
    ASSUME NEW a \in Nat, NEW b \in Nat, NEW r \in Nat, a <= b
    PROVE  a * r <= b * r
<1>1. PICK d \in Nat : b = a + d
  <2>1. b - a \in Nat /\ b = a + (b - a)  OBVIOUS
  <2> QED BY <2>1
<1>2. (a + d) * r = a * r + d * r  OBVIOUS
<1>3. d * r \in Nat /\ a * r \in Nat  OBVIOUS
<1> QED BY <1>1, <1>2, <1>3

\* The units of one file.
LEMMA UnitsOfFile ==
    ASSUME NEW x, NEW n \in Nat
    PROVE  IsFiniteSet({x} \X (1..n)) /\ Cardinality({x} \X (1..n)) = n
<1>1. IsFiniteSet({x}) /\ Cardinality({x}) = 1  BY FS_Singleton
<1>2. IsFiniteSet(1..n)  BY FS_Interval
<1>3. Cardinality(1..n) = (IF 1 > n THEN 0 ELSE (n - 1) + 1)  BY FS_Interval
<1>4. Cardinality(1..n) = n  BY <1>3
<1>5. /\ IsFiniteSet({x} \X (1..n))
      /\ Cardinality({x} \X (1..n)) = Cardinality({x}) * Cardinality(1..n)
  BY <1>1, <1>2, FS_Product
<1> QED BY <1>1, <1>4, <1>5

\* Two finite sets without a common element.
LEMMA Disjoint ==
    ASSUME NEW S, NEW T, IsFiniteSet(S), IsFiniteSet(T), S \cap T = {}
    PROVE  IsFiniteSet(S \cup T) /\ Cardinality(S \cup T) = Cardinality(S) + Cardinality(T)
<1>1. Cardinality(S \cup T) = Cardinality(S) + Cardinality(T) - Cardinality(S \cap T)
  BY FS_Union
<1>2. Cardinality(S \cap T) = 0  BY FS_EmptySet
<1>3. Cardinality(S) \in Nat /\ Cardinality(T) \in Nat  BY FS_CardinalityType
<1> QED BY <1>1, <1>2, <1>3, FS_Union

\* The units of one session.
LEMMA UnitsOfSession ==
    ASSUME NEW f, NEW s, f[s] \in [Member -> Nat]
    PROVE  IsFiniteSet(BlocksOf(f, s)) /\ Cardinality(BlocksOf(f, s)) = FilesSize(f, s)
<1> DEFINE E == {<<s, "events">>} \X (1..f[s]["events"])
           S == {<<s, "summary">>} \X (1..f[s]["summary"])
           T == {<<s, "temp">>} \X (1..f[s]["temp"])
<1>1. /\ f[s]["events"] \in Nat /\ f[s]["summary"] \in Nat /\ f[s]["temp"] \in Nat
  BY DEF Member
<1>2. IsFiniteSet(E) /\ Cardinality(E) = f[s]["events"]  BY <1>1, UnitsOfFile
<1>3. IsFiniteSet(S) /\ Cardinality(S) = f[s]["summary"]  BY <1>1, UnitsOfFile
<1>4. IsFiniteSet(T) /\ Cardinality(T) = f[s]["temp"]  BY <1>1, UnitsOfFile
<1>5. BlocksOf(f, s) = (E \cup S) \cup T  BY DEF BlocksOf, Member
<1>6. E \cap S = {} /\ (E \cup S) \cap T = {}  OBVIOUS
<1> HIDE DEF E, S, T
<1>7. IsFiniteSet(E \cup S) /\ Cardinality(E \cup S) = Cardinality(E) + Cardinality(S)
  BY <1>2, <1>3, <1>6, Disjoint
<1>8. /\ IsFiniteSet((E \cup S) \cup T)
      /\ Cardinality((E \cup S) \cup T) = Cardinality(E \cup S) + Cardinality(T)
  BY <1>4, <1>6, <1>7, Disjoint
<1> QED BY <1>2, <1>3, <1>4, <1>5, <1>7, <1>8 DEF FilesSize

\* Finitely many sessions have finitely many units.
LEMMA WeightFinite ==
    ASSUME NEW f, NEW T, IsFiniteSet(T), \A s \in T : f[s] \in [Member -> Nat]
    PROVE  IsFiniteSet(UNION {BlocksOf(f, s) : s \in T}) /\ Weight(f, T) \in Nat
<1> DEFINE U == {BlocksOf(f, s) : s \in T}
           g == [s \in T |-> BlocksOf(f, s)]
<1>1. g \in Surjection(T, U)  BY DEF Surjection
<1>2. IsFiniteSet(U)  BY <1>1, FS_Surjection
<1>3. \A u \in U : IsFiniteSet(u)  BY UnitsOfSession
<1>4. IsFiniteSet(UNION U)  BY <1>2, <1>3, FS_UNION
<1> QED BY <1>4, FS_CardinalityType DEF Weight

\* Nothing weighs nothing.
LEMMA WeightEmpty == ASSUME NEW f PROVE Weight(f, {}) = 0
<1>1. UNION {BlocksOf(f, s) : s \in {}} = {}  OBVIOUS
<1> QED BY <1>1, FS_EmptySet DEF Weight

\* One session more.
LEMMA WeightAdd ==
    ASSUME NEW f, NEW T, IsFiniteSet(T), NEW t, t \notin T,
           \A s \in T \cup {t} : f[s] \in [Member -> Nat]
    PROVE  Weight(f, T \cup {t}) = Weight(f, T) + FilesSize(f, t)
<1> DEFINE A == UNION {BlocksOf(f, s) : s \in T}
           B == BlocksOf(f, t)
<1>1. UNION {BlocksOf(f, s) : s \in T \cup {t}} = A \cup B  OBVIOUS
<1>2. A \cap B = {}
  <2>1. \A s, b : b \in BlocksOf(f, s) => b[1][1] = s  BY DEF BlocksOf
  <2> QED BY <2>1
<1>3. IsFiniteSet(A)  BY WeightFinite
<1>4. IsFiniteSet(B) /\ Cardinality(B) = FilesSize(f, t)  BY UnitsOfSession
<1> HIDE DEF A, B
<1>5. Cardinality(A \cup B) = Cardinality(A) + Cardinality(B)  BY <1>2, <1>3, <1>4, Disjoint
<1> QED BY <1>1, <1>4, <1>5 DEF Weight, A

\* Only the files of the sessions counted matter.
LEMMA WeightSame ==
    ASSUME NEW f, NEW g, NEW T, \A s \in T : f[s] = g[s]
    PROVE  Weight(f, T) = Weight(g, T)
<1>1. \A s \in T : BlocksOf(f, s) = BlocksOf(g, s)  BY DEF BlocksOf
<1>2. {BlocksOf(f, s) : s \in T} = {BlocksOf(g, s) : s \in T}  BY <1>1
<1> QED BY <1>2 DEF Weight

-----------------------------------------------------------------------------
(* What the invariant is for.                                              *)

\* The worst case is a number, and a session that keeps its limits stays below it.
LEMMA WorstCase ==
    /\ Reservation \in Nat
    /\ StoreTyped /\ FileInv =>
          \A s \in Session : FilesSize(files, s) \in Nat /\ FilesSize(files, s) <= Reservation
<1>1. SessionBytes \in Nat /\ SummaryBytes \in Nat  BY StoreAssumption
<1>2. ASSUME StoreTyped, FileInv, NEW s \in Session
      PROVE  FilesSize(files, s) \in Nat /\ FilesSize(files, s) <= Reservation
  <2>1. /\ files[s]["events"] \in Nat /\ files[s]["summary"] \in Nat
        /\ files[s]["temp"] \in Nat
    BY <1>2 DEF StoreTyped, Member
  <2>2. /\ files[s]["events"] <= SessionBytes /\ files[s]["summary"] <= SummaryBytes
        /\ files[s]["temp"] <= SummaryBytes
    BY <1>2 DEF FileInv
  <2> QED BY <1>1, <2>1, <2>2 DEF FilesSize, Reservation
<1> QED BY <1>1, <1>2 DEF Reservation

\* The one session alive and the rest.
LEMMA OneAlive ==
    ASSUME StoreInv, leased, NEW t \in Live
    PROVE  Weight(files, Present) <= StoreBytes
<1>1. t \in Present /\ t \in Session /\ Present \subseteq Session  BY DEF Live, Present
<1>2. IsFiniteSet(Present \ {t})  BY FS_RemoveElement DEF StoreInv, ScanInv
<1>3. \A s \in Session : files[s] \in [Member -> Nat]  BY DEF StoreInv, StoreTyped
<1>4. (Present \ {t}) \cup {t} = Present  BY <1>1
<1>5. \A s \in (Present \ {t}) \cup {t} : files[s] \in [Member -> Nat]  BY <1>1, <1>3
<1>6. t \notin Present \ {t}  OBVIOUS
<1>7. Weight(files, (Present \ {t}) \cup {t}) = Weight(files, Present \ {t}) + FilesSize(files, t)
  BY <1>2, <1>5, <1>6, WeightAdd
<1>8. Weight(files, Present \ {t}) \in Nat  BY <1>2, <1>5, WeightFinite
<1>9. Weight(files, Present \ {t}) + Reservation <= StoreBytes  BY DEF StoreInv, SumInv
<1>10. Reservation \in Nat /\ FilesSize(files, t) \in Nat /\ FilesSize(files, t) <= Reservation
  BY <1>1, WorstCase DEF StoreInv
<1>11. StoreBytes \in Nat  BY StoreAssumption
<1>12. Weight(files, Present) = Weight(files, Present \ {t}) + FilesSize(files, t)  BY <1>4, <1>7
<1> QED BY <1>8, <1>9, <1>10, <1>11, <1>12

\* What is stored is what the sessions present have.
LEMMA StoredIsWeight ==
    ASSUME StoreInv
    PROVE  Stored = Weight(files, Present)
<1>1. \A s \in Session : Blocks(s) = BlocksOf(files, s)  BY DEF Blocks, BlocksOf
<1>2. ASSUME NEW s \in Session, s \notin Present PROVE Blocks(s) = {}
  <2>1. files[s] = Empty  BY <1>2 DEF StoreInv, FileInv
  <2>2. \A m \in Member : 1..files[s][m] = {}  BY <2>1 DEF Empty
  <2> QED BY <2>2 DEF Blocks
<1>3. UNION {Blocks(s) : s \in Session} = UNION {BlocksOf(files, s) : s \in Present}
  BY <1>1, <1>2 DEF Present
<1> QED BY <1>3 DEF Stored, Weight

\* The quota.
LEMMA ImpliesQuota == StoreInv => QuotaKept
<1> SUFFICES ASSUME StoreInv, leased PROVE Stored <= StoreBytes  BY DEF QuotaKept, WithinQuota
<1>1. CASE Live = {}
  BY <1>1, StoredIsWeight DEF StoreInv, SumInv
<1>2. CASE Live # {}
  <2>1. PICK t \in Live : TRUE  BY <1>2
  <2> QED BY <2>1, OneAlive, StoredIsWeight
<1> QED BY <1>1, <1>2

\* The reservations.
LEMMA ImpliesReserved == StoreInv => LiveReserved
BY DEF StoreInv, LiveInv, RoomInv, LiveReserved, Live

-----------------------------------------------------------------------------
(* The steps.                                                              *)

\* The start.
LEMMA StoreStarts == StoreInit => StoreInv
<1> SUFFICES ASSUME StoreInit PROVE StoreInv  OBVIOUS
<1>1. /\ \A s \in Session : state[s] = "absent" /\ files[s] = Empty
      /\ starter = None /\ unread = {} /\ scan = Idle /\ used = 0
  BY DEF StoreInit
<1>2. Present = {} /\ Live = {}  BY <1>1 DEF Present, Live
<1>3. IsFiniteSet({}) /\ Cardinality({}) = 0  BY FS_EmptySet
<1>4. /\ MaxSessions \in Nat /\ Reservation \in Nat /\ StoreBytes \in Nat
      /\ SessionBytes \in Nat /\ SummaryBytes \in Nat
  BY WorstCase, StoreAssumption
<1>5. StoreTyped
  <2>1. Empty \in [Member -> Nat]  BY DEF Empty
  <2>2. scan \in [in : Session \cup {None}, left : SUBSET Member, locking : BOOLEAN,
                  size : Nat, active : BOOLEAN]
    BY <1>1 DEF Idle
  <2> QED BY <2>1, <2>2 DEF StoreInit, StoreTyped
<1>6. scan.in = None  BY <1>1 DEF Idle
<1>7. ScanInv  BY <1>1, <1>2, <1>3, <1>6 DEF ScanInv
<1>8. RoomInv  BY <1>1, <1>2, <1>3, <1>4 DEF RoomInv
<1>9. LiveInv  BY <1>1, <1>2, <1>3, <1>4, <1>6 DEF LiveInv
<1>10. FileInv
  <2>1. Empty["events"] = 0 /\ Empty["summary"] = 0 /\ Empty["temp"] = 0  BY DEF Empty, Member
  <2> QED BY <1>1, <1>4, <2>1 DEF FileInv
<1>11. SumInv
  <2>1. Weight(files, {}) = 0  BY WeightEmpty
  <2> QED BY <1>1, <1>2, <1>4, <1>6, <2>1 DEF SumInv
<1> QED BY <1>5, <1>7, <1>8, <1>9, <1>10, <1>11 DEF StoreInv

\* A session that is refused was not there before and is not there after.
LEMMA RefusedFrame ==
    ASSUME StoreTyped, NEW s \in Session, state[s] = "absent",
           state' = [state EXCEPT ![s] = "refused"]
    PROVE  /\ Present' = Present /\ Live' = Live
           /\ state' \in [Session -> {"absent", "live", "closed", "refused"}]
           /\ \A t \in Session : t # s => state'[t] = state[t]
           /\ state'[s] = "refused"
<1>1. /\ state' \in [Session -> {"absent", "live", "closed", "refused"}]
      /\ \A t \in Session : state'[t] = (IF t = s THEN "refused" ELSE state[t])
  BY DEF StoreTyped
<1>2. Present' = Present  BY <1>1 DEF Present
<1>3. Live' = Live  BY <1>1 DEF Live
<1> QED BY <1>1, <1>2, <1>3

\* A start that is given up.
LEMMA RejectStep ==
    ASSUME StoreInv, NEW error, starter # None, Reject(error)
    PROVE  StoreInv'
<1>1. /\ state' = [state EXCEPT ![starter] = "refused"]
      /\ starter' = None /\ unread' = {} /\ scan' = Idle
      /\ leased' = leased /\ files' = files /\ used' = used
  BY DEF Reject, Refuse
<1>2. starter \in Session /\ state[starter] = "absent"  BY DEF StoreInv, StoreTyped, ScanInv
<1>3. /\ Present' = Present /\ Live' = Live
      /\ state' \in [Session -> {"absent", "live", "closed", "refused"}]
  BY <1>1, <1>2, RefusedFrame DEF StoreInv
<1>4. StoreTyped'
  <2>1. Idle \in [in : Session \cup {None}, left : SUBSET Member, locking : BOOLEAN,
                  size : Nat, active : BOOLEAN]
    BY DEF Idle
  <2> QED BY <1>1, <1>3, <2>1 DEF StoreInv, StoreTyped
<1>5. scan'.in = None  BY <1>1 DEF Idle
<1>6. ScanInv'  BY <1>1, <1>3, <1>5 DEF StoreInv, ScanInv
<1>7. RoomInv'  BY <1>1, <1>3 DEF StoreInv, RoomInv
<1>8. LiveInv'  BY <1>1, <1>3, <1>5 DEF StoreInv, LiveInv
<1>9. FileInv'  BY <1>1, <1>3 DEF StoreInv, FileInv
<1>10. SumInv'  BY <1>1, <1>3, <1>5 DEF StoreInv, SumInv
<1> QED BY <1>4, <1>6, <1>7, <1>8, <1>9, <1>10 DEF StoreInv

\* A start begins with every directory unread, or finds the store locked.
LEMMA BeginStep ==
    ASSUME StoreInv, NEW s \in Session, Begin(s)
    PROVE  StoreInv'
<1>1. /\ state[s] = "absent" /\ s # starter /\ leased' = leased /\ files' = files /\ scan' = scan
      /\ leased => starter = None /\ \A t \in Session : state[t] # "live"
  BY DEF Begin
<1>2. CASE starter = None /\ starter' = s /\ unread' = Present /\ used' = 0 /\ state' = state
  <2>1. Present' = Present /\ Live' = Live  BY <1>2 DEF Present, Live
  <2>2. scan = Idle /\ scan.in = None  BY <1>2 DEF StoreInv, ScanInv, StoreTyped
  <2>3. s # None /\ s \in Session  BY StoreAssumption
  <2>4. Scanned' = {} /\ Present' \ unread' = {} /\ Live \cap {} = {}
    BY <1>2, <2>1 DEF Scanned
  <2>5. IsFiniteSet({}) /\ Cardinality({}) = 0 /\ Weight(files, {}) = 0  BY FS_EmptySet, WeightEmpty
  <2>6. Reservation \in Nat /\ MaxSessions \in Nat \ {0}  BY WorstCase, StoreAssumption
  <2>7. StoreTyped'
    <3>1. Present \subseteq Session  BY DEF Present
    <3> QED BY <1>1, <1>2, <2>3, <3>1 DEF StoreInv, StoreTyped
  <2>8. ScanInv'  BY <1>1, <1>2, <2>1, <2>2, <2>3 DEF StoreInv, ScanInv
  <2>9. RoomInv'  BY <1>1, <1>2, <2>1, <2>4, <2>5, <2>6 DEF StoreInv, RoomInv
  <2>10. LiveInv'
    <3>1. Cardinality(Live' \cap Scanned') * Reservation <= used'
      BY <1>2, <2>1, <2>4, <2>5, <2>6
    <3> QED BY <1>1, <2>1, <2>2, <3>1 DEF StoreInv, LiveInv
  <2>11. FileInv'  BY <1>1, <2>1 DEF StoreInv, FileInv
  <2>12. SumInv'
    <3>1. leased => Live = {}  BY <1>1 DEF Live
    <3> QED BY <1>1, <1>2, <2>1, <2>2, <2>4, <2>5, <3>1 DEF StoreInv, SumInv
  <2> QED BY <2>7, <2>8, <2>9, <2>10, <2>11, <2>12 DEF StoreInv
<1>3. CASE /\ starter # None /\ Refuse(s, "LOG_STORE_FULL")
           /\ starter' = starter /\ unread' = unread /\ used' = used
  <2>1. /\ Present' = Present /\ Live' = Live
        /\ state' \in [Session -> {"absent", "live", "closed", "refused"}]
        /\ \A t \in Session : t # s => state'[t] = state[t]
        /\ state'[s] = "refused"
    BY <1>1, <1>3, RefusedFrame DEF StoreInv, Refuse
  <2>2. starter \in Session  BY <1>3 DEF StoreInv, StoreTyped
  <2>3. StoreTyped'  BY <1>1, <1>3, <2>1 DEF StoreInv, StoreTyped
  <2>4. ScanInv'  BY <1>1, <1>3, <2>1, <2>2 DEF StoreInv, ScanInv
  <2>5. RoomInv'  BY <1>1, <1>3, <2>1 DEF StoreInv, RoomInv
  <2>6. Scanned' = Scanned  BY <1>1, <1>3, <2>1 DEF Scanned
  <2>7. LiveInv'
    <3>1. scan.in # None => scan.in \in Session /\ scan.in # s
      BY <1>1 DEF StoreInv, ScanInv, Present
    <3> QED BY <1>1, <1>3, <2>1, <2>6, <3>1 DEF StoreInv, LiveInv
  <2>8. FileInv'  BY <1>1, <2>1 DEF StoreInv, FileInv
  <2>9. SumInv'  BY <1>1, <1>3 DEF SumInv
  <2> QED BY <2>3, <2>4, <2>5, <2>7, <2>8, <2>9 DEF StoreInv
<1> QED BY <1>2, <1>3 DEF Begin

\* The next directory is opened.
LEMMA OpenStep ==
    ASSUME StoreInv, NEW t \in Session, OpenDirectory(t)
    PROVE  StoreInv'
<1> DEFINE listed == {m \in Member : m = "events" \/ files[t][m] > 0}
<1>1. /\ starter # None /\ scan.in = None /\ t \in unread /\ unread' = unread \ {t}
      /\ scan' = [Idle EXCEPT !.in = t, !.left = listed]
      /\ leased' = leased /\ state' = state /\ files' = files /\ starter' = starter /\ used' = used
  BY DEF OpenDirectory
<1>2. /\ scan'.in = t /\ scan'.left = listed /\ ~scan'.locking /\ scan'.size = 0
      /\ ~scan'.active /\ t # None
      /\ scan' \in [in : Session \cup {None}, left : SUBSET Member, locking : BOOLEAN,
                    size : Nat, active : BOOLEAN]
  BY <1>1, StoreAssumption DEF Idle
<1>3. Present' = Present /\ Live' = Live  BY <1>1 DEF Present, Live
<1>4. t \in Present /\ Present \subseteq Session  BY <1>1 DEF StoreInv, ScanInv, Present
<1>5. Scanned' = Scanned
  BY <1>1, <1>2, <1>3, <1>4, StoreAssumption DEF Scanned
<1>6. StoreTyped'  BY <1>1, <1>2 DEF StoreInv, StoreTyped
<1>7. ScanInv'  BY <1>1, <1>2, <1>3, <1>4 DEF StoreInv, ScanInv
<1>8. RoomInv'  BY <1>1, <1>2, <1>3 DEF StoreInv, RoomInv
<1>9. LiveInv'
  <2>1. "events" \in listed  BY DEF Member
  <2> QED BY <1>1, <1>2, <1>3, <1>5, <2>1 DEF StoreInv, LiveInv
<1>10. FileInv'  BY <1>1, <1>3 DEF StoreInv, FileInv
<1>11. SumInv'
  <2>1. files[t] \in [Member -> Nat]  BY DEF StoreInv, StoreTyped
  <2>2. files[t]["summary"] \in Nat /\ files[t]["temp"] \in Nat  BY <2>1 DEF Member
  <2>3. /\ "events" \in listed
        /\ "summary" \notin listed => files[t]["summary"] = 0
        /\ "temp" \notin listed => files[t]["temp"] = 0
    BY <2>2 DEF Member
  <2> HIDE DEF listed
  <2>4. Measured' = 0  BY <1>1, <1>2, <2>3 DEF Measured
  <2> QED BY <1>1, <1>2, <1>3, <1>5, <2>4 DEF StoreInv, SumInv
<1> QED BY <1>6, <1>7, <1>8, <1>9, <1>10, <1>11 DEF StoreInv

\* A file is measured, or has gone since the listing.
LEMMA MeasureStep ==
    ASSUME StoreInv, NEW m \in Member, Measure(m)
    PROVE  StoreInv'
<1>1. scan.in # None /\ ~scan.locking /\ m \in scan.left  BY DEF Measure
<1>2. starter # None /\ scan.in \in Present /\ scan.in \in Session
  BY <1>1 DEF StoreInv, ScanInv, Present
<1>3. CASE m # "events" /\ files[scan.in][m] = 0
  <2>1. Reject("LOG_STORE_UNSAFE")  BY <1>3 DEF Measure
  <2> QED BY <1>2, <2>1, RejectStep
<1>4. CASE ~(m # "events" /\ files[scan.in][m] = 0)
  <2>1. /\ scan' = [scan EXCEPT !.left = @ \ {m}, !.locking = (m = "events"),
                                !.size = @ + files[scan.in][m]]
        /\ leased' = leased /\ state' = state /\ files' = files /\ starter' = starter
        /\ unread' = unread /\ used' = used
    BY <1>4 DEF Measure
  <2>2. scan \in [in : Session \cup {None}, left : SUBSET Member, locking : BOOLEAN,
                  size : Nat, active : BOOLEAN]
    BY DEF StoreInv, StoreTyped
  <2>3. files[scan.in] \in [Member -> Nat]  BY <1>2 DEF StoreInv, StoreTyped
  <2>4. (m = "events") \in BOOLEAN /\ files[scan.in][m] \in Nat  BY <2>3
  <2>5. /\ scan'.in = scan.in /\ scan'.left = scan.left \ {m} /\ scan'.active = scan.active
        /\ scan'.size = scan.size + files[scan.in][m]
    BY <2>1, <2>2
  <2>6. scan'.locking = (m = "events")  BY <2>1, <2>2
  <2>7. scan'.left \in SUBSET Member /\ scan'.size \in Nat /\ scan'.locking \in BOOLEAN
    BY <2>2, <2>4, <2>5, <2>6
  <2>8. scan' \in [in : Session \cup {None}, left : SUBSET Member, locking : BOOLEAN,
                   size : Nat, active : BOOLEAN]
    <3>1. scan' = [in |-> scan.in, left |-> scan.left \ {m}, locking |-> (m = "events"),
                   size |-> scan.size + files[scan.in][m], active |-> scan.active]
      BY <2>1, <2>2
    <3>2. /\ scan.in \in Session \cup {None} /\ scan.left \ {m} \in SUBSET Member
          /\ scan.size + files[scan.in][m] \in Nat /\ scan.active \in BOOLEAN
      BY <2>2, <2>4
    <3> QED BY <2>4, <3>1, <3>2
  <2>9. Present' = Present /\ Live' = Live  BY <2>1 DEF Present, Live
  <2>10. Scanned' = Scanned  BY <2>1, <2>5, <2>9 DEF Scanned
  <2>11. StoreTyped'  BY <2>1, <2>8 DEF StoreInv, StoreTyped
  <2>12. ScanInv'  BY <1>1, <2>1, <2>5, <2>9 DEF StoreInv, ScanInv
  <2>13. RoomInv'  BY <1>1, <2>1, <2>5, <2>9 DEF StoreInv, RoomInv
  <2>14. LiveInv'
    <3>1. "events" \notin scan'.left /\ ~scan'.locking => "events" \notin scan.left
      BY <2>5, <2>6
    <3> QED BY <1>1, <2>1, <2>5, <2>9, <2>10, <3>1 DEF StoreInv, LiveInv
  <2>15. FileInv'  BY <2>1, <2>9 DEF StoreInv, FileInv
  <2>16. SumInv'
    <3>1. Measured' = Measured + files[scan.in][m]
      <4>1. /\ files[scan.in]["events"] \in Nat /\ files[scan.in]["summary"] \in Nat
            /\ files[scan.in]["temp"] \in Nat
        BY <2>3 DEF Member
      <4>2. m = "events" \/ m = "summary" \/ m = "temp"  BY DEF Member
      <4>3. /\ files' = files /\ scan'.in = scan.in /\ scan'.left = scan.left \ {m}
            /\ m \in scan.left
        BY <1>1, <2>1, <2>5
      <4>4. CASE m = "events"  BY ONLY <4>1, <4>3, <4>4 DEF Measured
      <4>5. CASE m = "summary"  BY ONLY <4>1, <4>3, <4>5 DEF Measured
      <4>6. CASE m = "temp"  BY ONLY <4>1, <4>3, <4>6 DEF Measured
      <4> QED BY <4>2, <4>4, <4>5, <4>6
    <3> QED BY <1>1, <2>1, <2>5, <2>9, <2>10, <3>1 DEF StoreInv, SumInv
  <2> QED BY <2>11, <2>12, <2>13, <2>14, <2>15, <2>16 DEF StoreInv
<1> QED BY <1>3, <1>4

\* The journal's lock is tried after its size.
LEMMA LockStep == StoreInv /\ TryLock => StoreInv'
<1> SUFFICES ASSUME StoreInv, TryLock PROVE StoreInv'  OBVIOUS
<1>1. /\ scan.in # None /\ scan.locking
      /\ scan' = [scan EXCEPT !.locking = FALSE, !.active = (state[scan.in] = "live")]
      /\ leased' = leased /\ state' = state /\ files' = files /\ starter' = starter
      /\ unread' = unread /\ used' = used
  BY DEF TryLock
<1>2. starter # None /\ scan.in \in Present /\ scan.in \in Session
  BY <1>1 DEF StoreInv, ScanInv, Present
<1>3. scan \in [in : Session \cup {None}, left : SUBSET Member, locking : BOOLEAN,
                size : Nat, active : BOOLEAN]
  BY DEF StoreInv, StoreTyped
<1>4. (state[scan.in] = "live") \in BOOLEAN  OBVIOUS
<1>5. /\ scan'.in = scan.in /\ scan'.left = scan.left /\ scan'.size = scan.size
      /\ ~scan'.locking /\ scan'.active = (state[scan.in] = "live")
      /\ scan' \in [in : Session \cup {None}, left : SUBSET Member, locking : BOOLEAN,
                    size : Nat, active : BOOLEAN]
  BY <1>1, <1>3, <1>4
<1>6. Present' = Present /\ Live' = Live  BY <1>1 DEF Present, Live
<1>7. Scanned' = Scanned  BY <1>1, <1>5, <1>6 DEF Scanned
<1>8. StoreTyped'  BY <1>1, <1>5 DEF StoreInv, StoreTyped
<1>9. ScanInv'  BY <1>1, <1>5, <1>6 DEF StoreInv, ScanInv
<1>10. RoomInv'  BY <1>1, <1>5, <1>6 DEF StoreInv, RoomInv
<1>11. LiveInv'  BY <1>1, <1>5, <1>6, <1>7 DEF StoreInv, LiveInv
<1>12. FileInv'  BY <1>1, <1>6 DEF StoreInv, FileInv
<1>13. SumInv'
  <2>1. Measured' = Measured  BY <1>1, <1>5 DEF Measured
  <2>2. leased => ~scan'.active
    <3>1. leased => Live = {}  BY <1>2 DEF StoreInv, SumInv
    <3> QED BY <1>2, <1>5, <3>1 DEF Live
  <2> QED BY <1>1, <1>5, <1>6, <1>7, <2>1, <2>2 DEF StoreInv, SumInv
<1> QED BY <1>8, <1>9, <1>10, <1>11, <1>12, <1>13 DEF StoreInv

\* A directory is done with, and counted.
LEMMA CloseStep == StoreInv /\ CloseDirectory => StoreInv'
<1> SUFFICES ASSUME StoreInv, CloseDirectory PROVE StoreInv'  OBVIOUS
<1>1. scan.in # None /\ ~scan.locking /\ scan.left = {}  BY DEF CloseDirectory
<1>2. /\ starter # None /\ scan.in \in Present \ unread /\ scan.in \in Session
      /\ IsFiniteSet(Present)
  BY <1>1 DEF StoreInv, ScanInv, Present
<1>3. CASE Cardinality(Present \ unread) >= MaxSessions
  <2>1. Reject("LOG_STORE_FULL")  BY <1>3 DEF CloseDirectory
  <2> QED BY <1>2, <2>1, RejectStep
<1>4. CASE ~(Cardinality(Present \ unread) >= MaxSessions)
  <2>1. /\ used' = used + (IF scan.active THEN Reservation ELSE scan.size) /\ scan' = Idle
        /\ leased' = leased /\ state' = state /\ files' = files /\ starter' = starter
        /\ unread' = unread
    BY <1>4 DEF CloseDirectory
  <2>2. scan'.in = None /\ scan'.left = {} /\ ~scan'.active  BY <2>1 DEF Idle
  <2>3. used \in Nat /\ scan.size \in Nat /\ Reservation \in Nat /\ MaxSessions \in Nat
    BY WorstCase, StoreAssumption DEF StoreInv, StoreTyped
  <2>4. Present' = Present /\ Live' = Live /\ Live \subseteq Present
    BY <2>1 DEF Present, Live
  <2>5. IsFiniteSet(Live) /\ IsFiniteSet(Scanned) /\ IsFiniteSet(Present \ unread)
    <3>1. Live \in SUBSET Present /\ Scanned \in SUBSET Present
          /\ Present \ unread \in SUBSET Present
      BY <2>4 DEF Scanned
    <3> QED BY <1>2, <3>1, FS_Subset
  <2>6. Scanned' = Scanned \cup {scan.in} /\ scan.in \notin Scanned
    <3>1. None \notin Present  BY StoreAssumption DEF Present
    <3> QED BY <1>2, <2>1, <2>2, <2>4, <3>1 DEF Scanned
  <2>7. StoreTyped'
    <3>1. used' \in Nat  BY <2>1, <2>3
    <3>2. Idle \in [in : Session \cup {None}, left : SUBSET Member, locking : BOOLEAN,
                    size : Nat, active : BOOLEAN]
      BY DEF Idle
    <3> QED BY <2>1, <3>1, <3>2 DEF StoreInv, StoreTyped
  <2>8. ScanInv'  BY <2>1, <2>2, <2>4 DEF StoreInv, ScanInv
  <2>9. RoomInv'
    <3>1. Cardinality(Present \ unread) \in Nat  BY <2>5, FS_CardinalityType
    <3>2. Cardinality(Present \ unread) < MaxSessions  BY <1>4, <2>3, <3>1
    <3> QED BY <2>1, <2>4, <3>2 DEF StoreInv, RoomInv
  <2>10. LiveInv'
    <3> DEFINE L == Live \cap Scanned
               n == Cardinality(L)
    <3>1. IsFiniteSet(L)  BY <2>5, FS_Intersection
    <3>2. n \in Nat  BY <3>1, FS_CardinalityType
    <3>3. n * Reservation <= used  BY <1>2 DEF StoreInv, LiveInv
    <3>4. CASE scan.active
      <4>1. used' = used + Reservation  BY <2>1, <3>4
      <4>2. Live \cap Scanned' \in SUBSET (L \cup {scan.in})  BY <2>6
      <4>3. /\ IsFiniteSet(L \cup {scan.in})
            /\ Cardinality(L \cup {scan.in}) = (IF scan.in \in L THEN n ELSE n + 1)
        BY <3>1, FS_AddElement
      <4>4. Cardinality(L \cup {scan.in}) = n + 1  BY <2>6, <4>3
      <4>5. /\ IsFiniteSet(Live \cap Scanned')
            /\ Cardinality(Live \cap Scanned') <= Cardinality(L \cup {scan.in})
        BY <4>2, <4>3, FS_Subset
      <4>6. Cardinality(Live \cap Scanned') \in Nat  BY <4>5, FS_CardinalityType
      <4> HIDE DEF n
      <4>7. ASSUME NEW k \in Nat, k <= n + 1 PROVE k * Reservation <= used + Reservation
        <5>1. k * Reservation <= (n + 1) * Reservation  BY <2>3, <3>2, <4>7, Product
        <5>2. (n + 1) * Reservation = n * Reservation + Reservation  BY <2>3, <3>2
        <5>3. n * Reservation \in Nat /\ k * Reservation \in Nat  BY <2>3, <3>2
        <5> QED BY <2>3, <3>3, <5>1, <5>2, <5>3
      <4>8. Cardinality(Live \cap Scanned') * Reservation <= used'
        BY <4>1, <4>4, <4>5, <4>6, <4>7
      <4> QED BY <2>2, <2>4, <4>8 DEF StoreInv, LiveInv
    <3>5. CASE ~scan.active
      <4>1. state[scan.in] # "live"  BY <1>1, <3>5 DEF StoreInv, LiveInv
      <4>2. Live \cap Scanned' = L  BY <2>6, <4>1 DEF Live
      <4>3. used' = used + scan.size  BY <2>1, <3>5
      <4>4. n * Reservation \in Nat  BY <2>3, <3>2
      <4> HIDE DEF n
      <4>5. n * Reservation <= used'  BY <2>3, <3>3, <4>3, <4>4
      <4>6. Cardinality(Live \cap Scanned') * Reservation <= used'  BY <4>2, <4>5 DEF n
      <4> QED BY <2>2, <2>4, <4>6 DEF StoreInv, LiveInv
    <3> QED BY <3>4, <3>5
  <2>11. FileInv'  BY <2>1, <2>4 DEF StoreInv, FileInv
  <2>12. SumInv'
    <3> SUFFICES ASSUME leased PROVE used' = Weight(files, Scanned')
      BY <2>1, <2>2, <2>4 DEF StoreInv, SumInv
    <3>1. ~scan.active /\ scan.size = Measured /\ used = Weight(files, Scanned)
      BY <1>1, <1>2 DEF StoreInv, SumInv
    <3>2. Measured = FilesSize(files, scan.in)  BY <1>1 DEF Measured, FilesSize
    <3>3. \A s \in Scanned \cup {scan.in} : files[s] \in [Member -> Nat]
      BY <1>2 DEF StoreInv, StoreTyped, Scanned, Present
    <3>4. Weight(files, Scanned \cup {scan.in}) = Weight(files, Scanned) + FilesSize(files, scan.in)
      BY <2>5, <2>6, <3>3, WeightAdd
    <3> QED BY <2>1, <2>6, <3>1, <3>2, <3>4
  <2> QED BY <2>7, <2>8, <2>9, <2>10, <2>11, <2>12 DEF StoreInv
<1> QED BY <1>3, <1>4

\* The session is admitted.
LEMMA AdmitStep == StoreInv /\ Admit => StoreInv'
<1> SUFFICES ASSUME StoreInv, Admit PROVE StoreInv'  OBVIOUS
<1>1. /\ starter # None /\ scan.in = None /\ unread = {} /\ used + Reservation <= StoreBytes
      /\ state' = [state EXCEPT ![starter] = "live"] /\ starter' = None
      /\ leased' = leased /\ files' = files /\ unread' = unread /\ scan' = scan /\ used' = used
  BY DEF Admit
<1>2. starter \in Session /\ state[starter] = "absent" /\ IsFiniteSet(Present) /\ scan = Idle
  BY <1>1 DEF StoreInv, StoreTyped, ScanInv
<1>3. /\ state' \in [Session -> {"absent", "live", "closed", "refused"}]
      /\ \A t \in Session : state'[t] = (IF t = starter THEN "live" ELSE state[t])
  BY <1>1, <1>2 DEF StoreInv, StoreTyped
<1>4. /\ Present' = Present \cup {starter} /\ starter \notin Present
      /\ Live' = Live \cup {starter} /\ starter \notin Live /\ Live \subseteq Present
  BY <1>2, <1>3 DEF Present, Live
<1>5. Scanned = Present
  <2>1. None \notin Present  BY StoreAssumption DEF Present
  <2> QED BY <1>1, <2>1 DEF Scanned
<1>6. IsFiniteSet(Live)  BY <1>2, <1>4, FS_Subset
<1>7. /\ IsFiniteSet(Present')
      /\ Cardinality(Present') = (IF starter \in Present THEN Cardinality(Present)
                                                         ELSE Cardinality(Present) + 1)
  BY <1>2, <1>4, FS_AddElement
<1>8. Cardinality(Live') = (IF starter \in Live THEN Cardinality(Live)
                                                ELSE Cardinality(Live) + 1)
  BY <1>4, <1>6, FS_AddElement
<1>9. /\ Cardinality(Present) \in Nat /\ Cardinality(Live) \in Nat
      /\ Cardinality(Present') = Cardinality(Present) + 1
      /\ Cardinality(Live') = Cardinality(Live) + 1
  BY <1>2, <1>4, <1>6, <1>7, <1>8, FS_CardinalityType
<1>10. Reservation \in Nat /\ StoreBytes \in Nat /\ MaxSessions \in Nat /\ used \in Nat
  BY WorstCase, StoreAssumption DEF StoreInv, StoreTyped
<1>11. StoreTyped'  BY <1>1, <1>3 DEF StoreInv, StoreTyped
<1>12. ScanInv'  BY <1>1, <1>2, <1>7 DEF StoreInv, ScanInv
<1>13. RoomInv'
  <2>1. Cardinality(Present \ unread) < MaxSessions /\ Present \ unread = Present
    BY <1>1 DEF StoreInv, RoomInv
  <2>2. Cardinality(Present') <= MaxSessions  BY <1>9, <1>10, <2>1
  <2> QED BY <1>1, <2>2 DEF RoomInv
<1>14. LiveInv'
  <2> DEFINE n == Cardinality(Live)
  <2>1. Live \cap Scanned = Live  BY <1>4, <1>5
  <2>2. n * Reservation <= used  BY <1>1, <2>1 DEF StoreInv, LiveInv
  <2> HIDE DEF n
  <2>3. n \in Nat  BY <1>9 DEF n
  <2>4. (n + 1) * Reservation = n * Reservation + Reservation /\ n * Reservation \in Nat
    BY <1>10, <2>3
  <2>5. (n + 1) * Reservation <= StoreBytes  BY <1>1, <1>10, <2>2, <2>4
  <2>6. Cardinality(Live') * Reservation <= StoreBytes  BY <1>9, <2>5 DEF n
  <2> QED BY <1>1, <2>6 DEF LiveInv
<1>15. FileInv'  BY <1>1, <1>4 DEF StoreInv, FileInv
<1>16. SumInv'
  <2> SUFFICES ASSUME leased
               PROVE  /\ \A s, t \in Live' : s = t
                      /\ Live' # {}
                      /\ \A t \in Live' : Weight(files, Present' \ {t}) + Reservation <= StoreBytes
    BY <1>1 DEF SumInv
  <2>1. Live = {} /\ used = Weight(files, Present)  BY <1>1, <1>5 DEF StoreInv, SumInv
  <2>2. Live' = {starter} /\ Present' \ {starter} = Present  BY <1>4, <2>1
  <2> QED BY <1>1, <2>1, <2>2
<1> QED BY <1>11, <1>12, <1>13, <1>14, <1>15, <1>16 DEF StoreInv

\* A session alive writes within its limits.
LEMMA WriteStep ==
    ASSUME StoreInv, NEW s \in Session, AppendEvent(s) \/ WriteTemp(s) \/ Rename(s)
    PROVE  StoreInv'
<1>1. /\ state[s] = "live" /\ leased' = leased /\ state' = state /\ starter' = starter
      /\ unread' = unread /\ scan' = scan /\ used' = used
  BY DEF AppendEvent, WriteTemp, Rename
<1>2. files \in [Session -> [Member -> Nat]]  BY DEF StoreInv, StoreTyped
<1>3. SessionBytes \in Nat /\ SummaryBytes \in Nat  BY StoreAssumption
<1>4. /\ files[s]["events"] \in Nat /\ files[s]["summary"] \in Nat /\ files[s]["temp"] \in Nat
      /\ files[s]["events"] <= SessionBytes /\ files[s]["summary"] <= SummaryBytes
      /\ files[s]["temp"] <= SummaryBytes
  BY <1>2 DEF StoreInv, FileInv, Member
<1>5. /\ files' \in [Session -> [Member -> Nat]]
      /\ \A t \in Session : t # s => files'[t] = files[t]
      /\ files'[s]["events"] <= SessionBytes /\ files'[s]["summary"] <= SummaryBytes
      /\ files'[s]["temp"] <= SummaryBytes
  <2>1. CASE AppendEvent(s)
    <3>1. files' = [files EXCEPT ![s]["events"] = @ + 1] /\ files[s]["events"] < SessionBytes
      BY <2>1 DEF AppendEvent
    <3> QED BY <1>2, <1>3, <1>4, <3>1 DEF Member
  <2>2. CASE WriteTemp(s)
    <3>1. PICK n \in 1..SummaryBytes : files' = [files EXCEPT ![s]["temp"] = n]
      BY <2>2 DEF WriteTemp
    <3> QED BY <1>2, <1>3, <1>4, <3>1 DEF Member
  <2>3. CASE Rename(s)
    <3>1. files' = [files EXCEPT ![s]["summary"] = files[s]["temp"], ![s]["temp"] = 0]
      BY <2>3 DEF Rename
    <3> QED BY <1>2, <1>3, <1>4, <3>1 DEF Member
  <2> QED BY <2>1, <2>2, <2>3
<1>6. /\ Present' = Present /\ Live' = Live /\ s \in Live /\ s \in Present
      /\ Present \subseteq Session
  BY <1>1 DEF Present, Live
<1>7. Scanned' = Scanned  BY <1>1, <1>6 DEF Scanned
<1>8. StoreTyped'  BY <1>1, <1>5 DEF StoreInv, StoreTyped
<1>9. ScanInv'  BY <1>1, <1>6 DEF StoreInv, ScanInv
<1>10. RoomInv'  BY <1>1, <1>6 DEF StoreInv, RoomInv
<1>11. LiveInv'  BY <1>1, <1>6, <1>7 DEF StoreInv, LiveInv
<1>12. FileInv'  BY <1>5, <1>6 DEF StoreInv, FileInv
<1>13. SumInv'
  <2> SUFFICES ASSUME leased PROVE SumInv'  BY <1>1 DEF SumInv
  <2>1. starter = None /\ scan.in = None  BY <1>6 DEF StoreInv, SumInv, ScanInv
  <2>2. \A t \in Live : t = s  BY <1>6 DEF StoreInv, SumInv
  <2>3. \A t \in Present \ {s} : files[t] = files'[t]  BY <1>5, <1>6
  <2>4. Weight(files, Present \ {s}) = Weight(files', Present \ {s})  BY <2>3, WeightSame
  <2>5. Weight(files, Present \ {s}) + Reservation <= StoreBytes  BY <1>6 DEF StoreInv, SumInv
  <2>6. \A t \in Live : Weight(files', Present \ {t}) + Reservation <= StoreBytes
    BY <2>2, <2>4, <2>5
  <2> QED BY <1>1, <1>6, <2>1, <2>2, <2>6 DEF SumInv
<1> QED BY <1>8, <1>9, <1>10, <1>11, <1>12, <1>13 DEF StoreInv

\* A session ends and leaves its files.
LEMMA EndStep ==
    ASSUME StoreInv, NEW s \in Session, End(s)
    PROVE  StoreInv'
<1>1. /\ state[s] = "live" /\ state' = [state EXCEPT ![s] = "closed"]
      /\ leased' = leased /\ files' = files /\ starter' = starter
      /\ unread' = unread /\ scan' = scan /\ used' = used
  BY DEF End
<1>2. /\ state' \in [Session -> {"absent", "live", "closed", "refused"}]
      /\ \A t \in Session : state'[t] = (IF t = s THEN "closed" ELSE state[t])
  BY <1>1 DEF StoreInv, StoreTyped
<1>3. /\ Present' = Present /\ Live' = Live \ {s} /\ s \in Live /\ s \in Present
      /\ Live \subseteq Present
  BY <1>1, <1>2 DEF Present, Live
<1>4. Scanned' = Scanned  BY <1>1, <1>3 DEF Scanned
<1>5. IsFiniteSet(Live) /\ IsFiniteSet(Live \cap Scanned)
  <2>1. Live \in SUBSET Present /\ Live \cap Scanned \in SUBSET Present  BY <1>3
  <2> QED BY <2>1, FS_Subset DEF StoreInv, ScanInv
<1>6. Reservation \in Nat /\ StoreBytes \in Nat /\ used \in Nat
  BY WorstCase, StoreAssumption DEF StoreInv, StoreTyped
<1>7. StoreTyped'  BY <1>1, <1>2 DEF StoreInv, StoreTyped
<1>8. ScanInv'
  <2>1. starter # None => starter # s /\ starter \in Session
    BY <1>1 DEF StoreInv, ScanInv, StoreTyped
  <2> QED BY <1>1, <1>2, <1>3, <2>1 DEF StoreInv, ScanInv
<1>9. RoomInv'  BY <1>1, <1>3 DEF StoreInv, RoomInv
<1>10. LiveInv'
  <2>1. Live' \in SUBSET Live /\ Live' \cap Scanned \in SUBSET (Live \cap Scanned)  BY <1>3
  <2>2. /\ IsFiniteSet(Live') /\ IsFiniteSet(Live' \cap Scanned)
        /\ Cardinality(Live') <= Cardinality(Live)
        /\ Cardinality(Live' \cap Scanned) <= Cardinality(Live \cap Scanned)
    BY <1>5, <2>1, FS_Subset
  <2>3. /\ Cardinality(Live') \in Nat /\ Cardinality(Live' \cap Scanned) \in Nat
        /\ Cardinality(Live) \in Nat /\ Cardinality(Live \cap Scanned) \in Nat
    BY <1>5, <2>2, FS_CardinalityType
  <2>4. /\ Cardinality(Live') * Reservation <= Cardinality(Live) * Reservation
        /\ Cardinality(Live' \cap Scanned) * Reservation
              <= Cardinality(Live \cap Scanned) * Reservation
    BY <1>6, <2>2, <2>3, Product
  <2>5. /\ Cardinality(Live) * Reservation <= StoreBytes
        /\ starter # None => Cardinality(Live \cap Scanned) * Reservation <= used
    BY DEF StoreInv, LiveInv
  <2>6. /\ Cardinality(Live') * Reservation <= StoreBytes
        /\ starter # None => Cardinality(Live' \cap Scanned) * Reservation <= used
    <3> DEFINE a == Cardinality(Live') * Reservation
               b == Cardinality(Live) * Reservation
               c == Cardinality(Live' \cap Scanned) * Reservation
               d == Cardinality(Live \cap Scanned) * Reservation
    <3>1. a \in Int /\ b \in Int /\ c \in Int /\ d \in Int  BY <1>6, <2>3
    <3>2. a <= b /\ c <= d /\ b <= StoreBytes /\ (starter # None => d <= used)  BY <2>4, <2>5
    <3> HIDE DEF a, b, c, d
    <3>3. a <= StoreBytes /\ (starter # None => c <= used)  BY <1>6, <3>1, <3>2
    <3> QED BY <3>3 DEF a, c
  <2>7. scan.in # None /\ "events" \notin scan.left /\ ~scan.locking /\ ~scan.active =>
           state'[scan.in] # "live"
    <3>1. scan.in # None => scan.in \in Session  BY DEF StoreInv, ScanInv, Present
    <3> QED BY <1>2, <3>1 DEF StoreInv, LiveInv
  <2> QED BY <1>1, <1>4, <2>6, <2>7 DEF LiveInv
<1>11. FileInv'  BY <1>1, <1>3 DEF StoreInv, FileInv
<1>12. SumInv'
  <2> SUFFICES ASSUME leased PROVE SumInv'  BY <1>1 DEF SumInv
  <2>1. starter = None /\ scan.in = None  BY <1>3 DEF StoreInv, SumInv, ScanInv
  <2>2. Live' = {}  BY <1>3 DEF StoreInv, SumInv
  <2>3. Weight(files, Present) <= StoreBytes  BY <1>3, OneAlive
  <2> QED BY <1>1, <1>3, <2>1, <2>2, <2>3 DEF SumInv
<1> QED BY <1>7, <1>8, <1>9, <1>10, <1>11, <1>12 DEF StoreInv

\* Nothing happens.
LEMMA StutterStep == StoreInv /\ UNCHANGED store => StoreInv'
<1> SUFFICES ASSUME StoreInv, UNCHANGED store PROVE StoreInv'  OBVIOUS
<1>1. /\ leased' = leased /\ state' = state /\ files' = files /\ starter' = starter
      /\ unread' = unread /\ scan' = scan /\ used' = used
  BY DEF store
<1>2. Present' = Present /\ Live' = Live /\ Measured' = Measured
  BY <1>1 DEF Present, Live, Measured
<1>3. Scanned' = Scanned  BY <1>1, <1>2 DEF Scanned
<1> QED BY <1>1, <1>2, <1>3 DEF StoreInv, StoreTyped, ScanInv, RoomInv, LiveInv, FileInv, SumInv

\* Every step keeps the invariant.
LEMMA StoreSteps == StoreInv /\ [StoreNext]_store => StoreInv'
<1> SUFFICES ASSUME StoreInv, [StoreNext]_store PROVE StoreInv'  OBVIOUS
<1>1. CASE \E s \in Session : Begin(s)  BY <1>1, BeginStep
<1>2. CASE \E s \in Session : AppendEvent(s) \/ WriteTemp(s) \/ Rename(s)  BY <1>2, WriteStep
<1>3. CASE \E s \in Session : End(s)  BY <1>3, EndStep
<1>4. CASE \E s \in Session : OpenDirectory(s)  BY <1>4, OpenStep
<1>5. CASE \E m \in Member : Measure(m)  BY <1>5, MeasureStep
<1>6. CASE TryLock  BY <1>6, LockStep
<1>7. CASE CloseDirectory  BY <1>7, CloseStep
<1>8. CASE Admit  BY <1>8, AdmitStep
<1>9. CASE StoreFull
  <2>1. starter # None /\ Reject("LOG_STORE_FULL")  BY <1>9 DEF StoreFull
  <2> QED BY <2>1, RejectStep
<1>10. CASE UNCHANGED store  BY <1>10, StutterStep
<1> QED BY <1>1, <1>2, <1>3, <1>4, <1>5, <1>6, <1>7, <1>8, <1>9, <1>10 DEF StoreNext

\* The inductive invariant, for any sessions and limits.
THEOREM StoreIsKept == StoreSpec => []StoreInv
BY StoreStarts, StoreSteps, PTL DEF StoreSpec

\* Under the installation lease the store keeps its quota, whatever sessions wrote and whenever
\* they died (Recorder.__init__ in ro_installer_records.py).
THEOREM QuotaIsKept == StoreSpec => []QuotaKept
BY StoreIsKept, ImpliesQuota, PTL

\* Without the lease too, those alive at once fit the store at their worst case, and there are
\* never more sessions than the limit (the reservation in Recorder.__init__).
THEOREM LiveAreReserved == StoreSpec => []LiveReserved
BY StoreIsKept, ImpliesReserved, PTL

-----------------------------------------------------------------------------
(* The record of one session.                                              *)

\* The events there are, and what the engine says besides them.
Ended == {"success", "failed", "interrupted"}
Starting == [kind : {"start"}, item : Items, status : {"running"}]
Ending == [kind : {"end"}, item : Items, status : Ended]
Events == Starting \cup Ending \cup {Note, SessionEnd(0), SessionEnd(9)}
Outcomes == [kind : {"outcome"}, terminal : {"success", "failed"}, failed : 0..NStages,
             last : 0..NStages, cleanup : {"success", "failed"}]
Steps == {Step("create"), Step("fill"), Step("rename"), Step("complete"), Step("terminal")}
            \cup [step : {"observe", "append"}, event : Events]
Logs == {"recording", "unavailable", "failed", "truncated", "incomplete", "complete"}
Terminals == {"running", "success", "failed", "incomplete", "unknown"}
Reports == [terminal : Terminals, failed : 0..NStages, last : 0..NStages,
            cleanup : {"notRun", "unknown", "success", "failed"}, log : Logs,
            status : [Items -> Ended \cup {"notStarted", "running"}]]
Files == [state : {"none", "partial", "whole"}, report : Reports]

\* The types.
Typed ==
    /\ report \in Reports /\ temp \in Files /\ summary \in Files
    /\ work \in Seq(Steps) /\ journal \in Seq(Events) /\ seen \in Seq(Events)
    /\ inbox \in Seq(Events \cup Outcomes) /\ script \in Seq(Events \cup Outcomes)
    /\ phase \in {"run", "finish", "done", "killed"} /\ result \in {0, 9}
    /\ torn \in BOOLEAN

Is(i, name) == work[i].step = name
Places == 1..Len(work)
\* Events that the recorder has been given and not yet applied.
Pending == {e \in Events : \E k \in Places : work[k] = Observe(e)}
LastSeen == seen # <<>> /\ seen[Len(seen)].kind = "session.end"

\* Only the first step appends; a checkpoint is whole or its beginning is done.
OrderInv ==
    /\ phase \in {"done", "killed"} => work = <<>>
    /\ \A i \in Places : Is(i, "append") => i = 1
    /\ \A i \in Places :
          Is(i, "create") => i + 2 <= Len(work) /\ Is(i + 1, "fill") /\ Is(i + 2, "rename")
    /\ \A i \in Places :
          Is(i, "fill") => (i = 1 \/ Is(i - 1, "create")) /\ i + 1 <= Len(work)
            /\ Is(i + 1, "rename")
    /\ \A i \in Places : Is(i, "rename") => i = 1 \/ Is(i - 1, "fill")

\* The log is called complete right after session.end, which is the last event.
CompleteInv ==
    /\ \A i \in Places : Is(i, "complete") \/ Is(i, "terminal") => phase = "finish"
    /\ \A i, j \in Places :
          Is(i, "complete") /\ i < j => work[j].step \notin {"observe", "append", "complete"}
    /\ \A i \in Places : Is(i, "complete") =>
          \/ i > 1 /\ Is(i - 1, "observe") /\ work[i - 1].event.kind = "session.end"
          \/ LastSeen /\ \A j \in 1..(i - 1) : ~Is(j, "observe")

\* What is in the journal and what is missing from it.
JournalInv ==
    /\ Len(journal) <= Len(seen) /\ \A i \in 1..Len(journal) : journal[i] = seen[i]
    /\ work # <<>> /\ Is(1, "append") =>
          report.log = "recording" /\ seen = Append(journal, work[1].event)
    /\ phase # "killed" /\ report.log = "recording" /\ ~(work # <<>> /\ Is(1, "append")) =>
          journal = seen
    /\ report.log = "complete" =>
          /\ phase # "run" /\ journal = seen /\ ~torn /\ LastSeen
          /\ \A i \in Places : work[i].step \notin {"observe", "append", "complete"}
    /\ torn => report.log = "failed" \/ phase = "killed"

\* A stage counts once its end was seen, in a file once it is in the journal.
Credited(file) ==
    file.report.log \in {"recording", "complete"} =>
        \A i \in 1..NStages : file.report.status[Stage(i)] = "success" => Journalled(i)
CreditInv ==
    /\ \A i \in 1..NStages : report.status[Stage(i)] = "success" =>
          Event("end", Stage(i), "success") \in ToSet(seen)
    /\ work # <<>> /\ Is(1, "rename") => temp.state = "whole"
    /\ summary.state # "partial"
    /\ Credited(temp) /\ Credited(summary)

FilesInv == Typed /\ OrderInv /\ CompleteInv /\ JournalInv /\ CreditInv

\* n of the messages of a run have been served.
Course(last, ok, clean, n) ==
    LET said == 2 * last + 4 - Len(script) IN
    /\ wins = (ok /\ clean) /\ (ok => last = NStages)
    /\ said \in 0..(2 * last + 4) /\ n \in 0..said
    /\ \A k \in 1..Len(script) : script[k] = Script(last, ok, clean)[said + k]
    /\ exit = "ok" => wins /\ script = <<>> /\ ~waiting
    /\ phase = "run" =>
          /\ inbox # <<>> => Len(inbox) = 1 /\ n < said /\ inbox[1] = Script(last, ok, clean)[n + 1]
          /\ willing => n + Len(inbox) = said
          /\ willing /\ ~waiting => inbox = <<>>
          /\ n < 2 * last + 4 => report.terminal = "running"
          /\ n = 2 * last + 4 =>
                LET o == Outcome(last, ok, clean)
                IN  /\ report.terminal = o.terminal /\ report.failed = o.failed
                    /\ report.last = o.last /\ report.cleanup = o.cleanup
          /\ \A e \in Pending :
                e.item[1] = "stage" => n > 0 /\ e = Script(last, ok, clean)[n]
          /\ ok => \A i \in 1..last : 2 * i + 2 <= n =>
                \/ report.status[Stage(i)] = "success"
                \/ Stop(Stage(i), TRUE) \in Pending

CourseInv ==
    \E last \in 1..NStages, ok \in BOOLEAN, clean \in BOOLEAN, n \in 0..(2 * NStages + 4) :
        Course(last, ok, clean, n)

\* What finish() has concluded.
FinishInv ==
    /\ exit \in {"unborn", "alive", "ok", "bad"}
    /\ phase \in {"finish", "done"} =>
          /\ exit # "alive"
          /\ result = 0 => report.terminal \in {"success", "unknown"}
          /\ report.terminal = "unknown" => ~willing
          /\ report.terminal = "success" =>
                /\ wins /\ result = 0
                /\ report.failed = 0 /\ report.cleanup = "success" /\ report.last = NStages
                /\ \A i \in 1..NStages : report.status[Stage(i)] = "success"
                /\ \A e \in Pending : e.item[1] # "stage"

RecorderInv == FilesInv /\ CourseInv /\ FinishInv

-----------------------------------------------------------------------------
(* Items, events and reports.                                              *)

\* Items are told apart by their first component, stages by their second.
LEMMA ItemFacts ==
    /\ \A i \in 1..NStages : Stage(i) \in Items /\ Stage(i)[1] = "stage" /\ Stage(i)[2] = i
    /\ Span("engine") \in Items /\ Span("copy.main") \in Items
    /\ \A x : Span(x)[1] = "span" /\ Span(x)[2] = x
    /\ \A item \in Items : item[1] \in {"stage", "span"}
    /\ \A item \in Items :
          item[1] = "stage" => item[2] \in 1..NStages /\ item = Stage(item[2])
<1>1. \A i : Stage(i)[1] = "stage" /\ Stage(i)[2] = i  BY DEF Stage
<1>2. \A x : Span(x)[1] = "span" /\ Span(x)[2] = x  BY DEF Span
<1>3. \A i \in 1..NStages : Stage(i) \in Items  BY DEF Items
<1>4. Span("engine") \in Items /\ Span("copy.main") \in Items  BY DEF Items
<1>5. ASSUME NEW item \in Items
      PROVE  item[1] \in {"stage", "span"}
             /\ (item[1] = "stage" => item[2] \in 1..NStages /\ item = Stage(item[2]))
  <2>1. CASE \E i \in 1..NStages : item = Stage(i)  BY <1>1, <2>1
  <2>2. CASE item = Span("copy.main") \/ item = Span("engine")  BY <1>2, <2>2
  <2> QED BY <2>1, <2>2 DEF Items
<1> QED BY <1>1, <1>2, <1>3, <1>4, <1>5

\* What an event is made of.
LEMMA EventFacts ==
    /\ \A item \in Items : Start(item) \in Events /\ Event("end", item, "interrupted") \in Events
    /\ \A item \in Items, ok \in BOOLEAN : Stop(item, ok) \in Events
    /\ Note \in Events /\ Note.kind = "note" /\ Note.item[1] = "none"
    /\ \A code \in {0, 9} :
          /\ SessionEnd(code) \in Events /\ SessionEnd(code).kind = "session.end"
          /\ SessionEnd(code).item[1] = "none"
    /\ \A e \in Events :
          /\ e = Event(e.kind, e.item, e.status)
          /\ e.kind \in {"start", "end", "note", "session.end"}
          /\ e.kind \in {"start", "end"} <=> e.item[1] # "none"
          /\ e.item[1] # "none" => e.item \in Items /\ e.status \in Ended \cup {"running"}
          /\ e.kind = "start" => e.status = "running"
          /\ e.kind = "end" => e.status \in Ended
<1>1. /\ Note.kind = "note" /\ Note.item = <<"none">> /\ <<"none">>[1] = "none"
      /\ Note = Event(Note.kind, Note.item, Note.status)
  BY DEF Note, Event
<1>2. ASSUME NEW code \in {0, 9}
      PROVE  /\ SessionEnd(code).kind = "session.end" /\ SessionEnd(code).item = <<"none">>
             /\ SessionEnd(code) \in Events
             /\ SessionEnd(code) =
                   Event(SessionEnd(code).kind, SessionEnd(code).item, SessionEnd(code).status)
  BY DEF SessionEnd, Event, Events
<1>3. ASSUME NEW e \in Starting \cup Ending
      PROVE  /\ e = Event(e.kind, e.item, e.status) /\ e.kind \in {"start", "end"}
             /\ e.item \in Items /\ e.status \in Ended \cup {"running"}
             /\ e.kind = "start" => e.status = "running"
             /\ e.kind = "end" => e.status \in Ended
  BY DEF Starting, Ending, Event
<1>4. \A item \in Items : item[1] # "none"  BY ItemFacts
<1>5. \A item \in Items : Start(item) \in Starting /\ Event("end", item, "interrupted") \in Ending
  BY DEF Start, Starting, Ending, Ended, Event
<1>6. \A item \in Items, ok \in BOOLEAN : Stop(item, ok) \in Ending
  BY DEF Stop, Ending, Ended, Event
<1>7. ASSUME NEW e \in Events
      PROVE  e \in Starting \cup Ending \/ e = Note \/ e = SessionEnd(0) \/ e = SessionEnd(9)
  BY DEF Events
<1>8. ASSUME NEW e \in Events
      PROVE  /\ e = Event(e.kind, e.item, e.status)
             /\ e.kind \in {"start", "end", "note", "session.end"}
             /\ e.kind \in {"start", "end"} <=> e.item[1] # "none"
             /\ e.item[1] # "none" => e.item \in Items /\ e.status \in Ended \cup {"running"}
             /\ e.kind = "start" => e.status = "running"
             /\ e.kind = "end" => e.status \in Ended
  <2>1. CASE e \in Starting \cup Ending  BY <1>3, <1>4, <2>1
  <2>2. CASE e = Note  BY <1>1, <2>2
  <2>3. CASE e = SessionEnd(0) \/ e = SessionEnd(9)  BY <1>1, <1>2, <2>3
  <2> QED BY <1>7, <2>1, <2>2, <2>3
<1>9. Note \in Events  BY DEF Events
<1> QED BY <1>1, <1>2, <1>5, <1>6, <1>8, <1>9 DEF Events

\* A log that has failed stays so.
LEMMA FailureFacts ==
    ASSUME NEW log \in Logs
    PROVE  Failure(log) \in {"unavailable", "failed"} /\ (log = "failed" => Failure(log) = "failed")
BY DEF Failure, Logs

\* A report whose log is another one.
LEMMA Relogged ==
    ASSUME NEW r \in Reports, NEW log \in Logs
    PROVE  [r EXCEPT !.log = log] \in Reports
BY DEF Reports

\* The report after an event: the stage's end is what counts.
LEMMA AppliedFacts ==
    ASSUME NEW r \in Reports, NEW e \in Events
    PROVE  /\ Applied(r, e) \in Reports
           /\ Applied(r, e).log = r.log /\ Applied(r, e).terminal = r.terminal
           /\ Applied(r, e).cleanup = r.cleanup
           /\ e.item[1] # "stage" =>
                 /\ Applied(r, e).last = r.last /\ Applied(r, e).failed = r.failed
                 /\ \A i \in 1..NStages : Applied(r, e).status[Stage(i)] = r.status[Stage(i)]
           /\ \A i \in 1..NStages :
                 Applied(r, e).status[Stage(i)] =
                    IF e.item = Stage(i) THEN e.status ELSE r.status[Stage(i)]
<1>1. CASE e.kind \notin {"start", "end"}
  <2>1. Applied(r, e) = r  BY <1>1 DEF Applied
  <2>2. e.item[1] = "none"  BY <1>1, EventFacts
  <2>3. \A i \in 1..NStages : e.item # Stage(i)  BY <2>2, ItemFacts
  <2> QED BY <2>1, <2>3
<1>2. CASE e.kind \in {"start", "end"}
  <2>1. e.item \in Items /\ e.status \in Ended \cup {"notStarted", "running"}
    BY <1>2, EventFacts
  <2> DEFINE ended == e.item[1] = "stage" /\ e.kind = "end"
             s == [r.status EXCEPT ![e.item] = e.status]
             l == IF ended /\ e.status = "success" THEN e.item[2] ELSE r.last
             f == IF ended /\ e.status # "success" /\ r.failed = 0 THEN e.item[2] ELSE r.failed
  <2>2. Applied(r, e) = [r EXCEPT !.status = s, !.last = l, !.failed = f]
    BY <1>2 DEF Applied
  <2>3. r.status \in [Items -> Ended \cup {"notStarted", "running"}]
        /\ r.last \in 0..NStages /\ r.failed \in 0..NStages
    BY DEF Reports
  <2>4. s \in [Items -> Ended \cup {"notStarted", "running"}]  BY <2>1, <2>3
  <2>5. e.item[1] = "stage" => e.item[2] \in 0..NStages
    <3>1. e.item[1] = "stage" => e.item[2] \in 1..NStages  BY <2>1, ItemFacts
    <3> QED BY <3>1
  <2>6. l \in 0..NStages /\ f \in 0..NStages  BY <2>3, <2>5
  <2>7. ASSUME NEW i \in 1..NStages
        PROVE  s[Stage(i)] = IF e.item = Stage(i) THEN e.status ELSE r.status[Stage(i)]
    BY <2>3, ItemFacts
  <2>8. e.item[1] # "stage" => l = r.last /\ f = r.failed
                               /\ \A i \in 1..NStages : e.item # Stage(i)
    BY ItemFacts
  <2> HIDE DEF ended, s, l, f
  <2>9. /\ Applied(r, e) \in Reports
        /\ Applied(r, e).log = r.log /\ Applied(r, e).terminal = r.terminal
        /\ Applied(r, e).cleanup = r.cleanup
        /\ Applied(r, e).status = s /\ Applied(r, e).last = l /\ Applied(r, e).failed = f
    BY <2>2, <2>4, <2>6 DEF Reports
  <2> QED BY <2>7, <2>8, <2>9
<1> QED BY <1>1, <1>2

-----------------------------------------------------------------------------
(* The spans that finish() interrupts.                                     *)

\* A finite set can be listed.
LEMMA Listed ==
    ASSUME NEW S, IsFiniteSet(S)
    PROVE  SetToSeq(S) \in Seq(S)
<1> DEFINE n == Cardinality(S)
<1>1. n \in Nat /\ ExistsBijection(1..n, S)  BY FS_CardinalityType
<1>2. \E f \in [1..n -> S] : IsInjective(f)
  BY <1>1 DEF ExistsBijection, Bijection, Injection, IsInjective
<1>3. SetToSeq(S) \in [1..n -> S]  BY <1>2 DEF SetToSeq
<1> HIDE DEF n
<1> QED BY <1>1, <1>3, SeqDef

\* There are finitely many items.
LEMMA ItemsFinite == IsFiniteSet(Items)
<1> DEFINE Stages == {Stage(i) : i \in 1..NStages}
           f == [i \in 1..NStages |-> Stage(i)]
<1>1. NStages \in Int  BY LimitsAssumption
<1>2. IsFiniteSet(1..NStages)  BY <1>1, FS_Interval
<1>3. f \in Surjection(1..NStages, Stages)  BY DEF Surjection
<1>4. IsFiniteSet(Stages)  BY <1>2, <1>3, FS_Surjection
<1>5. IsFiniteSet(Stages \cup {Span("copy.main")})  BY <1>4, FS_AddElement
<1>6. IsFiniteSet((Stages \cup {Span("copy.main")}) \cup {Span("engine")})  BY <1>5, FS_AddElement
<1>7. Items = (Stages \cup {Span("copy.main")}) \cup {Span("engine")}  BY DEF Items
<1> QED BY <1>6, <1>7

\* What finish() has still to observe of the items that run.
Interruptions == {Observe(Event("end", item, "interrupted")) : item \in Running}

\* They are finitely many, each an event of the log.
LEMMA InterruptionsListed ==
    /\ SetToSeq(Interruptions) \in Seq(Interruptions)
    /\ Interruptions \subseteq {Observe(e) : e \in Events}
<1> DEFINE f == [item \in Running |-> Observe(Event("end", item, "interrupted"))]
<1>1. Running \subseteq Items  BY DEF Running
<1>2. IsFiniteSet(Running)  BY <1>1, ItemsFinite, FS_Subset
<1>3. f \in Surjection(Running, Interruptions)  BY DEF Surjection, Interruptions
<1>4. IsFiniteSet(Interruptions)  BY <1>2, <1>3, FS_Surjection
<1>5. SetToSeq(Interruptions) \in Seq(Interruptions)  BY <1>4, Listed
<1> QED BY <1>1, <1>5, EventFacts DEF Interruptions

-----------------------------------------------------------------------------
(* What the engine says.                                                   *)

\* The k-th message: the first two start, then the copy ends, then each stage's start
\* and end follow each other.
LEMMA MessageFacts ==
    ASSUME NEW last \in 1..NStages, NEW ok \in BOOLEAN, NEW k \in 1..(2 * last + 2)
    PROVE  /\ Message(k, last, ok) \in Events
           /\ Message(k, last, ok).kind \in {"start", "end"}
           /\ \A i \in 1..NStages : Message(k, last, ok).item = Stage(i) =>
                 /\ k <= 2 * i + 2
                 /\ k = 2 * i + 2 => i <= last /\
                      Message(k, last, ok) = Stop(Stage(i), i < last \/ ok)
           /\ \A i \in 1..last : k = 2 * i + 2 =>
                 Message(k, last, ok) = Stop(Stage(i), i < last \/ ok)
<1> DEFINE i == (k - 1) \div 2
           well == i < last \/ ok
<1>1. NStages \in Nat \ {0}  BY LimitsAssumption
<1>2. i \in Nat /\ (k = 2 * i + 1 \/ k = 2 * i + 2) /\ i <= last  BY <1>1
<1>3. \A j \in Nat : k = 2 * j + 2 => j = i  BY <1>2
<1>4. Message(k, last, ok) =
         IF k = 1 THEN Start(Stage(1))
         ELSE IF k = 2 THEN Start(Span("copy.main"))
         ELSE IF k = 3 THEN Stop(Span("copy.main"), well)
         ELSE IF k = 2 * i + 1 THEN Start(Stage(i)) ELSE Stop(Stage(i), well)
  BY DEF Message
<1>5. \A x, y : x \in Nat /\ y \in Nat /\ Stage(x) = Stage(y) => x = y  BY DEF Stage
<1>6. \A x, y : Stage(x) # Span(y)  BY DEF Stage, Span
<1>7. \A item : Start(item).kind = "start" /\ Start(item).item = item  BY DEF Start, Event
<1>8. \A item, b : Stop(item, b).kind = "end" /\ Stop(item, b).item = item  BY DEF Stop, Event
<1>9. well \in BOOLEAN  BY <1>2
<1>10. i < last <=> i + 1 <= last  BY <1>1, <1>2
<1> HIDE DEF i, well
<1>11. CASE k = 1
  <2>1. Message(k, last, ok) = Start(Stage(1)) /\ 1 \in 1..NStages  BY <1>1, <1>4, <1>11
  <2> QED BY <1>1, <1>5, <1>7, <1>11, <2>1, ItemFacts, EventFacts
<1>12. CASE k = 2
  <2>1. Message(k, last, ok) = Start(Span("copy.main"))  BY <1>4, <1>12
  <2> QED BY <1>1, <1>6, <1>7, <1>12, <2>1, ItemFacts, EventFacts
<1>13. CASE k = 3
  <2>1. Message(k, last, ok) = Stop(Span("copy.main"), well)  BY <1>4, <1>13
  <2> QED BY <1>1, <1>6, <1>8, <1>9, <1>13, <2>1, ItemFacts, EventFacts
<1>14. CASE k > 3 /\ k = 2 * i + 1
  <2>1. Message(k, last, ok) = Start(Stage(i)) /\ i \in 1..NStages  BY <1>1, <1>2, <1>4, <1>14
  <2>2. ASSUME NEW j \in 1..NStages, Start(Stage(i)).item = Stage(j)
        PROVE  k <= 2 * j + 2 /\ k # 2 * j + 2
    BY <1>1, <1>2, <1>5, <1>7, <1>14, <2>1, <2>2
  <2>3. \A j \in 1..last : k # 2 * j + 2  BY <1>1, <1>2, <1>14
  <2>4. Start(Stage(i)) \in Events  BY <2>1, ItemFacts, EventFacts
  <2> QED BY <1>7, <2>1, <2>2, <2>3, <2>4
<1>15. CASE k > 3 /\ k = 2 * i + 2
  <2>1. Message(k, last, ok) = Stop(Stage(i), well) /\ i \in 1..NStages /\ i \in 1..last
    BY <1>1, <1>2, <1>4, <1>15
  <2>2. ASSUME NEW j \in 1..NStages, Stop(Stage(i), well).item = Stage(j)
        PROVE  j = i
    BY <1>1, <1>5, <1>8, <2>1, <2>2
  <2>3. \A j \in 1..NStages : k = 2 * j + 2 => j = i  BY <1>1, <1>3
  <2>4. Stop(Stage(i), well) \in Events  BY <1>9, <2>1, ItemFacts, EventFacts
  <2>5. k = 2 * i + 2 /\ k <= 2 * i + 2 /\ i <= last  BY <1>1, <1>15, <2>1
  <2>6. Message(k, last, ok) = Stop(Stage(i), i < last \/ ok)  BY <2>1 DEF well
  <2>7. \A j \in 1..last : k = 2 * j + 2 => j = i  BY <1>1, <1>3
  <2> QED BY <1>8, <2>1, <2>2, <2>4, <2>5, <2>6, <2>7
<1> QED BY <1>1, <1>2, <1>11, <1>12, <1>13, <1>14, <1>15

\* The whole script: messages, the end of the engine's span, the outcome.
LEMMA ScriptFacts ==
    ASSUME NEW last \in 1..NStages, NEW ok \in BOOLEAN, NEW clean \in BOOLEAN
    PROVE  LET full == Script(last, ok, clean)
               n == 2 * last + 4
           IN  /\ n \in Nat /\ n >= 6 /\ full \in Seq(Events \cup Outcomes) /\ Len(full) = n
               /\ full[n] = Outcome(last, ok, clean) /\ full[n] \in Outcomes
               /\ full[n].kind = "outcome"
               /\ \A k \in 1..(n - 1) :
                     /\ full[k] \in Events /\ full[k].kind \in {"start", "end"}
                     /\ \A i \in 1..NStages : full[k].item = Stage(i) =>
                           /\ k <= 2 * i + 2
                           /\ k = 2 * i + 2 => full[k] = Stop(Stage(i), i < last \/ ok)
               /\ \A i \in 1..last : full[2 * i + 2] = Stop(Stage(i), i < last \/ ok)
<1> DEFINE full == Script(last, ok, clean)
           n == 2 * last + 4
<1>1. NStages \in Nat \ {0} /\ last \in Nat /\ last >= 1 /\ last <= NStages  BY LimitsAssumption
<1>2. n \in Nat /\ n >= 6 /\ n - 1 = 2 * last + 3 /\ n - 2 = 2 * last + 2  BY <1>1
<1>3. full = [k \in 1..n |->
                IF k <= 2 * last + 2 THEN Message(k, last, ok)
                ELSE IF k = 2 * last + 3 THEN Stop(Span("engine"), ok /\ clean)
                ELSE Outcome(last, ok, clean)]
  BY DEF Script
<1>4. \A k \in 1..(2 * last + 2) : full[k] = Message(k, last, ok)  BY <1>1, <1>2, <1>3
<1>5. full[2 * last + 3] = Stop(Span("engine"), ok /\ clean)  BY <1>1, <1>2, <1>3
<1>6. full[n] = Outcome(last, ok, clean)  BY <1>1, <1>2, <1>3
<1>7. Outcome(last, ok, clean) \in Outcomes /\ Outcome(last, ok, clean).kind = "outcome"
  <2>1. (IF ok THEN 0 ELSE last) \in 0..NStages /\ (IF ok THEN last ELSE last - 1) \in 0..NStages
    BY <1>1
  <2>2. (IF ok /\ clean THEN "success" ELSE "failed") \in {"success", "failed"}  OBVIOUS
  <2>3. (IF clean THEN "success" ELSE "failed") \in {"success", "failed"}  OBVIOUS
  <2> QED BY <2>1, <2>2, <2>3 DEF Outcome, Outcomes
<1>8. ASSUME NEW k \in 1..(n - 1)
      PROVE  /\ full[k] \in Events /\ full[k].kind \in {"start", "end"}
             /\ \A i \in 1..NStages : full[k].item = Stage(i) =>
                   /\ k <= 2 * i + 2
                   /\ k = 2 * i + 2 => full[k] = Stop(Stage(i), i < last \/ ok)
  <2>1. CASE k <= 2 * last + 2
    <3>1. k \in 1..(2 * last + 2)  BY <1>1, <2>1
    <3>2. full[k] = Message(k, last, ok)  BY <1>4, <3>1
    <3> HIDE DEF full
    <3> QED BY <3>1, <3>2, MessageFacts
  <2>2. CASE k = 2 * last + 3
    <3>1. /\ Stop(Span("engine"), ok /\ clean).kind = "end"
          /\ Stop(Span("engine"), ok /\ clean).item = Span("engine")
      BY DEF Stop, Event
    <3>2. Stop(Span("engine"), ok /\ clean) \in Events  BY ItemFacts, EventFacts
    <3>3. \A x, y : Stage(x) # Span(y)  BY DEF Stage, Span
    <3> QED BY <1>5, <2>2, <3>1, <3>2, <3>3
  <2> QED BY <1>1, <1>2, <2>1, <2>2
<1>9. ASSUME NEW i \in 1..last PROVE full[2 * i + 2] = Stop(Stage(i), i < last \/ ok)
  <2>1. 2 * i + 2 \in 1..(2 * last + 2)  BY <1>1
  <2> QED BY <2>1, <1>4, MessageFacts
<1>10. full \in Seq(Events \cup Outcomes) /\ Len(full) = n
  <2>1. \A k \in 1..n : full[k] \in Events \cup Outcomes
    BY <1>1, <1>2, <1>6, <1>7, <1>8
  <2>2. full \in [1..n -> Events \cup Outcomes]  BY <1>3, <2>1
  <2>3. full \in Seq(Events \cup Outcomes)  BY <1>2, <2>2, SeqDef
  <2>4. DOMAIN full = 1..n /\ DOMAIN full = 1..Len(full) /\ Len(full) \in Nat
    BY <2>2, <2>3, LenProperties
  <2> QED BY <1>2, <2>3, <2>4
<1> HIDE DEF full, n
<1> QED BY <1>2, <1>6, <1>7, <1>8, <1>9, <1>10 DEF full, n

-----------------------------------------------------------------------------
(* The steps of an operation.                                              *)

Names == {"observe", "append", "create", "fill", "rename", "complete", "terminal"}

\* What a step is made of.
LEMMA StepFacts ==
    /\ \A s \in Steps : s.step \in Names
    /\ \A s \in Steps : s.step \in {"observe", "append"} => s.event \in Events
    /\ \A s \in Steps : s.step = "observe" => s = Observe(s.event)
    /\ \A e \in Events : Observe(e) \in Steps /\ Observe(e).step = "observe" /\ Observe(e).event = e
    /\ \A e \in Events : [step |-> "append", event |-> e] \in Steps
    /\ \A n \in {"create", "fill", "rename", "complete", "terminal"} :
          Step(n) \in Steps /\ Step(n).step = n
    /\ Checkpoint \in Seq(Steps) /\ Len(Checkpoint) = 3
    /\ Checkpoint[1].step = "create" /\ Checkpoint[2].step = "fill"
    /\ Checkpoint[3].step = "rename"
<1>1. \A n : Step(n).step = n  BY DEF Step
<1>2. \A n \in {"create", "fill", "rename", "complete", "terminal"} : Step(n) \in Steps
  BY DEF Steps
<1>3. \A e \in Events : /\ Observe(e) \in [step : {"observe", "append"}, event : Events]
                        /\ Observe(e).step = "observe" /\ Observe(e).event = e
  BY DEF Observe
<1>4. \A e \in Events :
        [step |-> "append", event |-> e] \in [step : {"observe", "append"}, event : Events]
  OBVIOUS
<1>5. ASSUME NEW s \in [step : {"observe", "append"}, event : Events]
      PROVE  s.step \in {"observe", "append"} /\ s.event \in Events
             /\ (s.step = "observe" => s = Observe(s.event))
  BY DEF Observe
<1>6. \A s \in Steps : \/ s \in [step : {"observe", "append"}, event : Events]
                       \/ s \in {Step("create"), Step("fill"), Step("rename"), Step("complete"),
                            Step("terminal")}
  BY DEF Steps
<1>7. [step : {"observe", "append"}, event : Events] \subseteq Steps  BY DEF Steps
<1>8. /\ Checkpoint \in Seq(Steps) /\ Len(Checkpoint) = 3
      /\ Checkpoint[1] = Step("create") /\ Checkpoint[2] = Step("fill")
      /\ Checkpoint[3] = Step("rename")
  <2>1. Step("create") \in Steps /\ Step("fill") \in Steps /\ Step("rename") \in Steps  BY <1>2
  <2> HIDE DEF Steps
  <2> QED BY <2>1 DEF Checkpoint
<1>9. ASSUME NEW s \in Steps
      PROVE  /\ s.step \in Names
             /\ s.step \in {"observe", "append"} => s.event \in Events
             /\ s.step = "observe" => s = Observe(s.event)
  <2>1. CASE s \in [step : {"observe", "append"}, event : Events]  BY <1>5, <2>1 DEF Names
  <2>2. CASE s \in {Step("create"), Step("fill"), Step("rename"), Step("complete"),
               Step("terminal")}
    BY <1>1, <2>2 DEF Names
  <2> QED BY <1>6, <2>1, <2>2
<1> QED BY <1>1, <1>2, <1>3, <1>4, <1>7, <1>8, <1>9

\* The current operation.
LEMMA WorkFacts ==
    ASSUME Typed
    PROVE  /\ Len(work) \in Nat /\ (work = <<>> <=> Len(work) = 0)
           /\ \A i \in Places : work[i] \in Steps /\ work[i].step \in Names
           /\ \A i \in Places : Is(i, "observe") =>
                 work[i].event \in Events /\ work[i] = Observe(work[i].event)
           /\ \A e \in Events : e \in Pending <=> \E i \in Places : Is(i, "observe")
                /\ work[i].event = e
           /\ work # <<>> => 1 \in Places /\ Head(work) = work[1]
<1>1. work \in Seq(Steps)  BY DEF Typed
<1> HIDE DEF Steps
<1>2. Len(work) \in Nat /\ (work = <<>> <=> Len(work) = 0)  BY <1>1, EmptySeq, LenProperties
<1>3. \A i \in Places : work[i] \in Steps  BY <1>1, ElementOfSeq DEF Places
<1>4. work # <<>> => 1 \in Places /\ Head(work) = work[1]  BY <1>1, <1>2 DEF Places
<1> QED BY <1>2, <1>3, <1>4, StepFacts DEF Is, Pending

\* The first d steps make way for those of P.
Moves(P, d) ==
    /\ work' \in Seq(Steps) /\ Len(work') = Len(P) + Len(work) - d
    /\ \A i \in 1..Len(P) : work'[i] = P[i]
    /\ \A i \in (Len(P) + 1)..Len(work') : work'[i] = work[i - Len(P) + d]

\* How the recorder's steps change what is left to do.
LEMMA MovesOn ==
    ASSUME Typed, work # <<>>
    PROVE  /\ \A d \in 1..Len(work) : work' = SubSeq(work, d + 1, Len(work)) => Moves(<<>>, d)
           /\ work' = Tail(work) => Moves(<<>>, 1)
           /\ \A P \in Seq(Steps) : work' = P \o Tail(work) => Moves(P, 1)
<1>1. work \in Seq(Steps)  BY DEF Typed
<1>2. Len(work) \in Nat /\ Len(work) # 0 /\ \A i \in 1..Len(work) : work[i] \in Steps
  BY WorkFacts DEF Places
<1> HIDE DEF Steps
<1>3. Len(<<>>) = 0 /\ <<>> \in Seq(Steps)  BY EmptySeq
<1>4. ASSUME NEW d \in 1..Len(work), work' = SubSeq(work, d + 1, Len(work)) PROVE Moves(<<>>, d)
  <2>1. d + 1 \in Int /\ Len(work) \in Int /\ \A i \in (d + 1)..Len(work) : work[i] \in Steps
    BY <1>2
  <2>2. /\ SubSeq(work, d + 1, Len(work)) \in Seq(Steps)
        /\ Len(SubSeq(work, d + 1, Len(work))) =
              IF d + 1 <= Len(work) THEN Len(work) - (d + 1) + 1 ELSE 0
        /\ \A i \in 1..(Len(work) - (d + 1) + 1) :
              SubSeq(work, d + 1, Len(work))[i] = work[(d + 1) + i - 1]
    BY <2>1, SubSeqProperties
  <2>3. work' \in Seq(Steps) /\ Len(work') = Len(work) - d  BY <1>2, <1>4, <2>2
  <2>4. ASSUME NEW i \in 1..Len(work') PROVE work'[i] = work[i + d]
    <3>1. i \in 1..(Len(work) - (d + 1) + 1) /\ (d + 1) + i - 1 = i + d  BY <1>2, <2>3
    <3> QED BY <1>4, <2>2, <3>1
  <2>5. \A i \in (Len(<<>>) + 1)..Len(work') : i - Len(<<>>) + d = i + d /\ i \in 1..Len(work')
    BY <1>2, <1>3, <2>3
  <2> QED BY <1>2, <1>3, <2>3, <2>4, <2>5 DEF Moves
<1>5. ASSUME NEW P \in Seq(Steps), work' = P \o Tail(work) PROVE Moves(P, 1)
  <2>1. /\ Tail(work) \in Seq(Steps) /\ Len(Tail(work)) = Len(work) - 1
        /\ \A i \in 1..Len(Tail(work)) : Tail(work)[i] = work[i + 1]
    BY <1>1, HeadTailProperties
  <2>2. /\ work' \in Seq(Steps) /\ Len(work') = Len(P) + Len(Tail(work))
        /\ \A i \in 1..(Len(P) + Len(Tail(work))) :
              work'[i] = IF i <= Len(P) THEN P[i] ELSE Tail(work)[i - Len(P)]
    BY <1>5, <2>1, ConcatProperties
  <2>3. Len(P) \in Nat  BY LenProperties
  <2>4. Len(work') = Len(P) + Len(work) - 1  BY <1>2, <2>1, <2>2, <2>3
  <2>5. \A i \in 1..Len(P) : work'[i] = P[i]  BY <1>2, <2>1, <2>2, <2>3
  <2>6. ASSUME NEW i \in (Len(P) + 1)..Len(work') PROVE work'[i] = work[i - Len(P) + 1]
    <3>1. /\ i \in 1..(Len(P) + Len(Tail(work))) /\ ~(i <= Len(P))
          /\ i - Len(P) \in 1..Len(Tail(work))
      BY <1>2, <2>1, <2>3, <2>4
    <3> QED BY <2>1, <2>2, <3>1
  <2> QED BY <2>2, <2>4, <2>5, <2>6 DEF Moves
<1>6. work' = Tail(work) => work' = SubSeq(work, 1 + 1, Len(work)) /\ 1 \in 1..Len(work)
  <2>1. Tail(work) = SubSeq(work, 2, Len(work))  BY <1>1, TailIsSubSeq
  <2>2. 1 + 1 = 2 /\ 1 \in 1..Len(work)  BY <1>2
  <2> QED BY <2>1, <2>2
<1> QED BY <1>4, <1>5, <1>6

\* What may take the place of the head: an append of what was observed, or the
\* checkpoint of what was appended.
Follows(P, d) ==
    \/ P = <<>> /\ (d > 1 => \A k \in 1..d : work[k].step \in {"create", "fill", "rename"})
    \/ /\ d = 1 /\ work[1].step \in {"observe", "append"}
       /\ \/ \E e \in Events : P = <<[step |-> "append", event |-> e]>>
          \/ P = Checkpoint

\* The order of the steps is kept, and events wait until they are observed.
LEMMA OrderKept ==
    ASSUME Typed, OrderInv, CompleteInv, work # <<>>, phase' = phase,
           NEW P \in Seq(Steps), NEW d \in 1..3, d <= Len(work), Moves(P, d), Follows(P, d),
           seen' = IF Is(1, "observe") THEN Append(seen, work[1].event) ELSE seen
    PROVE  /\ OrderInv' /\ CompleteInv'
           /\ Pending' \subseteq Pending
           /\ \A e \in Pending : e \in Pending' \/ (Is(1, "observe") /\ work[1].event = e)
           /\ work' # <<>> /\ Is(1, "rename")' => Is(d, "fill")
           /\ P = <<>> => ~(work' # <<>> /\ Is(1, "append")')
           /\ \A i \in Places' : (\E j \in Places : j > d /\ work'[i] = work[j])
                                    \/ Is(i, "append")' \/ Is(i, "create")' \/ Is(i, "fill")'
                                    \/ Is(i, "rename")'
<1> DEFINE x == Len(P)
<1>1. Len(work) \in Nat /\ \A i \in Places : work[i].step \in Names  BY WorkFacts
<1>2. /\ Len(<<>>) = 0
      /\ \A e : Len(<<[step |-> "append", event |-> e]>>) = 1
                /\ <<[step |-> "append", event |-> e]>>[1].step = "append"
  OBVIOUS
<1>3. /\ x \in {0, 1, 3}
      /\ x = 0 => (d > 1 => \A k \in 1..d : work[k].step \in {"create", "fill", "rename"})
      /\ x # 0 => d = 1 /\ work[1].step \in {"observe", "append"}
      /\ x = 1 => P[1].step = "append"
      /\ x = 3 => P[1].step = "create" /\ P[2].step = "fill" /\ P[3].step = "rename"
  BY <1>2, StepFacts DEF Follows
<1> HIDE DEF x
<1>4. work' \in Seq(Steps) /\ Len(work') = x + Len(work) - d /\ Len(work') \in Nat
  BY <1>1, <1>3 DEF Moves, x
<1>5. /\ x = 1 => Is(1, "append")'
      /\ x = 3 => Is(1, "create")' /\ Is(2, "fill")' /\ Is(3, "rename")'
  <2>1. \A i \in 1..x : work'[i] = P[i]  BY <1>3 DEF Moves, x
  <2>2. CASE x = 1
    <3>1. work'[1] = P[1]  BY <2>1, <2>2
    <3> QED BY <1>3, <2>2, <3>1 DEF Is
  <2>3. CASE x = 3
    <3>1. work'[1] = P[1] /\ work'[2] = P[2] /\ work'[3] = P[3]  BY <2>1, <2>3
    <3> QED BY <1>3, <2>3, <3>1 DEF Is
  <2> QED BY <2>2, <2>3
<1>6. ASSUME NEW i \in Places', i > x
      PROVE  i - x + d \in Places /\ i - x + d > d /\ work'[i] = work[i - x + d]
  <2>1. i \in (x + 1)..Len(work')  BY <1>3, <1>4, <1>6 DEF Places
  <2>2. work'[i] = work[i - x + d]  BY <2>1 DEF Moves, x
  <2> QED BY <1>1, <1>3, <1>4, <1>6, <2>1, <2>2 DEF Places
<1>7. ASSUME NEW j \in Places, j > d
      PROVE  j - d + x \in Places' /\ j - d + x > x /\ work'[j - d + x] = work[j]
  <2>1. j - d + x \in Places' /\ j - d + x > x /\ (j - d + x) - x + d = j
    BY <1>1, <1>3, <1>4, <1>7 DEF Places
  <2> QED BY <1>6, <2>1
<1>8. work # <<>> /\ phase \notin {"done", "killed"}  BY DEF OrderInv
<1>9. \A i \in Places' : i <= x =>
         Is(i, "append")' \/ Is(i, "create")' \/ Is(i, "fill")' \/ Is(i, "rename")'
  BY <1>3, <1>5 DEF Places
<1>10. x = 0 \/ (work[1].step # "create" /\ work[1].step # "fill" /\ work[1].step # "rename")
  BY <1>3
<1>11. \A i \in Places' : Is(i, "append")' => i = 1
  <2> SUFFICES ASSUME NEW i \in Places', Is(i, "append")' PROVE i = 1  OBVIOUS
  <2>1. CASE i <= x  BY <1>3, <1>5, <2>1 DEF Is, Places
  <2>2. CASE i > x
    <3>1. i - x + d \in Places /\ i - x + d > 1 /\ Is(i - x + d, "append")
      BY <1>3, <1>6, <2>2 DEF Is, Places
    <3> QED BY <3>1 DEF OrderInv
  <2> QED BY <1>3, <2>1, <2>2 DEF Places
<1>12. \A i \in Places' :
          Is(i, "create")' => i + 2 <= Len(work') /\ Is(i + 1, "fill")' /\ Is(i + 2, "rename")'
  <2> SUFFICES ASSUME NEW i \in Places', Is(i, "create")'
               PROVE  i + 2 <= Len(work') /\ Is(i + 1, "fill")' /\ Is(i + 2, "rename")'
    OBVIOUS
  <2>1. CASE i <= x
    <3>1. x = 3 /\ i = 1  BY <1>3, <1>5, <2>1 DEF Is, Places
    <3> QED BY <1>1, <1>4, <1>5, <3>1, <1>8, WorkFacts, <1>3
  <2>2. CASE i > x
    <3> DEFINE j == i - x + d
    <3>1. j \in Places /\ j > d /\ Is(j, "create")  BY <1>6, <2>2 DEF Is
    <3>2. j + 2 <= Len(work) /\ Is(j + 1, "fill") /\ Is(j + 2, "rename")  BY <3>1 DEF OrderInv
    <3>3. j + 1 \in Places /\ j + 2 \in Places /\ j + 1 > d /\ j + 2 > d
      BY <1>1, <3>1, <3>2 DEF Places
    <3>4. (j + 1) - d + x = i + 1 /\ (j + 2) - d + x = i + 2  BY <1>3 DEF Places
    <3> HIDE DEF j
    <3>5. work'[i + 1] = work[j + 1] /\ work'[i + 2] = work[j + 2] /\ i + 2 \in Places'
      BY <1>7, <3>3, <3>4
    <3> QED BY <3>2, <3>5 DEF Is, Places
  <2> QED BY <1>3, <2>1, <2>2 DEF Places
<1>13. \A i \in Places' :
          Is(i, "fill")' => (i = 1 \/ Is(i - 1, "create")') /\ i + 1 <= Len(work')
            /\ Is(i + 1, "rename")'
  <2> SUFFICES ASSUME NEW i \in Places', Is(i, "fill")'
               PROVE  (i = 1 \/ Is(i - 1, "create")') /\ i + 1 <= Len(work') /\ Is(i + 1, "rename")'
    OBVIOUS
  <2>1. CASE i <= x
    <3>1. x = 3 /\ i = 2  BY <1>3, <1>5, <2>1 DEF Is, Places
    <3> QED BY <1>1, <1>3, <1>4, <1>5, <3>1, <1>8, WorkFacts
  <2>2. CASE i > x
    <3> DEFINE j == i - x + d
    <3>1. j \in Places /\ j > d /\ Is(j, "fill")  BY <1>6, <2>2 DEF Is
    <3>2. (j = 1 \/ Is(j - 1, "create")) /\ j + 1 <= Len(work) /\ Is(j + 1, "rename")
      BY <3>1 DEF OrderInv
    <3>3. j + 1 \in Places /\ j + 1 > d /\ (j + 1) - d + x = i + 1
      <4>1. i \in Nat /\ x \in Nat /\ d \in Nat  BY <1>3 DEF Places
      <4>2. (j + 1) - d + x = i + 1  BY ONLY <4>1
      <4> HIDE DEF j
      <4>3. j + 1 \in Places /\ j + 1 > d  BY <1>1, <3>1, <3>2, <4>1 DEF Places
      <4> QED BY <4>2, <4>3
    <3>4. work'[i + 1] = work[j + 1] /\ i + 1 \in Places'  BY <1>7, <3>3
    <3>5. i = 1 \/ Is(i - 1, "create")'
      <4>1. CASE j - 1 = d
        <5>1. Is(d, "create")  BY <1>1, <3>1, <3>2, <4>1 DEF Places
        <5>2. x = 0  BY <1>3, <5>1 DEF Is
        <5> QED BY <1>3, <4>1, <5>2 DEF Places
      <4>2. CASE j - 1 # d
        <5>0. i \in Nat /\ x \in Nat /\ d \in Nat /\ j \in Nat /\ d >= 1  BY <1>3, <3>1 DEF Places
        <5>x. (j - 1) - d + x = i - 1  BY ONLY <5>0
        <5> HIDE DEF j
        <5>1. j - 1 \in Places /\ j - 1 > d /\ Is(j - 1, "create") /\ (j - 1) - d + x = i - 1
          <6>1. j - 1 \in Places /\ j - 1 > d  BY <1>1, <3>1, <4>2, <5>0 DEF Places
          <6>2. j # 1  BY <3>1, <5>0
          <6> QED BY <3>2, <5>x, <6>1, <6>2
        <5>2. work'[i - 1] = work[j - 1]  BY <1>7, <5>1
        <5> QED BY <5>1, <5>2 DEF Is
      <4> QED BY <4>1, <4>2
    <3> QED BY <3>2, <3>4, <3>5 DEF Is, Places
  <2> QED BY <1>3, <2>1, <2>2 DEF Places
<1>14. \A i \in Places' : Is(i, "rename")' => i = 1 \/ Is(i - 1, "fill")'
  <2> SUFFICES ASSUME NEW i \in Places', Is(i, "rename")' PROVE i = 1 \/ Is(i - 1, "fill")'
    OBVIOUS
  <2>1. CASE i <= x
    <3>1. x = 3 /\ i = 3  BY <1>3, <1>5, <2>1 DEF Is, Places
    <3> QED BY <1>5, <3>1
  <2>2. CASE i > x
    <3> DEFINE j == i - x + d
    <3>1. j \in Places /\ j > d /\ Is(j, "rename")  BY <1>6, <2>2 DEF Is
    <3>2. j = 1 \/ Is(j - 1, "fill")  BY <3>1 DEF OrderInv
    <3>3. CASE j - 1 = d
      <4>1. Is(d, "fill")  BY <1>1, <3>1, <3>2, <3>3 DEF Places
      <4>2. x = 0  BY <1>3, <4>1 DEF Is
      <4> QED BY <1>3, <3>3, <4>2 DEF Places
    <3>4. CASE j - 1 # d
      <4>0. i \in Nat /\ x \in Nat /\ d \in Nat /\ j \in Nat /\ d >= 1  BY <1>3, <3>1 DEF Places
      <4>x. (j - 1) - d + x = i - 1  BY ONLY <4>0
      <4> HIDE DEF j
      <4>1. j - 1 \in Places /\ j - 1 > d /\ Is(j - 1, "fill") /\ (j - 1) - d + x = i - 1
        <5>1. j - 1 \in Places /\ j - 1 > d  BY <1>1, <3>1, <3>4, <4>0 DEF Places
        <5>2. j # 1  BY <3>1, <4>0
        <5> QED BY <3>2, <4>x, <5>1, <5>2
      <4>2. work'[i - 1] = work[j - 1]  BY <1>7, <4>1
      <4> QED BY <4>1, <4>2 DEF Is
    <3> QED BY <3>3, <3>4
  <2> QED BY <1>3, <2>1, <2>2 DEF Places
<1>15. OrderInv'
  BY <1>8, <1>11, <1>12, <1>13, <1>14 DEF OrderInv
<1>16. ASSUME NEW i \in Places', Is(i, "complete")'
       PROVE  i > x /\ i - x + d \in Places /\ i - x + d > d /\ Is(i - x + d, "complete")
  <2>1. i > x  BY <1>3, <1>5, <1>16 DEF Is, Places
  <2> QED BY <1>6, <1>16, <2>1 DEF Is
<1>17. ASSUME NEW i \in Places', Is(i, "complete")' \/ Is(i, "terminal")' PROVE phase' = "finish"
  <2>1. i > x  BY <1>3, <1>9, <1>17 DEF Is, Places
  <2>2. i - x + d \in Places /\ (Is(i - x + d, "complete") \/ Is(i - x + d, "terminal"))
    BY <1>6, <1>17, <2>1 DEF Is
  <2> QED BY <2>2 DEF CompleteInv
<1>18. ASSUME NEW i \in Places', NEW j \in Places', Is(i, "complete")', i < j
       PROVE  work'[j].step \notin {"observe", "append", "complete"}
  <2>1. /\ i - x + d \in Places /\ Is(i - x + d, "complete") /\ j > x
        /\ i - x + d < j - x + d
    BY <1>3, <1>16, <1>18 DEF Places
  <2>2. j - x + d \in Places /\ work'[j] = work[j - x + d]  BY <1>6, <2>1
  <2> QED BY <2>1, <2>2 DEF CompleteInv
<1>19. Is(1, "observe") => seen' # <<>> /\ seen'[Len(seen')] = work[1].event
  <2>1. 1 \in Places  BY WorkFacts
  <2>2. Is(1, "observe") => work[1].event \in Events /\ seen' = Append(seen, work[1].event)
    BY <2>1, WorkFacts
  <2>3. seen \in Seq(Events)  BY DEF Typed
  <2> HIDE DEF Events
  <2>4. ASSUME NEW e \in Events
        PROVE  Append(seen, e) # <<>> /\ Append(seen, e)[Len(Append(seen, e))] = e
    <3>1. /\ Len(Append(seen, e)) = Len(seen) + 1 /\ Append(seen, e)[Len(seen) + 1] = e
          /\ Len(seen) \in Nat /\ Len(<<>>) = 0
      BY <2>3, AppendProperties, LenProperties
    <3>2. Len(Append(seen, e)) # Len(<<>>)  BY <3>1
    <3> QED BY <3>1, <3>2
  <2> QED BY <2>2, <2>4
<1>20. ASSUME NEW i \in Places', Is(i, "complete")'
       PROVE  \/ i > 1 /\ Is(i - 1, "observe")' /\ work'[i - 1].event.kind = "session.end"
              \/ LastSeen' /\ \A j \in 1..(i - 1) : ~Is(j, "observe")'
  <2> DEFINE c == i - x + d
  <2>1. i > x /\ c \in Places /\ c > d /\ Is(c, "complete")  BY <1>16, <1>20
  <2>2. ASSUME NEW j \in 1..(i - 1), j <= x PROVE ~Is(j, "observe")'
    <3>1. j \in Places'  BY <1>3, <1>4, <2>2 DEF Places
    <3> QED BY <1>9, <2>2, <3>1 DEF Is
  <2>3. CASE c > 1 /\ Is(c - 1, "observe") /\ work[c - 1].event.kind = "session.end"
    <3>1. CASE c - 1 = d
      <4>1. d = 1 /\ Is(1, "observe")
        <5>1. Is(d, "observe") /\ d \in 1..d  BY <2>3, <3>1
        <5>2. d > 1 => work[d].step \in {"create", "fill", "rename"}  BY <1>3, <5>1
        <5> QED BY <5>1, <5>2 DEF Is
      <4>2. LastSeen'  BY <1>19, <2>3, <3>1, <4>1 DEF LastSeen
      <4>3. i = x + 1
        <5>1. i \in Nat /\ x \in Nat /\ i - x + d - 1 = d  BY <1>3, <1>4, <3>1 DEF Places
        <5> QED BY <5>1
      <4> QED BY <1>3, <2>2, <4>2, <4>3
    <3>2. CASE c - 1 # d
      <4>1. c - 1 \in Places /\ c - 1 > d /\ (c - 1) - d + x = i - 1 /\ i - 1 > x
        BY <1>1, <1>3, <2>1, <3>2 DEF Places
      <4>2. Is(c - 1, "observe") /\ work[c - 1].event.kind = "session.end"  BY <2>3
      <4> HIDE DEF c
      <4>3. work'[i - 1] = work[c - 1]  BY <1>7, <4>1
      <4> QED BY <1>3, <4>1, <4>2, <4>3 DEF Is, Places
    <3> QED BY <3>1, <3>2
  <2>4. CASE LastSeen /\ \A j \in 1..(c - 1) : ~Is(j, "observe")
    <3>1. 1 \in 1..(c - 1)  BY <1>1, <2>1 DEF Places
    <3>2. LastSeen'  BY <2>4, <3>1 DEF LastSeen
    <3>3. ASSUME NEW j \in 1..(i - 1), j > x PROVE ~Is(j, "observe")'
      <4>1. j \in Places' /\ j - x + d \in 1..(c - 1)
        <5>1. i \in Nat /\ i <= Len(work') /\ x \in Nat /\ j \in Nat  BY <1>3, <1>4 DEF Places
        <5>2. j \in Places'  BY <1>4, <5>1 DEF Places
        <5>3. j - x + d >= 1 /\ j - x + d <= c - 1 /\ c \in Int  BY <3>3, <5>1
        <5> QED BY <5>1, <5>2, <5>3
      <4> HIDE DEF c
      <4>2. work'[j] = work[j - x + d]  BY <1>6, <3>3, <4>1
      <4> QED BY <2>4, <4>1, <4>2 DEF Is
    <3> QED BY <1>3, <2>2, <3>2, <3>3
  <2> QED BY <2>1, <2>3, <2>4 DEF CompleteInv
<1>21. CompleteInv'
  BY <1>17, <1>18, <1>20 DEF CompleteInv
<1>22. \A e \in Events : e \in Pending' <=> \E i \in Places' : Is(i, "observe")'
         /\ work'[i].event = e
  <2>1. \A i \in Places' : work'[i] \in Steps  BY <1>4, ElementOfSeq DEF Places
  <2> HIDE DEF Steps, Events
  <2> QED BY <2>1, StepFacts DEF Pending, Is
<1>23. Pending' \subseteq Pending
  <2> SUFFICES ASSUME NEW e \in Pending' PROVE e \in Pending  OBVIOUS
  <2>1. e \in Events  BY DEF Pending
  <2>2. PICK i \in Places' : Is(i, "observe")' /\ work'[i].event = e  BY <1>22, <2>1
  <2>3. i > x  BY <1>3, <1>9, <2>2 DEF Is, Places
  <2>4. i - x + d \in Places /\ Is(i - x + d, "observe") /\ work[i - x + d].event = e
    BY <1>6, <2>2, <2>3 DEF Is
  <2> QED BY <2>1, <2>4, WorkFacts
<1>24. ASSUME NEW e \in Pending PROVE e \in Pending' \/ (Is(1, "observe") /\ work[1].event = e)
  <2>1. e \in Events  BY DEF Pending
  <2>2. PICK j \in Places : Is(j, "observe") /\ work[j].event = e  BY <2>1, WorkFacts
  <2>3. CASE j > d
    <3>1. j - d + x \in Places' /\ Is(j - d + x, "observe")' /\ work'[j - d + x].event = e
      BY <1>7, <2>2, <2>3 DEF Is
    <3> QED BY <1>22, <2>1, <3>1
  <2>4. CASE j <= d
    <3>1. d = 1  BY <1>3, <2>2, <2>4 DEF Is, Places
    <3> QED BY <2>2, <2>4, <3>1 DEF Places
  <2> QED BY <1>1, <2>3, <2>4 DEF Places
<1>25. /\ work' # <<>> /\ Is(1, "rename")' => Is(d, "fill")
       /\ P = <<>> => ~(work' # <<>> /\ Is(1, "append")')
  <2>1. CASE x = 0
    <3>1. work' # <<>> => 1 \in Places'  BY <1>4, EmptySeq DEF Places
    <3>2. 1 - x + d = d + 1 /\ 1 > x /\ d + 1 # 1 /\ (d + 1) - 1 = d  BY <2>1
    <3>3. work' # <<>> => d + 1 \in Places /\ work'[1] = work[d + 1]  BY <1>6, <3>1, <3>2
    <3>4. Is(d + 1, "rename") /\ d + 1 \in Places => Is(d, "fill")  BY <3>2 DEF OrderInv
    <3>5. ~(Is(d + 1, "append") /\ d + 1 \in Places)  BY <3>2 DEF OrderInv
    <3> QED BY <3>3, <3>4, <3>5 DEF Is
  <2>2. CASE x # 0
    <3>1. Is(1, "append")' \/ Is(1, "create")'  BY <1>3, <1>5, <2>2
    <3>2. P # <<>>  BY <1>2, <2>2 DEF x
    <3> QED BY <3>1, <3>2 DEF Is
  <2> QED BY <2>1, <2>2
<1>26. ASSUME NEW i \in Places'
       PROVE  (\E j \in Places : j > d /\ work'[i] = work[j])
                 \/ Is(i, "append")' \/ Is(i, "create")' \/ Is(i, "fill")' \/ Is(i, "rename")'
  <2>1. i > x \/ i <= x  BY <1>3 DEF Places
  <2> QED BY <1>6, <1>9, <2>1
<1> QED BY <1>15, <1>21, <1>23, <1>24, <1>25, <1>26

-----------------------------------------------------------------------------
(* What has been seen, and what is known of the run.                       *)

\* One more event.
LEMMA OneMore ==
    ASSUME NEW s \in Seq(Events), NEW e \in Events
    PROVE  /\ Append(s, e) \in Seq(Events) /\ Len(s) \in Nat /\ Len(Append(s, e)) = Len(s) + 1
           /\ Append(s, e)[Len(s) + 1] = e /\ \A i \in 1..Len(s) : Append(s, e)[i] = s[i]
           /\ ToSet(Append(s, e)) = ToSet(s) \cup {e}
<1> HIDE DEF Events
<1>1. /\ Append(s, e) \in Seq(Events) /\ Len(s) \in Nat /\ Len(Append(s, e)) = Len(s) + 1
      /\ Append(s, e)[Len(s) + 1] = e /\ \A i \in 1..Len(s) : Append(s, e)[i] = s[i]
  BY AppendProperties, LenProperties
<1>2. DOMAIN s = 1..Len(s) /\ DOMAIN Append(s, e) = 1..(Len(s) + 1)  BY <1>1, LenProperties
<1>3. ASSUME NEW y \in ToSet(Append(s, e)) PROVE y \in ToSet(s) \cup {e}
  <2>1. PICK i \in 1..(Len(s) + 1) : y = Append(s, e)[i]  BY <1>2 DEF ToSet
  <2>2. i = Len(s) + 1 \/ i \in 1..Len(s)  BY <1>1
  <2> QED BY <1>1, <1>2, <2>1, <2>2 DEF ToSet
<1>4. ASSUME NEW y \in ToSet(s) PROVE y \in ToSet(Append(s, e))
  <2>1. PICK i \in 1..Len(s) : y = s[i]  BY <1>2 DEF ToSet
  <2>2. i \in 1..(Len(s) + 1) /\ y = Append(s, e)[i]  BY <1>1, <2>1
  <2> QED BY <1>2, <2>2 DEF ToSet
<1>5. e \in ToSet(Append(s, e))
  <2>1. Len(s) + 1 \in 1..(Len(s) + 1)  BY <1>1
  <2> QED BY <1>1, <1>2, <2>1 DEF ToSet
<1> QED BY <1>1, <1>3, <1>4, <1>5

\* A success of a stage is the event of its end.
LEMMA SuccessIsAnEnd ==
    ASSUME NEW e \in Events, NEW i \in 1..NStages, e.item = Stage(i), e.status = "success"
    PROVE  e = Event("end", Stage(i), "success")
<1>1. e.item[1] # "none"  BY ItemFacts
<1>2. e.kind = "end"  BY <1>1, EventFacts
<1> QED BY <1>2, EventFacts

\* The step is the recorder's: the engine and the requests are left alone.
RecorderAlone ==
    /\ UNCHANGED <<script, willing, waiting, wins, exit, inbox, result>>
    /\ phase' = phase \/ (phase = "finish" /\ phase' = "done")

\* What is known of a run survives a step that only concerns the log and the files.
LEMMA QuietStep ==
    ASSUME Typed, CourseInv, FinishInv, RecorderAlone,
           report'.terminal = report.terminal, report'.cleanup = report.cleanup,
           report'.failed = report.failed, report'.last = report.last,
           \A i \in 1..NStages : report'.status[Stage(i)] = report.status[Stage(i)],
           Pending' \subseteq Pending,
           phase' = "run" => \A e \in Pending : e.item[1] = "stage" => e \in Pending'
    PROVE  CourseInv' /\ FinishInv'
<1>1. PICK last \in 1..NStages, ok \in BOOLEAN, clean \in BOOLEAN, n \in 0..(2 * NStages + 4) :
         Course(last, ok, clean, n)
  BY DEF CourseInv
<1>2. NStages \in Nat \ {0}  BY LimitsAssumption
<1>3. \A i \in 1..NStages : Stop(Stage(i), TRUE) \in Events
        /\ Stop(Stage(i), TRUE).item[1] = "stage"
  BY ItemFacts, EventFacts DEF Stop, Event
<1>4. \A i \in 1..last : i \in 1..NStages  BY <1>2
<1>5. Course(last, ok, clean, n)'
  <2>1. phase' = "run" => phase = "run"  BY DEF RecorderAlone
  <2>2. ASSUME phase' = "run"
        PROVE  /\ n < 2 * last + 4 => report'.terminal = "running"
               /\ n = 2 * last + 4 =>
                     LET o == Outcome(last, ok, clean)
                     IN  /\ report'.terminal = o.terminal /\ report'.failed = o.failed
                         /\ report'.last = o.last /\ report'.cleanup = o.cleanup
    BY <1>1, <2>1, <2>2 DEF Course
  <2>3. ASSUME phase' = "run", NEW e \in Pending', e.item[1] = "stage"
        PROVE  n > 0 /\ e = Script(last, ok, clean)[n]
    BY <1>1, <2>1, <2>3 DEF Course
  <2>4. ASSUME phase' = "run", ok, NEW i \in 1..last, 2 * i + 2 <= n
        PROVE  report'.status[Stage(i)] = "success" \/ Stop(Stage(i), TRUE) \in Pending'
    <3>1. report.status[Stage(i)] = "success" \/ Stop(Stage(i), TRUE) \in Pending
      BY <1>1, <2>1, <2>4 DEF Course
    <3> QED BY <1>3, <1>4, <2>4, <3>1
  <2> QED BY <1>1, <2>1, <2>2, <2>3, <2>4 DEF Course, RecorderAlone
<1>6. CourseInv'  BY <1>5 DEF CourseInv
<1>7. FinishInv'  BY DEF FinishInv, RecorderAlone
<1> QED BY <1>6, <1>7

-----------------------------------------------------------------------------
(* The recorder's steps.                                                   *)

\* What observing an event makes of the report and of the operation: it is appended
\* only to a log that is still recording, and a log that misses it records no more.
LEMMA ObserveEffect ==
    ASSUME RecorderInv, ObserveStep
    PROVE  \E e \in Events, P \in Seq(Steps), log \in Logs :
             /\ work # <<>> /\ Is(1, "observe") /\ work[1].event = e /\ e \in Pending
             /\ seen' = Append(seen, e) /\ Moves(P, 1) /\ Follows(P, 1)
             /\ report' = [Applied(report, e) EXCEPT !.log = log]
                   \/ (report' = [report EXCEPT !.log = log] /\ e.item[1] = "span")
             /\ \/ P = <<>> /\ log # "recording"
                \/ P = <<[step |-> "append", event |-> e]>> /\ log = "recording"
                     /\ report.log = "recording"
             /\ log = "complete" => report.log = "complete"
             /\ report.log = "failed" => log = "failed"
<1> DEFINE e == Head(work).event
           r == Applied(report, e)
           a == <<[step |-> "append", event |-> e]>>
<1>1. Typed /\ work # <<>> /\ Head(work).step = "observe"
  BY DEF ObserveStep, RecorderInv, FilesInv
<1>2. 1 \in Places /\ Head(work) = work[1] /\ Is(1, "observe") /\ work[1].event = e
  BY <1>1, WorkFacts DEF Is
<1>3. e \in Events /\ e \in Pending  BY <1>1, <1>2, WorkFacts
<1>4. report \in Reports /\ report.log \in Logs  BY <1>1 DEF Typed, Reports
<1>5. r \in Reports /\ r.log = report.log  BY <1>3, <1>4, AppliedFacts
<1>6. seen' = Append(seen, e)  BY DEF ObserveStep
<1>7. <<>> \in Seq(Steps) /\ Follows(<<>>, 1)
  <2>1. <<>> \in Seq(Steps)  BY EmptySeq
  <2> QED BY <2>1 DEF Follows
<1>8. a \in Seq(Steps) /\ Follows(a, 1)
  <2>1. [step |-> "append", event |-> e] \in Steps  BY <1>3, StepFacts
  <2> HIDE DEF Steps
  <2>2. <<[step |-> "append", event |-> e]>> \in Seq(Steps)  BY <2>1
  <2> QED BY <1>2, <1>3, <2>2 DEF Follows, Is
<1>9. CASE Overflow(e)
  <2>1. report' = [report EXCEPT !.log = Failure(report.log)] /\ work' = Tail(work)
    BY <1>9 DEF ObserveStep
  <2>2. Failure(report.log) \in Logs \ {"recording", "complete"}
    BY <1>4, FailureFacts DEF Logs
  <2>3. report.log = "failed" => Failure(report.log) = "failed"  BY <1>4, FailureFacts
  <2>4. Moves(<<>>, 1)  BY <1>1, <2>1, MovesOn
  <2>5. e.item[1] = "span"  BY <1>9 DEF Overflow, IsSpan
  <2> DEFINE log == Failure(report.log)
  <2>6. log \in Logs /\ log # "recording" /\ log # "complete"  BY <2>2
  <2> HIDE DEF e, r, a
  <2> QED BY <1>1, <1>2, <1>3, <1>6, <1>7, <2>1, <2>3, <2>4, <2>5, <2>6
<1>10. CASE ~Overflow(e)
  <2>1. /\ report' = IF OverLimit(e) /\ r.log = "recording"
             THEN [r EXCEPT !.log = "truncated"] ELSE r
        /\ work' = (IF OverLimit(e) \/ r.log # "recording" THEN <<>> ELSE a) \o Tail(work)
    BY <1>10 DEF ObserveStep
  <2>2. r = [r EXCEPT !.log = report.log]  BY <1>5 DEF Reports
  <2>3. CASE OverLimit(e) /\ report.log = "recording"
    <3>1. report' = [r EXCEPT !.log = "truncated"] /\ work' = <<>> \o Tail(work)
      BY <1>5, <2>1, <2>3
    <3>2. Moves(<<>>, 1)  BY <1>1, <1>7, <3>1, MovesOn
    <3>3. "truncated" \in Logs  BY DEF Logs
    <3> HIDE DEF e, a
    <3> QED BY <1>1, <1>2, <1>3, <1>6, <1>7, <2>3, <3>1, <3>2, <3>3
  <2>4. CASE report.log # "recording"
    <3>1. report' = [r EXCEPT !.log = report.log] /\ work' = <<>> \o Tail(work)
      BY <1>5, <2>1, <2>2, <2>4
    <3>2. Moves(<<>>, 1)  BY <1>1, <1>7, <3>1, MovesOn
    <3> HIDE DEF e, a
    <3> QED BY <1>1, <1>2, <1>3, <1>4, <1>6, <1>7, <2>4, <3>1, <3>2
  <2>5. CASE ~OverLimit(e) /\ report.log = "recording"
    <3>1. report' = [r EXCEPT !.log = report.log] /\ work' = a \o Tail(work)
      BY <1>5, <2>1, <2>2, <2>5
    <3>2. Moves(a, 1)  BY <1>1, <1>8, <3>1, MovesOn
    <3>3. a = <<[step |-> "append", event |-> e]>>  OBVIOUS
    <3> HIDE DEF e, a
    <3>4. a \in Seq(Steps) /\ "recording" \in Logs /\ "recording" # "complete"
            /\ "recording" # "failed"
      BY <1>8 DEF Logs
    <3> QED BY <1>1, <1>2, <1>3, <1>6, <1>8, <2>5, <3>1, <3>2, <3>3, <3>4
  <2> QED BY <2>3, <2>4, <2>5
<1> QED BY <1>9, <1>10

\* Observing an event.
LEMMA ObserveKept ==
    ASSUME RecorderInv, ObserveStep
    PROVE  RecorderInv'
<1>1. PICK e \in Events, P \in Seq(Steps), log \in Logs :
             /\ work # <<>> /\ Is(1, "observe") /\ work[1].event = e /\ e \in Pending
             /\ seen' = Append(seen, e) /\ Moves(P, 1) /\ Follows(P, 1)
             /\ report' = [Applied(report, e) EXCEPT !.log = log]
                   \/ (report' = [report EXCEPT !.log = log] /\ e.item[1] = "span")
             /\ \/ P = <<>> /\ log # "recording"
                \/ P = <<[step |-> "append", event |-> e]>> /\ log = "recording"
                     /\ report.log = "recording"
             /\ log = "complete" => report.log = "complete"
             /\ report.log = "failed" => log = "failed"
  BY ObserveEffect
<1>2. Typed /\ OrderInv /\ CompleteInv /\ JournalInv /\ CreditInv /\ CourseInv /\ FinishInv
  BY DEF RecorderInv, FilesInv
<1>3. UNCHANGED <<script, willing, waiting, wins, exit, inbox, phase, result, notes, fileVars>>
  BY DEF ObserveStep
<1>4. /\ Len(work) \in Nat /\ 1 \in 1..3 /\ 1 <= Len(work) /\ 1 \in Places
  BY <1>1, <1>2, WorkFacts DEF Places
<1>5. phase \notin {"done", "killed"}  BY <1>1, <1>2 DEF OrderInv
<1>6. seen' = IF Is(1, "observe") THEN Append(seen, work[1].event) ELSE seen  BY <1>1
<1>7. /\ OrderInv' /\ CompleteInv' /\ Pending' \subseteq Pending
      /\ \A x \in Pending : x \in Pending' \/ (Is(1, "observe") /\ work[1].event = x)
      /\ work' # <<>> /\ Is(1, "rename")' => Is(1, "fill")
      /\ P = <<>> => ~(work' # <<>> /\ Is(1, "append")')
  BY <1>1, <1>2, <1>3, <1>4, <1>6, OrderKept
<1>8. seen \in Seq(Events) /\ report \in Reports /\ report.log \in Logs  BY <1>2 DEF Typed, Reports
<1>9. /\ seen' \in Seq(Events) /\ Len(seen) \in Nat /\ Len(seen') = Len(seen) + 1
      /\ \A i \in 1..Len(seen) : seen'[i] = seen[i]
      /\ ToSet(seen') = ToSet(seen) \cup {e}
  BY <1>1, <1>8, OneMore
<1>10. /\ Applied(report, e) \in Reports
       /\ Applied(report, e).terminal = report.terminal
       /\ Applied(report, e).cleanup = report.cleanup
       /\ e.item[1] # "stage" =>
             /\ Applied(report, e).last = report.last /\ Applied(report, e).failed = report.failed
             /\ \A i \in 1..NStages : Applied(report, e).status[Stage(i)] = report.status[Stage(i)]
       /\ \A i \in 1..NStages :
             Applied(report, e).status[Stage(i)] =
                IF e.item = Stage(i) THEN e.status ELSE report.status[Stage(i)]
  BY <1>1, <1>8, AppliedFacts
<1>11. e.item[1] = "span" => \A i \in 1..NStages : e.item # Stage(i)  BY ItemFacts
<1>12. /\ report' \in Reports /\ report'.log = log
       /\ report'.terminal = report.terminal /\ report'.cleanup = report.cleanup
       /\ e.item[1] # "stage" =>
             /\ report'.last = report.last /\ report'.failed = report.failed
             /\ \A i \in 1..NStages : report'.status[Stage(i)] = report.status[Stage(i)]
       /\ \A i \in 1..NStages :
             report'.status[Stage(i)] = IF e.item = Stage(i)
               THEN e.status ELSE report.status[Stage(i)]
  <2>1. CASE report' = [Applied(report, e) EXCEPT !.log = log]
    <3>1. report' \in Reports  BY <1>10, <2>1, Relogged
    <3>2. /\ report'.log = log /\ report'.terminal = Applied(report, e).terminal
          /\ report'.cleanup = Applied(report, e).cleanup /\ report'.last = Applied(report, e).last
          /\ report'.failed = Applied(report, e).failed
               /\ report'.status = Applied(report, e).status
      BY <1>10, <2>1 DEF Reports
    <3> QED BY <1>10, <3>1, <3>2
  <2>2. CASE report' = [report EXCEPT !.log = log] /\ e.item[1] = "span"
    <3>1. report' \in Reports  BY <1>8, <2>2, Relogged
    <3>2. /\ report'.log = log /\ report'.terminal = report.terminal
          /\ report'.cleanup = report.cleanup /\ report'.last = report.last
          /\ report'.failed = report.failed /\ report'.status = report.status
      BY <1>8, <2>2 DEF Reports
    <3> QED BY <1>11, <2>2, <3>1, <3>2
  <2> QED BY <1>1, <2>1, <2>2
<1>13. Typed'
  <2>1. work' \in Seq(Steps)  BY <1>1 DEF Moves
  <2> QED BY <1>2, <1>3, <1>9, <1>12, <2>1 DEF Typed, fileVars
<1>14. JournalInv'
  <2>1. journal' = journal /\ torn' = torn  BY <1>3 DEF fileVars
  <2>2. Len(journal') <= Len(seen') /\ \A i \in 1..Len(journal') : journal'[i] = seen'[i]
    <3>1. Len(journal) \in Nat /\ Len(journal) <= Len(seen)
          /\ \A i \in 1..Len(journal) : journal[i] = seen[i]
      BY <1>2, LenProperties DEF JournalInv, Typed
    <3>2. \A i \in 1..Len(journal) : i \in 1..Len(seen)  BY <1>9, <3>1
    <3> QED BY <1>9, <2>1, <3>1, <3>2
  <2>3. CASE P = <<>> /\ log # "recording"
    <3>1. ~(work' # <<>> /\ Is(1, "append")') /\ report'.log # "recording"
      BY <1>7, <1>12, <2>3
    <3>2. report'.log # "complete"
      <4>1. report.log # "complete"  BY <1>1, <1>2, <1>4 DEF JournalInv, Is
      <4> QED BY <1>1, <1>12, <4>1
    <3>3. torn' => report'.log = "failed" \/ phase' = "killed"
      BY <1>1, <1>2, <1>3, <1>12, <2>1 DEF JournalInv
    <3> QED BY <2>2, <3>1, <3>2, <3>3 DEF JournalInv
  <2>4. CASE P = <<[step |-> "append", event |-> e]>> /\ log = "recording"
               /\ report.log = "recording"
    <3>1. work' # <<>> /\ work'[1] = [step |-> "append", event |-> e]
      <4>1. Len(P) = 1 /\ P[1] = [step |-> "append", event |-> e]  BY <2>4
      <4>2. Len(work') = 1 + Len(work) - 1 /\ work'[1] = P[1]
        BY <1>1, <4>1 DEF Moves
      <4>3. Len(work') # 0  BY <1>4, <4>2
      <4>4. Len(<<>>) = 0  OBVIOUS
      <4> QED BY <4>1, <4>2, <4>3, <4>4
    <3>2. journal = seen
      <4>1. ~Is(1, "append")  BY <1>1 DEF Is
      <4> QED BY <1>2, <1>5, <2>4, <4>1 DEF JournalInv
    <3>3. seen' = Append(journal', work'[1].event)  BY <1>1, <2>1, <3>1, <3>2
    <3>4. ~torn  BY <1>2, <1>5, <2>4 DEF JournalInv
    <3>5. Is(1, "append")' /\ report'.log = "recording"  BY <1>12, <2>4, <3>1 DEF Is
    <3> QED BY <2>1, <2>2, <3>1, <3>3, <3>4, <3>5 DEF JournalInv
  <2> QED BY <1>1, <2>3, <2>4
<1>15. CreditInv'
  <2>1. ASSUME NEW i \in 1..NStages, report'.status[Stage(i)] = "success"
        PROVE  Event("end", Stage(i), "success") \in ToSet(seen')
    <3>1. CASE e.item = Stage(i)
      <4>1. e.status = "success"  BY <1>12, <2>1, <3>1
      <4> QED BY <1>9, <3>1, <4>1, SuccessIsAnEnd
    <3>2. CASE e.item # Stage(i)
      <4>1. report.status[Stage(i)] = "success"  BY <1>12, <2>1, <3>2
      <4> QED BY <1>2, <1>9, <4>1 DEF CreditInv
    <3> QED BY <3>1, <3>2
  <2>2. ~(work' # <<>> /\ Is(1, "rename")')  BY <1>1, <1>7 DEF Is
  <2>3. journal' = journal /\ temp' = temp /\ summary' = summary  BY <1>3 DEF fileVars
  <2> QED BY <1>2, <2>1, <2>2, <2>3 DEF CreditInv, Credited, Journalled
<1>16. CourseInv' /\ FinishInv'
  <2>1. RecorderAlone  BY <1>3 DEF RecorderAlone
  <2>2. CASE e.item[1] # "stage"
    <3>1. \A x \in Pending : x.item[1] = "stage" => x \in Pending'  BY <1>1, <1>7, <2>2
    <3> QED BY <1>2, <1>7, <1>12, <2>1, <2>2, <3>1, QuietStep
  <2>3. CASE e.item[1] = "stage" /\ phase = "run"
    <3>1. PICK last \in 1..NStages, ok \in BOOLEAN, clean \in BOOLEAN, n \in 0..(2 * NStages + 4) :
             Course(last, ok, clean, n)
      BY <1>2 DEF CourseInv
    <3> DEFINE full == Script(last, ok, clean)
               said == 2 * last + 4 - Len(script)
    <3>2. NStages \in Nat \ {0} /\ last \in Nat /\ Len(script) \in Nat
      <4>1. script \in Seq(Events \cup Outcomes)  BY <1>2 DEF Typed
      <4> HIDE DEF Events, Outcomes
      <4> QED BY <4>1, LimitsAssumption, LenProperties
    <3>3. n > 0 /\ e = full[n] /\ n \in 0..said  BY <1>1, <2>3, <3>1 DEF Course
    <3>4. n \in 1..(2 * last + 4)  BY <3>2, <3>3
    <3>5. e.kind \in {"start", "end"}  BY <2>3, EventFacts
    <3>6. n \in 1..(2 * last + 3)
      <4>1. full[2 * last + 4].kind = "outcome"  BY ScriptFacts
      <4>2. n # 2 * last + 4  BY <3>3, <3>5, <4>1
      <4> QED BY <3>2, <3>4, <4>2
    <3>7. \A i \in 1..NStages : e.item = Stage(i) =>
             /\ n <= 2 * i + 2
             /\ n = 2 * i + 2 => e = Stop(Stage(i), i < last \/ ok)
      <4>1. (2 * last + 4) - 1 = 2 * last + 3  BY <3>2
      <4> HIDE DEF full
      <4>2. \A k \in 1..((2 * last + 4) - 1) : \A i \in 1..NStages : full[k].item = Stage(i) =>
               k <= 2 * i + 2 /\ (k = 2 * i + 2 => full[k] = Stop(Stage(i), i < last \/ ok))
        BY ScriptFacts DEF full
      <4> QED BY <3>3, <3>6, <4>1, <4>2
    <3>8. ASSUME ok, NEW i \in 1..last, 2 * i + 2 <= n
          PROVE  report'.status[Stage(i)] = "success" \/ Stop(Stage(i), TRUE) \in Pending'
      <4>1. i \in 1..NStages  BY <3>2
      <4>2. Stop(Stage(i), TRUE).item = Stage(i) /\ Stop(Stage(i), TRUE).status = "success"
        BY DEF Stop, Event
      <4>3. report.status[Stage(i)] = "success" \/ Stop(Stage(i), TRUE) \in Pending
        BY <2>3, <3>1, <3>8 DEF Course
      <4>4. CASE e.item = Stage(i)
        <5>1. n = 2 * i + 2  BY <3>2, <3>7, <3>8, <4>1, <4>4
        <5>2. e = Stop(Stage(i), TRUE)  BY <3>7, <3>8, <4>1, <4>4, <5>1
        <5> QED BY <1>12, <4>1, <4>2, <5>2
      <4>5. CASE e.item # Stage(i)
        <5>1. report'.status[Stage(i)] = report.status[Stage(i)]  BY <1>12, <4>1, <4>5
        <5>2. e # Stop(Stage(i), TRUE)  BY <4>2, <4>5
        <5> QED BY <1>1, <1>7, <4>3, <5>1, <5>2
      <4> QED BY <4>4, <4>5
    <3>9. Course(last, ok, clean, n)'
      <4>1. n < 2 * last + 4 /\ n # 2 * last + 4  BY <3>2, <3>6
      <4>2. report'.terminal = "running"  BY <1>12, <2>3, <3>1, <4>1 DEF Course
      <4>3. \A x \in Pending' : x.item[1] = "stage" => n > 0 /\ x = full[n]
        BY <1>7, <2>3, <3>1 DEF Course
      <4> QED BY <1>3, <2>3, <3>1, <3>8, <4>1, <4>2, <4>3 DEF Course
    <3>10. FinishInv'  BY <1>2, <1>3, <2>3 DEF FinishInv
    <3> QED BY <3>9, <3>10 DEF CourseInv
  <2>4. CASE e.item[1] = "stage" /\ phase = "finish"
    <3>1. report.terminal # "success"  BY <1>1, <1>2, <2>4 DEF FinishInv
    <3>2. FinishInv'  BY <1>2, <1>3, <1>12, <2>4, <3>1 DEF FinishInv
    <3>3. PICK last \in 1..NStages, ok \in BOOLEAN, clean \in BOOLEAN, n \in 0..(2 * NStages + 4) :
             Course(last, ok, clean, n)
      BY <1>2 DEF CourseInv
    <3>4. Course(last, ok, clean, n)'  BY <1>3, <2>4, <3>3 DEF Course
    <3> QED BY <3>2, <3>4 DEF CourseInv
  <2>5. phase \in {"run", "finish"}  BY <1>2, <1>5 DEF Typed
  <2> QED BY <2>2, <2>3, <2>4, <2>5
<1> QED BY <1>7, <1>13, <1>14, <1>15, <1>16 DEF RecorderInv, FilesInv

\* A fresh report credits nothing.
LEMMA FreshFacts ==
    /\ Fresh \in Reports /\ NoFile \in Files /\ File("partial", Fresh) \in Files
    /\ \A r \in Reports : File("whole", r) \in Files
    /\ Credited(NoFile) /\ Credited(File("partial", Fresh))
    /\ NoFile.state = "none" /\ \A s, r : File(s, r).state = s /\ File(s, r).report = r
<1>1. NStages \in Nat  BY LimitsAssumption
<1>2. [item \in Items |-> "notStarted"] \in [Items -> Ended \cup {"notStarted", "running"}]  OBVIOUS
<1>3. Fresh \in Reports  BY <1>1, <1>2 DEF Fresh, Reports, Logs, Terminals
<1>4. \A i \in 1..NStages : Fresh.status[Stage(i)] = "notStarted"  BY ItemFacts DEF Fresh
<1>5. \A s, r : File(s, r).state = s /\ File(s, r).report = r  BY DEF File
<1>6. \A s \in {"none", "partial", "whole"}, r \in Reports : File(s, r) \in Files
  BY DEF File, Files
<1> QED BY <1>3, <1>4, <1>5, <1>6 DEF NoFile, Credited

\* What a step that observes nothing leaves as it is.
LEMMA LogStep ==
    ASSUME RecorderInv, work # <<>>, ~Is(1, "observe"), seen' = seen, phase' = phase,
           UNCHANGED <<script, willing, waiting, wins, exit, inbox, result>>,
           NEW log \in Logs, report' = [report EXCEPT !.log = log],
           NEW P \in Seq(Steps), NEW d \in 1..3, d <= Len(work), Moves(P, d), Follows(P, d)
    PROVE  /\ OrderInv' /\ CompleteInv' /\ CourseInv' /\ FinishInv'
           /\ work' \in Seq(Steps) /\ report' \in Reports /\ report'.log = log
           /\ phase \notin {"done", "killed"}
           /\ \A i \in 1..NStages : report'.status[Stage(i)] = "success" =>
                 Event("end", Stage(i), "success") \in ToSet(seen')
           /\ work' # <<>> /\ Is(1, "rename")' => Is(d, "fill")
           /\ P = <<>> => ~(work' # <<>> /\ Is(1, "append")')
           /\ \A i \in Places' : (\E j \in Places : j > d /\ work'[i] = work[j])
                                    \/ Is(i, "append")' \/ Is(i, "create")' \/ Is(i, "fill")'
                                    \/ Is(i, "rename")'
<1>1. Typed /\ OrderInv /\ CompleteInv /\ CreditInv /\ CourseInv /\ FinishInv
  BY DEF RecorderInv, FilesInv
<1>2. seen' = IF Is(1, "observe") THEN Append(seen, work[1].event) ELSE seen  OBVIOUS
<1>3. /\ OrderInv' /\ CompleteInv' /\ Pending' \subseteq Pending
      /\ \A e \in Pending : e \in Pending' \/ (Is(1, "observe") /\ work[1].event = e)
      /\ work' # <<>> /\ Is(1, "rename")' => Is(d, "fill")
      /\ P = <<>> => ~(work' # <<>> /\ Is(1, "append")')
      /\ \A i \in Places' : (\E j \in Places : j > d /\ work'[i] = work[j])
                               \/ Is(i, "append")' \/ Is(i, "create")' \/ Is(i, "fill")'
                               \/ Is(i, "rename")'
  BY <1>1, <1>2, OrderKept
<1>4. report \in Reports  BY <1>1 DEF Typed
<1>5. report' \in Reports  BY <1>4, Relogged
<1>6. /\ report'.log = log /\ report'.terminal = report.terminal
      /\ report'.cleanup = report.cleanup /\ report'.last = report.last
      /\ report'.failed = report.failed /\ report'.status = report.status
  BY <1>4 DEF Reports
<1>7. RecorderAlone  BY DEF RecorderAlone
<1>8. CourseInv' /\ FinishInv'  BY <1>1, <1>3, <1>6, <1>7, QuietStep
<1>9. phase \notin {"done", "killed"}  BY <1>1 DEF OrderInv
<1>10. work' \in Seq(Steps)  BY DEF Moves
<1> QED BY <1>1, <1>3, <1>5, <1>6, <1>8, <1>9, <1>10 DEF CreditInv

\* Writing a line to the journal.
LEMMA AppendKept ==
    ASSUME RecorderInv, AppendStep
    PROVE  RecorderInv'
<1> DEFINE e == Head(work).event
<1>1. Typed /\ OrderInv /\ JournalInv /\ CreditInv  BY DEF RecorderInv, FilesInv
<1>2. work # <<>> /\ Head(work).step = "append"  BY DEF AppendStep
<1>3. /\ 1 \in Places /\ 1 <= Len(work) /\ 1 \in 1..3 /\ Head(work) = work[1] /\ Is(1, "append")
      /\ ~Is(1, "observe") /\ ~Is(1, "fill") /\ e \in Events
  <2>1. 1 \in Places /\ Head(work) = work[1] /\ work[1] \in Steps  BY <1>1, <1>2, WorkFacts
  <2> QED BY <1>2, <2>1, StepFacts DEF Is, Places
<1>4. UNCHANGED <<script, willing, waiting, wins, exit, inbox, stack, phase, result, notes, temp,
        summary, seen>>
  BY DEF AppendStep
<1>5. report.log = "recording" /\ seen = Append(journal, e)  BY <1>1, <1>2, <1>3 DEF JournalInv
<1>6. report \in Reports /\ journal \in Seq(Events) /\ seen \in Seq(Events)  BY <1>1 DEF Typed
<1>7. ToSet(seen) = ToSet(journal) \cup {e}  BY <1>3, <1>5, <1>6, OneMore
<1>8. phase \notin {"done", "killed"}  BY <1>1, <1>2 DEF OrderInv
<1>9. ~torn  BY <1>1, <1>5, <1>8 DEF JournalInv
<1>10. "recording" \in Logs /\ "failed" \in Logs  BY DEF Logs
<1>11. CASE /\ journal' = Append(journal, e)
            /\ work' = (IF Ends(e) THEN Checkpoint ELSE <<>>) \o Tail(work)
            /\ UNCHANGED <<report, torn>>
  <2>1. PICK P \in {<<>>, Checkpoint} : work' = P \o Tail(work)  BY <1>11
  <2>2. P \in Seq(Steps)  BY <2>1, StepFacts, EmptySeq
  <2>3. Moves(P, 1)  BY <1>1, <1>2, <2>1, <2>2, MovesOn
  <2>4. Follows(P, 1)  BY <1>3, <2>1 DEF Follows, Is
  <2>5. report' = [report EXCEPT !.log = "recording"]  BY <1>5, <1>6, <1>11 DEF Reports
  <2>6. /\ OrderInv' /\ CompleteInv' /\ CourseInv' /\ FinishInv'
        /\ work' \in Seq(Steps) /\ report' \in Reports
        /\ \A i \in 1..NStages : report'.status[Stage(i)] = "success" =>
              Event("end", Stage(i), "success") \in ToSet(seen')
        /\ work' # <<>> /\ Is(1, "rename")' => Is(1, "fill")
        /\ P = <<>> => ~(work' # <<>> /\ Is(1, "append")')
    BY <1>2, <1>3, <1>4, <1>10, <2>2, <2>3, <2>4, <2>5, LogStep
  <2>7. ~(work' # <<>> /\ Is(1, "append")')
    <3>1. CASE P = Checkpoint
      <4>1. work'[1] = Checkpoint[1]  BY <2>3, <3>1, StepFacts DEF Moves
      <4> QED BY <4>1, StepFacts DEF Is
    <3> QED BY <2>1, <2>6, <3>1
  <2>8. journal' = seen /\ seen' = seen  BY <1>4, <1>5, <1>11
  <2>9. Typed'  BY <1>1, <1>4, <1>11, <2>6, <2>8 DEF Typed
  <2>10. JournalInv'
    <3>1. report'.log = "recording" /\ ~torn'  BY <1>5, <1>9, <1>11
    <3>2. Len(journal') <= Len(seen') /\ \A i \in 1..Len(journal') : journal'[i] = seen'[i]
      <4>1. Len(seen) \in Nat  BY <1>6, LenProperties
      <4> QED BY <2>8, <4>1
    <3> QED BY <2>7, <2>8, <3>1, <3>2 DEF JournalInv
  <2>11. CreditInv'
    <3>1. ToSet(journal) \subseteq ToSet(journal')  BY <1>7, <2>8
    <3> QED BY <1>1, <1>3, <1>4, <2>6, <3>1 DEF CreditInv, Credited, Journalled
  <2> QED BY <2>6, <2>9, <2>10, <2>11 DEF RecorderInv, FilesInv
<1>12. CASE /\ report' = [report EXCEPT !.log = Failure(report.log)]
            /\ torn' \in BOOLEAN /\ work' = Tail(work) /\ journal' = journal
  <2>1. Failure(report.log) = "failed"  BY <1>5 DEF Failure
  <2>2. Moves(<<>>, 1)  BY <1>1, <1>2, <1>12, MovesOn
  <2>3. <<>> \in Seq(Steps) /\ Follows(<<>>, 1)
    <3>1. <<>> \in Seq(Steps)  BY EmptySeq
    <3> QED BY <3>1 DEF Follows
  <2>4. report' = [report EXCEPT !.log = "failed"]  BY <1>12, <2>1
  <2>5. /\ OrderInv' /\ CompleteInv' /\ CourseInv' /\ FinishInv'
        /\ work' \in Seq(Steps) /\ report' \in Reports /\ report'.log = "failed"
        /\ \A i \in 1..NStages : report'.status[Stage(i)] = "success" =>
              Event("end", Stage(i), "success") \in ToSet(seen')
        /\ work' # <<>> /\ Is(1, "rename")' => Is(1, "fill")
        /\ ~(work' # <<>> /\ Is(1, "append")')
    BY <1>2, <1>3, <1>4, <1>10, <2>2, <2>3, <2>4, LogStep
  <2>6. Typed'  BY <1>1, <1>4, <1>12, <2>5 DEF Typed
  <2>7. JournalInv'
    <3>1. Len(journal') <= Len(seen') /\ \A i \in 1..Len(journal') : journal'[i] = seen'[i]
      BY <1>1, <1>4, <1>12 DEF JournalInv
    <3> QED BY <2>5, <3>1 DEF JournalInv
  <2>8. CreditInv'  BY <1>1, <1>3, <1>4, <1>12, <2>5 DEF CreditInv, Credited, Journalled
  <2> QED BY <2>5, <2>6, <2>7, <2>8 DEF RecorderInv, FilesInv
<1> QED BY <1>11, <1>12 DEF AppendStep

\* A step of a checkpoint, or d of them given up: what is left is to say what becomes
\* of the two files.
LEMMA CheckpointStep ==
    ASSUME RecorderInv, work # <<>>, work[1].step \in {"create", "fill", "rename"},
           UNCHANGED <<script, willing, waiting, wins, exit, inbox, phase, result, journal, torn,
             seen>>,
           report' = report \/ report' = [report EXCEPT !.log = Failure(report.log)],
           NEW d \in 1..3, d <= Len(work), Moves(<<>>, d),
           d > 1 => \A k \in 1..d : work[k].step \in {"create", "fill", "rename"},
           temp' \in Files, summary' \in Files, Credited(temp)', Credited(summary)',
           summary'.state # "partial", Is(d, "fill") => temp'.state = "whole"
    PROVE  RecorderInv'
<1>1. Typed /\ OrderInv /\ JournalInv /\ CreditInv  BY DEF RecorderInv, FilesInv
<1>2. report \in Reports /\ report.log \in Logs  BY <1>1 DEF Typed, Reports
<1>3. PICK log \in Logs : /\ report' = [report EXCEPT !.log = log]
                          /\ log = report.log \/ log \in {"unavailable", "failed"}
                          /\ report.log = "failed" => log = "failed"
  <2>1. CASE report' = report
    <3>1. report' = [report EXCEPT !.log = report.log]  BY <1>2, <2>1 DEF Reports
    <3> QED BY <1>2, <3>1
  <2>2. CASE report' = [report EXCEPT !.log = Failure(report.log)]
    <3>1. Failure(report.log) \in {"unavailable", "failed"}
          /\ (report.log = "failed" => Failure(report.log) = "failed")
      BY <1>2, FailureFacts
    <3>2. Failure(report.log) \in Logs  BY <3>1 DEF Logs
    <3> QED BY <2>2, <3>1, <3>2
  <2> QED BY <2>1, <2>2
<1>4. ~Is(1, "observe") /\ ~Is(1, "append")  BY DEF Is
<1>5. <<>> \in Seq(Steps) /\ Follows(<<>>, d)
  <2>1. <<>> \in Seq(Steps)  BY EmptySeq
  <2> QED BY <2>1 DEF Follows
<1>6. /\ OrderInv' /\ CompleteInv' /\ CourseInv' /\ FinishInv'
      /\ work' \in Seq(Steps) /\ report' \in Reports /\ report'.log = log
      /\ phase \notin {"done", "killed"}
      /\ \A i \in 1..NStages : report'.status[Stage(i)] = "success" =>
            Event("end", Stage(i), "success") \in ToSet(seen')
      /\ work' # <<>> /\ Is(1, "rename")' => Is(d, "fill")
      /\ ~(work' # <<>> /\ Is(1, "append")')
      /\ \A i \in Places' : (\E j \in Places : j > d /\ work'[i] = work[j])
                               \/ Is(i, "append")' \/ Is(i, "create")' \/ Is(i, "fill")'
                               \/ Is(i, "rename")'
  BY <1>3, <1>4, <1>5, LogStep
<1>7. Typed'  BY <1>1, <1>6 DEF Typed
<1>8. JournalInv'
  <2>1. Len(journal') <= Len(seen') /\ \A i \in 1..Len(journal') : journal'[i] = seen'[i]
    BY <1>1 DEF JournalInv
  <2>2. report'.log = "recording" => journal' = seen'
    BY <1>1, <1>3, <1>4, <1>6 DEF JournalInv
  <2>3. ASSUME report'.log = "complete"
        PROVE  /\ phase' # "run" /\ journal' = seen' /\ ~torn' /\ LastSeen'
               /\ \A i \in Places' : work'[i].step \notin {"observe", "append", "complete"}
    <3>1. report.log = "complete"  BY <1>3, <1>6, <2>3
    <3>2. /\ phase # "run" /\ journal = seen /\ ~torn /\ LastSeen
          /\ \A i \in Places : work[i].step \notin {"observe", "append", "complete"}
      BY <1>1, <3>1 DEF JournalInv
    <3>3. ASSUME NEW i \in Places' PROVE work'[i].step \notin {"observe", "append", "complete"}
      <4>1. ~Is(i, "append")'
        <5>1. Is(i, "append")' => i = 1  BY <1>6 DEF OrderInv
        <5>2. i \in Places' => work' # <<>>
          <6>1. Len(<<>>) = 0 /\ Len(work') \in Nat  BY <1>6, LenProperties
          <6> QED BY <6>1 DEF Places
        <5> QED BY <1>6, <5>1, <5>2
      <4> QED BY <1>6, <3>2, <4>1 DEF Is
    <3> QED BY <3>2, <3>3 DEF LastSeen
  <2>4. torn' => report'.log = "failed" \/ phase' = "killed"
    BY <1>1, <1>3, <1>6 DEF JournalInv
  <2> QED BY <1>6, <2>1, <2>2, <2>3, <2>4 DEF JournalInv
<1>9. CreditInv'  BY <1>6 DEF CreditInv
<1> QED BY <1>6, <1>7, <1>8, <1>9 DEF RecorderInv, FilesInv

\* Creating the temporary summary, or not.
LEMMA CreateKept ==
    ASSUME RecorderInv, CreateStep
    PROVE  RecorderInv'
<1>1. Typed /\ OrderInv /\ JournalInv /\ CreditInv  BY DEF RecorderInv, FilesInv
<1>2. work # <<>> /\ Head(work).step = "create"  BY DEF CreateStep
<1>3. Len(work) \in Nat /\ 1 \in Places /\ Head(work) = work[1]  BY <1>1, <1>2, WorkFacts
<1>4. Is(1, "create") /\ 1 + 2 <= Len(work) /\ Is(1 + 1, "fill") /\ Is(1 + 2, "rename")
  BY <1>1, <1>2, <1>3 DEF Is, OrderInv
<1>5. /\ 1 \in 1..3 /\ 3 \in 1..3 /\ 3 \in 1..Len(work) /\ 1 <= Len(work) /\ 3 <= Len(work)
      /\ work[1].step = "create" /\ \A k \in 1..3 : work[k].step \in {"create", "fill", "rename"}
      /\ ~Is(1, "fill") /\ ~Is(3, "fill")
  BY <1>3, <1>4 DEF Is
<1>6. UNCHANGED <<script, willing, waiting, wins, exit, inbox, phase, result, journal, torn, seen>>
  BY DEF CreateStep
<1>7. temp \in Files /\ summary \in Files /\ summary.state # "partial" /\ Credited(temp)
        /\ Credited(summary)
  BY <1>1 DEF Typed, CreditInv
<1>8. /\ temp' = temp => Credited(temp)'
      /\ temp' = NoFile => Credited(temp)'
      /\ temp' = File("partial", Fresh) => Credited(temp)'
      /\ summary' = summary => Credited(summary)'
  <2>1. journal' = journal  BY <1>6
  <2>2. Credited(NoFile) /\ Credited(File("partial", Fresh))  BY FreshFacts
  <2> QED BY <1>7, <2>1, <2>2 DEF Credited, Journalled
<1>9. CASE /\ work' = SubSeq(work, 4, Len(work)) /\ UNCHANGED <<report, temp, summary>>
  <2>1. Moves(<<>>, 3)
    <3>1. 3 + 1 = 4  OBVIOUS
    <3> QED BY <1>1, <1>2, <1>5, <1>9, <3>1, MovesOn
  <2> QED BY <1>2, <1>5, <1>6, <1>7, <1>8, <1>9, <2>1, CheckpointStep
<1>10. CASE temp' = File("partial", Fresh) /\ work' = Tail(work) /\ UNCHANGED <<report, summary>>
  <2>1. Moves(<<>>, 1)  BY <1>1, <1>2, <1>10, MovesOn
  <2>2. temp' \in Files  BY <1>10, FreshFacts
  <2> QED BY <1>2, <1>5, <1>6, <1>7, <1>8, <1>10, <2>1, <2>2, CheckpointStep
<1>11. CASE Abandon(3)
  <2>1. /\ report' = [report EXCEPT !.log = Failure(report.log)] /\ temp' \in {NoFile, temp}
        /\ work' = SubSeq(work, 3 + 1, Len(work)) /\ summary' = summary
    BY <1>11 DEF Abandon
  <2>2. Moves(<<>>, 3)  BY <1>1, <1>2, <1>5, <2>1, MovesOn
  <2>3. temp' \in Files /\ Credited(temp)'  BY <1>7, <1>8, <2>1, FreshFacts
  <2> QED BY <1>2, <1>5, <1>6, <1>7, <1>8, <2>1, <2>2, <2>3, CheckpointStep
<1> QED BY <1>9, <1>10, <1>11 DEF CreateStep

\* Filling it: what is written is credited by what is in the journal.
LEMMA FillKept ==
    ASSUME RecorderInv, FillStep
    PROVE  RecorderInv'
<1>1. Typed /\ OrderInv /\ JournalInv /\ CreditInv  BY DEF RecorderInv, FilesInv
<1>2. work # <<>> /\ Head(work).step = "fill"  BY DEF FillStep
<1>3. Len(work) \in Nat /\ 1 \in Places /\ Head(work) = work[1]  BY <1>1, <1>2, WorkFacts
<1>4. Is(1, "fill") /\ 1 + 1 <= Len(work) /\ Is(1 + 1, "rename")
  BY <1>1, <1>2, <1>3 DEF Is, OrderInv
<1>5. /\ 1 \in 1..3 /\ 2 \in 1..3 /\ 2 \in 1..Len(work) /\ 1 <= Len(work) /\ 2 <= Len(work)
      /\ work[1].step = "fill" /\ \A k \in 1..2 : work[k].step \in {"create", "fill", "rename"}
      /\ ~Is(2, "fill") /\ ~Is(1, "append")
  BY <1>3, <1>4 DEF Is
<1>6. UNCHANGED <<script, willing, waiting, wins, exit, inbox, phase, result, journal, torn, seen>>
  BY DEF FillStep
<1>7. /\ temp \in Files /\ summary \in Files /\ summary.state # "partial"
      /\ Credited(temp) /\ Credited(summary) /\ report \in Reports
  BY <1>1 DEF Typed, CreditInv
<1>8. /\ temp' = temp => Credited(temp)'
      /\ temp' = NoFile => Credited(temp)'
      /\ summary' = summary => Credited(summary)'
  <2>1. journal' = journal  BY <1>6
  <2>2. Credited(NoFile)  BY FreshFacts
  <2> QED BY <1>7, <2>1, <2>2 DEF Credited, Journalled
<1>9. CASE temp' = File("whole", report) /\ work' = Tail(work) /\ UNCHANGED <<report, summary>>
  <2>1. Moves(<<>>, 1)  BY <1>1, <1>2, <1>9, MovesOn
  <2>2. temp' \in Files /\ temp'.state = "whole" /\ temp'.report = report
    BY <1>7, <1>9, FreshFacts
  <2>3. report.log \in {"recording", "complete"} => journal = seen
    <3>1. phase # "killed"  BY <1>1, <1>2 DEF OrderInv
    <3> QED BY <1>1, <1>5, <3>1 DEF JournalInv
  <2>4. Credited(temp)'
    BY <1>1, <1>6, <2>2, <2>3 DEF Credited, Journalled, CreditInv
  <2> QED BY <1>2, <1>5, <1>6, <1>7, <1>8, <1>9, <2>1, <2>2, <2>4, CheckpointStep
<1>10. CASE Abandon(2)
  <2>1. /\ report' = [report EXCEPT !.log = Failure(report.log)] /\ temp' \in {NoFile, temp}
        /\ work' = SubSeq(work, 2 + 1, Len(work)) /\ summary' = summary
    BY <1>10 DEF Abandon
  <2>2. Moves(<<>>, 2)  BY <1>1, <1>2, <1>5, <2>1, MovesOn
  <2>3. temp' \in Files /\ Credited(temp)'  BY <1>7, <1>8, <2>1, FreshFacts
  <2> QED BY <1>2, <1>5, <1>6, <1>7, <1>8, <2>1, <2>2, <2>3, CheckpointStep
<1> QED BY <1>9, <1>10 DEF FillStep

\* Renaming it to summary.json.
LEMMA RenameKept ==
    ASSUME RecorderInv, RenameStep
    PROVE  RecorderInv'
<1>1. Typed /\ OrderInv /\ JournalInv /\ CreditInv  BY DEF RecorderInv, FilesInv
<1>2. work # <<>> /\ Head(work).step = "rename"  BY DEF RenameStep
<1>3. Len(work) \in Nat /\ 1 \in Places /\ Head(work) = work[1]  BY <1>1, <1>2, WorkFacts
<1>4. /\ 1 \in 1..3 /\ 1 \in 1..Len(work) /\ 1 <= Len(work)
      /\ work[1].step = "rename" /\ Is(1, "rename") /\ ~Is(1, "fill")
  BY <1>2, <1>3 DEF Is, Places
<1>5. UNCHANGED <<script, willing, waiting, wins, exit, inbox, phase, result, journal, torn, seen>>
  BY DEF RenameStep
<1>6. /\ temp \in Files /\ summary \in Files /\ summary.state # "partial"
      /\ Credited(temp) /\ Credited(summary) /\ temp.state = "whole"
  BY <1>1, <1>2, <1>4 DEF Typed, CreditInv
<1>7. /\ temp' = temp => Credited(temp)'
      /\ temp' = NoFile => Credited(temp)'
      /\ summary' = summary => Credited(summary)'
      /\ summary' = temp => Credited(summary)'
  <2>1. journal' = journal  BY <1>5
  <2>2. Credited(NoFile)  BY FreshFacts
  <2> QED BY <1>6, <2>1, <2>2 DEF Credited, Journalled
<1>8. CASE /\ summary' = temp /\ temp' = NoFile /\ work' = Tail(work)
           /\ report' \in {report, [report EXCEPT !.log = Failure(report.log)]}
  <2>1. Moves(<<>>, 1)  BY <1>1, <1>2, <1>8, MovesOn
  <2>2. temp' \in Files /\ summary' \in Files /\ summary'.state # "partial"
    BY <1>6, <1>8, FreshFacts
  <2> QED BY <1>2, <1>4, <1>5, <1>6, <1>7, <1>8, <2>1, <2>2, CheckpointStep
<1>9. CASE Abandon(1)
  <2>1. /\ report' = [report EXCEPT !.log = Failure(report.log)] /\ temp' \in {NoFile, temp}
        /\ work' = SubSeq(work, 1 + 1, Len(work)) /\ summary' = summary
    BY <1>9 DEF Abandon
  <2>2. Moves(<<>>, 1)  BY <1>1, <1>2, <1>4, <2>1, MovesOn
  <2>3. temp' \in Files /\ Credited(temp)'  BY <1>6, <1>7, <2>1, FreshFacts
  <2> QED BY <1>2, <1>4, <1>5, <1>6, <1>7, <2>1, <2>2, <2>3, CheckpointStep
<1> QED BY <1>8, <1>9 DEF RenameStep

\* The log is declared complete.
LEMMA CompleteKept ==
    ASSUME RecorderInv, CompleteStep
    PROVE  RecorderInv'
<1>1. Typed /\ OrderInv /\ CompleteInv /\ JournalInv /\ CreditInv  BY DEF RecorderInv, FilesInv
<1>2. work # <<>> /\ Head(work).step = "complete"  BY DEF CompleteStep
<1>3. Len(work) \in Nat /\ 1 \in Places /\ Head(work) = work[1]  BY <1>1, <1>2, WorkFacts
<1>4. /\ 1 \in 1..3 /\ 1 <= Len(work) /\ Is(1, "complete") /\ ~Is(1, "observe")
      /\ ~Is(1, "fill") /\ ~Is(1, "append")
  BY <1>2, <1>3 DEF Is, Places
<1>5. UNCHANGED <<script, willing, waiting, wins, exit, inbox, phase, result, seen, journal, torn,
        temp, summary>>
  BY DEF CompleteStep, fileVars
<1>6. report \in Reports /\ report.log \in Logs  BY <1>1 DEF Typed, Reports
<1> DEFINE log == IF report.log = "recording" THEN "complete" ELSE report.log
<1>7. log \in Logs /\ report' = [report EXCEPT !.log = log]  BY <1>6 DEF CompleteStep, Logs
<1>8. report.log # "complete"  BY <1>1, <1>3, <1>4 DEF JournalInv, Is
<1>9. Moves(<<>>, 1)  BY <1>1, <1>2, MovesOn DEF CompleteStep
<1>10. <<>> \in Seq(Steps) /\ Follows(<<>>, 1)
  <2>1. <<>> \in Seq(Steps)  BY EmptySeq
  <2> QED BY <2>1 DEF Follows
<1>11. (log = "complete" <=> report.log = "recording") /\ log # "recording"
       /\ (report.log = "failed" => log = "failed")
  BY <1>8
<1> HIDE DEF log
<1>12. /\ OrderInv' /\ CompleteInv' /\ CourseInv' /\ FinishInv'
       /\ work' \in Seq(Steps) /\ report' \in Reports /\ report'.log = log
       /\ phase \notin {"done", "killed"}
       /\ \A i \in 1..NStages : report'.status[Stage(i)] = "success" =>
             Event("end", Stage(i), "success") \in ToSet(seen')
       /\ work' # <<>> /\ Is(1, "rename")' => Is(1, "fill")
       /\ ~(work' # <<>> /\ Is(1, "append")')
       /\ \A i \in Places' : (\E j \in Places : j > 1 /\ work'[i] = work[j])
                                \/ Is(i, "append")' \/ Is(i, "create")' \/ Is(i, "fill")'
                                \/ Is(i, "rename")'
  BY <1>2, <1>4, <1>5, <1>7, <1>9, <1>10, LogStep
<1>13. Typed'  BY <1>1, <1>5, <1>12 DEF Typed
<1>14. JournalInv'
  <2>1. Len(journal') <= Len(seen') /\ \A i \in 1..Len(journal') : journal'[i] = seen'[i]
    BY <1>1, <1>5 DEF JournalInv
  <2>2. ASSUME report'.log = "complete"
        PROVE  /\ phase' # "run" /\ journal' = seen' /\ ~torn' /\ LastSeen'
               /\ \A i \in Places' : work'[i].step \notin {"observe", "append", "complete"}
    <3>1. report.log = "recording"  BY <1>11, <1>12, <2>2
    <3>2. journal = seen /\ ~torn  BY <1>1, <1>4, <1>12, <3>1 DEF JournalInv
    <3>3. phase = "finish" /\ LastSeen
      <4>1. ~(1 > 1)  OBVIOUS
      <4> QED BY <1>1, <1>3, <1>4, <4>1 DEF CompleteInv
    <3>4. \A j \in Places : j > 1 => work[j].step \notin {"observe", "append", "complete"}
      BY <1>1, <1>3, <1>4 DEF CompleteInv
    <3>5. ASSUME NEW i \in Places' PROVE work'[i].step \notin {"observe", "append", "complete"}
      <4>1. ~Is(i, "append")'
        <5>1. Is(i, "append")' => i = 1  BY <1>12 DEF OrderInv
        <5>2. work' # <<>>
          <6>1. Len(<<>>) = 0 /\ Len(work') \in Nat  BY <1>12, LenProperties
          <6> QED BY <6>1 DEF Places
        <5> QED BY <1>12, <5>1, <5>2
      <4> QED BY <1>12, <3>4, <4>1 DEF Is
    <3> QED BY <1>5, <3>2, <3>3, <3>5 DEF LastSeen
  <2>3. torn' => report'.log = "failed" \/ phase' = "killed"
    BY <1>1, <1>5, <1>11, <1>12 DEF JournalInv
  <2> QED BY <1>11, <1>12, <2>1, <2>2, <2>3 DEF JournalInv
<1>15. CreditInv'  BY <1>1, <1>4, <1>5, <1>12 DEF CreditInv, Credited, Journalled
<1> QED BY <1>12, <1>13, <1>14, <1>15 DEF RecorderInv, FilesInv

\* An operation that is over, or cut off, leaves nothing to do.
LEMMA NothingLeft ==
    ASSUME FilesInv, work' = <<>>, phase' \in {"done", "killed"},
           UNCHANGED <<report, journal, temp, summary, seen, script, result>>,
           inbox' \in Seq(Events \cup Outcomes), torn' \in BOOLEAN,
           torn' = torn \/ (phase' = "killed" /\ work # <<>> /\ Is(1, "append")),
           phase' = "killed" \/ (work # <<>> /\ ~Is(1, "append") /\ phase = "finish")
    PROVE  FilesInv' /\ Pending' = {}
<1>1. Typed /\ OrderInv /\ JournalInv /\ CreditInv  BY DEF FilesInv
<1>2. Len(<<>>) = 0 /\ <<>> \in Seq(Steps)  BY EmptySeq
<1>3. Places' = {}  BY <1>2 DEF Places
<1>4. Typed'  BY <1>1, <1>2 DEF Typed
<1>5. OrderInv' /\ CompleteInv' /\ Pending' = {}  BY <1>3 DEF OrderInv, CompleteInv, Pending
<1>6. report.log = "complete" => ~(work # <<>> /\ Is(1, "append"))
  BY <1>1, WorkFacts DEF JournalInv, Is
<1>7. JournalInv'
  <2>1. Len(journal') <= Len(seen') /\ \A i \in 1..Len(journal') : journal'[i] = seen'[i]
    BY <1>1 DEF JournalInv
  <2>2. phase' # "killed" /\ report'.log = "recording" => journal' = seen'
    BY <1>1 DEF JournalInv
  <2>3. report'.log = "complete" =>
          /\ phase' # "run" /\ journal' = seen' /\ ~torn' /\ LastSeen'
          /\ \A i \in Places' : work'[i].step \notin {"observe", "append", "complete"}
    BY <1>1, <1>3, <1>6 DEF JournalInv, LastSeen
  <2>4. torn' => report'.log = "failed" \/ phase' = "killed"
    BY <1>1 DEF JournalInv
  <2> QED BY <2>1, <2>2, <2>3, <2>4 DEF JournalInv
<1>8. CreditInv'  BY <1>1 DEF CreditInv, Credited, Journalled
<1> QED BY <1>4, <1>5, <1>7, <1>8 DEF FilesInv

\* The last step of finish().
LEMMA TerminalKept ==
    ASSUME RecorderInv, TerminalStep
    PROVE  RecorderInv'
<1>1. Typed /\ OrderInv /\ CompleteInv /\ CourseInv /\ FinishInv /\ FilesInv
  BY DEF RecorderInv, FilesInv
<1>2. work # <<>> /\ Head(work).step = "terminal"  BY DEF TerminalStep
<1>3. 1 \in Places /\ Head(work) = work[1]  BY <1>1, <1>2, WorkFacts
<1>4. phase = "finish" /\ ~Is(1, "append")  BY <1>1, <1>2, <1>3 DEF CompleteInv, Is
<1>5. /\ UNCHANGED <<report, journal, torn, temp, summary, seen, script, inbox, result>>
      /\ work' = <<>> /\ phase' = "done"
  BY DEF TerminalStep, fileVars
<1>6. inbox' \in Seq(Events \cup Outcomes) /\ torn' \in BOOLEAN  BY <1>1, <1>5 DEF Typed
<1>7. FilesInv' /\ Pending' = {}  BY <1>1, <1>2, <1>4, <1>5, <1>6, NothingLeft
<1>8. RecorderAlone  BY <1>4, <1>5 DEF TerminalStep, RecorderAlone
<1>9. CourseInv' /\ FinishInv'  BY <1>1, <1>5, <1>7, <1>8, QuietStep
<1> QED BY <1>7, <1>9 DEF RecorderInv

-----------------------------------------------------------------------------
(* The supervisor and the engine.                                          *)

\* The supervisor is killed.
LEMMA KilledKept ==
    ASSUME RecorderInv, Killed
    PROVE  RecorderInv'
<1>1. Typed /\ FilesInv /\ CourseInv /\ FinishInv  BY DEF RecorderInv, FilesInv
<1>2. /\ UNCHANGED <<report, journal, temp, summary, seen, script, result, willing, waiting, wins>>
      /\ work' = <<>> /\ phase' = "killed" /\ inbox' = <<>>
      /\ exit' = IF exit \in {"unborn", "alive"} THEN "bad" ELSE exit
  BY DEF Killed
<1>3. inbox' \in Seq(Events \cup Outcomes)
  <2>1. <<>> \in Seq(Events \cup Outcomes)  BY EmptySeq
  <2> QED BY <1>2, <2>1
<1>4. torn' \in BOOLEAN /\ (torn' = torn \/ (work # <<>> /\ Is(1, "append")))
  BY <1>1, WorkFacts DEF Killed, Typed, Is
<1>5. FilesInv'  BY <1>1, <1>2, <1>3, <1>4, NothingLeft
<1>6. PICK last \in 1..NStages, ok \in BOOLEAN, clean \in BOOLEAN, n \in 0..(2 * NStages + 4) :
         Course(last, ok, clean, n)
  BY <1>1 DEF CourseInv
<1>7. Course(last, ok, clean, n)'  BY <1>1, <1>2, <1>6 DEF Course, FinishInv
<1>8. FinishInv'  BY <1>1, <1>2 DEF FinishInv
<1> QED BY <1>5, <1>7, <1>8 DEF RecorderInv, CourseInv

\* A new operation of a running session: an event, or a checkpoint.
LEMMA Begins ==
    ASSUME FilesInv, phase = "run", phase' = "run", work = <<>>,
           UNCHANGED <<journal, torn, temp, summary, seen, result, script>>,
           report' \in Reports, report'.log = report.log, report'.status = report.status,
           inbox' \in Seq(Events \cup Outcomes),
           work' = Checkpoint \/ \E e \in Events : work' = <<Observe(e)>>
    PROVE  /\ FilesInv' /\ (work' = Checkpoint => Pending' = {})
           /\ \A e \in Events : work' = <<Observe(e)>> => Pending' = {e}
<1>1. Typed /\ JournalInv /\ CreditInv  BY DEF FilesInv
<1>2. /\ work' \in Seq(Steps) /\ Len(work') \in 1..3 /\ OrderInv' /\ CompleteInv'
      /\ ~Is(1, "append")' /\ ~Is(1, "rename")'
      /\ (work' = Checkpoint => Pending' = {})
      /\ \A e \in Events : work' = <<Observe(e)>> => Pending' = {e}
  <2>1. CASE work' = Checkpoint
    <3>1. /\ work' \in Seq(Steps) /\ Len(work') = 3 /\ Places' = 1..3
          /\ work'[1].step = "create" /\ work'[2].step = "fill" /\ work'[3].step = "rename"
      BY <2>1, StepFacts DEF Places
    <3>2. \A i \in Places' : i = 1 \/ i = 2 \/ i = 3  BY <3>1
    <3>3. OrderInv'  BY <3>1, <3>2 DEF OrderInv, Is
    <3>4. CompleteInv'  BY <3>1, <3>2 DEF CompleteInv, Is
    <3>5. Pending' = {}
      <4>1. \A e \in Events : Observe(e).step = "observe"  BY StepFacts
      <4> QED BY <3>1, <3>2, <4>1 DEF Pending
    <3>6. \A e \in Events : work' # <<Observe(e)>>
      <4>1. \A e : Len(<<Observe(e)>>) = 1  OBVIOUS
      <4> QED BY <3>1, <4>1
    <3> QED BY <3>1, <3>3, <3>4, <3>5, <3>6 DEF Is
  <2>2. ASSUME NEW e \in Events, work' = <<Observe(e)>>
        PROVE  /\ work' \in Seq(Steps) /\ Len(work') \in 1..3 /\ OrderInv' /\ CompleteInv'
               /\ ~Is(1, "append")' /\ ~Is(1, "rename")' /\ work' # Checkpoint
               /\ Pending' = {e}
    <3>1. Observe(e) \in Steps /\ Observe(e).step = "observe"  BY StepFacts
    <3>2. \A x \in Events : Observe(x) = Observe(e) => x = e  BY StepFacts
    <3> HIDE DEF Steps
    <3>3. work' \in Seq(Steps) /\ Len(work') = 1 /\ Places' = 1..1 /\ work'[1] = Observe(e)
      BY <2>2, <3>1 DEF Places
    <3>4. \A i \in Places' : i = 1  BY <3>3
    <3>5. 1 \in Places' /\ work'[1].step = "observe"  BY <3>1, <3>3
    <3>6. OrderInv'  BY <3>4, <3>5 DEF OrderInv, Is
    <3>7. CompleteInv'  BY <3>4, <3>5 DEF CompleteInv, Is
    <3>8. Pending' = {e}  BY <3>2, <3>3, <3>4, <3>5 DEF Pending
    <3>9. work' # Checkpoint  BY <3>3, StepFacts
    <3> QED BY <3>3, <3>5, <3>6, <3>7, <3>8, <3>9 DEF Is
  <2>3. \A e, x \in Events : <<Observe(e)>> = <<Observe(x)>> => e = x
    <3>1. \A e : <<Observe(e)>>[1] = Observe(e)  OBVIOUS
    <3> QED BY <3>1, StepFacts
  <2>4. CASE \E e \in Events : work' = <<Observe(e)>>
    <3>1. PICK x \in Events : work' = <<Observe(x)>>  BY <2>4
    <3>2. /\ work' \in Seq(Steps) /\ Len(work') \in 1..3 /\ OrderInv' /\ CompleteInv'
          /\ ~Is(1, "append")' /\ ~Is(1, "rename")' /\ work' # Checkpoint
          /\ Pending' = {x}
      BY <2>2, <3>1
    <3> QED BY <2>3, <3>1, <3>2
  <2> QED BY <2>1, <2>4
<1>3. Typed'  BY <1>1, <1>2 DEF Typed
<1>4. JournalInv'  BY <1>1, <1>2 DEF JournalInv
<1>5. CreditInv'  BY <1>1, <1>2 DEF CreditInv, Credited, Journalled
<1> QED BY <1>2, <1>3, <1>4, <1>5 DEF FilesInv

\* The engine is started, or a command of the supervisor ends: an event of no stage.
LEMMA OwnEventKept ==
    ASSUME RecorderInv, StartEngine \/ CommandEnds
    PROVE  RecorderInv'
<1>1. Typed /\ FilesInv /\ CourseInv /\ FinishInv  BY DEF RecorderInv, FilesInv
<1>2. /\ phase = "run" /\ phase' = "run" /\ work = <<>>
      /\ UNCHANGED <<journal, torn, temp, summary, seen, result, script, report, inbox,
                     willing, waiting, wins>>
      /\ (exit' = "alive" /\ exit = "unborn") \/ exit' = exit
  BY DEF StartEngine, CommandEnds, fileVars
<1>3. PICK e \in Events : work' = <<Observe(e)>> /\ e.item[1] # "stage"
  <2>1. Start(Span("engine")) \in Events /\ Start(Span("engine")).item[1] = "span"
    BY ItemFacts, EventFacts DEF Start, Event
  <2>2. Note \in Events /\ Note.item[1] = "none"  BY EventFacts
  <2> QED BY <2>1, <2>2 DEF StartEngine, CommandEnds
<1>4. report' \in Reports /\ inbox' \in Seq(Events \cup Outcomes)  BY <1>1, <1>2 DEF Typed
<1>5. FilesInv' /\ Pending' = {e}  BY <1>1, <1>2, <1>3, <1>4, Begins
<1>6. Pending = {}
  <2>1. Places = {}  BY <1>1, <1>2, WorkFacts DEF Places
  <2> QED BY <2>1 DEF Pending
<1>7. PICK last \in 1..NStages, ok \in BOOLEAN, clean \in BOOLEAN, n \in 0..(2 * NStages + 4) :
         Course(last, ok, clean, n)
  BY <1>1 DEF CourseInv
<1>8. Course(last, ok, clean, n)'
  <2>1. \A x \in Pending' : x.item[1] # "stage"  BY <1>3, <1>5
  <2>2. ok => \A i \in 1..last : 2 * i + 2 <= n => report'.status[Stage(i)] = "success"
    BY <1>2, <1>6, <1>7 DEF Course
  <2> QED BY <1>2, <1>7, <2>1, <2>2 DEF Course
<1>9. FinishInv'  BY <1>1, <1>2 DEF FinishInv
<1> QED BY <1>5, <1>8, <1>9 DEF RecorderInv, CourseInv

\* A request is served: the next of the engine's messages.
LEMMA ServeKept ==
    ASSUME RecorderInv, Serve
    PROVE  RecorderInv'
<1>1. Typed /\ FilesInv /\ CourseInv /\ FinishInv  BY DEF RecorderInv, FilesInv
<1>2. /\ phase = "run" /\ phase' = "run" /\ work = <<>> /\ inbox # <<>> /\ inbox' = Tail(inbox)
      /\ UNCHANGED <<journal, torn, temp, summary, seen, result, script, willing, waiting, wins,
           exit>>
  BY DEF Serve, fileVars
<1>3. PICK last \in 1..NStages, ok \in BOOLEAN, clean \in BOOLEAN, n \in 0..(2 * NStages + 4) :
         Course(last, ok, clean, n)
  BY <1>1 DEF CourseInv
<1> DEFINE full == Script(last, ok, clean)
           said == 2 * last + 4 - Len(script)
           message == Head(inbox)
<1>4. NStages \in Nat \ {0} /\ last \in Nat /\ last <= NStages /\ Len(script) \in Nat
  <2>1. script \in Seq(Events \cup Outcomes)  BY <1>1 DEF Typed
  <2> HIDE DEF Events, Outcomes
  <2> QED BY <2>1, LimitsAssumption, LenProperties
<1>5. Len(inbox) = 1 /\ n < said /\ inbox[1] = full[n + 1] /\ said <= 2 * last + 4 /\ n \in Nat
  BY <1>2, <1>3, <1>4 DEF Course
<1>6. inbox' = <<>> /\ Len(inbox') = 0 /\ message = full[n + 1]
      /\ inbox' \in Seq(Events \cup Outcomes)
  <2>1. inbox \in Seq(Events \cup Outcomes)  BY <1>1 DEF Typed
  <2> HIDE DEF Events, Outcomes, full
  <2>2. Tail(inbox) \in Seq(Events \cup Outcomes) /\ Len(Tail(inbox)) = Len(inbox) - 1
    BY <1>2, <2>1, HeadTailProperties
  <2>3. Len(Tail(inbox)) = 0  BY <1>5, <2>2
  <2>4. Tail(inbox) = <<>>  BY <2>2, <2>3, EmptySeq
  <2> QED BY <1>2, <1>5, <2>1, <2>2, <2>3, <2>4
<1>7. Pending = {}
  <2>1. Places = {}  BY <1>1, <1>2, WorkFacts DEF Places
  <2> QED BY <2>1 DEF Pending
<1>8. ok => \A i \in 1..last : 2 * i + 2 <= n => report.status[Stage(i)] = "success"
  BY <1>2, <1>3, <1>7 DEF Course
<1>9. report.terminal = "running"
  <2>1. n < 2 * last + 4  BY <1>4, <1>5
  <2> QED BY <1>2, <1>3, <2>1 DEF Course
<1>10. FinishInv'  BY <1>1, <1>2 DEF FinishInv
<1>11. n + 1 \in 0..(2 * NStages + 4) /\ n + 1 \in 0..said /\ n + 1 \in 1..(2 * last + 4)
  BY <1>4, <1>5
<1>12. report \in Reports  BY <1>1 DEF Typed
<1>13. CASE n + 1 = 2 * last + 4
  <2> DEFINE o == Outcome(last, ok, clean)
  <2>1. message = o /\ message \in Outcomes /\ message.kind = "outcome"
    <3>1. full[2 * last + 4] = o /\ full[2 * last + 4] \in Outcomes
          /\ full[2 * last + 4].kind = "outcome"
      BY ScriptFacts
    <3> QED BY <1>6, <1>13, <3>1
  <2>2. /\ report' = [report EXCEPT !.terminal = message.terminal, !.failed = message.failed,
                                    !.last = message.last, !.cleanup = message.cleanup]
        /\ work' = Checkpoint
    BY <2>1 DEF Serve
  <2>3. /\ message.terminal \in Terminals /\ message.failed \in 0..NStages
        /\ message.last \in 0..NStages
        /\ message.cleanup \in {"notRun", "unknown", "success", "failed"}
    BY <2>1 DEF Outcomes, Terminals
  <2> HIDE DEF message, o
  <2>4. /\ report' \in Reports /\ report'.log = report.log /\ report'.status = report.status
        /\ report'.terminal = message.terminal /\ report'.failed = message.failed
        /\ report'.last = message.last /\ report'.cleanup = message.cleanup
    BY <1>12, <2>2, <2>3 DEF Reports
  <2>5. FilesInv' /\ Pending' = {}  BY <1>1, <1>2, <1>6, <2>2, <2>4, Begins
  <2>6. Course(last, ok, clean, n + 1)'
    <3>1. ok => \A i \in 1..last : 2 * i + 2 <= n + 1 => report'.status[Stage(i)] = "success"
      <4>1. \A i \in 1..last : 2 * i + 2 <= n  BY <1>4, <1>13
      <4> QED BY <1>8, <2>4, <4>1
    <3>2. LET q == Outcome(last, ok, clean)
          IN  /\ report'.terminal = q.terminal /\ report'.failed = q.failed
              /\ report'.last = q.last /\ report'.cleanup = q.cleanup
      BY <2>1, <2>4 DEF o
    <3>3. ~(n + 1 < 2 * last + 4)  BY <1>4, <1>13
    <3>4. willing => (n + 1) + Len(inbox') = said
      <4>1. willing => n + Len(inbox) = said  BY <1>2, <1>3 DEF Course
      <4> QED BY <1>4, <1>5, <1>6, <4>1
    <3>5. /\ wins' = (ok /\ clean) /\ (ok => last = NStages)
          /\ 2 * last + 4 - Len(script') \in 0..(2 * last + 4)
          /\ n + 1 \in 0..(2 * last + 4 - Len(script'))
          /\ \A k \in 1..Len(script') :
                script'[k] = Script(last, ok, clean)[2 * last + 4 - Len(script') + k]
          /\ exit' = "ok" => wins' /\ script' = <<>> /\ ~waiting'
      BY <1>2, <1>3, <1>11 DEF Course
    <3>6. inbox' = <<>> /\ Pending' = {}  BY <1>6, <2>5
    <3>7. willing' => (n + 1) + Len(inbox') = 2 * last + 4 - Len(script')  BY <1>2, <3>4
    <3> QED BY ONLY <3>1, <3>2, <3>3, <3>5, <3>6, <3>7 DEF Course
  <2> QED BY <1>10, <1>11, <2>5, <2>6 DEF RecorderInv, CourseInv
<1>14. CASE n + 1 # 2 * last + 4
  <2>1. n + 1 \in 1..(2 * last + 3)  BY <1>4, <1>11, <1>14
  <2>2. message \in Events /\ message.kind # "outcome"
    <3>1. (2 * last + 4) - 1 = 2 * last + 3  BY <1>4
    <3>2. \A k \in 1..((2 * last + 4) - 1) : full[k] \in Events /\ full[k].kind \in {"start", "end"}
      BY ScriptFacts
    <3> HIDE DEF full
    <3> QED BY <1>6, <2>1, <3>1, <3>2
  <2>3. work' = <<Observe(message)>> /\ report' = report  BY <2>2 DEF Serve
  <2> HIDE DEF message, full
  <2>4. FilesInv' /\ Pending' = {message}
    BY <1>1, <1>2, <1>6, <1>12, <2>2, <2>3, Begins
  <2>5. Course(last, ok, clean, n + 1)'
    <3>1. ASSUME ok, NEW i \in 1..last, 2 * i + 2 <= n + 1
          PROVE  report'.status[Stage(i)] = "success" \/ Stop(Stage(i), TRUE) \in Pending'
      <4>1. CASE 2 * i + 2 = n + 1
        <5>1. full[2 * i + 2] = Stop(Stage(i), i < last \/ ok)  BY ScriptFacts DEF full
        <5>2. message = Stop(Stage(i), TRUE)  BY <1>6, <3>1, <4>1, <5>1
        <5> QED BY <2>4, <5>2
      <4>2. CASE 2 * i + 2 # n + 1
        <5>1. 2 * i + 2 <= n  BY <1>4, <1>5, <3>1, <4>2
        <5> QED BY <1>8, <2>3, <3>1, <5>1
      <4> QED BY <4>1, <4>2
    <3>2. report'.terminal = "running"  BY <1>9, <2>3
    <3>3. \A x \in Pending' : n + 1 > 0 /\ x = full[n + 1]  BY <1>5, <1>6, <2>4
    <3>4. willing => (n + 1) + Len(inbox') = said
      <4>1. willing => n + Len(inbox) = said  BY <1>2, <1>3 DEF Course
      <4> QED BY <1>4, <1>5, <1>6, <4>1
    <3>5. /\ wins' = (ok /\ clean) /\ (ok => last = NStages)
          /\ 2 * last + 4 - Len(script') \in 0..(2 * last + 4)
          /\ n + 1 \in 0..(2 * last + 4 - Len(script'))
          /\ \A k \in 1..Len(script') :
                script'[k] = Script(last, ok, clean)[2 * last + 4 - Len(script') + k]
          /\ exit' = "ok" => wins' /\ script' = <<>> /\ ~waiting'
      BY <1>2, <1>3, <1>11 DEF Course
    <3>6. inbox' = <<>> /\ n + 1 # 2 * last + 4  BY <1>6, <1>14
    <3>7. \A x \in Pending' :
             x.item[1] = "stage" => n + 1 > 0 /\ x = Script(last, ok, clean)[n + 1]
      BY <3>3 DEF full
    <3>8. ok => \A i \in 1..last : 2 * i + 2 <= n + 1 =>
             \/ report'.status[Stage(i)] = "success"
             \/ Stop(Stage(i), TRUE) \in Pending'
      BY <3>1
    <3>9. willing' => (n + 1) + Len(inbox') = 2 * last + 4 - Len(script')  BY <1>2, <3>4
    <3> QED BY ONLY <3>2, <3>5, <3>6, <3>7, <3>8, <3>9 DEF Course
  <2> QED BY <1>10, <1>11, <2>4, <2>5 DEF RecorderInv, CourseInv
<1> QED BY <1>13, <1>14

\* One list of steps after another.
LEMMA Joined ==
    ASSUME NEW a \in Seq(Steps), NEW b \in Seq(Steps)
    PROVE  /\ a \o b \in Seq(Steps) /\ Len(a \o b) = Len(a) + Len(b)
           /\ \A i \in 1..Len(a) : (a \o b)[i] = a[i]
           /\ \A j \in 1..Len(b) : (a \o b)[Len(a) + j] = b[j]
<1> HIDE DEF Steps
<1>1. /\ a \o b \in Seq(Steps) /\ Len(a \o b) = Len(a) + Len(b)
      /\ \A i \in 1..(Len(a) + Len(b)) :
            (a \o b)[i] = IF i <= Len(a) THEN a[i] ELSE b[i - Len(a)]
  BY ConcatProperties
<1>2. Len(a) \in Nat /\ Len(b) \in Nat  BY LenProperties
<1>3. ASSUME NEW j \in 1..Len(b) PROVE (a \o b)[Len(a) + j] = b[j]
  <2>1. /\ Len(a) + j \in 1..(Len(a) + Len(b)) /\ ~(Len(a) + j <= Len(a))
        /\ (Len(a) + j) - Len(a) = j
    BY <1>2
  <2> QED BY <1>1, <2>1
<1> QED BY <1>1, <1>2, <1>3

\* The steps of finish(): q first, then session.end, and the last checkpoint.
LEMMA FinishWork ==
    ASSUME NEW q \in Seq(Steps), NEW e \in Events,
           work' = q \o <<Observe(e), Step("complete")>> \o Checkpoint \o <<Step("terminal")>>
    PROVE  /\ work' \in Seq(Steps) /\ Len(q) \in Nat /\ Len(work') = Len(q) + 6
           /\ \A i \in 1..Len(q) : work'[i] = q[i]
           /\ work'[Len(q) + 1] = Observe(e) /\ work'[Len(q) + 2].step = "complete"
           /\ work'[Len(q) + 3].step = "create" /\ work'[Len(q) + 4].step = "fill"
           /\ work'[Len(q) + 5].step = "rename" /\ work'[Len(q) + 6].step = "terminal"
<1> DEFINE b == <<Observe(e), Step("complete")>>
           c == Checkpoint
           t == <<Step("terminal")>>
<1>1. Observe(e) \in Steps /\ Step("complete") \in Steps /\ Step("terminal") \in Steps
  BY StepFacts
<1>2. Step("complete").step = "complete" /\ Step("terminal").step = "terminal"  BY StepFacts
<1> HIDE DEF Steps
<1>3. /\ b \in Seq(Steps) /\ Len(b) = 2 /\ b[1] = Observe(e) /\ b[2] = Step("complete")
  BY <1>1
<1>4. t \in Seq(Steps) /\ Len(t) = 1 /\ t[1] = Step("terminal")  BY <1>1
<1>5. /\ c \in Seq(Steps) /\ Len(c) = 3 /\ c[1].step = "create" /\ c[2].step = "fill"
      /\ c[3].step = "rename"
  BY StepFacts
<1>6. work' = ((q \o b) \o c) \o t  OBVIOUS
<1> HIDE DEF b, c, t
<1>7. Len(q) \in Nat  BY LenProperties
<1>8. /\ q \o b \in Seq(Steps) /\ Len(q \o b) = Len(q) + 2
      /\ \A i \in 1..Len(q) : (q \o b)[i] = q[i]
      /\ \A j \in 1..2 : (q \o b)[Len(q) + j] = b[j]
  <2>1. /\ q \o b \in Seq(Steps) /\ Len(q \o b) = Len(q) + Len(b)
        /\ \A i \in 1..Len(q) : (q \o b)[i] = q[i]
        /\ \A j \in 1..Len(b) : (q \o b)[Len(q) + j] = b[j]
    BY <1>3, Joined
  <2> QED BY <1>3, <2>1
<1>9. /\ (q \o b) \o c \in Seq(Steps) /\ Len((q \o b) \o c) = Len(q) + 5
      /\ \A i \in 1..(Len(q) + 2) : ((q \o b) \o c)[i] = (q \o b)[i]
      /\ \A j \in 1..3 : ((q \o b) \o c)[Len(q) + 2 + j] = c[j]
  <2>1. /\ (q \o b) \o c \in Seq(Steps) /\ Len((q \o b) \o c) = Len(q \o b) + Len(c)
        /\ \A i \in 1..Len(q \o b) : ((q \o b) \o c)[i] = (q \o b)[i]
        /\ \A j \in 1..Len(c) : ((q \o b) \o c)[Len(q \o b) + j] = c[j]
    BY <1>5, <1>8, Joined
  <2>2. Len(q \o b) = Len(q) + 2 /\ Len(c) = 3 /\ Len(q) + 2 + 3 = Len(q) + 5  BY <1>5, <1>7, <1>8
  <2> QED BY <2>1, <2>2
<1>10. /\ work' \in Seq(Steps) /\ Len(work') = Len(q) + 6
       /\ \A i \in 1..(Len(q) + 5) : work'[i] = ((q \o b) \o c)[i]
       /\ work'[Len(q) + 5 + 1] = t[1]
  <2> DEFINE s == (q \o b) \o c
  <2>1. s \in Seq(Steps) /\ Len(s) = Len(q) + 5  BY <1>9
  <2>2. work' = s \o t  BY <1>6
  <2> HIDE DEF s
  <2>3. /\ s \o t \in Seq(Steps) /\ Len(s \o t) = Len(s) + Len(t)
        /\ \A i \in 1..Len(s) : (s \o t)[i] = s[i]
        /\ \A j \in 1..Len(t) : (s \o t)[Len(s) + j] = t[j]
    BY <1>4, <2>1, Joined
  <2>4. 1 \in 1..Len(t) /\ Len(q) + 5 + 1 = Len(q) + 6  BY <1>4, <1>7
  <2>5. Len(work') = Len(q) + 6 /\ work'[Len(q) + 5 + 1] = t[1]  BY <1>4, <2>1, <2>2, <2>3, <2>4
  <2>6. \A i \in 1..(Len(q) + 5) : work'[i] = s[i]  BY <2>1, <2>2, <2>3
  <2> QED BY <2>2, <2>3, <2>5, <2>6 DEF s
<1>11. ASSUME NEW i \in 1..Len(q) PROVE work'[i] = q[i]
  <2>1. i \in 1..(Len(q) + 5) /\ i \in 1..(Len(q) + 2)  BY <1>7
  <2> QED BY <1>8, <1>9, <1>10, <2>1
<1>12. ASSUME NEW j \in 1..2 PROVE work'[Len(q) + j] = b[j]
  <2>1. Len(q) + j \in 1..(Len(q) + 5) /\ Len(q) + j \in 1..(Len(q) + 2)  BY <1>7
  <2> QED BY <1>8, <1>9, <1>10, <2>1
<1>13. ASSUME NEW j \in 1..3 PROVE work'[Len(q) + 2 + j] = c[j]
  <2>1. Len(q) + 2 + j \in 1..(Len(q) + 5)  BY <1>7
  <2> QED BY <1>9, <1>10, <2>1
<1>14. /\ work'[Len(q) + 1] = b[1] /\ work'[Len(q) + 2] = b[2]
       /\ work'[Len(q) + 3] = c[1] /\ work'[Len(q) + 4] = c[2] /\ work'[Len(q) + 5] = c[3]
       /\ work'[Len(q) + 6] = t[1]
  <2>1. /\ Len(q) + 3 = Len(q) + 2 + 1 /\ Len(q) + 4 = Len(q) + 2 + 2
        /\ Len(q) + 5 = Len(q) + 2 + 3 /\ Len(q) + 6 = Len(q) + 5 + 1
    BY <1>7
  <2>2. 1 \in 1..2 /\ 2 \in 1..2 /\ 1 \in 1..3 /\ 2 \in 1..3 /\ 3 \in 1..3  OBVIOUS
  <2> QED BY <1>10, <1>12, <1>13, <2>1, <2>2
<1> QED BY <1>2, <1>3, <1>4, <1>5, <1>7, <1>10, <1>11, <1>14

\* What finish() concludes concerns the outcome; the stages' states are left alone.
LEMMA ConcludedFacts ==
    ASSUME report \in Reports, NEW code \in {0, 9}, NEW failed \in BOOLEAN
    PROVE  LET r == Concluded(code, failed)
           IN  /\ r \in Reports /\ r.status = report.status
               /\ r.log = report.log \/ (report.log = "recording" /\ r.log = "incomplete")
               /\ r.failed = report.failed /\ r.last = report.last
               /\ r.terminal = "success" => code = 0 /\ report.terminal = "success"
                    /\ r.cleanup = report.cleanup
               /\ r.terminal = "unknown" => report.terminal = "unknown"
                    \/ (report.terminal = "running" /\ code = 0)
               /\ code = 0 => r.terminal = "unknown" \/ r.terminal = report.terminal
               /\ r.terminal # "running"
<1> DEFINE r == Concluded(code, failed)
           log == IF report.log = "recording" THEN "incomplete" ELSE report.log
           end == IF failed THEN "failed" ELSE "incomplete"
           cleanup == IF failed THEN "notRun" ELSE "unknown"
<1>1. log \in Logs /\ end \in Terminals /\ cleanup \in {"notRun", "unknown"}
      /\ report.terminal \in Terminals
  BY DEF Reports, Logs, Terminals
<1>2. CASE report.terminal = "running" /\ code = 0
  <2>1. r = [report EXCEPT !.terminal = "unknown", !.cleanup = "unknown", !.log = log]
    BY <1>2 DEF Concluded
  <2>2. log = report.log \/ (report.log = "recording" /\ log = "incomplete")  OBVIOUS
  <2> HIDE DEF log, r
  <2> QED BY <1>1, <1>2, <2>1, <2>2 DEF Reports, Terminals, r
<1>3. CASE report.terminal = "running" /\ code # 0
  <2>1. r = [report EXCEPT !.terminal = end, !.cleanup = cleanup]  BY <1>3 DEF Concluded
  <2>2. end \in {"failed", "incomplete"}  OBVIOUS
  <2> HIDE DEF end, cleanup, r
  <2> QED BY <1>1, <1>3, <2>1, <2>2 DEF Reports, r
<1>4. CASE report.terminal = "success" /\ code # 0
  <2>1. r = [report EXCEPT !.terminal = "failed"]  BY <1>4 DEF Concluded
  <2> HIDE DEF r
  <2> QED BY <1>1, <1>4, <2>1 DEF Reports, Terminals, r
<1>5. CASE report.terminal # "running" /\ ~(report.terminal = "success" /\ code # 0)
  BY <1>5 DEF Concluded
<1> QED BY <1>2, <1>3, <1>4, <1>5

\* finish(): the session's status and what has been heard of the engine.
LEMMA FinishKept ==
    ASSUME RecorderInv, Finish
    PROVE  RecorderInv'
<1>1. Typed /\ JournalInv /\ CreditInv /\ CourseInv /\ FinishInv  BY DEF RecorderInv, FilesInv
<1>2. /\ phase = "run" /\ work = <<>> /\ exit \in {"unborn", "ok", "bad"} /\ phase' = "finish"
      /\ inbox' = <<>> /\ result' \in {0, 9} /\ (result' = 0 => exit = "ok")
      /\ UNCHANGED <<script, willing, waiting, wins, exit, seen, journal, torn, temp, summary>>
  BY DEF Finish, fileVars
<1>3. /\ \E failed \in BOOLEAN : report' = Concluded(result', failed)
      /\ work' = SetToSeq(Interruptions) \o <<Observe(SessionEnd(result')), Step("complete")>>
                    \o Checkpoint \o <<Step("terminal")>>
  BY DEF Finish, Interruptions
<1> DEFINE q == SetToSeq(Interruptions)
           e == SessionEnd(result')
           m == Len(q)
<1>4. /\ e \in Events /\ e.kind = "session.end" /\ e.item[1] = "none"
  BY <1>2, EventFacts
<1>5. q \in Seq(Steps) /\ \A i \in 1..m : q[i] \in Interruptions
  <2>1. Interruptions \subseteq Steps  BY InterruptionsListed, StepFacts
  <2>2. q \in Seq(Interruptions)  BY InterruptionsListed
  <2> HIDE DEF q
  <2>3. q \in Seq(Steps)  BY <2>1, <2>2, SeqMonotonic
  <2>4. \A i \in 1..Len(q) : q[i] \in Interruptions  BY <2>2, ElementOfSeq
  <2> QED BY <2>3, <2>4
<1> HIDE DEF q
<1>6. /\ work' \in Seq(Steps) /\ m \in Nat /\ Len(work') = m + 6
      /\ \A i \in 1..m : work'[i] = q[i]
      /\ work'[m + 1] = Observe(e) /\ work'[m + 2].step = "complete"
      /\ work'[m + 3].step = "create" /\ work'[m + 4].step = "fill"
      /\ work'[m + 5].step = "rename" /\ work'[m + 6].step = "terminal"
  BY <1>3, <1>4, <1>5, FinishWork DEF q
<1>7. \A i \in 1..m : \E item \in Running : work'[i] = Observe(Event("end", item, "interrupted"))
  BY <1>5, <1>6 DEF Interruptions
<1>8. \A x : Observe(x).step = "observe" /\ Observe(x).event = x  BY DEF Observe
<1> HIDE DEF e, m
<1>9. \A i \in 1..m : work'[i].step = "observe"  BY <1>7, <1>8
<1>10. /\ work'[m + 1].step = "observe" /\ work'[m + 1].event.kind = "session.end"
       /\ Places' = 1..(m + 6)
       /\ \A i \in Places' : i \in 1..m \/ i = m + 1 \/ i = m + 2 \/ i = m + 3 \/ i = m + 4
                               \/ i = m + 5 \/ i = m + 6
       /\ work' # <<>>
  <2>1. work'[m + 1].step = "observe" /\ work'[m + 1].event.kind = "session.end"
    BY <1>4, <1>6, <1>8
  <2>2. Places' = 1..(m + 6)  BY <1>6 DEF Places
  <2>3. Len(<<>>) = 0 /\ m + 6 # 0  BY <1>6
  <2> QED BY <1>6, <2>1, <2>2, <2>3
<1>11. OrderInv'
  <2>1. \A i \in Places' : ~Is(i, "append")'  BY <1>6, <1>9, <1>10 DEF Is
  <2>2. \A i \in Places' : Is(i, "create")' => i = m + 3  BY <1>6, <1>9, <1>10 DEF Is
  <2>3. \A i \in Places' : Is(i, "fill")' => i = m + 4  BY <1>6, <1>9, <1>10 DEF Is
  <2>4. \A i \in Places' : Is(i, "rename")' => i = m + 5  BY <1>6, <1>9, <1>10 DEF Is
  <2>5. /\ work'[m + 3].step = "create" /\ work'[m + 4].step = "fill"
        /\ work'[m + 5].step = "rename"
    BY <1>6
  <2>6. /\ (m + 3) + 1 = m + 4 /\ (m + 3) + 2 = m + 5 /\ (m + 4) - 1 = m + 3
        /\ (m + 4) + 1 = m + 5 /\ (m + 5) - 1 = m + 4
        /\ (m + 3) + 2 <= m + 6 /\ (m + 4) + 1 <= m + 6
    BY <1>6
  <2> QED BY <1>2, <1>6, <2>1, <2>2, <2>3, <2>4, <2>5, <2>6 DEF OrderInv, Is
<1>12. CompleteInv'
  <2>1. \A i \in Places' : Is(i, "complete")' => i = m + 2  BY <1>6, <1>9, <1>10 DEF Is
  <2>2. \A j \in Places' : m + 2 < j => work'[j].step \notin {"observe", "append", "complete"}
    BY <1>6, <1>10
  <2>3. m + 2 > 1 /\ (m + 2) - 1 = m + 1  BY <1>6
  <2> QED BY <1>2, <1>10, <2>1, <2>2, <2>3 DEF CompleteInv, Is
<1>13. \A x \in Pending' : x.item[1] = "none" \/ \E item \in Running : x.item = item
  <2> SUFFICES ASSUME NEW x \in Pending'
               PROVE  x.item[1] = "none" \/ \E item \in Running : x.item = item
    OBVIOUS
  <2>1. PICK i \in Places' : work'[i] = Observe(x)  BY DEF Pending
  <2>2. work'[i].step = "observe" /\ work'[i].event = x  BY <1>8, <2>1
  <2>3. i \in 1..m \/ i = m + 1  BY <1>6, <1>10, <2>2
  <2>4. CASE i \in 1..m
    <3>1. PICK item \in Running : work'[i] = Observe(Event("end", item, "interrupted"))
      BY <1>7, <2>4
    <3>2. x = Event("end", item, "interrupted")  BY <1>8, <2>2, <3>1
    <3>3. x.item = item  BY <3>2 DEF Event
    <3> QED BY <3>3
  <2>5. CASE i = m + 1  BY <1>4, <1>6, <1>8, <2>2, <2>5
  <2> QED BY <2>3, <2>4, <2>5
<1>14. /\ report' \in Reports /\ report'.status = report.status
       /\ report'.log = report.log \/ (report.log = "recording" /\ report'.log = "incomplete")
       /\ report'.failed = report.failed /\ report'.last = report.last
       /\ report'.terminal = "success" => result' = 0 /\ report.terminal = "success"
            /\ report'.cleanup = report.cleanup
       /\ report'.terminal = "unknown" => report.terminal = "unknown"
            \/ (report.terminal = "running" /\ result' = 0)
       /\ result' = 0 => report'.terminal = "unknown" \/ report'.terminal = report.terminal
       /\ report'.terminal # "running"
  <2>1. report \in Reports  BY <1>1 DEF Typed
  <2>2. PICK failed \in BOOLEAN : report' = Concluded(result', failed)  BY <1>3
  <2> QED BY <1>2, <2>1, <2>2, ConcludedFacts
<1>15. Typed'
  <2>1. <<>> \in Seq(Events \cup Outcomes)  BY EmptySeq
  <2> QED BY <1>1, <1>2, <1>6, <1>14, <2>1 DEF Typed
<1>16. ~Is(1, "append")' /\ ~Is(1, "rename")'
  <2>1. 1 \in 1..m \/ 1 = m + 1  BY <1>6
  <2>2. work'[1].step = "observe"  BY <1>9, <1>10, <2>1
  <2> QED BY <2>2 DEF Is
<1>17. JournalInv'
  BY <1>1, <1>2, <1>14, <1>16 DEF JournalInv
<1>18. CreditInv'
  BY <1>1, <1>2, <1>14, <1>16 DEF CreditInv, Credited, Journalled
<1>19. PICK last \in 1..NStages, ok \in BOOLEAN, clean \in BOOLEAN, n \in 0..(2 * NStages + 4) :
         Course(last, ok, clean, n)
  BY <1>1 DEF CourseInv
<1>20. Course(last, ok, clean, n)'  BY <1>2, <1>19 DEF Course
<1>21. NStages \in Nat /\ last \in Nat /\ last >= 1 /\ last <= NStages /\ n \in Nat
       /\ Len(script) \in Nat /\ n <= 2 * last + 4 - Len(script)
  <2>1. Len(script) \in Nat
    <3>1. script \in Seq(Events \cup Outcomes)  BY <1>1 DEF Typed
    <3> HIDE DEF Events, Outcomes
    <3> QED BY <3>1, LenProperties
  <2> QED BY <1>19, <2>1, LimitsAssumption DEF Course
<1>22. /\ n < 2 * last + 4 => report.terminal = "running"
       /\ n = 2 * last + 4 =>
             /\ report.terminal = IF ok /\ clean THEN "success" ELSE "failed"
             /\ report.failed = IF ok THEN 0 ELSE last
             /\ report.last = IF ok THEN last ELSE last - 1
             /\ report.cleanup = IF clean THEN "success" ELSE "failed"
       /\ n < 2 * last + 4 \/ n = 2 * last + 4
  <2>1. n < 2 * last + 4 \/ n = 2 * last + 4  BY <1>21
  <2> QED BY <1>2, <1>19, <2>1 DEF Course, Outcome
<1>23. Pending = {}
  <2>1. Places = {}  BY <1>1, <1>2, WorkFacts DEF Places
  <2> QED BY <2>1 DEF Pending
<1>24. /\ exit = "ok" => wins /\ ~waiting /\ Len(script) = 0
       /\ wins = (ok /\ clean) /\ (ok => last = NStages)
       /\ willing => n + Len(inbox) = 2 * last + 4 - Len(script)
       /\ willing /\ ~waiting => Len(inbox) = 0
       /\ ok => \A i \in 1..last : 2 * i + 2 <= n => report.status[Stage(i)] = "success"
  <2>1. Len(<<>>) = 0  OBVIOUS
  <2> QED BY <1>2, <1>19, <1>23, <2>1 DEF Course
<1>25. FinishInv'
  <2>1. report'.terminal = "unknown" => ~willing
    <3>1. ASSUME report'.terminal = "unknown", willing PROVE FALSE
      <4>1. n < 2 * last + 4 /\ result' = 0  BY <1>14, <1>22, <3>1
      <4>2. Len(script) = 0 /\ Len(inbox) = 0  BY <1>2, <1>24, <3>1, <4>1
      <4> QED BY <1>21, <1>24, <3>1, <4>1, <4>2
    <3> QED BY <3>1
  <2>2. result' = 0 => report'.terminal \in {"success", "unknown"}
    BY <1>2, <1>14, <1>22, <1>24
  <2>3. ASSUME report'.terminal = "success"
        PROVE  /\ wins /\ result' = 0
               /\ report'.failed = 0 /\ report'.cleanup = "success" /\ report'.last = NStages
               /\ \A i \in 1..NStages : report'.status[Stage(i)] = "success"
               /\ \A x \in Pending' : x.item[1] # "stage"
    <3>1. report.terminal = "success" /\ result' = 0  BY <1>14, <2>3
    <3>2. n = 2 * last + 4 /\ ok /\ clean /\ last = NStages  BY <1>22, <1>24, <3>1
    <3>3. ASSUME NEW i \in 1..NStages PROVE report.status[Stage(i)] = "success"
      <4>1. i \in 1..last /\ 2 * i + 2 <= n  BY <1>21, <3>2
      <4> QED BY <1>24, <3>2, <4>1
    <3>4. ASSUME NEW x \in Pending' PROVE x.item[1] # "stage"
      <4>1. CASE x.item[1] = "none"  BY <4>1
      <4>2. ASSUME NEW item \in Running, x.item = item PROVE x.item[1] # "stage"
        <5>1. item \in Items /\ report.status[item] = "running"  BY DEF Running
        <5>2. item[1] = "stage" => item[2] \in 1..NStages /\ item = Stage(item[2])
          BY <5>1, ItemFacts
        <5> QED BY <3>3, <4>2, <5>1, <5>2
      <4> QED BY <1>13, <4>1, <4>2
    <3> QED BY <1>14, <1>22, <1>24, <2>3, <3>1, <3>2, <3>3, <3>4
  <2> QED BY <1>1, <1>2, <2>1, <2>2, <2>3 DEF FinishInv
<1> QED BY <1>11, <1>12, <1>15, <1>17, <1>18, <1>20, <1>25 DEF RecorderInv, FilesInv, CourseInv

\* What the engine does leaves the record alone.
LEMMA EngineAlone ==
    ASSUME FilesInv, FinishInv, UNCHANGED <<report, work, phase, result, fileVars, seen, wins>>,
           script' \in Seq(Events \cup Outcomes), inbox' \in Seq(Events \cup Outcomes),
           exit' \in {"unborn", "alive", "ok", "bad"},
           phase \in {"finish", "done"} => exit' # "alive",
           ~willing => ~willing'
    PROVE  FilesInv' /\ FinishInv' /\ Pending' = Pending
<1>1. Typed' /\ Pending' = Pending  BY DEF FilesInv, Typed, fileVars, Pending, Places
<1>2. OrderInv' /\ CompleteInv'
  BY DEF FilesInv, OrderInv, CompleteInv, Places, Is, LastSeen
<1>3. JournalInv' /\ CreditInv'
  BY DEF FilesInv, JournalInv, CreditInv, Credited, Journalled, Places, Is, LastSeen, fileVars
<1>4. FinishInv'  BY <1>1 DEF FinishInv
<1> QED BY <1>1, <1>2, <1>3, <1>4 DEF FilesInv

\* The engine says the next thing, or keeps silent.
LEMMA SayKept ==
    ASSUME RecorderInv, Say
    PROVE  RecorderInv'
<1>1. Typed /\ FilesInv /\ CourseInv /\ FinishInv  BY DEF RecorderInv, FilesInv
<1>2. /\ exit = "alive" /\ ~waiting /\ script # <<>> /\ script' = Tail(script)
      /\ inbox' = (IF willing THEN Append(inbox, Head(script)) ELSE inbox) /\ waiting' = willing
      /\ UNCHANGED <<willing, wins, exit, report, work, phase, result, fileVars, seen>>
  BY DEF Say
<1>3. /\ script \in Seq(Events \cup Outcomes) /\ inbox \in Seq(Events \cup Outcomes)
      /\ Head(script) = script[1]
  BY <1>1 DEF Typed
<1> HIDE DEF Events, Outcomes
<1>4. /\ Head(script) \in Events \cup Outcomes /\ script' \in Seq(Events \cup Outcomes)
      /\ Len(script) \in Nat /\ Len(script') = Len(script) - 1 /\ Len(script) # 0
      /\ \A i \in 1..Len(script') : script'[i] = script[i + 1]
  BY <1>2, <1>3, HeadTailProperties, LenProperties, EmptySeq
<1>5. /\ inbox' \in Seq(Events \cup Outcomes) /\ Len(inbox) \in Nat
      /\ willing => Len(inbox') = Len(inbox) + 1 /\ inbox'[Len(inbox) + 1] = script[1]
  BY <1>2, <1>3, <1>4, AppendProperties, LenProperties
<1>6. FilesInv' /\ FinishInv' /\ Pending' = Pending
  BY <1>1, <1>2, <1>4, <1>5, EngineAlone DEF FinishInv
<1>7. PICK last \in 1..NStages, ok \in BOOLEAN, clean \in BOOLEAN, n \in 0..(2 * NStages + 4) :
         Course(last, ok, clean, n)
  BY <1>1 DEF CourseInv
<1> DEFINE full == Script(last, ok, clean)
           said == 2 * last + 4 - Len(script)
<1>8. NStages \in Nat \ {0} /\ last \in Nat /\ n \in Nat  BY LimitsAssumption
<1>9. /\ 2 * last + 4 - Len(script') = said + 1 /\ said + 1 \in 0..(2 * last + 4)
      /\ n \in 0..(said + 1) /\ said \in Nat /\ n <= said
  BY <1>4, <1>7, <1>8 DEF Course
<1>10. ASSUME NEW k \in 1..Len(script') PROVE script'[k] = full[(said + 1) + k]
  <2>1. script'[k] = script[k + 1] /\ k + 1 \in 1..Len(script)  BY <1>4
  <2>2. script[k + 1] = full[said + (k + 1)]  BY <1>7, <2>1 DEF Course
  <2>3. said + (k + 1) = (said + 1) + k  BY <1>9
  <2> QED BY <2>1, <2>2, <2>3
<1>11. script[1] = full[said + 1]
  <2>1. 1 \in 1..Len(script)  BY <1>4
  <2> QED BY <1>7, <2>1 DEF Course
<1>12. ASSUME phase = "run"
       PROVE  /\ inbox' # <<>> => Len(inbox') = 1 /\ n < said + 1 /\ inbox'[1] = full[n + 1]
              /\ willing => n + Len(inbox') = said + 1
  <2>1. CASE willing
    <3>1. inbox = <<>> /\ n + Len(inbox) = said  BY <1>2, <1>7, <1>12, <2>1 DEF Course
    <3>2. Len(inbox) = 0  BY <3>1
    <3>3. n = said /\ Len(inbox') = 1 /\ inbox'[1] = script[1]  BY <1>5, <1>8, <2>1, <3>1, <3>2
    <3> QED BY <1>8, <1>11, <3>3
  <2>2. CASE ~willing
    <3>1. inbox' = inbox  BY <1>2, <2>2
    <3>2. inbox # <<>> => Len(inbox) = 1 /\ n < said /\ inbox[1] = full[n + 1]
      BY <1>7, <1>12 DEF Course
    <3> QED BY <1>8, <1>9, <2>2, <3>1, <3>2
  <2> QED BY <2>1, <2>2
<1>13. Course(last, ok, clean, n)'
  <2>1. exit' # "ok"  BY <1>2
  <2> HIDE DEF full
  <2>2. script' = Tail(script)  BY <1>2
  <2>3. report' = report /\ phase' = phase /\ willing' = willing /\ wins' = wins
    BY <1>2
  <2>4. willing' /\ ~waiting' => FALSE  BY <1>2
  <2> QED BY <1>6, <1>7, <1>9, <1>10, <1>12, <2>1, <2>3, <2>4 DEF Course, full
<1> QED BY <1>6, <1>13 DEF RecorderInv, CourseInv

\* The engine gets its reply, gives up waiting for it, or ends.
LEMMA EngineKept ==
    ASSUME RecorderInv, Reply \/ GiveUp \/ EngineExit
    PROVE  RecorderInv'
<1>1. Typed /\ FilesInv /\ CourseInv /\ FinishInv  BY DEF RecorderInv, FilesInv
<1>2. /\ exit = "alive" /\ script' = script /\ inbox' \in {inbox, <<>>}
      /\ UNCHANGED <<wins, report, work, phase, result, fileVars, seen>>
      /\ willing' => willing /\ inbox' = inbox /\ (waiting' = waiting \/ inbox = <<>>)
      /\ ~willing => ~willing'
      /\ exit' = exit \/ exit' \in (IF wins /\ script = <<>> /\ ~waiting
           THEN {"ok", "bad"} ELSE {"bad"})
      /\ exit' # exit => waiting' = waiting
  BY DEF Reply, GiveUp, EngineExit
<1>3. inbox' \in Seq(Events \cup Outcomes) /\ script' \in Seq(Events \cup Outcomes)
  <2>1. <<>> \in Seq(Events \cup Outcomes)  BY EmptySeq
  <2> QED BY <1>1, <1>2, <2>1 DEF Typed
<1>4. /\ exit' \in {"unborn", "alive", "ok", "bad"} /\ phase \notin {"finish", "done"}
      /\ exit' = "ok" => wins /\ script = <<>> /\ ~waiting'
  BY <1>1, <1>2 DEF FinishInv
<1>5. FilesInv' /\ FinishInv' /\ Pending' = Pending
  BY <1>1, <1>2, <1>3, <1>4, EngineAlone
<1>6. PICK last \in 1..NStages, ok \in BOOLEAN, clean \in BOOLEAN, n \in 0..(2 * NStages + 4) :
         Course(last, ok, clean, n)
  BY <1>1 DEF CourseInv
<1>7. Course(last, ok, clean, n)'
  <2>1. ASSUME phase = "run"
        PROVE  /\ inbox' # <<>> => Len(inbox') = 1 /\ n < 2 * last + 4 - Len(script)
                                   /\ inbox'[1] = Script(last, ok, clean)[n + 1]
               /\ willing' => n + Len(inbox') = 2 * last + 4 - Len(script)
               /\ willing' /\ ~waiting' => inbox' = <<>>
    BY <1>2, <1>6, <2>1 DEF Course
  <2> QED BY <1>2, <1>4, <1>5, <1>6, <2>1 DEF Course
<1> QED BY <1>5, <1>7 DEF RecorderInv, CourseInv

-----------------------------------------------------------------------------
(* The theorems.                                                           *)

\* A run starts with nothing said, nothing seen and a first checkpoint to do.
LEMMA RecorderStarts == Init => RecorderInv
<1> SUFFICES ASSUME Init PROVE RecorderInv  OBVIOUS
<1>1. PICK last \in 1..NStages, ok \in BOOLEAN, clean \in BOOLEAN :
         (ok => last = NStages) /\ script = Script(last, ok, clean) /\ wins = (ok /\ clean)
  BY DEF Init
<1>2. /\ willing = TRUE /\ waiting = FALSE /\ exit = "unborn" /\ inbox = <<>>
      /\ report \in {Fresh, [Fresh EXCEPT !.log = "unavailable"]}
      /\ phase = "run" /\ result = 9 /\ work = Checkpoint \o <<Observe(Note)>>
      /\ journal = <<>> /\ torn = FALSE /\ temp = NoFile /\ summary = NoFile /\ seen = <<>>
  BY DEF Init
<1>3. NStages \in Nat \ {0} /\ last \in Nat /\ last >= 1 /\ last <= NStages  BY LimitsAssumption
<1>4. script \in Seq(Events \cup Outcomes) /\ Len(script) = 2 * last + 4  BY <1>1, ScriptFacts
<1>5. /\ report \in Reports /\ report.log \in {"recording", "unavailable"}
      /\ report.terminal = "running"
      /\ \A i \in 1..NStages : report.status[Stage(i)] = "notStarted"
  <2>1. Fresh \in Reports /\ "unavailable" \in Logs  BY FreshFacts DEF Logs
  <2>2. [Fresh EXCEPT !.log = "unavailable"] \in Reports  BY <2>1, Relogged
  <2>3. /\ Fresh.log = "recording" /\ Fresh.terminal = "running"
        /\ Fresh.status = [item \in Items |-> "notStarted"]
    BY DEF Fresh
  <2>4. /\ [Fresh EXCEPT !.log = "unavailable"].log = "unavailable"
        /\ [Fresh EXCEPT !.log = "unavailable"].terminal = "running"
        /\ [Fresh EXCEPT !.log = "unavailable"].status = [item \in Items |-> "notStarted"]
    BY DEF Fresh
  <2>5. \A i \in 1..NStages : [item \in Items |-> "notStarted"][Stage(i)] = "notStarted"
    BY ItemFacts
  <2>6. CASE report = Fresh  BY ONLY <2>1, <2>3, <2>5, <2>6
  <2>7. CASE report = [Fresh EXCEPT !.log = "unavailable"]  BY ONLY <2>2, <2>4, <2>5, <2>7
  <2> QED BY <1>2, <2>6, <2>7
<1>6. /\ work \in Seq(Steps) /\ Len(work) = 4 /\ work[1].step = "create"
      /\ work[2].step = "fill" /\ work[3].step = "rename" /\ work[4] = Observe(Note)
  <2> DEFINE c == Checkpoint
             o == <<Observe(Note)>>
  <2>1. Observe(Note) \in Steps  BY EventFacts, StepFacts
  <2>2. c \in Seq(Steps) /\ Len(c) = 3 /\ c[1].step = "create" /\ c[2].step = "fill"
        /\ c[3].step = "rename"
    BY StepFacts
  <2> HIDE DEF Steps
  <2>3. o \in Seq(Steps) /\ Len(o) = 1 /\ o[1] = Observe(Note)  BY <2>1
  <2>4. work = c \o o  BY <1>2
  <2> HIDE DEF c, o
  <2>5. /\ c \o o \in Seq(Steps) /\ Len(c \o o) = Len(c) + Len(o)
        /\ \A i \in 1..Len(c) : (c \o o)[i] = c[i]
        /\ \A j \in 1..Len(o) : (c \o o)[Len(c) + j] = o[j]
    BY <2>2, <2>3, Joined
  <2>6. 3 + 1 = 4 /\ 1 \in 1..1 /\ 1 \in 1..3 /\ 2 \in 1..3 /\ 3 \in 1..3  OBVIOUS
  <2>7. work[4] = o[1] /\ work[1] = c[1] /\ work[2] = c[2] /\ work[3] = c[3] /\ Len(work) = 4
    BY <2>2, <2>3, <2>4, <2>5, <2>6
  <2> QED BY <2>2, <2>3, <2>4, <2>5, <2>7
<1>7. Observe(Note).step = "observe" /\ Note \in Events /\ Note.item[1] = "none"
  BY EventFacts, StepFacts
<1>8. \A x, y : Observe(x) = Observe(y) => x = y
  <2>1. \A x : Observe(x).event = x  BY DEF Observe
  <2> QED BY <2>1
<1>9. Places = 1..4 /\ \A i \in Places : i = 1 \/ i = 2 \/ i = 3 \/ i = 4  BY <1>6 DEF Places
<1>10. Typed
  <2>1. <<>> \in Seq(Events) /\ <<>> \in Seq(Events \cup Outcomes)  BY EmptySeq
  <2> QED BY <1>2, <1>4, <1>5, <1>6, <2>1, FreshFacts DEF Typed
<1>11. OrderInv  BY <1>2, <1>6, <1>7, <1>9 DEF OrderInv, Is
<1>12. CompleteInv  BY <1>6, <1>7, <1>9 DEF CompleteInv, Is
<1>13. JournalInv
  <2>1. Len(<<>>) = 0  OBVIOUS
  <2> QED BY <1>2, <1>5, <1>6, <2>1 DEF JournalInv, Is
<1>14. CreditInv
  <2>1. ~Is(1, "rename")  BY <1>6 DEF Is
  <2> QED BY <1>2, <1>5, <2>1, FreshFacts DEF CreditInv
<1>15. \A x \in Pending : x = Note
  <2> SUFFICES ASSUME NEW x \in Pending PROVE x = Note  OBVIOUS
  <2>1. PICK k \in Places : work[k] = Observe(x)  BY DEF Pending
  <2>2. work[k].step = "observe"  BY <2>1 DEF Observe
  <2>3. k = 4  BY <1>6, <1>9, <2>2
  <2> QED BY <1>6, <1>8, <2>1, <2>3
<1>16. Course(last, ok, clean, 0)
  <2>1. 2 * last + 4 - Len(script) = 0 /\ 0 \in 0..0 /\ 0 \in 0..(2 * last + 4)
    BY <1>3, <1>4
  <2>2. \A k \in 1..Len(script) :
           script[k] = Script(last, ok, clean)[2 * last + 4 - Len(script) + k]
    <3>1. \A k \in 1..Len(script) : 2 * last + 4 - Len(script) + k = k  BY <1>4, <2>1
    <3> QED BY <1>1, <3>1
  <2>3. \A e \in Pending : e.item[1] # "stage"  BY <1>7, <1>15
  <2>4. inbox = <<>> /\ 0 + Len(inbox) = 2 * last + 4 - Len(script)  BY <1>2, <2>1
  <2>5. \A i \in 1..last : ~(2 * i + 2 <= 0)  BY <1>3
  <2>6. 0 # 2 * last + 4  BY <1>3
  <2>7. wins = (ok /\ clean) /\ (ok => last = NStages)  BY <1>1
  <2>8. exit # "ok" /\ waiting = FALSE /\ report.terminal = "running"  BY <1>2, <1>5
  <2>9. /\ 2 * last + 4 - Len(script) \in 0..(2 * last + 4)
        /\ 0 \in 0..(2 * last + 4 - Len(script))
    BY <2>1
  <2>10. ok => \A i \in 1..last : 2 * i + 2 <= 0 =>
            \/ report.status[Stage(i)] = "success"
            \/ Stop(Stage(i), TRUE) \in Pending
    BY <2>5
  <2> QED BY ONLY <2>2, <2>3, <2>4, <2>6, <2>7, <2>8, <2>9, <2>10 DEF Course
<1>17. CourseInv
  <2>1. 0 \in 0..(2 * NStages + 4)  BY <1>3
  <2> QED BY <1>16, <2>1 DEF CourseInv
<1>18. FinishInv  BY <1>2 DEF FinishInv
<1> QED BY <1>10, <1>11, <1>12, <1>13, <1>14, <1>17, <1>18 DEF RecorderInv, FilesInv

\* Every step keeps it.
LEMMA RecorderSteps ==
    ASSUME RecorderInv, [Next]_vars
    PROVE  RecorderInv'
<1>1. CASE UNCHANGED vars
  <2>1. Typed /\ FilesInv /\ CourseInv /\ FinishInv  BY DEF RecorderInv, FilesInv
  <2>2. UNCHANGED <<script, willing, waiting, wins, exit, inbox, report, work, phase, result,
                    fileVars, seen>>
    BY <1>1 DEF vars, fileVars
  <2>3. script' \in Seq(Events \cup Outcomes) /\ inbox' \in Seq(Events \cup Outcomes)
    BY <2>1, <2>2 DEF Typed
  <2>4. exit' \in {"unborn", "alive", "ok", "bad"}
          /\ (phase \in {"finish", "done"} => exit' # "alive")
    BY <2>1, <2>2 DEF FinishInv
  <2>5. FilesInv' /\ FinishInv' /\ Pending' = Pending
    BY <2>1, <2>2, <2>3, <2>4, EngineAlone
  <2>6. PICK last \in 1..NStages, ok \in BOOLEAN, clean \in BOOLEAN, n \in 0..(2 * NStages + 4) :
           Course(last, ok, clean, n)
    BY <2>1 DEF CourseInv
  <2>7. Course(last, ok, clean, n)'  BY <2>2, <2>5, <2>6 DEF Course
  <2> QED BY <2>5, <2>7 DEF RecorderInv, CourseInv
<1>2. CASE StartEngine \/ CommandEnds  BY <1>2, OwnEventKept
<1>3. CASE Say  BY <1>3, SayKept
<1>4. CASE Reply \/ GiveUp \/ EngineExit  BY <1>4, EngineKept
<1>5. CASE Serve  BY <1>5, ServeKept
<1>6. CASE Finish  BY <1>6, FinishKept
<1>7. CASE Killed  BY <1>7, KilledKept
<1>8. CASE ObserveStep  BY <1>8, ObserveKept
<1>9. CASE AppendStep  BY <1>9, AppendKept
<1>10. CASE CreateStep  BY <1>10, CreateKept
<1>11. CASE FillStep  BY <1>11, FillKept
<1>12. CASE RenameStep  BY <1>12, RenameKept
<1>13. CASE CompleteStep  BY <1>13, CompleteKept
<1>14. CASE TerminalStep  BY <1>14, TerminalKept
<1> QED BY <1>1, <1>2, <1>3, <1>4, <1>5, <1>6, <1>7, <1>8, <1>9, <1>10, <1>11, <1>12, <1>13, <1>14
        DEF Next

\* What the files say, read off their history.
LEMMA FilesAgree == FilesInv => RecordsAgree
<1> SUFFICES ASSUME FilesInv PROVE RecordsAgree  OBVIOUS
<1>1. Typed /\ JournalInv /\ CreditInv  BY DEF FilesInv
<1>2. journal \in Seq(Events) /\ seen \in Seq(Events)  BY <1>1 DEF Typed
<1>3. Len(journal) \in Nat /\ Len(seen) \in Nat /\ Len(journal) <= Len(seen)
      /\ \A i \in 1..Len(journal) : journal[i] = seen[i]
  BY <1>1, <1>2, LenProperties DEF JournalInv
<1>4. IsPrefix(journal, seen)
  <2> HIDE DEF Events
  <2> DEFINE n == Len(journal)
             s == SubSeq(seen, 1, n)
  <2>1. /\ 1 \in Int /\ n \in Int /\ \A i \in 1..n : seen[i] \in Events
    <3>1. \A i \in 1..n : i \in 1..Len(seen)  BY <1>3
    <3> QED BY <1>2, <1>3, <3>1, ElementOfSeq
  <2>2. /\ s \in Seq(Events) /\ Len(s) = (IF 1 <= n THEN n - 1 + 1 ELSE 0)
        /\ \A i \in 1..(n - 1 + 1) : s[i] = seen[1 + i - 1]
    BY <2>1, SubSeqProperties
  <2>3. Len(s) = n /\ \A i \in 1..n : s[i] = seen[i]
    <3>1. n - 1 + 1 = n /\ \A i \in 1..n : 1 + i - 1 = i  BY <1>3
    <3> QED BY <1>3, <2>2, <3>1
  <2>4. s = journal
    <3> HIDE DEF s
    <3> QED BY <1>2, <1>3, <2>2, <2>3, SeqEqual
  <2>5. SubSeq(journal, 1, n) = journal  BY <1>2, SubSeqFull
  <2> QED BY <1>3, <2>4, <2>5 DEF IsPrefix
<1>5. report.log = "complete" =>
         journal = seen /\ ~torn /\ Last(journal).kind = "session.end"
  BY <1>1 DEF JournalInv, LastSeen, Last
<1> QED BY <1>1, <1>4, <1>5 DEF RecordsAgree, JournalInv, CreditInv, Credited

\* For any number of stages and any limits, the journal and the summary never say more
\* than happened.
THEOREM RecordsSpeakTrue == Spec => []RecordsAgree
<1>1. Init => RecorderInv  BY RecorderStarts
<1>2. RecorderInv /\ [Next]_vars => RecorderInv'  BY RecorderSteps
<1>3. RecorderInv => RecordsAgree  BY FilesAgree DEF RecorderInv
<1> QED BY <1>1, <1>2, <1>3, PTL DEF Spec

\* For any number of stages and any limits, a report of success is the engine's and the
\* session's, and a session that ended well is never reported as failed.
THEOREM ReportsAreHonest == Spec => []ReportHonest
<1>1. Init => RecorderInv  BY RecorderStarts
<1>2. RecorderInv /\ [Next]_vars => RecorderInv'  BY RecorderSteps
<1>3. RecorderInv => ReportHonest
  BY DEF RecorderInv, FinishInv, ReportHonest, ValidReport
<1> QED BY <1>1, <1>2, <1>3, PTL DEF Spec

-----------------------------------------------------------------------------
(* The guest-agent client.                                                 *)

\* What is asked, what is said in answer, and the pieces of it.
States == {"running", "ok", "bad"}
Asks == ({"sync", "ping", "exec"} \X (1..client)) \cup ({"status"} \X (1..Len(procs)))
Said == ({"sync", "ping"} \X (1..client)) \cup ({"exec"} \X (1..Len(procs)))
            \cup ({"status"} \X States)
Pieces == {Mark} \cup [piece : {"head", "tail"}, of : Said]

\* The types.
AgentTyped ==
    /\ client \in Nat /\ purpose \in {"ready", "exec", "submit"}
    /\ status \in {"closed", "syncing", "idle", "asked", "done", "failed"}
    /\ asked \in {"none", "ping", "exec", "status"} /\ pid \in 0..Len(procs)
    /\ delimited \in BOOLEAN /\ rebooted \in BOOLEAN
    /\ procs \in Seq([by : 1..client, state : States])
    /\ toAgent \in Seq(Asks) /\ buffer \in Seq(Pieces) /\ toClient \in Seq(Pieces)

\* What the client has still to read: received first, then on its way.
Unread == Len(buffer) + Len(toClient)
At(i) == IF i <= Len(buffer) THEN buffer[i] ELSE toClient[i - Len(buffer)]
Token == <<"sync", client>>
Opening(a) == [piece |-> "head", of |-> a]
Closing(a) == [piece |-> "tail", of |-> a]

\* Nothing in the first n pieces is of this client's token.
Foreign(n) == \A i \in 1..n : At(i).of # Token

\* The token is yet to be answered; or its answer is the end of the stream, after a
\* delimiter; or it died with the guest.
Unanswered == toAgent # <<>> /\ toAgent[Len(toAgent)] = Token /\ Foreign(Unread)
Answered ==
    /\ toAgent = <<>> /\ Unread >= 2 /\ Foreign(Unread - 2)
    /\ At(Unread - 1) = Opening(Token) /\ At(Unread) = Closing(Token)
    /\ Unread = 2 => delimited
    /\ Unread > 2 => At(Unread - 2) = Mark
Lost == rebooted /\ toAgent = <<>> /\ Foreign(Unread)
SyncInv ==
    /\ status = "syncing" => Unanswered \/ Answered \/ Lost
    /\ status = "syncing" => \A i \in 1..(Len(toAgent) - 1) : toAgent[i] # Token
    /\ status = "syncing" => client > 0 /\ pid = 0

\* Once synchronised there is one question or its answer, and nothing else.
Fits(a) ==
    /\ a \in Said
    /\ asked = "ping" => a = <<"ping", client>>
    /\ asked = "exec" => a[1] = "exec" /\ procs[a[2]].by = client
    /\ asked = "status" => a[1] = "status" /\ (a[2] = "ok" => procs[pid].state = "ok")
Question == <<asked, IF asked = "status" THEN pid ELSE client>>
TalkInv ==
    /\ status = "idle" => toAgent = <<>> /\ Unread = 0
    /\ status = "asked" =>
          \/ toAgent = <<Question>> /\ Unread = 0
          \/ toAgent = <<>> /\ Unread = 0
          \/ /\ toAgent = <<>> /\ Unread = 2
             /\ \E a \in Said : Fits(a) /\ At(1) = Opening(a) /\ At(2) = Closing(a)
    /\ status \in {"idle", "asked"} => client > 0
    /\ status = "asked" =>
          asked = IF purpose = "ready" THEN "ping" ELSE IF pid = 0 THEN "exec" ELSE "status"

\* The process is the client's own, and success of exec is its success.
OwnInv ==
    /\ pid # 0 => procs[pid].by = client
    /\ status = "done" /\ purpose = "exec" => pid # 0 /\ procs[pid].state = "ok"

AgentInv == AgentTyped /\ SyncInv /\ TalkInv /\ OwnInv

-----------------------------------------------------------------------------
(* Pieces and lines.                                                       *)

\* A delimiter is neither half of a line.
LEMMA PieceFacts ==
    /\ Mark \in Pieces /\ Mark.piece = "mark" /\ Mark.of # Token
    /\ \A a \in Said : Opening(a) \in Pieces /\ Closing(a) \in Pieces
    /\ \A a : /\ Opening(a).piece = "head" /\ Opening(a).of = a
              /\ Closing(a).piece = "tail" /\ Closing(a).of = a
<1>1. Mark.of = <<>> /\ Len(<<>>) = 0 /\ Len(Token) = 2  BY DEF Mark, Token
<1>2. Mark.of # Token  BY <1>1
<1>3. Mark \in Pieces /\ Mark.piece = "mark"  BY DEF Mark, Pieces
<1> QED BY <1>2, <1>3 DEF Pieces, Opening, Closing

\* A set of numbers has a least one, which First finds.
LEMMA FirstFacts ==
    ASSUME AgentTyped, LineEnds(buffer) # {}
    PROVE  /\ First(buffer) \in 1..Len(buffer) /\ buffer[First(buffer)].piece = "tail"
           /\ \A j \in 1..(First(buffer) - 1) : buffer[j].piece # "tail"
<1> DEFINE R == OpToRel(<, Nat)
<1>1. IsWellFoundedOn(R, Nat)  BY NatLessThanWellFounded
<1>2. \A x, y \in Nat : x < y => <<x, y>> \in R  BY DEF OpToRel
<1> HIDE DEF R
<1>3. Len(buffer) \in Nat /\ DOMAIN buffer = 1..Len(buffer)  BY LenProperties DEF AgentTyped
<1>4. LineEnds(buffer) \in SUBSET Nat /\ LineEnds(buffer) \subseteq 1..Len(buffer)
  BY <1>3 DEF LineEnds
<1>5. PICK x \in LineEnds(buffer) : \A y \in LineEnds(buffer) : ~ (<<y, x>> \in R)
  BY <1>1, <1>4, WFMin
<1>6. ASSUME NEW y \in LineEnds(buffer) PROVE x <= y
  <2>1. x \in Nat /\ y \in Nat /\ ~(y < x)  BY <1>2, <1>4, <1>5
  <2> QED BY <2>1
<1>7. First(buffer) \in LineEnds(buffer) /\ \A j \in LineEnds(buffer) : First(buffer) <= j
  BY <1>6 DEF First
<1>8. ASSUME NEW j \in 1..(First(buffer) - 1) PROVE buffer[j].piece # "tail"
  <2>1. j \in DOMAIN buffer /\ ~(First(buffer) <= j)  BY <1>3, <1>4, <1>7
  <2> QED BY <2>1, <1>7 DEF LineEnds
<1> QED BY <1>4, <1>7, <1>8 DEF LineEnds

\* What is received is taken in the order in which it comes.
LEMMA Bounds ==
    ASSUME AgentTyped
    PROVE  /\ Len(buffer) \in Nat /\ Len(toClient) \in Nat /\ Unread \in Nat
           /\ DOMAIN buffer = 1..Len(buffer)
           /\ \A i \in 1..Len(buffer) : buffer[i] \in Pieces /\ At(i) = buffer[i]
           /\ \A i \in 1..Unread : At(i) \in Pieces
<1>1. /\ Len(buffer) \in Nat /\ Len(toClient) \in Nat /\ Unread \in Nat
      /\ DOMAIN buffer = 1..Len(buffer)
  BY LenProperties DEF AgentTyped, Unread
<1>2. \A i \in 1..Len(buffer) : buffer[i] \in Pieces  BY ElementOfSeq DEF AgentTyped
<1>3. \A i \in 1..Len(toClient) : toClient[i] \in Pieces  BY ElementOfSeq DEF AgentTyped
<1>4. ASSUME NEW i \in 1..Unread PROVE At(i) \in Pieces
  <2>1. CASE i <= Len(buffer)  BY <1>1, <1>2, <2>1 DEF At
  <2>2. CASE ~(i <= Len(buffer))
    <3>1. i - Len(buffer) \in 1..Len(toClient)  BY <1>1, <2>2 DEF Unread
    <3> QED BY <1>3, <2>2, <3>1 DEF At
  <2> QED BY <2>1, <2>2
<1> QED BY <1>1, <1>2, <1>4 DEF At

\* The first d pieces of what has been received are read or thrown away.
LEMMA Dropped ==
    ASSUME AgentTyped, NEW d \in 0..Len(buffer),
           buffer' = SubSeq(buffer, d + 1, Len(buffer)), toClient' = toClient
    PROVE  /\ buffer' \in Seq(Pieces) /\ Len(buffer') = Len(buffer) - d
           /\ Unread' = Unread - d /\ \A i \in 1..Unread' : At(i)' = At(i + d)
<1>1. /\ Len(buffer) \in Nat /\ Len(toClient) \in Nat
      /\ \A i \in 1..Len(buffer) : buffer[i] \in Pieces
  BY Bounds
<1>2. /\ buffer' \in Seq(Pieces) /\ Len(buffer') = Len(buffer) - d
      /\ \A i \in 1..Len(buffer') : buffer'[i] = buffer[d + i]
  <2>1. /\ SubSeq(buffer, d + 1, Len(buffer)) \in Seq(Pieces)
        /\ Len(SubSeq(buffer, d + 1, Len(buffer))) =
              IF d + 1 <= Len(buffer) THEN Len(buffer) - (d + 1) + 1 ELSE 0
        /\ \A i \in 1..(Len(buffer) - (d + 1) + 1) :
              SubSeq(buffer, d + 1, Len(buffer))[i] = buffer[(d + 1) + i - 1]
    <3>1. \A i \in (d + 1)..Len(buffer) : buffer[i] \in Pieces  BY <1>1
    <3>2. d + 1 \in Int /\ Len(buffer) \in Int  BY <1>1
    <3> HIDE DEF Pieces
    <3> QED BY <3>1, <3>2, SubSeqProperties
  <2>2. Len(buffer') = Len(buffer) - d  BY <1>1, <2>1
  <2>3. ASSUME NEW i \in 1..Len(buffer') PROVE buffer'[i] = buffer[d + i]
    <3>1. i \in 1..(Len(buffer) - (d + 1) + 1) /\ (d + 1) + i - 1 = d + i  BY <1>1, <2>2
    <3> QED BY <2>1, <3>1
  <2> QED BY <2>1, <2>2, <2>3
<1>3. Unread' = Unread - d  BY <1>1, <1>2 DEF Unread
<1>4. ASSUME NEW i \in 1..Unread' PROVE At(i)' = At(i + d)
  <2>1. CASE i <= Len(buffer')  BY <1>1, <1>2, <2>1 DEF At
  <2>2. CASE ~(i <= Len(buffer'))  BY <1>1, <1>2, <1>3, <2>2 DEF At, Unread
  <2> QED BY <2>1, <2>2
<1> QED BY <1>2, <1>3, <1>4

\* More arrives; what has been received before is kept.
LEMMA Received ==
    ASSUME AgentTyped, Receive(buffer)
    PROVE  /\ buffer' \in Seq(Pieces) /\ toClient' \in Seq(Pieces)
           /\ Unread' = Unread /\ \A i \in 1..Unread' : At(i)' = At(i)
<1>1. PICK n \in 1..Len(toClient) :
         /\ buffer' = buffer \o SubSeq(toClient, 1, n)
         /\ toClient' = SubSeq(toClient, n + 1, Len(toClient))
  BY DEF Receive
<1>2. Len(buffer) \in Nat /\ Len(toClient) \in Nat  BY Bounds
<1>3. /\ SubSeq(toClient, 1, n) \in Seq(Pieces) /\ Len(SubSeq(toClient, 1, n)) = n
      /\ \A i \in 1..n : SubSeq(toClient, 1, n)[i] = toClient[i]
      /\ toClient' \in Seq(Pieces) /\ Len(toClient') = Len(toClient) - n
      /\ \A i \in 1..(Len(toClient) - n) : toClient'[i] = toClient[n + i]
  <2>1. toClient \in Seq(Pieces)  BY DEF AgentTyped
  <2> HIDE DEF Pieces
  <2>2. \A i \in 1..Len(toClient) : toClient[i] \in Pieces  BY <2>1, ElementOfSeq
  <2>3. \A a, b \in 1..(Len(toClient) + 1) : \A i \in a..(b - 1) : toClient[i] \in Pieces
    BY <1>2, <2>2
  <2>4. /\ SubSeq(toClient, 1, n) \in Seq(Pieces)
        /\ Len(SubSeq(toClient, 1, n)) = IF 1 <= n THEN n - 1 + 1 ELSE 0
        /\ \A i \in 1..(n - 1 + 1) : SubSeq(toClient, 1, n)[i] = toClient[1 + i - 1]
    <3>1. \A i \in 1..n : toClient[i] \in Pieces  BY <1>2, <2>2
    <3> QED BY <3>1, SubSeqProperties
  <2>5. /\ toClient' \in Seq(Pieces)
        /\ Len(toClient') =
              IF n + 1 <= Len(toClient) THEN Len(toClient) - (n + 1) + 1 ELSE 0
        /\ \A i \in 1..(Len(toClient) - (n + 1) + 1) : toClient'[i] = toClient[(n + 1) + i - 1]
    <3>1. \A i \in (n + 1)..Len(toClient) : toClient[i] \in Pieces  BY <1>2, <2>2
    <3>2. n + 1 \in Int /\ Len(toClient) \in Int  BY <1>2
    <3> QED BY <1>1, <3>1, <3>2, SubSeqProperties
  <2>6. \A i \in 1..(Len(toClient) - n) :
           i \in 1..(Len(toClient) - (n + 1) + 1) /\ (n + 1) + i - 1 = n + i
    BY <1>2
  <2>7. \A i \in 1..n : i \in 1..(n - 1 + 1) /\ 1 + i - 1 = i  BY <1>2
  <2>8. Len(toClient') = Len(toClient) - n  BY <1>2, <2>5
  <2> QED BY <1>2, <2>4, <2>5, <2>6, <2>7, <2>8
<1>4. /\ buffer' \in Seq(Pieces) /\ Len(buffer') = Len(buffer) + n
      /\ \A i \in 1..(Len(buffer) + n) :
            buffer'[i] = IF i <= Len(buffer) THEN buffer[i] ELSE toClient[i - Len(buffer)]
  <2>1. buffer \in Seq(Pieces)  BY DEF AgentTyped
  <2> HIDE DEF Pieces
  <2>2. /\ buffer' \in Seq(Pieces)
        /\ Len(buffer') = Len(buffer) + Len(SubSeq(toClient, 1, n))
        /\ \A i \in 1..(Len(buffer) + Len(SubSeq(toClient, 1, n))) :
              buffer'[i] = IF i <= Len(buffer) THEN buffer[i]
                                               ELSE SubSeq(toClient, 1, n)[i - Len(buffer)]
    BY <1>1, <1>3, <2>1, ConcatProperties
  <2>3. \A i \in 1..(Len(buffer) + n) : ~(i <= Len(buffer)) => i - Len(buffer) \in 1..n
    BY <1>2
  <2> QED BY <1>3, <2>2, <2>3
<1>5. Unread' = Unread  BY <1>2, <1>3, <1>4 DEF Unread
<1>6. ASSUME NEW i \in 1..Unread' PROVE At(i)' = At(i)
  <2>1. i \in 1..(Len(buffer) + Len(toClient))  BY <1>5 DEF Unread
  <2>2. CASE i <= Len(buffer) + n
    <3>1. i \in 1..(Len(buffer) + n) /\ i <= Len(buffer')  BY <1>2, <1>4, <2>1, <2>2
    <3> QED BY <1>4, <3>1 DEF At
  <2>3. CASE ~(i <= Len(buffer) + n)
    <3>1. /\ ~(i <= Len(buffer)) /\ ~(i <= Len(buffer'))
          /\ i - Len(buffer') \in 1..(Len(toClient) - n)
          /\ n + (i - Len(buffer')) = i - Len(buffer)
      BY <1>2, <1>4, <2>1, <2>3
    <3> QED BY <1>3, <3>1 DEF At
  <2> QED BY <2>2, <2>3
<1> QED BY <1>3, <1>4, <1>5, <1>6

\* More arrives in place of what has been received.
LEMMA ReceivedAlone ==
    ASSUME AgentTyped, Receive(<<>>)
    PROVE  /\ buffer' \in Seq(Pieces) /\ toClient' \in Seq(Pieces)
           /\ Unread' = Unread - Len(buffer) /\ \A i \in 1..Unread' : At(i)' = At(i + Len(buffer))
<1>1. PICK n \in 1..Len(toClient) :
         /\ buffer' = <<>> \o SubSeq(toClient, 1, n)
         /\ toClient' = SubSeq(toClient, n + 1, Len(toClient))
  BY DEF Receive
<1>2. Len(buffer) \in Nat /\ Len(toClient) \in Nat  BY Bounds
<1>3. \A i \in 1..Len(toClient) : toClient[i] \in Pieces  BY ElementOfSeq DEF AgentTyped
<1>4. /\ SubSeq(toClient, 1, n) \in Seq(Pieces) /\ Len(SubSeq(toClient, 1, n)) = n
      /\ \A i \in 1..n : SubSeq(toClient, 1, n)[i] = toClient[i]
  <2> HIDE DEF Pieces
  <2>1. /\ SubSeq(toClient, 1, n) \in Seq(Pieces)
        /\ Len(SubSeq(toClient, 1, n)) = IF 1 <= n THEN n - 1 + 1 ELSE 0
        /\ \A i \in 1..(n - 1 + 1) : SubSeq(toClient, 1, n)[i] = toClient[1 + i - 1]
    <3>1. \A i \in 1..n : toClient[i] \in Pieces  BY <1>2, <1>3
    <3> QED BY <3>1, SubSeqProperties
  <2>2. \A i \in 1..n : i \in 1..(n - 1 + 1) /\ 1 + i - 1 = i  BY <1>2
  <2> QED BY <1>2, <2>1, <2>2
<1>5. /\ toClient' \in Seq(Pieces) /\ Len(toClient') = Len(toClient) - n
      /\ \A i \in 1..(Len(toClient) - n) : toClient'[i] = toClient[n + i]
  <2> HIDE DEF Pieces
  <2>1. /\ toClient' \in Seq(Pieces)
        /\ Len(toClient') =
              IF n + 1 <= Len(toClient) THEN Len(toClient) - (n + 1) + 1 ELSE 0
        /\ \A i \in 1..(Len(toClient) - (n + 1) + 1) : toClient'[i] = toClient[(n + 1) + i - 1]
    <3>1. \A i \in (n + 1)..Len(toClient) : toClient[i] \in Pieces  BY <1>2, <1>3
    <3>2. n + 1 \in Int /\ Len(toClient) \in Int  BY <1>2
    <3> QED BY <1>1, <3>1, <3>2, SubSeqProperties
  <2>2. \A i \in 1..(Len(toClient) - n) :
           i \in 1..(Len(toClient) - (n + 1) + 1) /\ (n + 1) + i - 1 = n + i
    BY <1>2
  <2>3. Len(toClient') = Len(toClient) - n  BY <1>2, <2>1
  <2> QED BY <2>1, <2>2, <2>3
<1>6. buffer' = SubSeq(toClient, 1, n)
  <2>1. SubSeq(toClient, 1, n) \in Seq(Pieces)  BY <1>4
  <2> HIDE DEF Pieces
  <2> QED BY <1>1, <2>1, ConcatEmptySeq
<1>7. Unread' = Unread - Len(buffer)  BY <1>2, <1>4, <1>5, <1>6 DEF Unread
<1>8. ASSUME NEW i \in 1..Unread' PROVE At(i)' = At(i + Len(buffer))
  <2>1. i \in 1..Len(toClient) /\ Len(buffer') = n  BY <1>2, <1>4, <1>6, <1>7 DEF Unread
  <2>2. At(i + Len(buffer)) = toClient[i]
    <3>1. ~(i + Len(buffer) <= Len(buffer)) /\ (i + Len(buffer)) - Len(buffer) = i
      BY <1>2, <2>1
    <3> QED BY <3>1 DEF At
  <2>3. CASE i <= n  BY <1>4, <1>6, <2>1, <2>2, <2>3 DEF At
  <2>4. CASE ~(i <= n)
    <3>1. i - n \in 1..(Len(toClient) - n) /\ n + (i - n) = i  BY <1>2, <2>1, <2>4
    <3>2. toClient'[i - n] = toClient[i]  BY <1>5, <3>1
    <3> QED BY <2>1, <2>2, <2>4, <3>2 DEF At
  <2> QED BY <2>3, <2>4
<1> QED BY <1>4, <1>5, <1>6, <1>7, <1>8

-----------------------------------------------------------------------------
(* Synchronising.                                                          *)

\* Of what a client throws away, nothing is its own answer.
LEMMA StaysAnswered ==
    ASSUME AgentInv, status = "syncing", NEW d \in 0..Unread,
           Unread' = Unread - d, \A i \in 1..Unread' : At(i)' = At(i + d),
           client' = client, toAgent' = toAgent, rebooted' = rebooted,
           Answered => Unread - d >= 2 /\ (Unread - d = 2 => delimited')
    PROVE  (Unanswered \/ Answered \/ Lost)'
<1>1. Unread \in Nat  BY Bounds DEF AgentInv
<1>2. Token' = Token  BY DEF Token
<1>3. ASSUME NEW n \in Nat, n <= Unread, Foreign(n) PROVE \A i \in 1..(n - d) : At(i)'.of # Token'
  <2>1. ASSUME NEW i \in 1..(n - d) PROVE At(i)'.of # Token'
    <3>1. i \in 1..Unread' /\ i + d \in 1..n  BY <1>1, <1>3
    <3>2. At(i)' = At(i + d)  BY <3>1
    <3>3. At(i + d).of # Token  BY <1>3, <3>1 DEF Foreign
    <3> QED BY <1>2, <3>2, <3>3
  <2> QED BY <2>1
<1>4. Unanswered \/ Answered \/ Lost  BY DEF AgentInv, SyncInv
<1>5. CASE Unanswered
  <2>1. Foreign(Unread)'  BY <1>1, <1>3, <1>5 DEF Foreign, Unanswered
  <2> QED BY <1>2, <1>5, <2>1 DEF Unanswered
<1>6. CASE Lost
  <2>1. Foreign(Unread)'  BY <1>1, <1>3, <1>6 DEF Foreign, Lost
  <2> QED BY <1>6, <2>1 DEF Lost
<1>7. CASE Answered
  <2>1. /\ Unread >= 2 /\ Foreign(Unread - 2) /\ Unread' >= 2
        /\ At(Unread - 1) = Opening(Token) /\ At(Unread) = Closing(Token)
        /\ Unread > 2 => At(Unread - 2) = Mark
    BY <1>1, <1>7 DEF Answered
  <2>2. Foreign(Unread - 2)'
    <3>1. Unread - 2 \in Nat /\ Unread - 2 <= Unread /\ Unread' - 2 = (Unread - 2) - d
      BY <1>1, <2>1
    <3> QED BY <1>3, <2>1, <3>1 DEF Foreign
  <2>3. \A i \in 1..Unread' : At(i)' = At(i + d)  OBVIOUS
  <2>4. At(Unread - 1)' = At(Unread - 1) /\ At(Unread)' = At(Unread)
    <3>1. /\ Unread' - 1 \in 1..Unread' /\ (Unread' - 1) + d = Unread - 1
          /\ Unread' \in 1..Unread' /\ Unread' + d = Unread
      BY <1>1, <2>1
    <3>2. \A i \in 1..Unread' : i = Unread' - 1 => At(i)' = At(Unread - 1)  BY <2>3, <3>1
    <3>3. \A i \in 1..Unread' : i = Unread' => At(i)' = At(Unread)  BY <2>3, <3>1
    <3>4. At(Unread - 1)' = At(Unread - 1)
      <4> DEFINE k == Unread' - 1
      <4>1. k \in 1..Unread' /\ k = Unread' - 1  BY <3>1
      <4> QED BY <3>2, <4>1 DEF At
    <3>5. At(Unread)' = At(Unread)  BY <3>1, <3>3 DEF At
    <3> QED BY <3>4, <3>5
  <2>5. Unread' > 2 => At(Unread - 2)' = Mark
    <3> SUFFICES ASSUME Unread' > 2 PROVE At(Unread - 2)' = Mark  OBVIOUS
    <3>1. Unread' - 2 \in 1..Unread' /\ (Unread' - 2) + d = Unread - 2 /\ Unread > 2  BY <1>1, <2>1
    <3>2. \A i \in 1..Unread' : i = Unread' - 2 => At(i)' = At(Unread - 2)  BY <2>3, <3>1
    <3>3. At(Unread - 2)' = At(Unread - 2)
      <4> DEFINE k == Unread' - 2
      <4>1. k \in 1..Unread' /\ k = Unread' - 2  BY <3>1
      <4> QED BY <3>2, <4>1 DEF At
    <3> QED BY <2>1, <3>1, <3>3
  <2>6. Unread' = 2 => delimited'  BY <1>1, <1>7
  <2> QED
    BY <1>2, <1>7, <2>1, <2>2, <2>4, <2>5, <2>6 DEF Answered, Opening, Closing, Mark
<1> QED BY <1>4, <1>5, <1>6, <1>7

\* Everything but the stream stays as it is.
LEMMA Quiet ==
    ASSUME AgentInv, client' = client, purpose' = purpose, asked' = asked, pid' = pid,
           rebooted' = rebooted, procs' = procs, toAgent' = toAgent, delimited' \in BOOLEAN,
           buffer' \in Seq(Pieces), toClient' \in Seq(Pieces),
           status' \in {"closed", "syncing", "idle", "asked", "done", "failed"}
    PROVE  AgentTyped'
BY DEF AgentInv, AgentTyped, Asks, Said, Pieces, Mark

\* FindMark: its answer comes after the last delimiter there is.
LEMMA FindMarkStep == AgentInv /\ FindMark => AgentInv'
<1> SUFFICES ASSUME AgentInv, FindMark PROVE AgentInv'  OBVIOUS
<1>1. AgentTyped /\ Unread \in Nat /\ Len(buffer) \in Nat /\ Len(toClient) \in Nat
  BY Bounds DEF AgentInv
<1>2. PICK d \in Marks(buffer) : /\ \A j \in Marks(buffer) : j <= d
                                 /\ buffer' = SubSeq(buffer, d + 1, Len(buffer))
  BY DEF FindMark
<1>3. d \in 1..Len(buffer) /\ buffer[d] = Mark /\ d <= Unread
  BY <1>1, <1>2, Bounds DEF Marks, Unread
<1>4. /\ buffer' \in Seq(Pieces) /\ Unread' = Unread - d
      /\ \A i \in 1..Unread' : At(i)' = At(i + d)
  <2>1. d \in 0..Len(buffer) /\ toClient' = toClient  BY <1>1, <1>3 DEF FindMark
  <2> QED BY <1>1, <1>2, <2>1, Dropped
<1>5. /\ status = "syncing" /\ status' = status /\ delimited' = TRUE
      /\ client' = client /\ purpose' = purpose /\ asked' = asked /\ pid' = pid
      /\ toAgent' = toAgent /\ toClient' = toClient /\ procs' = procs /\ rebooted' = rebooted
  BY DEF FindMark
<1>6. Answered => Unread - d >= 2
  <2> SUFFICES ASSUME Answered, Unread - d < 2 PROVE FALSE  BY <1>1, <1>3
  <2>1. d = Unread - 1 \/ d = Unread  BY <1>1, <1>3
  <2>2. At(d) = Mark  BY <1>1, <1>3, Bounds
  <2>3. At(d) = Opening(Token) \/ At(d) = Closing(Token)  BY <2>1 DEF Answered
  <2> QED BY <2>2, <2>3, PieceFacts
<1>7. AgentTyped'  BY <1>1, <1>4, <1>5, Quiet DEF AgentTyped
<1>8. (Unanswered \/ Answered \/ Lost)'
  <2>1. d \in 0..Unread  BY <1>1, <1>3
  <2> QED BY <1>4, <1>5, <1>6, <2>1, StaysAnswered
<1>9. SyncInv' /\ TalkInv' /\ OwnInv'
  BY <1>5, <1>8 DEF AgentInv, SyncInv, TalkInv, OwnInv, Token
<1> QED BY <1>7, <1>9 DEF AgentInv

\* ReceiveSync: only what no delimiter precedes is thrown away.
LEMMA ReceiveSyncStep == AgentInv /\ ReceiveSync => AgentInv'
<1> SUFFICES ASSUME AgentInv, ReceiveSync PROVE AgentInv'  OBVIOUS
<1>1. AgentTyped /\ Unread \in Nat /\ Len(buffer) \in Nat /\ Len(toClient) \in Nat
  BY Bounds DEF AgentInv
<1>2. /\ status = "syncing" /\ status' = status /\ delimited' = delimited
      /\ client' = client /\ purpose' = purpose /\ asked' = asked /\ pid' = pid
      /\ toAgent' = toAgent /\ procs' = procs /\ rebooted' = rebooted /\ Marks(buffer) = {}
  BY DEF ReceiveSync
<1>3. \A i \in 1..Len(buffer) : buffer[i] # Mark  BY <1>1, <1>2, Bounds DEF Marks
<1>4. PICK d \in 0..Unread :
         /\ buffer' \in Seq(Pieces) /\ toClient' \in Seq(Pieces) /\ Unread' = Unread - d
         /\ \A i \in 1..Unread' : At(i)' = At(i + d)
         /\ d = IF delimited THEN 0 ELSE Len(buffer)
  <2>1. CASE delimited
    <3>1. Receive(buffer)  BY <2>1 DEF ReceiveSync
    <3>2. /\ buffer' \in Seq(Pieces) /\ toClient' \in Seq(Pieces) /\ Unread' = Unread
          /\ \A i \in 1..Unread' : At(i)' = At(i)
      BY <1>1, <3>1, Received
    <3>3. \A i \in 1..Unread' : i + 0 = i  BY <1>1, <3>2
    <3>4. 0 \in 0..Unread /\ Unread' = Unread - 0  BY <1>1, <3>2
    <3> QED BY <2>1, <3>2, <3>3, <3>4
  <2>2. CASE ~delimited
    <3>1. Receive(<<>>)  BY <2>2 DEF ReceiveSync
    <3>2. Len(buffer) \in 0..Unread  BY <1>1 DEF Unread
    <3> QED BY <1>1, <2>2, <3>1, <3>2, ReceivedAlone
  <2> QED BY <2>1, <2>2
<1>5. ASSUME Answered PROVE Unread - d >= 2 /\ (Unread - d = 2 => delimited')
  <2>1. CASE delimited
    <3>1. d = 0 /\ Unread >= 2  BY <1>4, <1>5, <2>1 DEF Answered
    <3> QED BY <1>1, <1>2, <2>1, <3>1
  <2>2. CASE ~delimited
    <3>1. d = Len(buffer) /\ Unread > 2 /\ At(Unread - 2) = Mark
      BY <1>1, <1>4, <1>5, <2>2 DEF Answered
    <3>2. ~(Unread - 2 \in 1..Len(buffer))
      BY <1>1, <1>3, <3>1, Bounds
    <3>3. d < Unread - 2  BY <1>1, <3>1, <3>2
    <3> QED BY <1>1, <3>1, <3>3
  <2> QED BY <2>1, <2>2
<1>6. AgentTyped'  BY <1>1, <1>2, <1>4, Quiet DEF AgentTyped
<1>7. (Unanswered \/ Answered \/ Lost)'  BY <1>2, <1>4, <1>5, StaysAnswered
<1>8. SyncInv' /\ TalkInv' /\ OwnInv'
  BY <1>2, <1>7 DEF AgentInv, SyncInv, TalkInv, OwnInv, Token
<1> QED BY <1>6, <1>8 DEF AgentInv

\* A line ends with the first end there is.
LEMMA LineFacts ==
    ASSUME AgentTyped, LineEnds(buffer) # {}
    PROVE  /\ Len(LineOf(buffer)) = First(buffer)
           /\ \A i \in 1..First(buffer) : LineOf(buffer)[i] = buffer[i]
<1>1. First(buffer) \in 1..Len(buffer) /\ Len(buffer) \in Nat  BY FirstFacts, Bounds
<1>2. \A i \in 1..First(buffer) : buffer[i] \in Pieces  BY <1>1, Bounds
<1> DEFINE f == First(buffer)
<1>3. f \in Int /\ f >= 1 /\ \A i \in 1..f : buffer[i] \in Pieces  BY <1>1, <1>2
<1>4. LineOf(buffer) = SubSeq(buffer, 1, f)  BY DEF LineOf
<1> HIDE DEF f, Pieces
<1>5. /\ Len(SubSeq(buffer, 1, f)) = IF 1 <= f THEN f - 1 + 1 ELSE 0
      /\ \A i \in 1..(f - 1 + 1) : SubSeq(buffer, 1, f)[i] = buffer[1 + i - 1]
  BY <1>3, SubSeqProperties
<1>6. \A i \in 1..f : i \in 1..(f - 1 + 1) /\ 1 + i - 1 = i  BY <1>3
<1>7. Len(SubSeq(buffer, 1, f)) = f  BY <1>3, <1>5
<1>8. \A i \in 1..f : SubSeq(buffer, 1, f)[i] = buffer[i]  BY <1>5, <1>6
<1> QED BY <1>4, <1>7, <1>8 DEF f

\* ReadSyncLine: a foreign line is dropped with its delimiter, its own ends the wait.
LEMMA ReadSyncLineStep == AgentInv /\ ReadSyncLine => AgentInv'
<1> SUFFICES ASSUME AgentInv, ReadSyncLine PROVE AgentInv'  OBVIOUS
<1>1. AgentTyped /\ Unread \in Nat /\ Len(buffer) \in Nat /\ Len(toClient) \in Nat
  BY Bounds DEF AgentInv
<1>2. /\ status = "syncing" /\ delimited /\ LineEnds(buffer) # {} /\ Marks(buffer) = {}
      /\ client' = client /\ purpose' = purpose /\ asked' = asked /\ pid' = pid
      /\ toAgent' = toAgent /\ toClient' = toClient /\ procs' = procs /\ rebooted' = rebooted
      /\ status' \in {"syncing", "idle"} /\ delimited' \in BOOLEAN
  BY <1>1 DEF ReadSyncLine, AgentTyped
<1> DEFINE f == First(buffer)
<1>3. /\ f \in 1..Len(buffer) /\ buffer[f].piece = "tail"
      /\ \A j \in 1..(f - 1) : buffer[j].piece # "tail"
      /\ Len(LineOf(buffer)) = f /\ \A i \in 1..f : LineOf(buffer)[i] = buffer[i]
  BY <1>1, <1>2, FirstFacts, LineFacts
<1>4. buffer' = SubSeq(buffer, f + 1, Len(buffer))  BY DEF ReadSyncLine, Rest
<1> HIDE DEF f
<1>5. f \in 0..Unread /\ f \in 0..Len(buffer) /\ f \in 1..Unread /\ At(f) = buffer[f]
  BY <1>1, <1>3, Bounds DEF Unread
<1>6. /\ buffer' \in Seq(Pieces) /\ Len(buffer') = Len(buffer) - f /\ Unread' = Unread - f
      /\ \A i \in 1..Unread' : At(i)' = At(i + f)
  BY <1>1, <1>2, <1>4, <1>5, Dropped
<1>7. AgentTyped'  BY <1>1, <1>2, <1>6, Quiet DEF AgentTyped
<1>8. \A i \in 1..Len(buffer) : buffer[i] # Mark /\ At(i) = buffer[i]
  BY <1>1, <1>2, Bounds DEF Marks
<1>9. CASE Mine(LineOf(buffer))
  <2>1. status' = "idle"  BY <1>9 DEF ReadSyncLine
  <2>2. /\ f = 2 /\ LineOf(buffer)[1].of = Token /\ LineOf(buffer)[1].of = LineOf(buffer)[2].of
    BY <1>3, <1>9 DEF Mine, IsAnswer, Token
  <2>3. At(1).of = Token /\ At(2).of = Token  BY <1>1, <1>3, <1>8, <2>2
  <2>4. ~Foreign(Unread)  BY <1>1, <1>5, <2>2, <2>3 DEF Foreign
  <2>5. Answered  BY <1>2, <2>4 DEF AgentInv, SyncInv, Unanswered, Lost
  <2>6. ~(Unread > 2)
    <3> SUFFICES ASSUME Unread > 2 PROVE FALSE  OBVIOUS
    <3>1. 1 \in 1..(Unread - 2)  BY <1>1
    <3> QED BY <2>3, <2>5, <3>1 DEF Answered, Foreign
  <2>7. Unread = 2 /\ toAgent = <<>>  BY <1>1, <2>5, <2>6 DEF Answered
  <2>8. Unread' = 0 /\ toAgent' = <<>>  BY <1>2, <1>6, <2>2, <2>7
  <2>9. client' > 0 /\ pid' = 0  BY <1>2 DEF AgentInv, SyncInv
  <2>10. SyncInv' /\ TalkInv'  BY <2>1, <2>8, <2>9 DEF SyncInv, TalkInv
  <2>11. OwnInv'  BY <1>2, <2>1, <2>9 DEF OwnInv
  <2> QED BY <1>7, <2>10, <2>11 DEF AgentInv
<1>10. CASE ~Mine(LineOf(buffer))
  <2>1. status' = "syncing"  BY <1>2, <1>10 DEF ReadSyncLine
  <2>2. ASSUME Answered PROVE Unread - f > 2
    <3>1. /\ Unread >= 2 /\ At(Unread - 1) = Opening(Token) /\ At(Unread) = Closing(Token)
          /\ Unread > 2 => At(Unread - 2) = Mark
      BY <2>2 DEF Answered
    <3>2. At(f).piece = "tail"  BY <1>3, <1>5
    <3>3. f # Unread - 1
      <4> SUFFICES ASSUME f = Unread - 1 PROVE FALSE  OBVIOUS
      <4>1. At(f) = Opening(Token)  BY <3>1
      <4> QED BY <3>2, <4>1, PieceFacts
    <3>4. f # Unread
      <4> SUFFICES ASSUME f = Unread PROVE FALSE  OBVIOUS
      <4>1. Len(buffer) = Unread  BY <1>1, <1>3 DEF Unread
      <4>2. ~(Unread > 2)
        <5> SUFFICES ASSUME Unread > 2 PROVE FALSE  OBVIOUS
        <5>1. Unread - 2 \in 1..Len(buffer)  BY <1>1, <4>1
        <5>2. \A i \in 1..Len(buffer) : At(i) # Mark  BY <1>8
        <5> QED BY <3>1, <5>1, <5>2
      <4>3. Unread = 2  BY <1>1, <3>1, <4>2
      <4>4. LineOf(buffer)[1] = Opening(Token) /\ LineOf(buffer)[2] = Closing(Token)
        <5>1. At(1) = Opening(Token) /\ At(2) = Closing(Token)  BY <3>1, <4>3
        <5>2. 1 \in 1..f /\ 2 \in 1..f /\ 1 \in 1..Len(buffer) /\ 2 \in 1..Len(buffer)
          BY <4>1, <4>3
        <5> QED BY <1>3, <1>8, <5>1, <5>2
      <4>5. Len(LineOf(buffer)) = 2  BY <1>3, <4>3
      <4> QED BY <1>10, <4>4, <4>5, PieceFacts DEF Mine, IsAnswer, Token
    <3>5. Unread > 2 => f # Unread - 2
      <4> SUFFICES ASSUME Unread > 2, f = Unread - 2 PROVE FALSE  OBVIOUS
      <4>1. At(f) = Mark  BY <3>1
      <4> QED BY <3>2, <4>1, PieceFacts
    <3> QED BY <1>1, <1>5, <3>1, <3>3, <3>4, <3>5
  <2>3. Answered => Unread - f >= 2 /\ (Unread - f = 2 => delimited')  BY <1>1, <1>5, <2>2
  <2>4. (Unanswered \/ Answered \/ Lost)'  BY <1>2, <1>5, <1>6, <2>3, StaysAnswered
  <2>5. SyncInv' /\ TalkInv' /\ OwnInv'
    BY <1>2, <2>1, <2>4 DEF AgentInv, SyncInv, TalkInv, OwnInv, Token
  <2> QED BY <1>7, <2>5 DEF AgentInv
<1> QED BY <1>9, <1>10

-----------------------------------------------------------------------------
(* Talking.                                                                *)

\* Call: the one question.
LEMMA CallStep == AgentInv /\ Call => AgentInv'
<1> SUFFICES ASSUME AgentInv, Call PROVE AgentInv'  OBVIOUS
<1>1. AgentTyped /\ toAgent = <<>> /\ Unread = 0 /\ client > 0 /\ status = "idle" /\ client \in Nat
  BY DEF AgentInv, TalkInv, Call, AgentTyped
<1>2. /\ status' = "asked" /\ client' = client /\ purpose' = purpose /\ pid' = pid
      /\ delimited' = delimited /\ buffer' = buffer /\ toClient' = toClient
      /\ procs' = procs /\ rebooted' = rebooted /\ Unread' = Unread
  BY DEF Call, Unread
<1>3. asked' = IF purpose = "ready" THEN "ping" ELSE IF pid = 0 THEN "exec" ELSE "status"
  BY DEF Call
<1>4. asked' \in {"ping", "exec", "status"} /\ (asked' = "status" => pid # 0)  BY <1>3
<1> DEFINE ask == <<asked', IF asked' = "status" THEN pid ELSE client>>
<1>5. ask \in Asks
  <2>1. pid \in 0..Len(procs) /\ client \in 1..client  BY <1>1 DEF AgentTyped
  <2>2. CASE asked' = "status"
    <3>1. pid \in 1..Len(procs)  BY <1>4, <2>1, <2>2
    <3> QED BY <2>2, <3>1 DEF Asks
  <2>3. CASE asked' # "status"
    <3>1. asked' \in {"ping", "exec"}  BY <1>4, <2>3
    <3> QED BY <2>1, <2>3, <3>1 DEF Asks
  <2> QED BY <2>2, <2>3
<1>6. toAgent' = <<ask>>
  <2>1. toAgent' = Append(<<>>, ask)  BY <1>1 DEF Call
  <2> QED BY <2>1
<1>7. toAgent' \in Seq(Asks)  BY <1>5, <1>6
<1>8. AgentTyped'  BY <1>1, <1>2, <1>4, <1>7 DEF AgentTyped, Asks, Said, Pieces, Mark
<1>9. SyncInv'  BY <1>2 DEF SyncInv
<1>10. TalkInv'
  <2>1. toAgent' = <<Question>>'  BY <1>2, <1>6 DEF Question
  <2> QED BY <1>1, <1>2, <1>3, <2>1 DEF TalkInv
<1>11. OwnInv'  BY <1>1, <1>2 DEF AgentInv, OwnInv
<1> QED BY <1>8, <1>9, <1>10, <1>11 DEF AgentInv

\* Nothing is read, and at most more has come.
LEMMA ReceiveReplyStep == AgentInv /\ ReceiveReply => AgentInv'
<1> SUFFICES ASSUME AgentInv, ReceiveReply PROVE AgentInv'  OBVIOUS
<1>1. AgentTyped /\ Unread \in Nat  BY Bounds DEF AgentInv
<1>2. /\ status = "asked" /\ status' = status /\ delimited' = delimited
      /\ client' = client /\ purpose' = purpose /\ asked' = asked /\ pid' = pid
      /\ toAgent' = toAgent /\ procs' = procs /\ rebooted' = rebooted /\ Receive(buffer)
  BY DEF ReceiveReply
<1>3. /\ buffer' \in Seq(Pieces) /\ toClient' \in Seq(Pieces) /\ Unread' = Unread
      /\ \A i \in 1..Unread' : At(i)' = At(i)
  BY <1>1, <1>2, Received
<1>4. AgentTyped'  BY <1>1, <1>2, <1>3, Quiet DEF AgentTyped
<1>5. TalkInv'
  <2>1. Unread = 2 => At(1)' = At(1) /\ At(2)' = At(2)  BY <1>3
  <2>2. Said' = Said /\ Question' = Question  BY <1>2 DEF Said, Question
  <2>3. \A a : Fits(a)' = Fits(a)  BY <1>2, <2>2 DEF Fits
  <2>4. /\ status' = "asked"
        /\ \/ toAgent' = <<Question'>> /\ Unread' = 0
           \/ toAgent' = <<>> /\ Unread' = 0
           \/ /\ toAgent' = <<>> /\ Unread' = 2
              /\ \E a \in Said' : Fits(a)' /\ At(1)' = Opening(a) /\ At(2)' = Closing(a)
    BY <1>2, <1>3, <2>1, <2>2, <2>3 DEF AgentInv, TalkInv
  <2> QED BY <1>2, <2>4 DEF AgentInv, TalkInv, Opening, Closing
<1>6. SyncInv' /\ OwnInv'  BY <1>2 DEF AgentInv, SyncInv, OwnInv
<1> QED BY <1>4, <1>5, <1>6 DEF AgentInv

\* ReadReply: the one line there is, and it is the answer to the question.
LEMMA ReadReplyStep == AgentInv /\ ReadReply => AgentInv'
<1> SUFFICES ASSUME AgentInv, ReadReply PROVE AgentInv'  OBVIOUS
<1>1. AgentTyped /\ Unread \in Nat /\ Len(buffer) \in Nat /\ Len(toClient) \in Nat
  BY Bounds DEF AgentInv
<1>2. /\ status = "asked" /\ LineEnds(buffer) # {} /\ delimited' = delimited
      /\ client' = client /\ purpose' = purpose /\ asked' = asked
      /\ toAgent' = toAgent /\ toClient' = toClient /\ procs' = procs /\ rebooted' = rebooted
  BY DEF ReadReply
<1> DEFINE f == First(buffer)
<1>3. /\ f \in 1..Len(buffer) /\ buffer[f].piece = "tail"
      /\ Len(LineOf(buffer)) = f /\ \A i \in 1..f : LineOf(buffer)[i] = buffer[i]
  BY <1>1, <1>2, FirstFacts, LineFacts
<1>4. buffer' = SubSeq(buffer, f + 1, Len(buffer))  BY DEF ReadReply, Rest
<1> HIDE DEF f
<1>5. f \in 0..Len(buffer) /\ f \in 1..Unread /\ Unread # 0  BY <1>1, <1>3 DEF Unread
<1>6. /\ buffer' \in Seq(Pieces) /\ Unread' = Unread - f
  BY <1>1, <1>2, <1>4, <1>5, Dropped
<1>7. /\ toAgent = <<>> /\ Unread = 2
      /\ \E a \in Said : Fits(a) /\ At(1) = Opening(a) /\ At(2) = Closing(a)
  BY <1>2, <1>5 DEF AgentInv, TalkInv
<1>8. PICK a \in Said : Fits(a) /\ At(1) = Opening(a) /\ At(2) = Closing(a)
  BY <1>7
<1>9. f = 2
  <2> SUFFICES ASSUME f = 1 PROVE FALSE  BY <1>5, <1>7
  <2>1. At(1) = buffer[1]  BY <1>1, <1>3, Bounds
  <2> QED BY <1>3, <1>8, <2>1, PieceFacts
<1>10. LineOf(buffer)[1] = Opening(a) /\ LineOf(buffer)[2] = Closing(a)
  <2>1. 1 \in 1..f /\ 2 \in 1..f /\ 1 \in 1..Len(buffer) /\ 2 \in 1..Len(buffer)
    BY <1>1, <1>3, <1>9
  <2> QED BY <1>1, <1>3, <1>8, <2>1, Bounds
<1>11. IsAnswer(LineOf(buffer)) /\ LineOf(buffer)[1].of = a
  BY <1>3, <1>9, <1>10, PieceFacts DEF IsAnswer
<1>12. /\ status' = Meaning(a)
       /\ pid' = IF asked = "exec" /\ a[1] = "exec" THEN a[2] ELSE pid
  BY <1>11 DEF ReadReply
<1>13. asked = IF purpose = "ready" THEN "ping" ELSE IF pid = 0 THEN "exec" ELSE "status"
  BY <1>2 DEF AgentInv, TalkInv
<1>14. asked = "exec" => a[1] = "exec" /\ a[2] \in 1..Len(procs) /\ procs[a[2]].by = client
  BY <1>8 DEF Fits, Said
<1>15. pid' \in 0..Len(procs') /\ (pid' # 0 => procs'[pid'].by = client')
  BY <1>1, <1>2, <1>12, <1>14 DEF AgentInv, OwnInv, AgentTyped
<1>16. status' \in {"idle", "done", "failed"}  BY <1>12 DEF Meaning
<1>17. AgentTyped'
  BY <1>1, <1>2, <1>6, <1>15, <1>16 DEF AgentTyped, Asks, Said, Pieces, Mark
<1>18. Unread' = 0 /\ toAgent' = <<>>  BY <1>2, <1>6, <1>7, <1>9
<1>19. client' > 0  BY <1>2 DEF AgentInv, TalkInv
<1>20. SyncInv' /\ TalkInv'  BY <1>16, <1>18, <1>19 DEF SyncInv, TalkInv
<1>21. status' = "done" /\ purpose' = "exec" => pid' # 0 /\ procs'[pid'].state = "ok"
  <2> SUFFICES ASSUME status' = "done", purpose = "exec"
               PROVE  pid' # 0 /\ procs'[pid'].state = "ok"
    BY <1>2
  <2>1. asked = "exec" \/ asked = "status"  BY <1>13
  <2>2. asked # "exec"  BY <1>12 DEF Meaning
  <2>3. asked = "status" /\ pid # 0 /\ a[1] = "status"  BY <1>8, <1>13, <2>1, <2>2 DEF Fits
  <2>4. a[2] = "ok"  BY <1>12, <2>3 DEF Meaning
  <2>5. procs[pid].state = "ok"  BY <1>8, <2>3, <2>4 DEF Fits
  <2> QED BY <1>2, <1>12, <2>3, <2>5
<1>22. OwnInv'  BY <1>15, <1>21 DEF OwnInv
<1> QED BY <1>17, <1>20, <1>22 DEF AgentInv

\* The client closes, or nothing happens.
LEMMA CloseClientStep == AgentInv /\ (Close \/ UNCHANGED agent) => AgentInv'
<1> SUFFICES ASSUME AgentInv, Close \/ UNCHANGED agent PROVE AgentInv'  OBVIOUS
<1>1. /\ delimited' = delimited /\ client' = client /\ purpose' = purpose /\ asked' = asked
      /\ pid' = pid /\ toAgent' = toAgent /\ toClient' = toClient /\ buffer' = buffer
      /\ procs' = procs /\ rebooted' = rebooted /\ (status' = status \/ status' = "closed")
  BY DEF Close, agent
<1>2. AgentTyped'  BY <1>1 DEF AgentInv, AgentTyped, Asks, Said, Pieces, Mark
<1>3. Unread' = Unread /\ Token' = Token /\ Said' = Said /\ Question' = Question
  BY <1>1 DEF Unread, Token, Said, Question
<1>4. \A i : At(i)' = At(i)  BY <1>1 DEF At
<1>5. \A a : Fits(a)' = Fits(a)  BY <1>1, <1>3 DEF Fits
<1>6. \A n : Foreign(n)' = Foreign(n)  BY <1>3, <1>4 DEF Foreign
<1>7. SyncInv'
  <2> SUFFICES ASSUME status' = "syncing" PROVE SyncInv'  BY DEF SyncInv
  <2>1. status = "syncing"  BY <1>1
  <2>2. At(Unread - 1)' = At(Unread - 1) /\ At(Unread)' = At(Unread)
          /\ At(Unread - 2)' = At(Unread - 2)
    BY <1>1 DEF At, Unread
  <2>3. Foreign(Unread)' = Foreign(Unread) /\ Foreign(Unread - 2)' = Foreign(Unread - 2)
    BY <1>1 DEF Foreign, At, Unread, Token
  <2>4. Unanswered' = Unanswered  BY <1>1, <1>3, <2>3 DEF Unanswered
  <2>5. Answered' = Answered
    BY <1>1, <1>3, <2>2, <2>3 DEF Answered, Opening, Closing, Mark
  <2>6. Lost' = Lost  BY <1>1, <2>3 DEF Lost
  <2> QED BY <1>1, <1>3, <2>1, <2>4, <2>5, <2>6 DEF AgentInv, SyncInv
<1>8. TalkInv'
  <2> SUFFICES ASSUME status' \in {"idle", "asked"} PROVE TalkInv'  BY DEF TalkInv
  <2>1. status' = status  BY <1>1
  <2> QED BY <1>1, <1>3, <1>4, <1>5, <2>1 DEF AgentInv, TalkInv, Opening, Closing
<1>9. OwnInv'  BY <1>1 DEF AgentInv, OwnInv
<1> QED BY <1>2, <1>7, <1>8, <1>9 DEF AgentInv

-----------------------------------------------------------------------------
(* The guest.                                                              *)

\* Processes end, and questions may die with the guest; what was said stays said.
LEMMA GuestStep ==
    ASSUME AgentInv, delimited' = delimited, client' = client, purpose' = purpose,
           asked' = asked, pid' = pid, toClient' = toClient, buffer' = buffer,
           status' = status, rebooted' \in BOOLEAN,
           (toAgent' = toAgent /\ rebooted' = rebooted) \/ (toAgent' = <<>> /\ rebooted'),
           procs' \in Seq([by : 1..client, state : States]), Len(procs') = Len(procs),
           \A p \in 1..Len(procs) : /\ procs'[p].by = procs[p].by
                                    /\ procs[p].state = "ok" => procs'[p].state = "ok"
    PROVE  AgentInv'
<1>1. Asks' = Asks /\ Said' = Said /\ Pieces' = Pieces /\ Token' = Token /\ Question' = Question
  BY DEF Asks, Said, Pieces, Token, Question, Mark
<1>2. toAgent' \in Seq(Asks)
  <2>1. <<>> \in Seq(Asks)  BY EmptySeq
  <2> QED BY <2>1 DEF AgentInv, AgentTyped
<1>3. AgentTyped'  BY <1>1, <1>2 DEF AgentInv, AgentTyped
<1>4. Unread' = Unread  BY DEF Unread
<1>5. \A i : At(i)' = At(i)  BY DEF At
<1>6. Foreign(Unread)' = Foreign(Unread) /\ Foreign(Unread - 2)' = Foreign(Unread - 2)
  BY <1>1 DEF Foreign, At, Unread
<1>7. SyncInv'
  <2> SUFFICES ASSUME status = "syncing" PROVE SyncInv'  BY DEF SyncInv
  <2>1. At(Unread - 1)' = At(Unread - 1) /\ At(Unread)' = At(Unread)
          /\ At(Unread - 2)' = At(Unread - 2)
    BY DEF At, Unread
  <2>2. CASE toAgent' = toAgent /\ rebooted' = rebooted
    <3>1. Unanswered' = Unanswered  BY <1>1, <1>6, <2>2 DEF Unanswered
    <3>2. Answered' = Answered
      BY <1>1, <1>4, <1>6, <2>1, <2>2 DEF Answered, Opening, Closing, Mark
    <3>3. Lost' = Lost  BY <1>6, <2>2 DEF Lost
    <3> QED BY <1>1, <2>2, <3>1, <3>2, <3>3 DEF AgentInv, SyncInv
  <2>3. CASE toAgent' = <<>> /\ rebooted'
    <3>1. Answered => Answered'
      BY <1>1, <1>4, <1>6, <2>1, <2>3 DEF Answered, Opening, Closing, Mark
    <3>2. Unanswered \/ Lost => Lost'  BY <1>6, <2>3 DEF Lost, Unanswered
    <3>3. (Unanswered \/ Answered \/ Lost)'  BY <3>1, <3>2 DEF AgentInv, SyncInv
    <3>4. \A i \in 1..(Len(toAgent') - 1) : toAgent'[i] # Token'  BY <2>3
    <3> QED BY <3>3, <3>4 DEF AgentInv, SyncInv
  <2> QED BY <2>2, <2>3
<1>8. TalkInv'
  <2>1. pid # 0 => (procs[pid].state = "ok" => procs'[pid].state = "ok")
    BY DEF AgentInv, AgentTyped
  <2>2. ASSUME NEW a \in Said, Fits(a), status = "asked" PROVE Fits(a)'
    <3>1. asked = "status" => pid # 0  BY <2>2 DEF AgentInv, TalkInv
    <3>2. asked = "exec" => a[1] = "exec" /\ a[2] \in 1..Len(procs)  BY <2>2 DEF Fits, Said
    <3> QED BY <1>1, <2>1, <2>2, <3>1, <3>2 DEF Fits
  <2>3. \A a : Opening(a)' = Opening(a) /\ Closing(a)' = Closing(a)  BY DEF Opening, Closing
  <2>4. status = "asked" =>
          \/ toAgent' = <<Question'>> /\ Unread' = 0
          \/ toAgent' = <<>> /\ Unread' = 0
          \/ /\ toAgent' = <<>> /\ Unread' = 2
             /\ \E a \in Said' : Fits(a)' /\ At(1)' = Opening(a) /\ At(2)' = Closing(a)
    <3> SUFFICES ASSUME status = "asked"
                 PROVE  \/ toAgent' = <<Question'>> /\ Unread' = 0
                        \/ toAgent' = <<>> /\ Unread' = 0
                        \/ /\ toAgent' = <<>> /\ Unread' = 2
                           /\ \E a \in Said' :
                                 Fits(a)' /\ At(1)' = Opening(a) /\ At(2)' = Closing(a)
      OBVIOUS
    <3>1. CASE Unread = 0  BY <1>1, <1>4, <3>1 DEF AgentInv, TalkInv
    <3>2. CASE Unread # 0
      <4>1. PICK a \in Said : Fits(a) /\ At(1) = Opening(a) /\ At(2) = Closing(a)
        BY <3>2 DEF AgentInv, TalkInv
      <4>2. Fits(a)' /\ a \in Said'  BY <1>1, <2>2, <4>1
      <4>3. toAgent = <<>> /\ Unread = 2  BY <3>2 DEF AgentInv, TalkInv
      <4>4. toAgent' = <<>> /\ Unread' = 2  BY <1>4, <4>3
      <4>5. At(1)' = Opening(a) /\ At(2)' = Closing(a)  BY <1>5, <4>1
      <4> QED BY <4>2, <4>4, <4>5
    <3> QED BY <3>1, <3>2
  <2>5. status = "idle" => toAgent' = <<>> /\ Unread' = 0  BY <1>4 DEF AgentInv, TalkInv
  <2> QED BY <2>3, <2>4, <2>5 DEF AgentInv, TalkInv, Opening, Closing
<1>9. OwnInv'  BY DEF AgentInv, OwnInv, AgentTyped
<1> QED BY <1>3, <1>7, <1>8, <1>9 DEF AgentInv

\* ProcessEnds: what has ended does not end again.
LEMMA ProcessStep == AgentInv /\ ProcessEnds => AgentInv'
<1> SUFFICES ASSUME AgentInv, ProcessEnds PROVE AgentInv'  OBVIOUS
<1>1. PICK p \in DOMAIN procs, end \in {"ok", "bad"} :
         procs[p].state = "running" /\ procs' = [procs EXCEPT ![p].state = end]
  BY DEF ProcessEnds
<1>2. procs \in Seq([by : 1..client, state : States])  BY DEF AgentInv, AgentTyped
<1>3. p \in 1..Len(procs) /\ Len(procs) \in Nat /\ DOMAIN procs = 1..Len(procs)
      /\ \A q \in 1..Len(procs) : procs[q] \in [by : 1..client, state : States]
  BY <1>1, <1>2, LenProperties, ElementOfSeq
<1>4. procs' = [procs EXCEPT ![p] = [procs[p] EXCEPT !.state = end]]  BY <1>1
<1>5. [procs[p] EXCEPT !.state = end] \in [by : 1..client, state : States]
  BY <1>3 DEF States
<1>6. /\ procs' \in Seq([by : 1..client, state : States]) /\ Len(procs') = Len(procs)
      /\ \A q \in 1..Len(procs) :
            procs'[q] = IF q = p THEN [procs[p] EXCEPT !.state = end] ELSE procs[q]
  BY <1>2, <1>3, <1>4, <1>5, ExceptSeq
<1>7. \A q \in 1..Len(procs) : /\ procs'[q].by = procs[q].by
                               /\ procs[q].state = "ok" => procs'[q].state = "ok"
  <2>1. ASSUME NEW q \in 1..Len(procs)
        PROVE  procs'[q].by = procs[q].by /\ (procs[q].state = "ok" => procs'[q].state = "ok")
    <3>1. CASE q = p  BY <1>1, <1>3, <1>6, <3>1
    <3>2. CASE q # p  BY <1>6, <3>2
    <3> QED BY <3>1, <3>2
  <2> QED BY <2>1
<1>8. /\ delimited' = delimited /\ client' = client /\ purpose' = purpose /\ asked' = asked
      /\ pid' = pid /\ toAgent' = toAgent /\ toClient' = toClient /\ buffer' = buffer
      /\ status' = status /\ rebooted' = rebooted /\ rebooted' \in BOOLEAN
  BY DEF ProcessEnds, AgentInv, AgentTyped
<1>9. (toAgent' = toAgent /\ rebooted' = rebooted) \/ (toAgent' = <<>> /\ rebooted')  BY <1>8
<1>10. Len(procs') = Len(procs)  BY <1>6
<1> QED BY <1>6, <1>7, <1>8, <1>9, <1>10, GuestStep

\* Reboot: running processes die, questions are lost.
LEMMA RebootStep == AgentInv /\ Reboot => AgentInv'
<1> SUFFICES ASSUME AgentInv, Reboot PROVE AgentInv'  OBVIOUS
<1>1. procs \in Seq([by : 1..client, state : States])  BY DEF AgentInv, AgentTyped
<1>2. Len(procs) \in Nat /\ DOMAIN procs = 1..Len(procs)
      /\ \A q \in 1..Len(procs) : procs[q] \in [by : 1..client, state : States]
  BY <1>1, LenProperties, ElementOfSeq
<1> DEFINE new(p) == IF procs[p].state = "running" THEN [procs[p] EXCEPT !.state = "bad"]
                                                   ELSE procs[p]
<1>3. \A p \in 1..Len(procs) : /\ new(p) \in [by : 1..client, state : States]
                               /\ new(p).by = procs[p].by
                               /\ procs[p].state = "ok" => new(p).state = "ok"
  BY <1>2 DEF States
<1>4. procs' = [p \in 1..Len(procs) |-> new(p)]  BY <1>2 DEF Reboot
<1> HIDE DEF new
<1>5. procs' \in Seq([by : 1..client, state : States]) /\ Len(procs') = Len(procs)
  BY <1>2, <1>3, <1>4
<1>6. \A p \in 1..Len(procs) : procs'[p] = new(p)  BY <1>4
<1>7. /\ delimited' = delimited /\ client' = client /\ purpose' = purpose /\ asked' = asked
      /\ pid' = pid /\ toAgent' = <<>> /\ toClient' = toClient /\ buffer' = buffer
      /\ status' = status /\ rebooted' = TRUE
  BY DEF Reboot
<1> QED BY <1>3, <1>5, <1>6, <1>7, GuestStep

\* What the agent says goes behind what it has said.
LEMMA Extended ==
    ASSUME AgentTyped, NEW said, Pieces \subseteq said, NEW b \in Seq(said),
           buffer' = buffer, toClient' = toClient \o b
    PROVE  /\ toClient' \in Seq(said) /\ Unread' = Unread + Len(b)
           /\ \A i \in 1..Unread : At(i)' = At(i)
           /\ \A i \in (Unread + 1)..Unread' : At(i)' = b[i - Unread]
<1>1. Len(buffer) \in Nat /\ Len(toClient) \in Nat /\ Unread \in Nat  BY Bounds
<1>2. toClient \in Seq(said)
  <2>1. toClient \in Seq(Pieces)  BY DEF AgentTyped
  <2> HIDE DEF Pieces
  <2> QED BY <2>1, SeqMonotonic
<1>3. Len(b) \in Nat  BY LenProperties
<1>4. /\ toClient' \in Seq(said) /\ Len(toClient') = Len(toClient) + Len(b)
      /\ \A i \in 1..(Len(toClient) + Len(b)) :
            toClient'[i] = IF i <= Len(toClient) THEN toClient[i] ELSE b[i - Len(toClient)]
  BY <1>2, ConcatProperties
<1>5. Unread' = Unread + Len(b)  BY <1>1, <1>3, <1>4 DEF Unread
<1>6. ASSUME NEW i \in 1..Unread PROVE At(i)' = At(i)
  <2>1. CASE i <= Len(buffer)  BY <2>1 DEF At
  <2>2. CASE ~(i <= Len(buffer))
    <3>1. /\ i - Len(buffer) \in 1..(Len(toClient) + Len(b))
          /\ i - Len(buffer) <= Len(toClient)
      BY <1>1, <1>3, <2>2 DEF Unread
    <3> QED BY <1>4, <2>2, <3>1 DEF At
  <2> QED BY <2>1, <2>2
<1>7. ASSUME NEW i \in (Unread + 1)..Unread' PROVE At(i)' = b[i - Unread]
  <2>1. /\ ~(i <= Len(buffer)) /\ i - Len(buffer) \in 1..(Len(toClient) + Len(b))
        /\ ~(i - Len(buffer) <= Len(toClient)) /\ (i - Len(buffer)) - Len(toClient) = i - Unread
    BY <1>1, <1>3, <1>5 DEF Unread
  <2> QED BY <1>4, <2>1 DEF At
<1> QED BY <1>4, <1>5, <1>6, <1>7

\* The pieces of an answer.
LEMMA SentFacts ==
    ASSUME NEW a
    PROVE  /\ a[1] # "sync" => Sent(a) = <<Opening(a), Closing(a)>>
           /\ a[1] = "sync" => Sent(a) = <<Mark, Opening(a), Closing(a)>>
<1>1. Line(a) = <<Opening(a), Closing(a)>>  BY DEF Line, Opening, Closing
<1>2. <<Mark>> \o <<Opening(a), Closing(a)>> = <<Mark, Opening(a), Closing(a)>>
  <2> DEFINE m == Mark
             o == Opening(a)
             c == Closing(a)
             s == <<m>>
             t == <<o, c>>
             S == {m, o, c}
  <2> HIDE DEF m, o, c
  <2>1. s \in Seq(S) /\ t \in Seq(S) /\ <<m, o, c>> \in Seq(S)  OBVIOUS
  <2>2. Len(s) = 1 /\ Len(t) = 2 /\ Len(<<m, o, c>>) = 3  OBVIOUS
  <2>3. s[1] = m /\ t[1] = o /\ t[2] = c  OBVIOUS
  <2> HIDE DEF s, t, S
  <2>8. /\ s \o t \in Seq(S) /\ Len(s \o t) = Len(s) + Len(t)
        /\ \A i \in 1..(Len(s) + Len(t)) :
              (s \o t)[i] = IF i <= Len(s) THEN s[i] ELSE t[i - Len(s)]
    BY <2>1, ConcatProperties
  <2>4. Len(s \o t) = 3  BY <2>2, <2>8
  <2>5. (s \o t)[1] = m /\ (s \o t)[2] = o /\ (s \o t)[3] = c  BY <2>2, <2>3, <2>8
  <2>9. <<m, o, c>>[1] = m /\ <<m, o, c>>[2] = o /\ <<m, o, c>>[3] = c  OBVIOUS
  <2>6. ASSUME NEW i \in 1..3 PROVE (s \o t)[i] = <<m, o, c>>[i]
    <3>1. i = 1 \/ i = 2 \/ i = 3  OBVIOUS
    <3> QED BY <2>5, <2>9, <3>1
  <2>7. s \o t = <<m, o, c>>  BY <2>1, <2>2, <2>4, <2>6, <2>8, SeqEqual
  <2> QED BY <2>7 DEF m, o, c, s, t
<1> QED BY <1>1, <1>2 DEF Sent

\* Connect: a token nobody has used.
LEMMA ConnectStep == AgentInv /\ Connect => AgentInv'
<1> SUFFICES ASSUME AgentInv, Connect PROVE AgentInv'  OBVIOUS
<1>1. AgentTyped /\ client \in Nat /\ Len(toClient) \in Nat /\ Len(toAgent) \in Nat
  BY Bounds, LenProperties DEF AgentInv, AgentTyped
<1>2. /\ status' = "syncing" /\ client' = client + 1 /\ asked' = "none" /\ pid' = 0
      /\ purpose' \in {"ready", "exec", "submit"} /\ delimited' = FALSE /\ buffer' = <<>>
      /\ rebooted' = FALSE /\ procs' = procs /\ toAgent' = Append(toAgent, <<"sync", client'>>)
  BY DEF Connect
<1>3. PICK lost \in 0..Len(toClient) : toClient' = SubSeq(toClient, lost + 1, Len(toClient))
  BY DEF Connect
<1>4. /\ Asks \subseteq Asks' /\ Pieces \subseteq Pieces' /\ Token' \in Asks'
      /\ 1..client \subseteq 1..client'
  <2>1. 1..client \subseteq 1..client' /\ client' \in 1..client'  BY <1>1, <1>2
  <2>2. Said \subseteq Said'  BY <1>2, <2>1 DEF Said
  <2>3. Asks \subseteq Asks' /\ Token' \in Asks'  BY <1>2, <2>1 DEF Asks, Token
  <2> QED BY <2>1, <2>2, <2>3 DEF Pieces, Mark
<1>5. \A x \in Asks \cup Said : x # Token'
  <2>1. ~(client' \in 1..client)  BY <1>1, <1>2
  <2>2. \A x \in Asks \cup Said : x[1] = "sync" => x[2] \in 1..client  BY DEF Asks, Said
  <2> QED BY <2>1, <2>2 DEF Token
<1>6. \A i \in 1..Len(toClient) : toClient[i] \in Pieces  BY ElementOfSeq DEF AgentInv, AgentTyped
<1>7. /\ toClient' \in Seq(Pieces)
      /\ \A i \in 1..Len(toClient') : toClient'[i] \in Pieces
  <2> HIDE DEF Pieces
  <2>1. \A i \in (lost + 1)..Len(toClient) : toClient[i] \in Pieces  BY <1>1, <1>6
  <2>2. lost + 1 \in Int /\ Len(toClient) \in Int  BY <1>1
  <2>3. toClient' \in Seq(Pieces)  BY <1>3, <2>1, <2>2, SubSeqProperties
  <2> QED BY <2>3, ElementOfSeq
<1>8. Foreign(Unread)'
  <2>1. Len(toClient') \in Nat  BY <1>7, LenProperties
  <2>2. Unread' = Len(toClient')  BY <1>2, <2>1 DEF Unread
  <2>3. ASSUME NEW i \in 1..Unread' PROVE At(i)'.of # Token'
    <3>1. At(i)' = toClient'[i]  BY <1>2, <2>1, <2>2 DEF At
    <3>2. At(i)' \in Pieces  BY <1>7, <2>2, <3>1
    <3>3. \A x \in Pieces : x = Mark \/ x.of \in Said  BY DEF Pieces
    <3>4. Mark.of # Token'
      <4>1. Mark.of = <<>> /\ Len(<<>>) = 0 /\ Len(Token') = 2  BY DEF Mark, Token
      <4> QED BY <4>1
    <3> QED BY <1>5, <3>2, <3>3, <3>4
  <2> QED BY <2>3 DEF Foreign
<1>9. /\ toAgent' \in Seq(Asks') /\ Len(toAgent') = Len(toAgent) + 1
      /\ toAgent'[Len(toAgent')] = Token' /\ toAgent' # <<>>
      /\ \A i \in 1..Len(toAgent) : toAgent'[i] = toAgent[i]
  <2> DEFINE S == Asks'
             t == Token'
  <2>1. toAgent \in Seq(S)
    <3>1. toAgent \in Seq(Asks)  BY DEF AgentInv, AgentTyped
    <3> HIDE DEF Asks
    <3> QED BY <1>4, <3>1, SeqMonotonic DEF S
  <2>2. t \in S /\ toAgent' = Append(toAgent, t)  BY <1>2, <1>4 DEF Token
  <2> HIDE DEF S, t
  <2>3. /\ toAgent' \in Seq(S) /\ Len(toAgent') = Len(toAgent) + 1
        /\ toAgent'[Len(toAgent) + 1] = t
        /\ \A i \in 1..Len(toAgent) : toAgent'[i] = toAgent[i]
    BY <2>1, <2>2, AppendProperties
  <2>4. toAgent' # <<>>  BY <1>1, <2>3
  <2> QED BY <2>3, <2>4 DEF S, t
<1>10. toClient' \in Seq(Pieces') /\ buffer' \in Seq(Pieces')
  <2> DEFINE S == Pieces'
  <2>1. Pieces \subseteq S  BY <1>4
  <2> HIDE DEF S, Pieces
  <2>2. toClient' \in Seq(S)  BY <1>7, <2>1, SeqMonotonic
  <2>3. buffer' \in Seq(S)  BY <1>2, EmptySeq
  <2> QED BY <2>2, <2>3 DEF S
<1>11. procs' \in Seq([by : 1..client', state : States'])
  <2>1. [by : 1..client, state : States] \subseteq [by : 1..client', state : States']
    BY <1>4 DEF States
  <2>2. procs' \in Seq([by : 1..client, state : States])  BY <1>2 DEF AgentInv, AgentTyped
  <2> QED BY <2>1, <2>2, SeqMonotonic
<1>12. Len(procs') \in Nat  BY <1>11, LenProperties
<1>13. AgentTyped'
  <2>1. /\ client' \in Nat /\ purpose' \in {"ready", "exec", "submit"} /\ status' = "syncing"
        /\ asked' = "none"
    BY <1>1, <1>2
  <2>3. delimited' \in BOOLEAN /\ rebooted' \in BOOLEAN  BY <1>2
  <2>2. pid' \in 0..Len(procs')  BY <1>2, <1>12
  <2> QED BY <1>9, <1>10, <1>11, <2>1, <2>2, <2>3 DEF AgentTyped
<1>14. SyncInv'
  <2>1. Unanswered'  BY <1>8, <1>9 DEF Unanswered
  <2>2. ASSUME NEW i \in 1..(Len(toAgent') - 1) PROVE toAgent'[i] # Token'
    <3>1. i \in 1..Len(toAgent) /\ toAgent'[i] = toAgent[i]  BY <1>1, <1>9
    <3>2. toAgent[i] \in Asks  BY <3>1, ElementOfSeq DEF AgentInv, AgentTyped
    <3> QED BY <1>5, <3>1, <3>2
  <2> QED BY <1>1, <1>2, <2>1, <2>2 DEF SyncInv
<1>15. TalkInv' /\ OwnInv'  BY <1>2 DEF TalkInv, OwnInv
<1> QED BY <1>13, <1>14, <1>15 DEF AgentInv

\* Answer: the answer to each question, and the token's once nothing else is asked.
LEMMA AnswerStep == AgentInv /\ Answer => AgentInv'
<1> SUFFICES ASSUME AgentInv, Answer PROVE AgentInv'  OBVIOUS
<1> DEFINE ask == Head(toAgent)
           process == [by : 1..client, state : States]
<1>1. /\ AgentTyped /\ Unread \in Nat /\ toAgent \in Seq(Asks) /\ toAgent # <<>>
      /\ client' = client /\ purpose' = purpose /\ status' = status /\ asked' = asked
      /\ pid' = pid /\ delimited' = delimited /\ buffer' = buffer /\ rebooted' = rebooted
      /\ toAgent' = Tail(toAgent) /\ client \in Nat
  BY Bounds DEF AgentInv, AgentTyped, Answer
<1>2. /\ ask \in Asks /\ toAgent' \in Seq(Asks) /\ Len(toAgent') = Len(toAgent) - 1
      /\ \A i \in 1..Len(toAgent') : toAgent'[i] = toAgent[i + 1]
      /\ ask = toAgent[1] /\ Len(toAgent) \in Nat /\ Len(toAgent) >= 1
  <2> HIDE DEF Asks
  <2>1. Len(toAgent) \in Nat \ {0}  BY <1>1, EmptySeq
  <2>2. /\ Tail(toAgent) \in Seq(Asks) /\ Len(Tail(toAgent)) = Len(toAgent) - 1
        /\ \A i \in 1..Len(Tail(toAgent)) : Tail(toAgent)[i] = toAgent[i + 1]
        /\ Head(toAgent) \in Asks
    BY <1>1, HeadTailProperties
  <2>3. Head(toAgent) = toAgent[1]  BY <1>1
  <2> QED BY <1>1, <2>1, <2>2, <2>3
<1>3. procs \in Seq(process) /\ Len(procs) \in Nat  BY LenProperties DEF AgentInv, AgentTyped
<1>4. /\ ask[1] \in {"sync", "ping", "exec", "status"}
      /\ ask[1] # "status" => ask[2] \in 1..client /\ ask = <<ask[1], ask[2]>>
      /\ ask[1] = "status" => ask[2] \in 1..Len(procs)
  BY <1>2 DEF Asks
<1>5. PICK a :
         /\ toClient' = toClient \o Sent(a)
         /\ ask[1] \in {"sync", "ping"} => a = ask /\ procs' = procs
         /\ ask[1] = "exec" => /\ a = <<"exec", Len(procs')>>
                               /\ procs' = Append(procs, [by |-> ask[2], state |-> "running"])
         /\ ask[1] = "status" => a = <<"status", procs[ask[2]].state>> /\ procs' = procs
  <2>1. CASE ask[1] \in {"sync", "ping"}
    <3>1. toClient' = toClient \o Sent(ask) /\ procs' = procs  BY <2>1 DEF Answer
    <3> QED BY <2>1, <3>1
  <2>2. CASE ask[1] = "exec"
    <3>1. /\ toClient' = toClient \o Sent(<<"exec", Len(procs')>>)
          /\ procs' = Append(procs, [by |-> ask[2], state |-> "running"])
      BY <2>2 DEF Answer
    <3> QED BY <2>2, <3>1
  <2>3. CASE ask[1] = "status"
    <3>1. toClient' = toClient \o Sent(<<"status", procs[ask[2]].state>>) /\ procs' = procs
      BY <2>3 DEF Answer
    <3> QED BY <2>3, <3>1
  <2> QED BY <1>4, <2>1, <2>2, <2>3
<1> HIDE DEF ask, process
<1>6. /\ procs' \in Seq(process) /\ Len(procs') \in Nat /\ Len(procs') >= Len(procs)
      /\ \A p \in 1..Len(procs) : procs'[p] = procs[p]
      /\ ask[1] = "exec" => Len(procs') \in 1..Len(procs') /\ procs'[Len(procs')].by = ask[2]
  <2>1. CASE ask[1] = "exec"
    <3> DEFINE new == [by |-> ask[2], state |-> "running"]
    <3>1. new \in process /\ new.by = ask[2]  BY <1>4, <2>1 DEF process, States
    <3>2. procs' = Append(procs, new)  BY <1>5, <2>1
    <3> HIDE DEF new
    <3>3. /\ procs' \in Seq(process) /\ Len(procs') = Len(procs) + 1
          /\ procs'[Len(procs) + 1] = new
          /\ \A p \in 1..Len(procs) : procs'[p] = procs[p]
      BY <1>3, <3>1, <3>2, AppendProperties
    <3> QED BY <1>3, <3>1, <3>3
  <2>2. CASE ask[1] # "exec"
    <3>1. procs' = procs  BY <1>4, <1>5, <2>2
    <3> QED BY <1>3, <2>2, <3>1
  <2> QED BY <2>1, <2>2
<1>7. /\ Asks \subseteq Asks' /\ Said \subseteq Said' /\ Pieces \subseteq Pieces'
      /\ Token' = Token /\ process' = process
  <2>1. 1..Len(procs) \subseteq 1..Len(procs')  BY <1>3, <1>6
  <2>2. Asks \subseteq Asks' /\ Said \subseteq Said'  BY <1>1, <2>1 DEF Asks, Said
  <2> QED BY <1>1, <2>2 DEF Pieces, Mark, Token, process, States
<1>8. a \in Said'
  <2>1. CASE ask[1] \in {"sync", "ping"}
    <3>1. a = <<ask[1], ask[2]>> /\ ask[2] \in 1..client'  BY <1>1, <1>4, <1>5, <2>1
    <3> QED BY <2>1, <3>1 DEF Said
  <2>2. CASE ask[1] = "exec"  BY <1>5, <1>6, <2>2 DEF Said
  <2>3. CASE ask[1] = "status"
    <3>1. procs[ask[2]] \in process  BY <1>3, <1>4, <2>3, ElementOfSeq
    <3>2. procs[ask[2]].state \in States  BY <3>1 DEF process
    <3> QED BY <1>5, <2>3, <3>2 DEF Said, States
  <2> QED BY <1>4, <2>1, <2>2, <2>3
<1> DEFINE b == Sent(a)
           pieces == Pieces'
<1>9. /\ Mark \in pieces /\ Opening(a) \in pieces /\ Closing(a) \in pieces
  BY <1>8 DEF Pieces, Opening, Closing, Mark
<1>10. /\ a[1] # "sync" => b = <<Opening(a), Closing(a)>>
       /\ a[1] = "sync" => b = <<Mark, Opening(a), Closing(a)>>
  BY SentFacts
<1>11. b \in Seq(pieces)
  <2> DEFINE o == Opening(a)
             c == Closing(a)
             m == Mark
  <2>1. m \in pieces /\ o \in pieces /\ c \in pieces  BY <1>9
  <2>2. b = <<o, c>> \/ b = <<m, o, c>>  BY <1>10
  <2> HIDE DEF b, pieces, m, o, c
  <2>3. <<o, c>> \in Seq(pieces) /\ <<m, o, c>> \in Seq(pieces)  BY <2>1
  <2> QED BY <2>2, <2>3
<1>12. /\ toClient' \in Seq(pieces) /\ Unread' = Unread + Len(b)
       /\ \A i \in 1..Unread : At(i)' = At(i)
       /\ \A i \in (Unread + 1)..Unread' : At(i)' = b[i - Unread]
  <2>1. Pieces \subseteq pieces /\ toClient' = toClient \o b  BY <1>5, <1>7
  <2> HIDE DEF b, pieces
  <2> QED BY <1>1, <1>11, <2>1, Extended
<1>13. AgentTyped'
  <2>1. toAgent' \in Seq(Asks')  BY <1>2, <1>7, SeqMonotonic
  <2>2. buffer' \in Seq(Pieces')
    <3>1. buffer \in Seq(Pieces)  BY <1>1 DEF AgentTyped
    <3> QED BY <1>1, <1>7, <3>1, SeqMonotonic
  <2>3. procs' \in Seq([by : 1..client', state : States'])  BY <1>1, <1>6 DEF process, States
  <2>4. pid' \in 0..Len(procs')  BY <1>1, <1>3, <1>6 DEF AgentTyped
  <2> QED BY <1>1, <1>12, <2>1, <2>2, <2>3, <2>4 DEF AgentTyped, States
<1> HIDE DEF b, pieces
<1>14. SyncInv'
  <2> SUFFICES ASSUME status = "syncing" PROVE SyncInv'  BY <1>1 DEF SyncInv
  <2>1. /\ toAgent[Len(toAgent)] = Token /\ Foreign(Unread) /\ client > 0 /\ pid = 0
        /\ \A i \in 1..(Len(toAgent) - 1) : toAgent[i] # Token
    BY <1>1 DEF AgentInv, SyncInv, Unanswered, Answered, Lost
  <2>2. ASSUME NEW i \in 1..(Len(toAgent') - 1) PROVE toAgent'[i] # Token'
    <3>1. i \in 1..Len(toAgent') /\ i + 1 \in 1..(Len(toAgent) - 1)  BY <1>2
    <3> QED BY <1>2, <1>7, <2>1, <3>1
  <2>3. CASE Len(toAgent) = 1
    <3>1. ask = Token /\ toAgent' = <<>>  BY <1>2, <2>1, <2>3, EmptySeq
    <3>2. a = Token /\ b = <<Mark, Opening(Token), Closing(Token)>>
      BY <1>5, <1>10, <3>1 DEF Token
    <3>3. /\ Len(b) = 3 /\ b[1] = Mark /\ b[2] = Opening(Token) /\ b[3] = Closing(Token)
          /\ Unread' = Unread + 3
      BY <1>12, <3>2
    <3>4. \A i \in 1..3 : i + Unread \in (Unread + 1)..Unread' /\ (i + Unread) - Unread = i
      BY <1>1, <3>3
    <3>5. ASSUME NEW i \in 1..3, NEW j, j = i + Unread PROVE At(j)' = b[i]
      BY <1>12, <3>4, <3>5
    <3>6. /\ Unread' = 3 + Unread /\ Unread' - 1 = 2 + Unread /\ Unread' - 2 = 1 + Unread
               /\ Unread' > 2
          /\ 1 \in 1..3 /\ 2 \in 1..3 /\ 3 \in 1..3
      BY <1>1, <3>3
    <3>7. At(Unread)' = b[3]
      <4> DEFINE k == Unread'
      <4>1. k = 3 + Unread /\ k = Unread'  BY <3>6
      <4> QED BY <3>5, <3>6, <4>1 DEF At
    <3>8. At(Unread - 1)' = b[2]
      <4> DEFINE k == Unread' - 1
      <4>1. k = 2 + Unread /\ k = Unread' - 1  BY <3>6
      <4> QED BY <3>5, <3>6, <4>1 DEF At
    <3>9. At(Unread - 2)' = b[1]
      <4> DEFINE k == Unread' - 2
      <4>1. k = 1 + Unread /\ k = Unread' - 2  BY <3>6
      <4> QED BY <3>5, <3>6, <4>1 DEF At
    <3>10. Foreign(Unread - 2)'
      <4>1. ASSUME NEW i \in 1..(Unread' - 2) PROVE At(i)'.of # Token'
        <5>1. CASE i \in 1..Unread  BY <1>7, <1>12, <2>1, <5>1 DEF Foreign
        <5>2. CASE i \notin 1..Unread
          <6>1. i = 1 + Unread  BY <1>1, <3>6, <5>2
          <6>2. At(i)' = Mark  BY <3>3, <3>5, <3>6, <6>1
          <6> QED BY <1>7, <6>2, PieceFacts
        <5> QED BY <5>1, <5>2
      <4> QED BY <4>1 DEF Foreign
    <3>11. Answered'
      BY <1>7, <3>1, <3>3, <3>6, <3>7, <3>8, <3>9, <3>10
      DEF Answered, Opening, Closing, Mark
    <3> QED BY <1>1, <2>1, <2>2, <3>11 DEF SyncInv
  <2>4. CASE Len(toAgent) # 1
    <3>1. /\ Len(toAgent') >= 1 /\ Len(toAgent') \in 1..Len(toAgent')
          /\ Len(toAgent') + 1 = Len(toAgent) /\ 1 \in 1..(Len(toAgent) - 1)
      BY <1>2, <2>4
    <3>2. toAgent'[Len(toAgent')] = Token' /\ toAgent' # <<>>
      <4>1. \A i \in 1..Len(toAgent') : i + 1 = Len(toAgent) => toAgent'[i] = toAgent[Len(toAgent)]
        BY <1>2
      <4>2. toAgent' # <<>>  BY <3>1
      <4> QED BY <1>7, <2>1, <3>1, <4>1, <4>2
    <3>3. ask # Token  BY <1>2, <2>1, <3>1
    <3>4. a # Token
      <4>1. CASE ask[1] \in {"sync", "ping"}  BY <1>5, <3>3, <4>1
      <4>2. CASE ask[1] \notin {"sync", "ping"}
        <5>1. a[1] # "sync"  BY <1>4, <1>5, <4>2
        <5> QED BY <5>1 DEF Token
      <4> QED BY <4>1, <4>2
    <3>5. \A i \in 1..Len(b) : b[i].of # Token
      <4>1. Mark.of # Token /\ Opening(a).of # Token /\ Closing(a).of # Token
        BY <3>4, PieceFacts
      <4>2. CASE a[1] = "sync"
        <5>1. Len(b) = 3 /\ b[1] = Mark /\ b[2] = Opening(a) /\ b[3] = Closing(a)
          BY <1>10, <4>2
        <5>2. \A i \in 1..3 : i = 1 \/ i = 2 \/ i = 3  OBVIOUS
        <5> QED BY <4>1, <5>1, <5>2
      <4>3. CASE a[1] # "sync"
        <5>1. Len(b) = 2 /\ b[1] = Opening(a) /\ b[2] = Closing(a)  BY <1>10, <4>3
        <5>2. \A i \in 1..2 : i = 1 \/ i = 2  OBVIOUS
        <5> QED BY <4>1, <5>1, <5>2
      <4> QED BY <4>2, <4>3
    <3>6. Foreign(Unread)'
      <4>0. Len(b) \in Nat  BY <1>11, LenProperties
      <4>1. ASSUME NEW i \in 1..Unread' PROVE At(i)'.of # Token'
        <5>1. CASE i \in 1..Unread  BY <1>7, <1>12, <2>1, <5>1 DEF Foreign
        <5>2. CASE i \notin 1..Unread
          <6>1. i \in (Unread + 1)..Unread' /\ i - Unread \in 1..Len(b)  BY <1>1, <1>12, <4>0, <5>2
          <6> QED BY <1>7, <1>12, <3>5, <6>1
        <5> QED BY <5>1, <5>2
      <4> QED BY <4>1 DEF Foreign
    <3>7. Unanswered'  BY <3>2, <3>6 DEF Unanswered
    <3> QED BY <1>1, <2>1, <2>2, <3>7 DEF SyncInv
  <2> QED BY <2>3, <2>4
<1>15. TalkInv'
  <2>1. status # "idle"  BY <1>1 DEF AgentInv, TalkInv
  <2> SUFFICES ASSUME status = "asked" PROVE TalkInv'  BY <1>1, <2>1 DEF TalkInv
  <2>2. /\ toAgent = <<Question>> /\ Unread = 0 /\ client > 0
        /\ asked = IF purpose = "ready" THEN "ping" ELSE IF pid = 0 THEN "exec" ELSE "status"
    BY <1>1 DEF AgentInv, TalkInv
  <2>3. Len(toAgent) = 1  BY <2>2
  <2>4. ask = Question /\ toAgent' = <<>>  BY <1>2, <2>2, <2>3, EmptySeq
  <2>5. a[1] # "sync" /\ b = <<Opening(a), Closing(a)>>
    <3>1. asked \in {"ping", "exec", "status"}  BY <2>2
    <3>2. a[1] = asked  BY <1>5, <2>4, <3>1 DEF Question
    <3> QED BY <1>10, <3>1, <3>2
  <2>6. Len(b) = 2 /\ b[1] = Opening(a) /\ b[2] = Closing(a)  BY <2>5
  <2>7. Unread' = 2 /\ At(1)' = Opening(a) /\ At(2)' = Closing(a)
    <3>1. Unread' = 2  BY <1>12, <2>2, <2>6
    <3>2. 1 \in (Unread + 1)..Unread' /\ 2 \in (Unread + 1)..Unread' /\ 1 - Unread = 1
            /\ 2 - Unread = 2
      BY <2>2, <3>1
    <3> QED BY <1>12, <2>6, <3>1, <3>2
  <2>8. Fits(a)'
    <3>1. asked = "ping" => a = <<"ping", client>>  BY <1>5, <2>4 DEF Question
    <3>2. asked = "exec" => a[1] = "exec" /\ procs'[a[2]].by = client
      <4> SUFFICES ASSUME asked = "exec" PROVE a[1] = "exec" /\ procs'[a[2]].by = client
        OBVIOUS
      <4>1. ask[1] = "exec" /\ ask[2] = client  BY <2>4 DEF Question
      <4>2. a[1] = "exec" /\ a[2] = Len(procs')  BY <1>5, <4>1
      <4> QED BY <1>6, <4>1, <4>2
    <3>3. asked = "status" => a[1] = "status" /\ (a[2] = "ok" => procs'[pid].state = "ok")
      <4> SUFFICES ASSUME asked = "status"
                   PROVE  a[1] = "status" /\ (a[2] = "ok" => procs'[pid].state = "ok")
        OBVIOUS
      <4>1. ask[1] = "status" /\ ask[2] = pid  BY <2>4 DEF Question
      <4>2. a[1] = "status" /\ a[2] = procs[pid].state /\ procs' = procs  BY <1>5, <4>1
      <4> QED BY <4>2
    <3> QED BY <1>1, <1>8, <3>1, <3>2, <3>3 DEF Fits
  <2> QED BY <1>1, <1>8, <2>2, <2>4, <2>7, <2>8 DEF TalkInv, Opening, Closing
<1>16. OwnInv'
  <2>1. pid # 0 => procs'[pid] = procs[pid]  BY <1>1, <1>6 DEF AgentTyped
  <2> QED BY <1>1, <2>1 DEF AgentInv, OwnInv
<1> QED BY <1>13, <1>14, <1>15, <1>16 DEF AgentInv

-----------------------------------------------------------------------------
(* The theorems.                                                           *)

\* The start.
LEMMA AgentStarts == AgentInit => AgentInv
<1> SUFFICES ASSUME AgentInit PROVE AgentInv  OBVIOUS
<1>1. <<>> \in Seq(Asks) /\ <<>> \in Seq(Pieces)
  <2> HIDE DEF Asks, Pieces
  <2> QED BY EmptySeq
<1>2. <<>> \in Seq([by : 1..client, state : States]) /\ Len(<<>>) = 0  BY EmptySeq
<1>3. AgentTyped
  <2>1. pid \in 0..Len(procs)  BY <1>2 DEF AgentInit
  <2>2. delimited \in BOOLEAN /\ rebooted \in BOOLEAN  BY DEF AgentInit
  <2>3. /\ procs \in Seq([by : 1..client, state : States])
        /\ toAgent \in Seq(Asks) /\ buffer \in Seq(Pieces) /\ toClient \in Seq(Pieces)
    <3> HIDE DEF Asks, Pieces, States
    <3> QED BY <1>1, <1>2 DEF AgentInit
  <2> QED BY <2>1, <2>2, <2>3 DEF AgentInit, AgentTyped
<1>4. SyncInv /\ TalkInv /\ OwnInv  BY DEF AgentInit, SyncInv, TalkInv, OwnInv
<1> QED BY <1>3, <1>4 DEF AgentInv

\* Every step keeps the invariant.
LEMMA AgentSteps == AgentInv /\ [AgentNext]_agent => AgentInv'
BY FindMarkStep, ReceiveSyncStep, ReadSyncLineStep, CallStep, ReceiveReplyStep, ReadReplyStep,
   CloseClientStep, ProcessStep, RebootStep, ConnectStep, AnswerStep
DEF AgentNext

\* The inductive invariant of the channel, for any number of clients.
THEOREM AgentIsKept == AgentSpec => []AgentInv
BY AgentStarts, AgentSteps, PTL DEF AgentSpec

\* The end of the stream is a delimiter and the answer.
LEMMA ImpliesAhead == AgentInv /\ Answered => Ahead(Token)
<1> SUFFICES ASSUME AgentInv, Answered PROVE Ahead(Token)  OBVIOUS
<1>1. /\ AgentTyped /\ Unread \in Nat /\ Len(buffer) \in Nat /\ Len(toClient) \in Nat
      /\ buffer \in Seq(Pieces) /\ toClient \in Seq(Pieces) /\ delimited \in BOOLEAN
  BY Bounds DEF AgentInv, AgentTyped
<1> DEFINE pre == IF delimited THEN <<Mark>> ELSE <<>>
           e == IF delimited THEN 1 ELSE 0
           s == pre \o buffer \o toClient
           i == Len(s) - 2
<1>2. pre \in Seq(Pieces) /\ Len(pre) = e /\ e \in {0, 1} /\ (delimited => pre[1] = Mark)
  <2>1. Mark \in Pieces  BY PieceFacts
  <2> HIDE DEF Pieces, Mark
  <2>2. <<Mark>> \in Seq(Pieces) /\ Len(<<Mark>>) = 1 /\ <<Mark>>[1] = Mark  BY <2>1
  <2>3. <<>> \in Seq(Pieces) /\ Len(<<>>) = 0  BY EmptySeq
  <2> QED BY <2>2, <2>3
<1>3. /\ s \in Seq(Pieces) /\ Len(s) = e + Unread
      /\ \A k \in 1..Unread : s[e + k] = At(k)
      /\ e = 1 => s[1] = Mark
  <2> HIDE DEF pre, e, Pieces
  <2>1. /\ pre \o buffer \in Seq(Pieces) /\ Len(pre \o buffer) = Len(pre) + Len(buffer)
        /\ \A k \in 1..(Len(pre) + Len(buffer)) :
              (pre \o buffer)[k] = IF k <= Len(pre) THEN pre[k] ELSE buffer[k - Len(pre)]
    BY <1>1, <1>2, ConcatProperties
  <2>2. /\ s \in Seq(Pieces) /\ Len(s) = Len(pre \o buffer) + Len(toClient)
        /\ \A k \in 1..(Len(pre \o buffer) + Len(toClient)) :
              s[k] = IF k <= Len(pre \o buffer) THEN (pre \o buffer)[k]
                                                ELSE toClient[k - Len(pre \o buffer)]
    BY <1>1, <2>1, ConcatProperties
  <2>3. Len(s) = e + Unread  BY <1>1, <1>2, <2>1, <2>2 DEF Unread
  <2>4. ASSUME NEW k \in 1..Unread PROVE s[e + k] = At(k)
    <3>1. e + k \in 1..(Len(pre \o buffer) + Len(toClient))  BY <1>1, <1>2, <2>1 DEF Unread
    <3>2. CASE k <= Len(buffer)
      <4>1. /\ e + k <= Len(pre \o buffer) /\ e + k \in 1..(Len(pre) + Len(buffer))
            /\ ~(e + k <= Len(pre)) /\ (e + k) - Len(pre) = k
        BY <1>1, <1>2, <2>1, <3>2
      <4>2. s[e + k] = (pre \o buffer)[e + k]  BY <2>2, <3>1, <4>1
      <4>3. (pre \o buffer)[e + k] = buffer[k]  BY <2>1, <4>1
      <4> QED BY <3>2, <4>2, <4>3 DEF At
    <3>3. CASE ~(k <= Len(buffer))
      <4>1. /\ ~(e + k <= Len(pre \o buffer))
            /\ (e + k) - Len(pre \o buffer) = k - Len(buffer)
        BY <1>1, <1>2, <2>1, <3>3
      <4>2. s[e + k] = toClient[k - Len(buffer)]  BY <2>2, <3>1, <4>1
      <4> QED BY <3>3, <4>2 DEF At
    <3> QED BY <3>2, <3>3
  <2>5. e = 1 => s[1] = Mark
    <3> SUFFICES ASSUME e = 1 PROVE s[1] = Mark  OBVIOUS
    <3>1. /\ 1 \in 1..(Len(pre \o buffer) + Len(toClient)) /\ 1 <= Len(pre \o buffer)
          /\ 1 \in 1..(Len(pre) + Len(buffer)) /\ 1 <= Len(pre)
      BY <1>1, <1>2, <2>1
    <3>2. pre[1] = Mark  BY <1>2 DEF e
    <3> QED BY <2>1, <2>2, <3>1, <3>2
  <2> QED BY <2>2, <2>3, <2>4, <2>5
<1> HIDE DEF s
<1>4. /\ Unread >= 2 /\ At(Unread - 1) = Opening(Token) /\ At(Unread) = Closing(Token)
      /\ Unread = 2 => e = 1
      /\ Unread > 2 => At(Unread - 2) = Mark
  BY DEF Answered
<1> HIDE DEF e
<1>5. i \in 1..(Len(s) - 2) /\ i + 1 \in 1..Len(s) /\ i + 2 \in 1..Len(s) /\ i \in 1..Len(s)
  BY <1>1, <1>2, <1>3, <1>4
<1>6. s[i] = Mark /\ s[i + 1] = Opening(Token) /\ s[i + 2] = Closing(Token)
  <2>1. i + 1 = e + (Unread - 1) /\ i + 2 = e + Unread /\ Unread - 1 \in 1..Unread
          /\ Unread \in 1..Unread
    BY <1>1, <1>2, <1>3, <1>4
  <2>2. s[i + 1] = At(Unread - 1) /\ s[i + 2] = At(Unread)  BY <1>3, <2>1
  <2>3. s[i] = Mark
    <3>1. CASE Unread = 2
      <4>1. i = 1  BY <1>3, <1>4, <3>1
      <4> QED BY <1>3, <1>4, <3>1, <4>1
    <3>2. CASE Unread # 2
      <4>1. i = e + (Unread - 2) /\ Unread - 2 \in 1..Unread /\ Unread > 2
        BY <1>1, <1>2, <1>3, <1>4, <3>2
      <4> QED BY <1>3, <1>4, <4>1
    <3> QED BY <3>1, <3>2
  <2> QED BY <1>4, <2>2, <2>3
<1> HIDE DEF i
<1> DEFINE t == <<Mark, Opening(Token), Closing(Token)>>
<1>7. <<Mark>> \o Line(Token) = t
  <2>1. Token[1] = "sync"  BY DEF Token
  <2> QED BY <2>1, SentFacts DEF Sent
<1>8. SubSeq(s, i, i + 2) = t
  <2>1. /\ t \in Seq({s[i], s[i + 1], s[i + 2]}) /\ Len(t) = 3
        /\ t[1] = s[i] /\ t[2] = s[i + 1] /\ t[3] = s[i + 2]
    BY <1>6
  <2>2. i \in Int /\ i + 2 \in Int /\ i + 2 - i + 1 = 3 /\ i <= i + 2  BY <1>1, <1>3, <1>5
  <2> DEFINE S == {s[i], s[i + 1], s[i + 2]}
  <2>3. ASSUME NEW k \in i..(i + 2) PROVE s[k] \in S
    <3>1. k = i \/ k = i + 1 \/ k = i + 2  BY <2>2
    <3> QED BY <3>1
  <2>4. t \in Seq(S)  BY <2>1
  <2> HIDE DEF S, t
  <2>5. /\ SubSeq(s, i, i + 2) \in Seq(S)
        /\ Len(SubSeq(s, i, i + 2)) = IF i <= i + 2 THEN i + 2 - i + 1 ELSE 0
        /\ \A k \in 1..(i + 2 - i + 1) : SubSeq(s, i, i + 2)[k] = s[i + k - 1]
    BY <2>2, <2>3, SubSeqProperties
  <2>6. ASSUME NEW k \in 1..3 PROVE SubSeq(s, i, i + 2)[k] = t[k]
    <3>1. k \in 1..(i + 2 - i + 1) /\ (k = 1 \/ k = 2 \/ k = 3)  BY <2>2
    <3>2. i + 1 - 1 = i /\ i + 2 - 1 = i + 1 /\ i + 3 - 1 = i + 2  BY <2>2
    <3>3. SubSeq(s, i, i + 2)[k] = s[i + k - 1]  BY <2>5, <3>1
    <3> QED BY <2>1, <3>1, <3>2, <3>3
  <2>7. Len(SubSeq(s, i, i + 2)) = 3  BY <2>2, <2>5
  <2> QED BY <2>1, <2>4, <2>5, <2>6, <2>7, SeqEqual
<1> HIDE DEF t
<1>9. i \in 1..(Len(s) - 2) /\ SubSeq(s, i, i + 2) = <<Mark>> \o Line(Token)
  BY <1>5, <1>7, <1>8
<1> HIDE DEF pre
<1> QED BY <1>9 DEF Ahead, s, pre

\* The two properties are part of the invariant.
LEMMA AgentImplies == AgentInv => ReportsItsOwn /\ AnswerStillComes
<1> SUFFICES ASSUME AgentInv PROVE ReportsItsOwn /\ AnswerStillComes  OBVIOUS
<1>1. ReportsItsOwn  BY DEF AgentInv, OwnInv, ReportsItsOwn
<1>2. ASSUME status = "syncing", ~rebooted
      PROVE  Contains(toAgent, <<"sync", client>>) \/ Ahead(<<"sync", client>>)
  <2>1. Unanswered \/ Answered  BY <1>2 DEF AgentInv, SyncInv, Lost
  <2>2. CASE Unanswered
    <3>1. Len(toAgent) \in 1..Len(toAgent) /\ toAgent[Len(toAgent)] = <<"sync", client>>
      <4>1. toAgent \in Seq(Asks) /\ toAgent # <<>>  BY <2>2 DEF AgentInv, AgentTyped, Unanswered
      <4>2. Len(toAgent) \in Nat \ {0}
        <5> HIDE DEF Asks
        <5> QED BY <4>1, EmptySeq
      <4> QED BY <2>2, <4>2 DEF Unanswered, Token
    <3> QED BY <3>1 DEF Contains
  <2>3. CASE Answered  BY <2>3, ImpliesAhead DEF Token
  <2> QED BY <2>1, <2>2, <2>3
<1> QED BY <1>1, <1>2 DEF AnswerStillComes

\* A client reports the exit of the process it started itself (Client.execute and
\* Client.wait in linux/qga_client.py), however many clients gave up before it.
THEOREM ReportsAreItsOwn == AgentSpec => []ReportsItsOwn
BY AgentIsKept, AgentImplies, PTL

\* However the stream is cut into pieces and whatever older clients left in it, a client that
\* synchronises does not throw its own answer away (Client._synchronize).
THEOREM AnswersStillCome == AgentSpec => []AnswerStillComes
BY AgentIsKept, AgentImplies, PTL
=============================================================================
