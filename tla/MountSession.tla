---------------------------- MODULE MountSession ----------------------------
(***************************************************************************)
(* Ownership of the mounts below /mnt: VerifiedMountSession of             *)
(* lib/services/mount_session.dart, the engine's only way to mount and     *)
(* unmount.  Every call reads /proc/self/mountinfo itself, but lets the    *)
(* session supervisor run mount and umount; a reply can be lost, and a     *)
(* command whose reply was given up may take effect later.  The supervisor *)
(* serves one request at a time, so a later request waits for it; the      *)
(* engine's own reads do not.                                              *)
(*                                                                         *)
(* One session serves one approved plan:                                   *)
(*   full    the whole disk; partitions 1 and 2 of the disk                *)
(*   fresh   free-space or manual layout with a new EFI partition          *)
(*   reuse   manual layout that keeps the disk's EFI partition             *)
(*   ntfs    NTFS shrink, which keeps it as well                           *)
(***************************************************************************)
EXTENDS Naturals, FiniteSets

CONSTANTS
    Plans,      \* plans the run considers
    MaxIds,     \* bound: mounts at a time (the kernel refuses more)
    MaxTrouble  \* bound: commands given up, and things other commands do

ASSUME PlansAssumption == Plans \subseteq {"full", "fresh", "reuse", "ntfs"}
ASSUME BoundsAssumption == MaxIds \in Nat \ {0} /\ MaxTrouble \in Nat

VARIABLES
    plan,       \* the approved plan
    table,      \* mounts below /mnt
    pending,    \* effect of a command that was given up while it ran
    busy,       \* a descendant was left behind: idle is false from then on
    trouble,    \* how often either has happened
    owned,      \* _owned
    verified, hasDisk, unsafe, attempted,
    report,     \* outcome of _report
    layout,     \* which created layout is bound
    started,    \* _ntfsInspectionStarted
    probe,      \* _espProbe # null
    inspected,  \* _espInspected # null
    protected,  \* _espProtected
    outer,      \* the call in progress
    todo,       \* the mounts cleanup has yet to unmount
    inner,      \* the mount or unmount it is in
    ret         \* what the last call answered

world   == <<table, pending, busy, trouble>>
flags   == <<verified, hasDisk, attempted, report, layout, started, probe,
             inspected, protected, todo>>
vars    == <<plan, world, owned, unsafe, flags, outer, inner, ret>>

\* /mnt, /mnt/home, /mnt/dev, /mnt/dev/pts, the staging and probe directories,
\* /mnt/boot/efi and /mnt/boot/efi/EFI/fedora, with their depth.
Depth == [mnt |-> 1, home |-> 2, dev |-> 2, stage |-> 2, probe |-> 2,
          pts |-> 3, efi |-> 3, vendor |-> 5]
Places == DOMAIN Depth

Below(p, q) == p = q \/ q = "mnt" \/ <<p, q>> \in {<<"pts", "dev">>,
                                                  <<"vendor", "efi">>}

Devices == {"first", "second", "esp", "root", "host", "foreign"}

Shape(at, dev, whole, rw) == [at |-> at, dev |-> dev, whole |-> whole, rw |-> rw]
Row(i, s) == [id |-> i, at |-> s.at, dev |-> s.dev, whole |-> s.whole,
              rw |-> s.rw]
ShapeOf(m) == Shape(m.at, m.dev, m.whole, m.rw)
ShapeSet == [at : Places, dev : Devices, whole : BOOLEAN, rw : BOOLEAN]
RowSet == [id : 1..MaxIds, at : Places, dev : Devices, whole : BOOLEAN,
           rw : BOOLEAN]

CommandSet == [add : SUBSET RowSet, del : SUBSET RowSet]

NoCommand == [add |-> {}, del |-> {}]
NoCall    == [op |-> "none", step |-> "none", at |-> "mnt", wanted |-> {},
              made |-> {}, ok |-> FALSE]
Idle      == [op |-> "none", step |-> "none", good |-> FALSE]

FlagType ==
    /\ busy \in BOOLEAN /\ verified \in BOOLEAN /\ hasDisk \in BOOLEAN
    /\ unsafe \in BOOLEAN /\ attempted \in BOOLEAN /\ started \in BOOLEAN
    /\ probe \in BOOLEAN /\ inspected \in BOOLEAN /\ protected \in BOOLEAN
    /\ ret \in BOOLEAN

InnerSet == [op : {"none", "mount", "private", "unmount"},
             step : {"none", "run", "read"}, at : Places,
             wanted : SUBSET ShapeSet, made : SUBSET RowSet, ok : BOOLEAN]

OuterSet == [op : {"none", "inspect", "protect", "cleanup"},
             step : {"none", "mount", "look", "close", "closed", "stage", "base",
                     "remount", "reread", "vendor", "unstage", "grant", "idle",
                     "next", "count", "last"},
             good : BOOLEAN]

PlaceType ==
    /\ plan \in Plans /\ trouble \in 0..MaxTrouble
    /\ table \subseteq RowSet /\ owned \subseteq RowSet /\ todo \subseteq RowSet
    /\ pending \in CommandSet
    /\ report \in {"none", "clean", "failed"}
    /\ layout \in {"none", "fresh", "reuse", "ntfs"}
    /\ outer \in OuterSet
    /\ inner \in InnerSet

TypeOK == FlagType /\ PlaceType

Init ==
    /\ plan \in Plans
    /\ table \in {{}, {Row(1, Shape("home", "foreign", TRUE, TRUE))}}
    /\ pending = NoCommand /\ busy = FALSE /\ trouble = 0 /\ owned = {} /\ todo = {}
    /\ verified = FALSE /\ hasDisk = FALSE /\ unsafe = FALSE
    /\ attempted = FALSE /\ report = "none" /\ layout = "none"
    /\ started = FALSE /\ probe = FALSE /\ inspected = FALSE
    /\ protected = FALSE
    /\ outer = Idle /\ inner = NoCall /\ ret = FALSE

-----------------------------------------------------------------------------
(* What a call sees.                                                       *)

\* The mounts below /mnt are exactly those of the session.
Known == table = owned

At(rows, p) == {m \in rows : m.at = p}

ReusesEsp == layout \in {"reuse", "ntfs"}

\* Without a bound layout partition names are those of a wiped disk.
Part(n) == IF layout = "none" THEN IF n = 1 THEN "first" ELSE "second"
                              ELSE IF n = 1 THEN "esp" ELSE "root"

Free == inner.op = "none"
Calm == outer = Idle /\ Free

-----------------------------------------------------------------------------
(* The supervisor's side of a command: it takes effect or fails, its reply *)
(* arrives or is lost, and a given-up command may take effect later.       *)

Command(add, del, ok) ==
    \/ /\ table' = (table \ del) \cup add
       /\ UNCHANGED <<pending, trouble>>
    \/ ~ok /\ UNCHANGED <<table, pending, trouble>>
    \/ /\ ~ok /\ trouble < MaxTrouble /\ trouble' = trouble + 1
       /\ pending' = [add |-> add, del |-> del] /\ UNCHANGED table

\* serial: a request is served only when the one before has ended.
Served == pending = NoCommand

LateEffect ==
    /\ pending # NoCommand
    /\ table' \in {table, (table \ pending.del) \cup pending.add}
    /\ pending' = NoCommand
    /\ UNCHANGED <<plan, busy, trouble, owned, unsafe, flags, outer, inner, ret>>

\* The kernel gives a new mount the lowest id not in use.
Unused == (1..MaxIds) \ {m.id : m \in table}
Lowest(ids) == CHOOSE i \in ids : \A j \in ids : i <= j

\* Any other command of a stage (rsync, chroot, dracut) may mount, unmount or
\* leave a descendant behind.
StageCommand ==
    /\ Calm /\ Served /\ hasDisk /\ ~attempted
    /\ trouble < MaxTrouble /\ trouble' = trouble + 1
    /\ \/ /\ Unused # {} /\ UNCHANGED busy
          /\ \E p \in {"home", "efi"} :
                LET row == Row(Lowest(Unused), Shape(p, "foreign", TRUE, TRUE))
                IN  \/ table' = table \cup {row} /\ UNCHANGED pending
                    \/ pending' = [add |-> {row}, del |-> {}] /\ UNCHANGED table
       \/ /\ \E m \in table :
                \/ table' = table \ {m} /\ UNCHANGED pending
                \/ pending' = [add |-> {}, del |-> {m}] /\ UNCHANGED table
          /\ UNCHANGED busy
       \/ busy' = TRUE /\ UNCHANGED <<table, pending>>
    /\ UNCHANGED <<plan, owned, unsafe, flags, outer, inner, ret>>

-----------------------------------------------------------------------------
(* mount(args).                                                            *)

Kinds == {"root", "efi", "probe", "stage", "base", "vendor", "rbind", "private"}

\* What a command that succeeds mounts: a bind of /dev brings /dev/pts along.
Wanted(kind, at) ==
    [root    |-> {Shape(at, Part(2), TRUE, TRUE)},
     efi     |-> {Shape("efi", Part(1), TRUE, TRUE)},
     probe   |-> {Shape("probe", "esp", TRUE, FALSE)},
     stage   |-> {Shape("stage", Part(1), TRUE, TRUE)},
     base    |-> {Shape("efi", "esp", TRUE, TRUE)},
     vendor  |-> {Shape("vendor", "esp", FALSE, TRUE)},
     rbind   |-> {Shape("dev", "host", TRUE, TRUE),
                  Shape("pts", "host", TRUE, TRUE)},
     private |-> {}][kind]

\* Mutant: the full-disk rules serve a pending NTFS approval.
FallbackOpen(kind) == TRUE

\* A pending NTFS approval must not be served by the full-disk rules.
FallbackClosed(kind) == started /\ layout # "ntfs" => kind = "probe"

Allowed(kind) ==
    /\ verified /\ ~attempted /\ ~unsafe /\ hasDisk
    /\ FallbackClosed(kind)
    /\ kind = "efi" => ~ReusesEsp
    /\ kind = "probe" => probe /\ owned = {}
    /\ kind \in {"stage", "base", "vendor"} => outer.op = "protect" /\ ReusesEsp
    /\ kind \in {"base", "vendor"} => At(owned, "stage") # {}
    /\ kind = "vendor" => \E m \in At(owned, "efi") : ~m.rw

Made(shapes) ==
    LET i == Lowest(Unused)
        j == Lowest(Unused \ {i})
    IN  {Row(IF s.at = "pts" THEN j ELSE i, s) : s \in shapes}

Answer(b) == ret' = b /\ inner' = NoCall

\* The arguments are checked, then the inventory and the target; an inventory
\* that cannot be read counts as an unknown one.  Naming the device may fail.
StartMount(kind, at) ==
    LET fits == IF kind = "private" THEN At(owned, at) # {}
                                    ELSE At(table, at) = {}
    IN  /\ \/ ~Allowed(kind) /\ Answer(FALSE) /\ UNCHANGED unsafe
           \/ Allowed(kind) /\ Answer(FALSE) /\ unsafe' = TRUE
           \/ /\ Allowed(kind) /\ Known /\ fits /\ UNCHANGED unsafe
              /\ \/ kind \notin {"rbind", "private"} /\ Answer(FALSE)
                 \/ /\ inner' = [NoCall EXCEPT
                           !.op = IF kind = "private" THEN "private" ELSE "mount",
                           !.step = "run", !.at = at, !.wanted = Wanted(kind, at)]
                    /\ UNCHANGED ret
        /\ UNCHANGED <<plan, world, owned>>

\* A recursive bind may stop half way.
Halves(shapes) == {shapes} \cup {{s} : s \in {r \in shapes : r.at = "dev"}}

MountRuns ==
    /\ inner.op \in {"mount", "private"} /\ inner.step = "run" /\ Served
    /\ \E part \in Halves(inner.wanted), ok \in BOOLEAN :
          /\ ok => part = inner.wanted
          /\ IF Cardinality(inner.wanted) <= Cardinality(Unused)
             THEN Command(Made(part), {}, ok)
             ELSE ~ok /\ UNCHANGED <<table, pending, trouble>>
          /\ inner' = [inner EXCEPT !.step = "read", !.ok = ok]
    /\ UNCHANGED <<plan, busy, owned, unsafe, flags, outer, ret>>

\* New mounts are recorded, even those of a failed command, if this command
\* can have made them; the first one it cannot have made, an owned mount gone
\* or changed, or an unreadable inventory makes the session unsafe.
MountReads ==
    /\ inner.op \in {"mount", "private"} /\ inner.step = "read"
    /\ LET fresh   == table \ owned
           matches == {m \in fresh : ShapeOf(m) \in inner.wanted}
       IN  \/ unsafe' = TRUE /\ Answer(FALSE) /\ UNCHANGED owned
           \/ /\ owned \subseteq table /\ fresh # matches
              /\ \E part \in SUBSET matches : owned' = owned \cup part
              /\ unsafe' = TRUE /\ Answer(FALSE)
           \/ /\ owned \subseteq table /\ fresh = matches
              /\ owned' = owned \cup fresh /\ UNCHANGED unsafe
              /\ Answer(/\ inner.ok
                        /\ inner.op = "private" \/ At(fresh, inner.at) # {})
    /\ UNCHANGED <<plan, world, flags, outer>>

-----------------------------------------------------------------------------
(* unmount(target).                                                        *)

\* Mutant: unmount does not ask for idle first.
StartUnmountUnasked(at) ==
    LET clear == /\ ~unsafe /\ verified /\ Known
                 /\ Cardinality(At(owned, at)) = 1
                 /\ \A m \in table : Below(m.at, at) => m.at = at
    IN  /\ \/ Answer(FALSE)
           \/ /\ clear /\ UNCHANGED ret
              /\ inner' = [NoCall EXCEPT !.op = "unmount", !.step = "run",
                              !.at = at, !.made = At(owned, at)]
        /\ UNCHANGED <<plan, world, owned, unsafe>>

\* idle, the inventory, one owned mount at the target and nothing below it.
StartUnmount(at) ==
    LET clear == /\ ~busy /\ ~unsafe /\ verified /\ Known
                 /\ Cardinality(At(owned, at)) = 1
                 /\ \A m \in table : Below(m.at, at) => m.at = at
    IN  /\ Served
        /\ \/ Answer(FALSE)
           \/ /\ clear /\ UNCHANGED ret
              /\ inner' = [NoCall EXCEPT !.op = "unmount", !.step = "run",
                              !.at = at, !.made = At(owned, at)]
        /\ UNCHANGED <<plan, world, owned, unsafe>>

\* umount takes what was mounted last at the target.
OnTop(p) == {m \in At(table, p) : m \notin inner.made}
Top(p) == IF OnTop(p) = {} THEN At(table, p) ELSE OnTop(p)

UnmountRuns ==
    /\ inner.op = "unmount" /\ inner.step = "run" /\ Served
    /\ \E ok \in BOOLEAN :
          /\ Command({}, Top(inner.at), ok)
          /\ inner' = [inner EXCEPT !.step = "read", !.ok = ok]
    /\ UNCHANGED <<plan, busy, owned, unsafe, flags, outer, ret>>

\* The answer is yes only for a mount seen gone and everything else in place.
UnmountReads ==
    /\ inner.op = "unmount" /\ inner.step = "read"
    /\ \/ Answer(FALSE) /\ UNCHANGED owned
       \/ /\ At(table, inner.at) = {}
          /\ \A m \in table, n \in inner.made : m.id # n.id
          /\ owned' = owned \ inner.made
          /\ Answer(inner.ok /\ table = owned')
    /\ UNCHANGED <<plan, world, unsafe, flags, outer>>

-----------------------------------------------------------------------------
(* Session set-up and the calls of the stages.                             *)

\* Mounts below /mnt that nobody of this session made forbid everything.
Initialize ==
    /\ Calm /\ ~verified /\ table = {} /\ Served
    /\ verified' = TRUE
    /\ UNCHANGED <<plan, world, owned, unsafe, hasDisk, attempted, report,
                   layout, started, probe, inspected, protected, todo, outer,
                   inner, ret>>

ValidateTarget ==
    /\ Calm /\ verified /\ ~hasDisk /\ table = {} /\ Served
    /\ hasDisk' = TRUE
    /\ UNCHANGED <<plan, world, owned, unsafe, verified, attempted, report,
                   layout, started, probe, inspected, protected, todo, outer,
                   inner, ret>>

\* bindCreatedFreeSpaceLayout, bindCreatedManualLayout, bindCreatedNtfsLayout.
BindLayout ==
    /\ Calm /\ verified /\ ~attempted /\ ~unsafe /\ owned = {} /\ hasDisk
    /\ layout = "none" /\ plan # "full" /\ ~probe
    /\ plan \in {"fresh", "reuse"} => ~started
    /\ plan \in {"reuse", "ntfs"} => inspected
    /\ layout' = plan
    /\ UNCHANGED <<plan, world, owned, unsafe, verified, hasDisk, attempted,
                   report, started, probe, inspected, protected, todo, outer,
                   inner, ret>>

\* The stages mount after partitioning, when a layout is bound; once an NTFS
\* inspection has started the session itself must hold them back.  /mnt comes
\* first.
StageMounts ==
    /\ Calm
    /\ plan = "full" \/ layout # "none" \/ started
    /\ \/ StartMount("root", "mnt")
       \/ At(owned, "mnt") # {} /\ StartMount("root", "home")
       \/ At(owned, "mnt") # {} /\ StartMount("efi", "efi")
       \/ At(owned, "mnt") # {} /\ StartMount("rbind", "dev")
       \/ At(owned, "dev") # {} /\ StartMount("private", "dev")
    /\ UNCHANGED <<flags, outer>>

\* Once the subvolumes are made.
StageUnmounts ==
    /\ Calm /\ owned # {} /\ StartUnmount("mnt") /\ UNCHANGED <<flags, outer>>

-----------------------------------------------------------------------------
(* inspectEspReuse, inspectNtfsEspReuse: look at the EFI partition         *)
(* read-only before anything is changed, and leave no mount.               *)

Outer(op, step, good) == outer' = [op |-> op, step |-> step, good |-> good]
In(op, step) == outer.op = op /\ outer.step = step /\ Free

InspectStarts ==
    /\ Calm /\ plan \in {"reuse", "ntfs"}
    /\ plan = "ntfs" => ~started
    /\ verified /\ ~attempted /\ ~unsafe /\ hasDisk /\ owned = {}
    /\ layout = "none" /\ ~probe /\ ~inspected
    /\ probe' = TRUE /\ started' = (plan = "ntfs")
    /\ Outer("inspect", "mount", FALSE)
    /\ UNCHANGED <<plan, world, owned, unsafe, verified, hasDisk, attempted,
                   report, layout, inspected, protected, todo, inner, ret>>

InspectMounts ==
    /\ In("inspect", "mount") /\ StartMount("probe", "probe")
    /\ Outer("inspect", "look", FALSE) /\ UNCHANGED flags

\* No vendor directory of another system, and room for the boot files.
InspectLooks ==
    /\ In("inspect", "look")
    /\ \/ Outer("inspect", "close", FALSE)
       \/ ret /\ Known /\ Served /\ Outer("inspect", "close", TRUE)
    /\ UNCHANGED <<plan, world, owned, unsafe, flags, inner, ret>>

InspectCloses ==
    /\ In("inspect", "close") /\ StartUnmount("probe")
    /\ Outer("inspect", "closed", outer.good) /\ UNCHANGED flags

InspectEnds ==
    /\ In("inspect", "closed") /\ outer' = Idle
    /\ probe' = ~ret /\ inspected' = (ret /\ outer.good)
    /\ UNCHANGED <<plan, world, owned, unsafe, verified, hasDisk, attempted,
                   report, layout, started, protected, todo, inner, ret>>

-----------------------------------------------------------------------------
(* mountProtectedEsp: the reused EFI partition read-only, except for the   *)
(* installer's own vendor directory.                                       *)

ProtectStarts ==
    /\ Calm /\ verified /\ ~attempted /\ ~unsafe /\ ~protected /\ ~probe
    /\ ReusesEsp /\ At(owned, "mnt") # {}
    /\ \A m \in owned : m.at \notin {"efi", "vendor", "stage", "probe"}
    /\ Outer("protect", "stage", FALSE)
    /\ UNCHANGED <<plan, world, owned, unsafe, flags, inner, ret>>

ProtectStages ==
    /\ In("protect", "stage") /\ StartMount("stage", "stage")
    /\ Outer("protect", "look", FALSE) /\ UNCHANGED flags

\* Any check or directory that fails ends the call.
GiveUp == outer' = Idle /\ ret' = FALSE
          /\ UNCHANGED <<plan, world, owned, unsafe, inner>>

ProtectLooks ==
    /\ In("protect", "look") /\ UNCHANGED flags
    /\ \/ GiveUp
       \/ /\ ret /\ Known /\ Served /\ Outer("protect", "base", FALSE)
          /\ UNCHANGED <<plan, world, owned, unsafe, inner, ret>>

ProtectBinds ==
    /\ In("protect", "base") /\ StartMount("base", "efi")
    /\ Outer("protect", "remount", FALSE) /\ UNCHANGED flags

ProtectRemounts ==
    /\ In("protect", "remount") /\ UNCHANGED flags
    /\ \/ GiveUp
       \/ /\ ret /\ Known /\ Served
          /\ \E m \in At(owned, "efi"), ok \in BOOLEAN :
                /\ Command({[m EXCEPT !.rw = FALSE]}, {m}, ok)
                /\ Outer("protect", "reread", ok)
          /\ UNCHANGED <<plan, busy, owned, unsafe, inner, ret>>

\* The same mount, whatever its options are now, and no other change.
ProtectRereads ==
    /\ In("protect", "reread")
    /\ \E m \in At(owned, "efi") :
       LET now    == {n \in table : n.id = m.id}
           others == owned \ {m}
           same   == now # {} /\ table = others \cup now
       IN  \/ GiveUp /\ UNCHANGED flags
           \/ /\ ~same /\ unsafe' = TRUE /\ outer' = Idle /\ ret' = FALSE
              /\ UNCHANGED <<owned, flags>>
           \/ /\ same /\ owned' = others \cup now
              /\ UNCHANGED <<unsafe, flags>>
              /\ IF outer.good /\ \A n \in now : ~n.rw
                 THEN Outer("protect", "vendor", FALSE) /\ UNCHANGED ret
                 ELSE outer' = Idle /\ ret' = FALSE
    /\ UNCHANGED <<plan, world, inner>>

ProtectVendors ==
    /\ In("protect", "vendor") /\ StartMount("vendor", "vendor")
    /\ Outer("protect", "unstage", FALSE) /\ UNCHANGED flags

ProtectUnstages ==
    /\ In("protect", "unstage") /\ UNCHANGED flags
    /\ \/ ret /\ StartUnmount("stage") /\ Outer("protect", "grant", FALSE)
       \/ ~ret /\ GiveUp

\* verifyProtectedEsp.
Shielded ==
    /\ Known /\ At(table, "stage") = {} /\ At(table, "probe") = {}
    /\ Cardinality(At(table, "efi")) = 1 /\ Cardinality(At(table, "vendor")) = 1
    /\ \A m \in At(table, "efi") : m.whole /\ ~m.rw
    /\ \A m \in At(table, "vendor") : m.dev = "esp" /\ ~m.whole /\ m.rw

\* Mutant: the staging mount may stay.
ProtectGrantsAnyway ==
    /\ In("protect", "grant") /\ outer' = Idle
    /\ protected' = TRUE /\ ret' \in {FALSE, ret /\ Shielded}
    /\ UNCHANGED <<plan, world, owned, unsafe, verified, hasDisk, attempted,
                   report, layout, started, probe, inspected, todo, inner>>

ProtectGrants ==
    /\ In("protect", "grant") /\ outer' = Idle
    /\ protected' = ret /\ ret' \in {FALSE, ret /\ Shielded}
    /\ UNCHANGED <<plan, world, owned, unsafe, verified, hasDisk, attempted,
                   report, layout, started, probe, inspected, todo, inner>>

-----------------------------------------------------------------------------
(* cleanup(): once, deepest mount first, and never without ownership.      *)

Report(r) ==
    /\ report' = r /\ outer' = Idle /\ attempted' = TRUE
    /\ UNCHANGED <<verified, hasDisk, layout, started, probe, inspected,
                   protected, todo>>

\* A failure is final; a success is confirmed again by every later call.  The
\* first reading may fail, which does not count as an attempt.
CleanupStarts ==
    /\ Calm /\ verified /\ ~(attempted /\ report = "failed")
    /\ \/ (unsafe \/ ~Known) /\ Report("failed")
       \/ /\ report' = "failed" /\ UNCHANGED <<outer, verified, hasDisk,
                attempted, layout, started, probe, inspected, protected, todo>>
       \/ /\ ~unsafe /\ Known /\ ~attempted
          /\ attempted' = TRUE /\ Outer("cleanup", "idle", TRUE)
          /\ UNCHANGED <<verified, hasDisk, report, layout, started, probe,
                         inspected, protected, todo>>
    /\ UNCHANGED <<plan, world, owned, unsafe, inner, ret>>

CleanupAsks ==
    /\ In("cleanup", "idle") /\ Served
    /\ \/ Report("failed")
       \/ /\ ~busy /\ todo' = owned /\ Outer("cleanup", "next", TRUE)
          /\ UNCHANGED <<verified, hasDisk, attempted, report, layout, started,
                         probe, inspected, protected>>
    /\ UNCHANGED <<plan, world, owned, unsafe, inner, ret>>

Deepest == {m \in todo : \A n \in todo : Depth[n.at] <= Depth[m.at]}

KeepFlagsButTodo ==
    UNCHANGED <<verified, hasDisk, attempted, report, layout, started, probe,
                inspected, protected>>

CleanupUnmounts ==
    /\ In("cleanup", "next")
    /\ \E m \in Deepest : StartUnmount(m.at) /\ todo' = todo \ {m}
    /\ Outer("cleanup", "count", outer.good) /\ KeepFlagsButTodo

\* Mutant: a mount that could not be unmounted is tried again.
CleanupCountsAgain ==
    /\ In("cleanup", "count") /\ Outer("cleanup", "next", outer.good)
    /\ todo' = owned /\ KeepFlagsButTodo
    /\ UNCHANGED <<plan, world, owned, unsafe, inner, ret>>

\* A mount that cannot be unmounted is not tried again, the others are.
CleanupCounts ==
    /\ In("cleanup", "count") /\ Outer("cleanup", "next", outer.good /\ ret)
    /\ UNCHANGED <<plan, world, owned, unsafe, flags, inner, ret>>

\* Mutant: the ownership records stand for the inventory.
CleanupReadsRecords ==
    /\ In("cleanup", "next") /\ todo = {}
    /\ Outer("cleanup", "last", outer.good /\ owned = {})
    /\ UNCHANGED <<plan, world, owned, unsafe, flags, inner, ret>>

CleanupReadsRest ==
    /\ In("cleanup", "next") /\ todo = {}
    /\ Outer("cleanup", "last", outer.good /\ table = {})
    /\ UNCHANGED <<plan, world, owned, unsafe, flags, inner, ret>>

CleanupEnds ==
    /\ In("cleanup", "last") /\ Served
    /\ \/ Report("failed")
       \/ outer.good /\ ~busy /\ Report("clean")
    /\ UNCHANGED <<plan, world, owned, unsafe, inner, ret>>

-----------------------------------------------------------------------------
MountStep   == MountRuns \/ MountReads \/ UnmountRuns \/ UnmountReads
InspectStep == InspectMounts \/ InspectLooks \/ InspectCloses \/ InspectEnds
ProtectStep == \/ ProtectStages \/ ProtectLooks \/ ProtectBinds
               \/ ProtectRemounts \/ ProtectRereads \/ ProtectVendors
               \/ ProtectUnstages \/ ProtectGrants
CleanupStep == \/ CleanupAsks \/ CleanupUnmounts \/ CleanupCounts
               \/ CleanupReadsRest \/ CleanupEnds
CallStep    == MountStep \/ InspectStep \/ ProtectStep \/ CleanupStep

Next ==
    \/ LateEffect \/ StageCommand \/ StageMounts \/ StageUnmounts
    \/ Initialize \/ ValidateTarget \/ BindLayout
    \/ InspectStarts \/ ProtectStarts \/ CleanupStarts
    \/ CallStep

Spec == Init /\ [][Next]_vars

\* Steps of a call that ask the supervisor nothing: they read the engine's own
\* mountinfo and records.
OwnStep == \/ MountReads \/ UnmountReads \/ InspectEnds \/ ProtectRereads
           \/ ProtectGrants \/ CleanupCounts \/ CleanupReadsRest

\* A call goes on with what is its own.  Of requests nothing is assumed: mount,
\* umount, lsblk and idle have no time limit, and the one before may not end.
LiveSpec == Spec /\ WF_vars(OwnStep)

-----------------------------------------------------------------------------
(* What a place in the code tells about the rest: the inductive invariant  *)
(* of MountSessionProofs.                                                  *)

OneEach(rows) == \A m, n \in rows : m.id = n.id => m = n

\* _owned is a map from id to record, mountinfo a list without double ids; what
\* a command that was given up may still do keeps that.
IdInv ==
    /\ OneEach(table) /\ OneEach(owned)
    /\ OneEach((table \ pending.del) \cup pending.add)

\* A mount makes one thing, and the recursive bind of /dev a second.
WantedInv ==
    \/ inner.wanted = {}
    \/ \E s \in ShapeSet : s.at # "pts" /\ inner.wanted = {s}
    \/ \E s, t \in ShapeSet : s.at # "pts" /\ t.at = "pts" /\ inner.wanted = {s, t}

\* The layout is that of the plan; protection needs a kept EFI partition.
PlanInv ==
    /\ layout = "none" \/ (plan # "full" /\ layout = plan)
    /\ started => plan = "ntfs"
    /\ outer.op = "inspect" => plan \in {"reuse", "ntfs"} /\ layout = "none"
    /\ outer.op = "protect" => ReusesEsp /\ ~protected
    /\ protected => ReusesEsp

\* An unmount runs on what the session has just seen to be all its own.
CallInv ==
    /\ Free => inner = NoCall
    /\ inner.op = "unmount" /\ inner.step = "run" => table = owned /\ Served
    /\ inner.op # "none" /\ inner.step = "read" /\ inner.ok => Served

\* With an NTFS plan nothing is called by the names of a wiped disk.
Wiped(s) == s.dev \in {"first", "second"}
NameInv ==
    plan = "ntfs" => /\ \A m \in table \cup owned \cup pending.add : ~Wiped(m)
                     /\ \A s \in inner.wanted : ~Wiped(s)

\* A kept EFI partition shows whole and writable at two places only, then at
\* one, then nowhere.
Bare(s) == s.dev = "esp" /\ s.whole /\ s.rw
BareInv ==
    plan \in {"reuse", "ntfs"} =>
        /\ \A m \in table \cup owned \cup pending.add : Bare(m) => m.at \in {"stage", "efi"}
        /\ \A s \in inner.wanted : Bare(s) => s.at \in {"stage", "efi"}

Core == IdInv /\ WantedInv /\ CallInv /\ NameInv /\ BareInv

Single(rows) == \A m, n \in rows : m = n
OnlyStaged == /\ \A m \in table \cup pending.add : Bare(m) => m.at = "stage"
              /\ \A s \in inner.wanted : ~Bare(s)

ProtectInv ==
    outer.op = "protect" =>
        /\ outer.step = "base" => Free /\ Known /\ Served
        /\ outer.step = "remount" =>
              IF Free THEN ret => Single(At(owned, "efi"))
              ELSE /\ inner.op = "mount" /\ inner.at = "efi"
                   /\ inner.wanted = {Shape("efi", "esp", TRUE, TRUE)}
                   /\ At(owned, "efi") = {}
                   /\ inner.step = "run" => Known /\ Served
                   /\ inner.step = "read" /\ inner.ok => Single(table \ owned)
        /\ outer.step = "reread" => Free /\ (outer.good => Served /\ Single(At(owned, "efi")))
        /\ outer.step = "vendor" => Free /\ OnlyStaged
        /\ outer.step = "unstage" => OnlyStaged
        /\ outer.step = "grant" =>
              /\ OnlyStaged
              /\ IF Free THEN ret => Served /\ At(table, "stage") = {}
                 ELSE inner.op = "unmount" /\ inner.at = "stage"

NoBare == /\ \A m \in table \cup pending.add : ~Bare(m)
          /\ \A s \in inner.wanted : ~Bare(s)

ShieldInv == protected => NoBare

\* Cleanup has unmounted what it has gone through, as long as it says so, and
\* nothing can come back behind it.
CleanupInv ==
    /\ outer.op = "cleanup" =>
          /\ attempted /\ inner.op \in {"none", "unmount"} /\ inner.wanted = {}
          /\ outer.step # "count" => Free
          /\ outer.step # "idle" => pending.add = {}
          /\ outer.step = "next" /\ outer.good => owned = todo
          /\ outer.step = "count" /\ outer.good =>
                IF Free THEN ret => owned = todo
                ELSE owned = todo \cup inner.made /\ inner.made \cap todo = {}
          /\ outer.step = "last" /\ outer.good => table = {} /\ owned = {}
    /\ report = "clean" =>
          /\ attempted /\ outer = Idle /\ Free
          /\ table = {} /\ owned = {} /\ Served /\ ~busy

IInv == TypeOK /\ Core /\ PlanInv /\ ProtectInv /\ ShieldInv /\ CleanupInv

-----------------------------------------------------------------------------
(* Properties.                                                             *)

\* cleanup reports success only when nothing is left: no mount below /mnt,
\* nobody's, no command still to take effect and no descendant, although its
\* last look at the mounts comes before its last question to the supervisor.
CleanupTruthful ==
    report = "clean" => table = {} /\ owned = {} /\ Served /\ ~busy

\* A umount of the session takes a mount the session made, never one of a
\* chroot command or of the host, even when a given-up command mounts over the
\* target between the look and the umount.
OnlyOwnedUnmounted ==
    [][inner.op = "unmount" /\ inner.step = "run" => table \ table' \subseteq owned]_vars

\* Once the reused EFI partition is protected no mount of the session shows the
\* whole of it writable: the staging mount is gone for good and the ordinary
\* EFI mount cannot come back, whatever failed on the way.
EspShielded ==
    protected => \A m \in table : ~(m.dev = "esp" /\ m.whole /\ m.rw)

\* From the moment an NTFS inspection has started, even a failed one, no
\* partition is mounted under the names it would have on a wiped disk.
NtfsNeverFallsBack ==
    started => \A m \in table : m.dev \notin {"first", "second"}

\* The call stands at a request to the supervisor.
Asking ==
    IF ~Free THEN inner.step = "run"
    ELSE \/ outer.step \in {"mount", "look", "close", "stage", "base", "remount",
                            "vendor", "unstage", "idle", "last"}
         \/ outer.step = "next" /\ todo # {}

\* A call of the session ends, with every mount that refuses to go, or it waits
\* for the answer to one request for ever; it never goes round, asking again.
CallsEnd ==
    []<>Calm \/ (<>[]Asking /\ <>[][FALSE]_<<outer, inner, todo>>)

=============================================================================
