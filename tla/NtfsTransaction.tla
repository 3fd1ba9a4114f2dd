--------------------------- MODULE NtfsTransaction ---------------------------
(***************************************************************************)
(* One NTFS shrink: the isolated worker (linux/                            *)
(* ro_installer_ntfs_transaction.py) shrinks the source file system with   *)
(* ntfsresize (ro_installer_ntfs.py), writes the backup and then the       *)
(* primary GPT, has the kernel read the new table and reopens the shorter  *)
(* source (ro_installer_ntfs_commit.py).  The supervisor turns what the    *)
(* worker says, or its silence, into the verdict.                          *)
(*                                                                         *)
(* The medium is three places, each with what a reader sees (page) and     *)
(* what a power loss is sure to find (disk).  A check reads everything     *)
(* twice; since a foreign change is never undone, it is one step here: the *)
(* moment its second pass begins.  Any step may also fail for reasons of   *)
(* its own (I/O errors, deadlines, tools).                                 *)
(***************************************************************************)
EXTENDS Naturals, FiniteSets

CONSTANTS
    MaxUpsets   \* bound: how often someone else interferes

ASSUME UpsetsAssumption == MaxUpsets \in Nat

VARIABLES
    pc,         \* what the worker does next
    copy,       \* the GPT copy whose turn it is
    page,       \* place -> what reading it returns
    disk,       \* place -> what has been flushed
    kview,      \* the source partition the kernel shows
    native,     \* the ntfsresize process
    descs,      \* descriptions of the source partition the worker holds
    changed,    \* sourceMayHaveChanged
    started,    \* gptWriteStarted
    copies,     \* verifiedGptCopies
    dirty,      \* cleanupFailed
    fault,      \* the phase that failed
    answer,     \* what the worker printed
    verdict,    \* what the supervisor made of it
    upsets      \* interference by others so far, and when it came

vars == <<pc, copy, page, disk, kview, native, descs, changed, started, copies,
          dirty, fault, answer, verdict, upsets>>

Copies == {"backup", "primary"}
Places == Copies \cup {"fs"}
Other(c) == IF c = "backup" THEN "primary" ELSE "backup"

\* A table is "old" or "new" (the source's end moved, a root entry added);
\* "part" does not match its own checksums, "foreign" is none of ours.
Contents == {"old", "part", "new", "foreign"}

Before == {"context", "power", "admission", "handover", "prepare"}
Resizing == {"launch", "native", "flush", "filesystem", "tables"}
Writing == {"check", "entries", "header", "fsync", "verify"}
Kernel == {"final", "release", "close", "identity", "reread", "ready",
           "source", "cleanup", "leave"}
Running == Before \cup Resizing \cup Writing \cup Kernel
Working == Running \cup {"unwind", "answer"}

Dups == {"readerDup", "writerDup"}
Alive == {"running", "stuck"}

Phases == {"admission", "context", "power", "prepare", "native", "filesystem",
           "gpt.prepare", "gpt.backup", "gpt.primary", "gpt.verify", "cleanup",
           "kernel.close", "kernel.identity", "kernel.reread", "kernel.ready",
           "kernel.source", "kernel.cleanup"}

Answers ==
    [status : {"none", "success", "failed"},
     phase : Phases \cup {"none", "unknown"},
     known : BOOLEAN, changed : BOOLEAN, started : BOOLEAN, copies : 0..2,
     cleanup : BOOLEAN]
Answer(s, p, k, c, g, n, d) ==
    [status |-> s, phase |-> p, known |-> k, changed |-> c, started |-> g,
     copies |-> n, cleanup |-> d]
NoAnswer == Answer("none", "none", FALSE, FALSE, FALSE, 0, FALSE)
Success == Answer("success", "none", TRUE, TRUE, TRUE, 2, FALSE)
Failure(p, c, g, n, d) == Answer("failed", p, TRUE, c, g, n, d)
Unknown(d) == Answer("failed", "unknown", FALSE, TRUE, TRUE, 0, d)

Init ==
    /\ pc = "context" /\ copy = "backup"
    /\ page = [p \in Places |-> "old"] /\ disk = [p \in Places |-> "old"]
    /\ kview = "old" /\ native = "none" /\ descs = {}
    /\ changed = FALSE /\ started = FALSE /\ copies = 0 /\ dirty = FALSE
    /\ fault = "none" /\ answer = NoAnswer /\ verdict = NoAnswer
    /\ upsets = {}

-----------------------------------------------------------------------------
(* What the worker checks.                                                 *)

\* Lease, namespace, parent, platform and the whole disk's identity.
Owned == \A u \in upsets : u.kind # "context"

\* Both copies read back as they should once those in `written` are new.
InView(written) ==
    \A c \in Copies : page[c] = IF c \in written THEN "new" ELSE "old"
Done == IF copy = "backup" THEN {} ELSE {"backup"}

\* inspect_resized_fd: boot sector, metadata and volume size of the target.
Shrunk == page["fs"] = "new"

Proceed(p) == pc' = p /\ UNCHANGED fault
Refuse(phase) == pc' = "unwind" /\ fault' = phase
GptPhase == IF copy = "backup" THEN "gpt.backup" ELSE "gpt.primary"

Flushed(S) == [p \in Places |-> IF p \in S THEN page[p] ELSE disk[p]]
Put(p, v) == page' = [page EXCEPT ![p] = v]

\* All that a step which only looks leaves alone, and smaller frames.
looked == <<copy, page, disk, kview, native, descs, changed, started, copies,
            dirty, answer, verdict, upsets>>
closing == <<copy, page, disk, kview, native, changed, started, copies,
             answer, verdict, upsets>>

-----------------------------------------------------------------------------
(* Admission.                                                              *)

TakeContext ==
    /\ pc = "context"
    /\ (Owned /\ Proceed("power")) \/ Refuse("context")
    /\ UNCHANGED looked

HoldPower ==
    /\ pc = "power"
    /\ Proceed("admission") \/ Refuse("power")
    /\ UNCHANGED looked

\* BlockNtfsTransaction: the writer excludes every other claim on the source.
OpenSources ==
    /\ pc = "admission"
    /\ \/ Owned /\ kview = "old" /\ Proceed("handover")
          /\ descs' = {"reader", "writer"}
       \/ Refuse("admission") /\ UNCHANGED descs
    /\ UNCHANGED closing /\ UNCHANGED dirty

\* execute closes its own descriptor of the whole disk.
HandOver ==
    /\ pc = "handover"
    /\ \/ Proceed("prepare") /\ UNCHANGED dirty
       \/ Refuse("cleanup") /\ dirty' = TRUE
    /\ UNCHANGED closing /\ UNCHANGED descs

\* Duplicates, source binding, table and preparation against the approval.
Prepare ==
    /\ pc = "prepare"
    /\ descs' = descs \cup Dups
    /\ (Owned /\ InView({}) /\ Proceed("launch")) \/ Refuse("prepare")
    /\ UNCHANGED closing /\ UNCHANGED dirty

-----------------------------------------------------------------------------
(* run_native_resize and its child.                                        *)

\* Extent and tools are checked first; a child that never ran changed nothing.
Launch ==
    /\ pc = "launch"
    /\ \/ Proceed("native") /\ native' = "running" /\ changed' = TRUE
          /\ descs' = descs \cup {"owned"} /\ UNCHANGED dirty
       \/ Refuse("native") /\ dirty' \in BOOLEAN
          /\ UNCHANGED <<native, changed, descs>>
    /\ UNCHANGED <<copy, page, disk, kview, started, copies, answer, verdict,
                   upsets>>

NativeWrites ==
    /\ native \in Alive /\ page["fs"] # "new"
    /\ \E v \in {"part", "new"} : Put("fs", v)
    /\ UNCHANGED <<pc, copy, disk, kview, native, descs, changed, started,
                   copies, dirty, fault, answer, verdict, upsets>>

\* The child ends, with status 0 or not; one that is stuck dies in the end.
NativeEnds ==
    /\ \/ native = "running" /\ native' \in {"exited", "crashed"}
       \/ native = "stuck" /\ native' = "gone"
    /\ UNCHANGED <<pc, copy, page, disk, kview, descs, changed, started,
                   copies, dirty, fault, answer, verdict, upsets>>

\* It exited with 0 and left no group behind.
NativeFinishes ==
    /\ pc = "native" /\ native = "exited"
    /\ native' = "gone" /\ Proceed("flush")
    /\ UNCHANGED <<copy, page, disk, kview, descs, changed, started, copies,
                   dirty, answer, verdict, upsets>>

\* Status, deadline or output limit: the group is killed.  A member that
\* survives SIGKILL is reported as a failed cleanup.
\* Mutant: the child is waited for without a deadline.
NativeFailsAtExit ==
    /\ pc = "native" /\ native \notin Alive
    /\ native' = "gone" /\ dirty' \in BOOLEAN
    /\ descs' = descs \ {"owned"}
    /\ Refuse("native")
    /\ UNCHANGED <<copy, page, disk, kview, changed, started, copies, answer,
                   verdict, upsets>>
NativeFails ==
    /\ pc = "native"
    /\ native' \in IF native \in Alive THEN {"gone", "stuck"} ELSE {"gone"}
    /\ dirty' \in BOOLEAN /\ (native' = "stuck" => dirty')
    /\ descs' = descs \ {"owned"}
    /\ Refuse("native")
    /\ UNCHANGED <<copy, page, disk, kview, changed, started, copies, answer,
                   verdict, upsets>>

\* fsync of the partition, then the runner's own descriptor is closed.
\* Mutant: a resize that is not flushed.
NativeUnflushed ==
    /\ pc = "flush"
    /\ descs' = descs \ {"owned"}
    /\ \/ Proceed("filesystem") /\ UNCHANGED <<disk, dirty>>
       \/ Refuse("native") /\ disk' \in {disk, Flushed({"fs"})}
          /\ dirty' \in BOOLEAN
    /\ UNCHANGED <<copy, page, kview, native, changed, started, copies,
                   answer, verdict, upsets>>
NativeFlush ==
    /\ pc = "flush"
    /\ descs' = descs \ {"owned"}
    /\ \/ Proceed("filesystem") /\ disk' = Flushed({"fs"}) /\ UNCHANGED dirty
       \/ Refuse("native") /\ disk' \in {disk, Flushed({"fs"})}
          /\ dirty' \in BOOLEAN
    /\ UNCHANGED <<copy, page, kview, native, changed, started, copies,
                   answer, verdict, upsets>>

CheckFilesystem ==
    /\ pc = "filesystem"
    /\ (Owned /\ Shrunk /\ Proceed("tables")) \/ Refuse("filesystem")
    /\ UNCHANGED looked

-----------------------------------------------------------------------------
(* commit_ntfs_gpt: the backup copy, then the primary.                     *)

PlanTables ==
    /\ pc = "tables"
    /\ (Owned /\ InView({}) /\ Proceed("check")) \/ Refuse("gpt.prepare")
    /\ UNCHANGED looked

\* Mutant: the view is not read again before a group.
CheckOwnerOnly ==
    /\ pc = "check"
    /\ (Owned /\ Proceed("entries")) \/ Refuse(GptPhase)
    /\ UNCHANGED looked
CheckGroup ==
    /\ pc = "check"
    /\ (Owned /\ InView(Done) /\ Proceed("entries")) \/ Refuse(GptPhase)
    /\ UNCHANGED looked

\* A write that fails may have written something.
\* Mutant: an attempt counts only once it succeeded.
WriteEntriesLateFlag ==
    /\ pc = "entries"
    /\ \/ Proceed("header") /\ Put(copy, "part") /\ started' = TRUE
       \/ Refuse(GptPhase) /\ (Put(copy, "part") \/ UNCHANGED page)
          /\ UNCHANGED started
    /\ UNCHANGED <<copy, disk, kview, native, descs, changed, copies, dirty,
                   answer, verdict, upsets>>
WriteEntries ==
    /\ pc = "entries"
    /\ started' = TRUE
    /\ \/ Proceed("header") /\ Put(copy, "part")
       \/ Refuse(GptPhase) /\ (Put(copy, "part") \/ UNCHANGED page)
    /\ UNCHANGED <<copy, disk, kview, native, descs, changed, copies, dirty,
                   answer, verdict, upsets>>

\* The header completes our entries only.
WriteHeader ==
    /\ pc = "header"
    /\ \/ Proceed("fsync")
          /\ Put(copy, IF page[copy] = "part" THEN "new" ELSE "part")
       \/ Refuse(GptPhase) /\ (Put(copy, "part") \/ UNCHANGED page)
    /\ UNCHANGED <<copy, disk, kview, native, descs, changed, started, copies,
                   dirty, answer, verdict, upsets>>

\* Mutant: the groups are left to the kernel's writeback.
SyncTablesLater ==
    /\ pc = "fsync"
    /\ \/ Proceed("verify") /\ UNCHANGED disk
       \/ Refuse(GptPhase) /\ disk' \in {disk, Flushed(Copies)}
    /\ UNCHANGED <<copy, page, kview, native, descs, changed, started, copies,
                   dirty, answer, verdict, upsets>>
SyncTables ==
    /\ pc = "fsync"
    /\ \/ Proceed("verify") /\ disk' = Flushed(Copies)
       \/ Refuse(GptPhase) /\ disk' \in {disk, Flushed(Copies)}
    /\ UNCHANGED <<copy, page, kview, native, descs, changed, started, copies,
                   dirty, answer, verdict, upsets>>

VerifyGroup ==
    /\ pc = "verify"
    /\ \/ /\ InView(Done \cup {copy})
          /\ copies' = copies + 1 /\ copy' = "primary"
          /\ Proceed(IF copy = "backup" THEN "check" ELSE "final")
       \/ Refuse(GptPhase) /\ UNCHANGED <<copy, copies>>
    /\ UNCHANGED <<page, disk, kview, native, descs, changed, started, dirty,
                   answer, verdict, upsets>>

VerifyTables ==
    /\ pc = "final"
    /\ (InView(Copies) /\ Owned /\ Proceed("release")) \/ Refuse("gpt.verify")
    /\ UNCHANGED looked

\* The duplicates; close lets go of a descriptor even when it fails.
ReleaseDuplicates ==
    /\ pc = "release"
    /\ descs' = descs \ Dups
    /\ \/ Proceed("close") /\ UNCHANGED dirty
       \/ Refuse("cleanup") /\ dirty' = TRUE
    /\ UNCHANGED closing

-----------------------------------------------------------------------------
(* The kernel's turn (BlockNtfsTransaction.run).                           *)

CloseSources ==
    /\ pc = "close"
    /\ descs' = descs \ {"reader", "writer"}
    /\ \/ Proceed("identity") /\ UNCHANGED dirty
       \/ Refuse("kernel.close") /\ dirty' = TRUE
    /\ UNCHANGED closing

CheckIdentity ==
    /\ pc = "identity"
    /\ (Owned /\ Proceed("reread")) \/ Refuse("kernel.identity")
    /\ UNCHANGED looked

\* BLKRRPART is refused while any partition of the disk is open.
Reread ==
    /\ pc = "reread"
    /\ \/ descs = {} /\ native \notin Alive
          /\ Proceed("ready") /\ kview' = "changing"
       \/ Refuse("kernel.reread") /\ UNCHANGED kview
    /\ UNCHANGED <<copy, page, disk, native, descs, changed, started, copies,
                   dirty, answer, verdict, upsets>>

\* The kernel takes the primary copy, or the backup if that is broken.
KernelReads ==
    IF page["primary"] = "part" THEN page["backup"] ELSE page["primary"]
KernelPublishes ==
    /\ kview = "changing" /\ kview' = KernelReads
    /\ UNCHANGED <<pc, copy, page, disk, native, descs, changed, started,
                   copies, dirty, fault, answer, verdict, upsets>>

\* Polls until the kernel shows the table or KERNEL_TIMEOUT has passed; a
\* table that changed meanwhile is refused at once.
AwaitKernel ==
    /\ pc = "ready"
    /\ \/ Owned /\ InView(Copies) /\ kview = "new" /\ Proceed("source")
       \/ Refuse("kernel.ready")
    /\ UNCHANGED looked

\* Mutant: the last look at the table is left out.
CheckFreshHastily ==
    /\ pc = "source"
    /\ descs' = descs \cup {"fresh"}
    /\ (Shrunk /\ Proceed("cleanup")) \/ Refuse("kernel.source")
    /\ UNCHANGED closing /\ UNCHANGED dirty
CheckFreshSource ==
    /\ pc = "source"
    /\ descs' = descs \cup {"fresh"}
    /\ \/ Shrunk /\ Owned /\ InView(Copies) /\ kview = "new"
          /\ Proceed("cleanup")
       \/ Refuse("kernel.source")
    /\ UNCHANGED closing /\ UNCHANGED dirty

CloseFresh ==
    /\ pc = "cleanup"
    /\ descs' = descs \ {"fresh"}
    /\ \/ Proceed("leave") /\ UNCHANGED dirty
       \/ Refuse("kernel.cleanup") /\ dirty' = TRUE
    /\ UNCHANGED closing

-----------------------------------------------------------------------------
(* What is said.                                                           *)

\* Adapter, inhibitor and context close after the last check.
LeaveContext ==
    /\ pc = "leave"
    /\ pc' = "answer" /\ UNCHANGED fault
    /\ answer' \in {Success, Failure("cleanup", TRUE, TRUE, 2, TRUE)}
    /\ UNCHANGED <<copy, page, disk, kview, native, descs, changed, started,
                   copies, dirty, verdict, upsets>>

\* io.run has been called.
Entered == fault \notin {"context", "power", "admission"}
           /\ (fault = "cleanup" => changed)

\* Every failure closes what is open and reports how far it had got; when the
\* inhibitor fails to close, its error takes the place of the first.
Unwind ==
    /\ pc = "unwind"
    /\ descs' = {}
    /\ dirty' \in {dirty, TRUE}
    /\ \/ answer' = Failure(fault, changed, started, copies, dirty')
       \/ Entered /\ \E d \in BOOLEAN : answer' = Unknown(d)
    /\ pc' = "answer" /\ UNCHANGED fault
    /\ UNCHANGED <<copy, page, disk, kview, native, changed, started, copies,
                   verdict, upsets>>

SayAnswer ==
    /\ pc = "answer"
    /\ pc' = "exited" /\ answer' \in {answer, NoAnswer}
    /\ UNCHANGED <<copy, page, disk, kview, native, descs, changed, started,
                   copies, dirty, fault, verdict, upsets>>

\* Killed at the supervisor's deadline, out of memory, a resource limit.
WorkerDies ==
    /\ pc \in Working
    /\ pc' = "exited" /\ answer' = NoAnswer /\ descs' = {}
    /\ UNCHANGED <<copy, page, disk, kview, native, changed, started, copies,
                   dirty, fault, verdict, upsets>>

\* normalize_ntfs_outcome: what the supervisor takes for a worker's answer.
Acceptable(a) ==
    \/ a.status = "success"
    \/ /\ a.status = "failed" /\ a.phase \in Phases \cup {"unknown"}
       /\ ~a.changed => ~a.started /\ a.copies = 0
       /\ a.copies > 0 => a.started
       /\ ~a.known => a.phase = "unknown" /\ a.changed /\ a.started
                      /\ a.copies = 0

\* The supervisor kills what the worker left behind and then reads.
Conclude ==
    /\ pc = "exited" /\ pc' = "ended"
    /\ native' \in IF native \in Alive THEN {"gone", "stuck"}
                   ELSE IF native = "none" THEN {"none"} ELSE {"gone"}
    /\ \/ native \notin Alive /\ Acceptable(answer) /\ verdict' = answer
       \/ \E d \in BOOLEAN : (native \in Alive => d) /\ verdict' = Unknown(d)
    /\ UNCHANGED <<copy, page, disk, kview, descs, changed, started, copies,
                   dirty, fault, answer, upsets>>

-----------------------------------------------------------------------------
(* The others.                                                             *)

\* Reading it and finding it after a power loss give the same, whole table.
Whole(c) == page[c] = disk[c] /\ page[c] \in {"old", "new"}

\* Someone writes a table behind the worker's back, or the context (lease,
\* namespace, parent, disk) is lost.  `spare`: the other copy was whole.
Upset(k) ==
    [kind |-> k, pc |-> pc, copy |-> copy,
     spare |-> k = "context" \/ Whole(Other(k))]
Disturb ==
    /\ pc \notin {"ended", "off"} /\ Cardinality(upsets) < MaxUpsets
    /\ \E k \in Copies \cup {"context"} :
        /\ upsets' = upsets \cup {Upset(k)}
        /\ IF k = "context" THEN UNCHANGED page ELSE Put(k, "foreign")
    /\ UNCHANGED <<pc, copy, disk, kview, native, descs, changed, started,
                   copies, dirty, fault, answer, verdict>>

\* What was not flushed is there, is not, or is half there.
AfterLoss(p) ==
    IF page[p] = disk[p] THEN {page[p]} ELSE {page[p], disk[p], "part"}
PowerLoss ==
    /\ pc # "off" /\ pc' = "off"
    /\ page' \in {f \in [Places -> Contents] :
                    \A p \in Places : f[p] \in AfterLoss(p)}
    /\ disk' = page'
    /\ native' = (IF native = "none" THEN "none" ELSE "gone") /\ descs' = {}
    /\ UNCHANGED <<copy, kview, changed, started, copies, dirty, fault,
                   answer, verdict, upsets>>

Worker ==
    \/ TakeContext \/ HoldPower \/ OpenSources \/ HandOver \/ Prepare
    \/ Launch \/ NativeFinishes \/ NativeFails \/ NativeFlush
    \/ CheckFilesystem \/ PlanTables \/ CheckGroup \/ WriteEntries
    \/ WriteHeader \/ SyncTables \/ VerifyGroup \/ VerifyTables
    \/ ReleaseDuplicates \/ CloseSources \/ CheckIdentity \/ Reread
    \/ AwaitKernel \/ CheckFreshSource \/ CloseFresh \/ LeaveContext
    \/ Unwind \/ SayAnswer

Next ==
    \/ Worker \/ NativeWrites \/ NativeEnds \/ KernelPublishes
    \/ WorkerDies \/ Conclude \/ Disturb \/ PowerLoss

Spec == Init /\ [][Next]_vars

\* Every wait of the worker has a deadline, and the supervisor waits for it
\* and for nothing else.  The child may hang for ever.
FairSpec == Spec /\ WF_vars(Worker) /\ WF_vars(Conclude)

-----------------------------------------------------------------------------
(* Properties.                                                             *)

MediumType ==
    /\ pc \in Working \cup {"exited", "ended", "off"} /\ copy \in Copies
    /\ page \in [Places -> Contents] /\ disk \in [Places -> Contents]
    /\ kview \in Contents \cup {"changing"}
    /\ native \in Alive \cup {"none", "exited", "crashed", "gone"}
    /\ descs \subseteq Dups \cup {"reader", "writer", "owned", "fresh"}
    /\ copies \in 0..2 /\ fault \in Phases \cup {"none"}
FlagType == changed \in BOOLEAN /\ started \in BOOLEAN /\ dirty \in BOOLEAN
AnswerType == answer \in Answers /\ verdict \in Answers
UpsetType ==
    upsets \subseteq [kind : Copies \cup {"context"},
                      pc : Working \cup {"exited"}, copy : Copies,
                      spare : BOOLEAN]
TypeOK == MediumType /\ FlagType /\ AnswerType /\ UpsetType

Untouched(p) == page[p] \in {"old", "foreign"}

\* u changed the copy being written between its check and the first write.
Overwritten(u) == u.kind = u.copy /\ u.pc = "entries"

\* u came while a check stood between the worker and writing place p.
Precedes(u, p) ==
    \/ u.pc \in Before
    \/ p \in Copies /\ u.pc \in Resizing
    \/ p = "backup" /\ u.pc = "check" /\ u.copy = "backup"
    \/ p = "primary" /\ u.pc \in (IF u.copy = "backup" THEN Writing ELSE {"check"})

\* Nothing is written once the approval has gone stale: interference before
\* the resize, before the backup group or before the primary group keeps the
\* worker from that write and all later ones.  Only a change of the very copy
\* about to be overwritten, after its check, goes unnoticed.
StaleWritesNothing ==
    pc # "off" => \A u \in upsets, p \in Places :
        Precedes(u, p) /\ ~Overwritten(u) => Untouched(p)

\* u hit the one whole copy, or did so right after the worker had made sure
\* that it was there.
Fatal(u) ==
    /\ u.kind \in Copies
    /\ ~u.spare \/ (u.pc = "entries" /\ u.kind = Other(u.copy))

\* Losing power at any moment leaves a whole table, unless somebody else broke
\* the copy the other one depended on; and a table that ends the source
\* earlier is found only around a file system that is shorter already.
SurvivesPowerLoss ==
    pc = "off" =>
        /\ (\A u \in upsets : ~Fatal(u)) =>
               \E c \in Copies : page[c] \in {"old", "new"}
        /\ \A c \in Copies : page[c] = "new" => page["fs"] = "new"

\* No table is written, and the kernel is shown none, before the file system
\* has its new size on the medium and ntfsresize is gone.
FilesystemFirst ==
    started \/ kview = "new" =>
        native = "gone" /\ page["fs"] = "new" /\ disk["fs"] = "new"

\* The worker never stands in its own way when the kernel is to reread: every
\* description of the source, the child's copies included, is closed.
RereadUnobstructed ==
    pc \in {"identity", "reread", "ready"} => descs = {} /\ native \notin Alive

\* A failed verdict never claims less than happened nor more than is durable,
\* and one that leaves a writer behind says that cleanup failed.
HonestVerdict ==
    verdict.status # "none" /\ pc # "off" =>
        /\ ~verdict.changed => page["fs"] = "old" /\ native = "none"
        /\ ~verdict.started => \A c \in Copies : Untouched(c)
        /\ verdict.copies > 0 => disk["backup"] \in {"new", "foreign"}
        /\ verdict.copies = 2 => disk["primary"] \in {"new", "foreign"}
        /\ native \in Alive => verdict.cleanup

\* Success means shrunk, committed in both copies, flushed, shown by the kernel
\* and let go of; a table broken by others by then was so after the last look.
SuccessIsComplete ==
    verdict.status = "success" /\ pc # "off" =>
        /\ \A p \in Places : disk[p] = "new"
        /\ page["fs"] = "new" /\ kview = "new"
        /\ native = "gone" /\ descs = {}
        /\ \A c \in Copies : page[c] = "new"
               \/ \E u \in upsets : /\ u.kind = c
                                    /\ u.pc \in {"cleanup", "leave",
                                                 "answer", "exited"}

\* The supervisor never finds a worker's report contradictory and so never
\* replaces what is known by "unknown" for its form.
AnswerUnderstood == answer.status # "none" => Acceptable(answer)

Durable == native = "gone" /\ page["fs"] = "new" /\ disk["fs"] = "new"
Promise == INSTANCE StorageCommit WITH
    volume <- IF Durable THEN "new" ELSE IF changed THEN "mixed" ELSE "old",
    table <- IF copies = 2 THEN "new" ELSE IF started THEN "mixed" ELSE "old",
    said <- CASE verdict.status = "none" -> "none"
              [] verdict.status = "success" -> "success"
              [] verdict.status = "failed" ->
                     IF ~verdict.known THEN "unknown"
                     ELSE IF ~verdict.changed THEN "unchanged"
                     ELSE IF ~verdict.started THEN "resized" ELSE "partial"

\* The worker and its supervisor do what StorageCommit promises: file system
\* before table, nothing undone, and a verdict that fits.
KeepsPromise == Promise!Spec

\* However the child behaves, the supervisor gets to a verdict.
TransactionEnds == <>(pc \in {"ended", "off"})

-----------------------------------------------------------------------------
(* The inductive invariant of the proofs.                                  *)

\* Where the child and the file system stand in each part of the run.
ChildInv ==
    /\ changed <=> native # "none"
    /\ ~changed => page["fs"] = "old" /\ disk["fs"] = "old"
    /\ pc \in Before \cup {"launch"} => ~changed
    /\ pc = "native" => changed
    /\ pc \in {"flush", "filesystem", "tables"} \cup Writing \cup Kernel
           => native = "gone"
    /\ pc \in {"filesystem", "tables"} \cup Writing \cup Kernel
           => page["fs"] = disk["fs"]
    /\ pc \in {"tables"} \cup Writing \cup Kernel => page["fs"] = "new"
    /\ started => native = "gone" /\ page["fs"] = "new" /\ disk["fs"] = "new"
    /\ kview \in {"new", "changing"} => started
    /\ pc = "off" => native \notin Alive
    /\ disk["fs"] = "new" => native = "gone"

\* How far the tables are.
CountInv ==
    /\ copies = 0 <=> copy = "backup"
    /\ copies > 0 => started
    /\ pc \in Before \cup Resizing => ~started
    /\ pc \in {"check", "entries"} /\ copy = "backup" => ~started
    /\ pc \in {"header", "fsync", "verify"} => started
    /\ pc \in Writing /\ copy = "primary" => copies = 1
    /\ pc \in Kernel => copies = 2
    /\ ~started => \A c \in Copies : page[c] # "new" /\ disk[c] # "new"

\* What a written copy looks like, seen and flushed.
CopyInv ==
    pc # "off" =>
        /\ ~started => \A c \in Copies : Untouched(c)
        /\ copy = "backup" => Untouched("primary")
        /\ pc \in {"check", "entries"} => Untouched(copy)
        /\ pc = "header" => page[copy] \in {"part", "foreign"}
        /\ pc = "fsync" => page[copy] # "old"
        /\ pc \in {"entries", "header", "fsync"} => disk[copy] = "old"
        /\ \A c \in Copies : page[c] = "old" => disk[c] = "old"
        /\ copies > 0 => /\ page["backup"] \in {"new", "foreign"}
                         /\ disk["backup"] \in {"new", "foreign"}
                         /\ page["backup"] = "new" => disk["backup"] = "new"
        /\ copies = 2 => /\ page["primary"] \in {"new", "foreign"}
                         /\ disk["primary"] \in {"new", "foreign"}
                         /\ page["primary"] = "new" => disk["primary"] = "new"
        /\ pc = "verify" /\ page[copy] = "new" => disk[copy] = "new"

\* Unless others see to it, one copy is whole; while one is being written, it
\* is the other.
WholeInv ==
    pc # "off" /\ (\A u \in upsets : ~Fatal(u)) =>
        /\ \E c \in Copies : Whole(c)
        /\ pc \in {"entries", "header", "fsync"} => Whole(Other(copy))

\* The next check sees u, or it has been overwritten.
Noticed(u) ==
    \/ Overwritten(u) \/ u.kind = "context" \/ page[u.kind] = "foreign"
    \/ pc \in {"fsync", "verify"} /\ u.kind = copy /\ page[copy] = "part"
\* The worker has passed the last check before it writes place p.
Past(p) ==
    CASE p = "fs" -> pc \in Resizing \cup Writing \cup Kernel
      [] p = "backup" -> \/ pc \in Kernel \cup (Writing \ {"check"})
                         \/ pc = "check" /\ copy = "primary"
      [] p = "primary" -> \/ pc \in Kernel
                          \/ pc \in Writing \ {"check"} /\ copy = "primary"
NoticeInv ==
    /\ pc \in Running => \A u \in upsets : Noticed(u)
    /\ pc = "entries" =>
           \A u \in upsets : u.kind = copy => Overwritten(u)
    /\ \A u \in upsets, p \in Places :
           Precedes(u, p) /\ ~Overwritten(u) => ~Past(p)
    /\ \A u \in upsets : u.pc \in Before => ~changed

\* The descriptions open in each part of the run.
Sources == {"reader", "writer"}
DescInv ==
    /\ pc \in {"context", "power", "admission", "identity", "reread", "ready",
               "source", "leave", "answer", "exited", "ended", "off"}
           => descs = {}
    /\ pc \in {"handover", "prepare", "close"} => descs \subseteq Sources
    /\ pc \in {"launch", "filesystem", "tables", "final", "release"}
              \cup Writing => descs \subseteq Sources \cup Dups
    /\ pc \in {"native", "flush"} => descs \subseteq Sources \cup Dups \cup {"owned"}
    /\ pc = "cleanup" => descs \subseteq {"fresh"}

\* What a success rests on, from the last look on.
Final ==
    /\ \A p \in Places : disk[p] = "new"
    /\ page["fs"] = "new" /\ kview = "new" /\ native = "gone"
    /\ \A c \in Copies : page[c] = "new"
           \/ \E u \in upsets : /\ u.kind = c
                                /\ u.pc \in {"cleanup", "leave", "answer",
                                             "exited"}
AnswerInv ==
    /\ pc = "unwind" => fault \in Phases
    /\ answer.status # "none" => /\ pc \in {"answer", "exited", "ended", "off"}
                                 /\ Acceptable(answer)
    /\ answer.status # "none" =>
           /\ ~answer.changed => ~changed
           /\ ~answer.started => ~started
           /\ answer.copies <= copies
    /\ verdict.status # "none" =>
           /\ pc \in {"ended", "off"}
           /\ ~verdict.changed => ~changed
           /\ ~verdict.started => ~started
           /\ verdict.copies <= copies
           /\ native \in Alive => verdict.cleanup
    /\ verdict.status = "success" => answer.status = "success"
    /\ pc \in {"cleanup", "leave"} => Final
    /\ answer.status = "success" => copies = 2 /\ (pc # "off" => Final)

IInv ==
    /\ TypeOK /\ ChildInv /\ CountInv /\ CopyInv /\ WholeInv /\ NoticeInv
    /\ StaleWritesNothing /\ SurvivesPowerLoss /\ DescInv /\ AnswerInv
=============================================================================
