--------------------------- MODULE InstallPipeline ---------------------------
(***************************************************************************)
(* One installation: InstallService.runInstall and the nine stages it      *)
(* executes in order (lib/services/install_service.dart, install_stages/). *)
(* The checks that stand before every write are steps of their own, so     *)
(* that the disk can change between a check and the write that trusts it:  *)
(* the medium can be exchanged under the same name, another program can    *)
(* write its partition table, and the kernel adopts a new table late.      *)
(*                                                                         *)
(* Mounts are reduced to whether anything of ours is mounted (MountSession *)
(* has the detail), the helper's side of the gate to its answer            *)
(* (MutationGate has the detail).  The engine can be killed at any step.   *)
(***************************************************************************)
EXTENDS Integers, FiniteSets

CONSTANTS
    MaxTries    \* probes of a new layout (20, or as many as fit in 5 s)

ASSUME TriesAssumption == MaxTries \in Nat \ {0}

VARIABLES
    req,        \* the request: what was approved
    pc,         \* the step runInstall is in
    stage,      \* the stage it last began, 0 before the first
    left,       \* table writes the partitioning still has to make
    tries,      \* probes of the new layout so far
    medium,     \* the disk behind selectedDisk: the approved one or another
    table,      \* the partition table on it
    kernel,     \* whether the partition nodes are those of table
    early,      \* the disk changed before its new layout was accepted
    late,       \* the disk changed after that
    gate,       \* the first-mutation gate
    wrote,      \* a command that writes the target has been started
    formatted,  \* the roles whose approved partition has its file system
    stray,      \* partitions formatted that are not the approved ones
    placed,     \* where the root file system mounted at /mnt lives
    session,    \* the MountSession
    held,       \* something of this session is mounted
    report,     \* the last cleanup report
    primary,    \* primaryFailure
    succeeded,  \* stagesSucceeded
    outcome     \* what runInstall, and the engine after it, answered

device   == <<medium, table, kernel, early, late>>
target   == <<wrote, formatted, stray, placed>>
mounts   == <<session, held, report>>
vars     == <<req, pc, stage, left, tries, medium, table, kernel, early, late,
              gate, wrote, formatted, stray, placed, session, held, report,
              primary, succeeded, outcome>>

Roles == {"esp", "root"}

\* partitionMethod, whether a confirmed plan came with it, the partitions to
\* create and those to format, and whether it passes runInstall's first checks.
\* Full without a plan is the legacy path.  A manual plan always formats root,
\* and formats the EFI partition it creates.
Request(m, p, n, f, v) ==
    [mode |-> m, plan |-> p, new |-> n, format |-> f, check |-> v]
ManualRequests ==
    {Request("manual", TRUE, n, f, "ok") :
        n \in SUBSET Roles, f \in {Roles, {"root"}}}
Requests ==
    {Request("full", p, Roles, Roles, "ok") : p \in BOOLEAN}
    \cup {Request("free_space", TRUE, Roles, Roles, "ok")}
    \cup {r \in ManualRequests : "esp" \in r.new => "esp" \in r.format}
    \cup {Request("full", TRUE, Roles, Roles, v) : v \in {"mode", "stale"}}

Full     == req.mode = "full"
Verified == ~Full               \* modes that compare GUIDs and fingerprints
Confirmed == req.plan

\* The table the stages after partitioning count on.
Goal == IF req.new = {} THEN "source" ELSE "created"
\* Probing finds it: the approved disk, both GPT copies, the kernel's view.
InPlace == medium = "approved" /\ table = Goal /\ kernel = "current"
\* What the approval of a verified mode was built on.
AsApproved == medium = "approved" /\ table = "source" /\ kernel = "current"

Causes == {"none", "UNSUPPORTED_MODE", "PREFLIGHT_FAILED",
           "UNSUPPORTED_PLATFORM", "PLATFORM_CHECK_FAILED",
           "INSTALL_EXCEPTION", "STAGE_FAILED", "SESSION_REJECTED"}

Outcomes == [said : {"none", "OK", "INSTALL_FAILED", "BACKEND_ERROR"},
             cause : Causes, clean : BOOLEAN]
Outcome(cause, clean) == [said |-> "none", cause |-> cause, clean |-> clean]
NoOutcome == Outcome("none", FALSE)

Init ==
    /\ req \in Requests
    /\ pc = "check" /\ stage = 0 /\ left = 0 /\ tries = 0
    /\ medium = "approved" /\ table = "source" /\ kernel = "current"
    /\ early = FALSE /\ late = FALSE
    /\ gate = "closed"
    /\ wrote = FALSE /\ formatted = {} /\ stray = 0 /\ placed = "nowhere"
    /\ session = "none" /\ held = FALSE /\ report = "none"
    /\ primary = "none" /\ succeeded = FALSE /\ outcome = NoOutcome

-----------------------------------------------------------------------------
(* How a step ends.                                                        *)

Go(p) == pc' = p /\ UNCHANGED <<stage, primary>>
Begin(n, p) == pc' = p /\ stage' = n /\ UNCHANGED primary
Abort(cause) == pc' = "finally" /\ primary' = cause /\ UNCHANGED stage

StageFailed == Abort("STAGE_FAILED")
Thrown == Abort("INSTALL_EXCEPTION")
Broken == StageFailed \/ Thrown
\* The verified modes partition inside a try that makes every failure a result.
Stop2 == StageFailed \/ (Full /\ Thrown)

control == <<pc, stage, primary>>
\* All that most steps leave alone, without and with the disk and the counters.
rest    == <<req, gate, wrote, formatted, stray, placed, session, held, report,
             succeeded, outcome>>
still   == <<left, tries, medium, table, kernel, early, late, req, gate, wrote,
             formatted, stray, placed, session, held, report, succeeded,
             outcome>>

Refuse(cause) ==
    /\ pc' = "answer"
    /\ outcome' = Outcome(cause, TRUE)
    /\ UNCHANGED <<stage, primary>>

-----------------------------------------------------------------------------
(* Before the first stage.                                                 *)

CheckRequest ==
    /\ pc = "check"
    /\ \/ req.check = "ok" /\ Go("platform") /\ UNCHANGED outcome
       \/ req.check = "mode" /\ Refuse("UNSUPPORTED_MODE")
       \/ req.check = "stale" /\ Refuse("PREFLIGHT_FAILED")
    /\ UNCHANGED <<req, left, tries, device, gate, target, mounts, succeeded>>

CheckPlatform ==
    /\ pc = "platform"
    /\ \/ Go("open") /\ UNCHANGED outcome
       \/ \E c \in {"UNSUPPORTED_PLATFORM", "PLATFORM_CHECK_FAILED"} : Refuse(c)
    /\ UNCHANGED <<req, left, tries, device, gate, target, mounts, succeeded>>

\* open, initialize, and the validation that tells the session its disk.
OpenSession ==
    /\ pc = "open"
    /\ \/ session' = "verified" /\ Go("preflight")
       \/ session' \in {"none", "unverified", "verified"} /\ Thrown
    /\ UNCHANGED <<req, left, tries, device, gate, target, held, report,
                   succeeded, outcome>>

Preflight ==
    /\ pc = "preflight"
    /\ \/ req.mode = "manual" /\ Go("esp")
       \/ req.mode # "manual" /\ Begin(1, "prepare")
       \/ Abort("PREFLIGHT_FAILED")
       \/ Thrown
    /\ UNCHANGED still

\* A kept EFI partition is mounted, looked at and unmounted; for a new one only
\* the space the boot files need is computed.
AdmitEsp ==
    /\ pc = "esp"
    /\ \/ Begin(1, "prepare") /\ UNCHANGED held
       \/ /\ Abort("PREFLIGHT_FAILED") \/ Thrown
          /\ IF "esp" \in req.format THEN UNCHANGED held ELSE held' \in BOOLEAN
    /\ UNCHANGED <<req, left, tries, device, gate, target, session, report,
                   succeeded, outcome>>

PrepareDisk ==
    /\ pc = "prepare"
    /\ Begin(2, "plan") \/ Broken
    /\ UNCHANGED still

-----------------------------------------------------------------------------
(* Stage 2: partitioning.                                                  *)

\* Plan, topology, size and tools: nothing of it looks at the table.
PlanPartitions ==
    /\ pc = "plan"
    /\ Go(IF Full THEN "gate" ELSE "probe") \/ Broken
    /\ UNCHANGED still

ProbeSource ==
    /\ pc = "probe"
    /\ (AsApproved /\ Go("gate")) \/ StageFailed
    /\ UNCHANGED still

\* beforeFirstMutation: the session's validation, then the helper's, which for
\* the verified modes compares the table as well.
Authorize ==
    /\ pc = "gate"
    /\ \/ /\ medium = "approved" /\ (Verified => table = "source")
          /\ gate' = "open"
          /\ \/ Full /\ Go("wipe") /\ left' \in {3, 4}
             \/ /\ Verified /\ UNCHANGED left
                /\ Go(IF req.new = {} THEN "verify" ELSE "write")
       \/ /\ gate' = "refused"
          /\ IF Full THEN Thrown ELSE StageFailed
          /\ UNCHANGED left
    /\ UNCHANGED <<req, tries, device, target, mounts, succeeded, outcome>>

\* A command that writes the table, t being what it makes of the one it finds.
\* It can fail with or without its effect.
WriteTable(t, views, next) ==
    /\ wrote' = TRUE
    /\ table' = t /\ kernel' \in views
    /\ Go(next) \/ Stop2
    /\ UNCHANGED <<medium, early, late, formatted, stray, placed>>
FailWrite ==
    /\ wrote' = TRUE /\ Stop2
    /\ UNCHANGED <<device, formatted, stray, placed>>

Wipe ==
    /\ pc = "wipe"
    /\ \/ WriteTable(IF medium = "approved" THEN "wiped" ELSE table,
                     {"stale", "settling"}, "write")
       \/ FailWrite
    /\ UNCHANGED <<req, left, tries, gate, mounts, succeeded, outcome>>

\* sgdisk in three commands or parted in four.
PartitionDisk ==
    /\ pc = "write" /\ Full
    /\ \/ WriteTable(IF table = "foreign" THEN "foreign"
                     ELSE IF left = 1 THEN "created" ELSE "partial",
                     {"stale", "settling"},
                     IF left = 1 THEN "rescan" ELSE "write")
       \/ FailWrite
    /\ left' = left - 1
    /\ UNCHANGED <<req, tries, gate, mounts, succeeded, outcome>>

\* sfdisk --append in one command, told to leave the kernel alone.
AppendPartitions ==
    /\ pc = "write" /\ Verified
    /\ \/ WriteTable(IF table = "foreign" THEN "foreign" ELSE "created",
                     {"stale"}, "rescan")
       \/ FailWrite
    /\ UNCHANGED <<req, left, tries, gate, mounts, succeeded, outcome>>

\* Mutant: confirmed full-disk plans wait two seconds as well.
RescanDelay ==
    /\ pc = "rescan"
    /\ kernel' = IF kernel = "stale" THEN "settling" ELSE kernel
    /\ \/ req.mode = "manual" /\ Go("verify")
       \/ req.mode = "free_space" /\ Go("ready")
       \/ Full /\ Begin(3, "topology")
       \/ Stop2
    /\ UNCHANGED <<left, tries, medium, table, early, late, rest>>
\* partprobe and udevadm settle.  Only the legacy path then waits two seconds
\* and goes on.
Rescan ==
    /\ pc = "rescan"
    /\ kernel' = IF kernel = "stale" THEN "settling" ELSE kernel
    /\ \/ req.mode = "manual" /\ Go("verify")
       \/ req.mode # "manual" /\ Confirmed /\ Go("ready")
       \/ ~Confirmed /\ Begin(3, "topology")
       \/ Stop2
    /\ UNCHANGED <<left, tries, medium, table, early, late, rest>>

\* Mutant: a retry scans the disk and starts over.
ProbeForEver ==
    /\ pc = "ready"
    /\ \/ InPlace /\ Go("accept")
       \/ medium = "approved" /\ Go("rescan")
       \/ StageFailed
    /\ UNCHANGED still

\* An unreadable table is probed again, a wrong one is the end.
ProbeLayout ==
    /\ pc = "ready"
    /\ \/ InPlace /\ Go("accept") /\ UNCHANGED tries
       \/ /\ medium = "approved" /\ tries + 1 < MaxTries
          /\ tries' = tries + 1 /\ Go("ready")
       \/ StageFailed /\ UNCHANGED tries
    /\ UNCHANGED <<left, device, rest>>

\* After the probe the session validates the disk once more; the table is not
\* read again.
AcceptLayout(next) ==
    /\ pc = "accept"
    /\ (medium = "approved" /\ Begin(3, next)) \/ StageFailed
    /\ UNCHANGED still

WaitForFullDisk == Full /\ (ProbeLayout \/ AcceptLayout("topology"))
WaitForFreeSpace == Verified /\ (ProbeLayout \/ AcceptLayout("check esp"))

\* The manual path probes once and does not wait.
VerifyManual ==
    /\ pc = "verify"
    /\ (InPlace /\ Begin(3, "check esp")) \/ StageFailed
    /\ UNCHANGED still

-----------------------------------------------------------------------------
(* Stages 3 and 4: formatting and mounting.                                *)

\* The full-disk path looks for LVM, RAID and the like, not at the layout.
CheckTopology ==
    /\ pc = "topology"
    /\ Go("mkfs esp") \/ Broken
    /\ UNCHANGED still

\* verifyManualLayoutNow and verifyFreeSpaceLayoutNow, before each file system
\* and before mounting.
VerifyLayout(at, next) ==
    /\ pc = at
    /\ (InPlace /\ Go(next)) \/ StageFailed
    /\ UNCHANGED still

\* Mutant: a kept EFI partition is formatted like a new one.
CheckEspAlways == VerifyLayout("check esp", "mkfs esp")
CheckEsp ==
    VerifyLayout("check esp",
        IF "esp" \in req.format THEN "mkfs esp" ELSE "check root")
CheckRoot == VerifyLayout("check root", "mkfs root")
CheckMount == VerifyLayout("check mount", "mount root")

\* mkfs on the name the layout gave.  Elsewhere than on the approved layout it
\* destroys what is there, or finds no such partition.
Format(role, done) ==
    /\ wrote' = TRUE
    /\ \/ /\ IF InPlace THEN formatted' = formatted \cup {role} /\ UNCHANGED stray
                          ELSE stray' = stray + 1 /\ UNCHANGED formatted
          /\ done \/ Broken
       \/ Broken /\ UNCHANGED <<formatted, stray>>
    /\ UNCHANGED <<req, left, tries, device, gate, placed, mounts, succeeded,
                   outcome>>

FormatEsp ==
    pc = "mkfs esp" /\ Format("esp", Go(IF Full THEN "mkfs root" ELSE "check root"))
FormatRoot ==
    pc = "mkfs root"
    /\ Format("root", Begin(4, IF Full THEN "mount root" ELSE "check mount"))

\* The root is mounted, given its subvolumes and mounted again by subvolume.
MountRoot ==
    /\ pc = "mount root"
    /\ \/ /\ InPlace => "root" \in formatted
          /\ placed' = IF InPlace THEN "approved" ELSE "elsewhere"
          /\ held' = TRUE /\ Go("mount esp")
       \/ held' \in BOOLEAN /\ Broken /\ UNCHANGED placed
    /\ UNCHANGED <<req, left, tries, device, gate, wrote, formatted, stray,
                   session, report, succeeded, outcome>>

MountEsp ==
    /\ pc = "mount esp"
    /\ Begin(5, "work") \/ Broken
    /\ UNCHANGED still

-----------------------------------------------------------------------------
(* Stages 5 to 8 on the mounted target, then cleanup and the verdict.      *)

Work ==
    /\ pc = "work"
    /\ \/ stage < 8 /\ Begin(stage + 1, "work")
       \/ stage = 8 /\ Begin(9, "cleanup")
       \/ Broken
    /\ UNCHANGED still

\* MountSession.cleanup: it reports clean only what it saw gone, sticks to a
\* failure once it has tried, and looks again when asked after a success.
CleanUp(good, bad) ==
    \/ /\ session = "verified" /\ report # "failed"
       /\ held' = FALSE /\ report' = "clean" /\ good
    \/ /\ report' = IF session = "verified" THEN "failed" ELSE report
       /\ held' \in {held, FALSE} /\ bad
    \* The first read of the mounts failed: nothing was tried, so a later
    \* call starts over.
    \/ report = "none" /\ UNCHANGED <<held, report>> /\ bad

\* Mutant: stage 9 does not look at the report.
CleanupStageBlind ==
    /\ pc = "cleanup"
    /\ CleanUp(Go("finally") /\ succeeded' = TRUE,
               Go("finally") /\ succeeded' = TRUE)
    /\ UNCHANGED <<req, left, tries, device, gate, target, session, outcome>>
CleanupStage ==
    /\ pc = "cleanup"
    /\ CleanUp(Go("finally") /\ succeeded' = TRUE,
               Broken /\ UNCHANGED succeeded)
    /\ UNCHANGED <<req, left, tries, device, gate, target, session, outcome>>

\* The finally block: cleanup once more, whatever happened before.
Settle(clean) ==
    /\ pc' = "answer"
    /\ \/ primary # "none" /\ outcome' = Outcome(primary, clean)
       \/ /\ primary = "none"
          /\ outcome' = Outcome(IF succeeded THEN "none" ELSE "SESSION_REJECTED",
                               clean)
    /\ UNCHANGED <<stage, primary>>

Finally ==
    /\ pc = "finally"
    /\ \/ session = "none" /\ Settle(TRUE) /\ UNCHANGED <<held, report>>
       \/ session # "none" /\ CleanUp(Settle(TRUE), Settle(FALSE))
    /\ UNCHANGED <<req, left, tries, device, gate, target, session, succeeded>>

Success(o) == o.cause = "none" /\ o.clean

\* The last progress callback can still throw; the engine then reports an error.
Answer ==
    /\ pc = "answer" /\ Go("done")
    /\ \E said \in {"OK", "INSTALL_FAILED", "BACKEND_ERROR"} :
        /\ said = "OK" => succeeded /\ Success(outcome) /\ gate = "open"
        /\ said = "INSTALL_FAILED" =>
               ~(succeeded /\ Success(outcome) /\ gate = "open")
        /\ said = "BACKEND_ERROR" => succeeded /\ Success(outcome)
        /\ outcome' = [outcome EXCEPT !.said = said]
    /\ UNCHANGED <<req, left, tries, device, gate, target, mounts, succeeded>>

\* Killed with its session, whose mount namespace goes with it.
Die ==
    /\ pc \notin {"done", "dead"}
    /\ Go("dead") /\ held' = FALSE
    /\ UNCHANGED <<req, left, tries, device, gate, target, session, report,
                   succeeded, outcome>>

-----------------------------------------------------------------------------
(* The disk, between any two steps of the engine.                          *)

Accepted == stage > 2 \/ pc = "accept"

\* From the moment the session has validated the disk until its partitions are
\* mounted; what changes before that the helper compares with the request.
Disturb ==
    /\ pc \notin {"check", "platform", "open", "finally", "answer", "done", "dead"}
    /\ stage < 5 /\ medium = "approved"
    /\ table # "foreign" \/ medium' = "other"
    /\ medium' \in {"approved", "other"}
    /\ table' = "foreign" /\ kernel' = "current"
    /\ early' = (early \/ ~Accepted)
    /\ late' = (late \/ Accepted)
    /\ UNCHANGED <<control, left, tries, rest>>

Adopt ==
    /\ kernel = "settling" /\ kernel' = "current"
    /\ UNCHANGED <<control, left, tries, medium, table, early, late, rest>>

Engine ==
    \/ CheckRequest \/ CheckPlatform \/ OpenSession \/ Preflight \/ AdmitEsp
    \/ PrepareDisk \/ PlanPartitions \/ ProbeSource \/ Authorize \/ Wipe
    \/ PartitionDisk \/ AppendPartitions \/ Rescan \/ WaitForFullDisk
    \/ WaitForFreeSpace \/ VerifyManual
    \/ CheckTopology \/ CheckEsp \/ FormatEsp \/ CheckRoot \/ FormatRoot
    \/ CheckMount \/ MountRoot \/ MountEsp \/ Work \/ CleanupStage \/ Finally
    \/ Answer

Done == pc \in {"done", "dead"} /\ UNCHANGED vars

Next == Engine \/ Die \/ Disturb \/ Adopt \/ Done

Spec == Init /\ [][Next]_vars

\* The engine goes on where it has only itself to wait for.  At every other step
\* it waits for a command or a request, and most of those have no time limit.
OwnStep == CheckRequest \/ Answer
FairSpec == Spec /\ WF_vars(OwnStep)

-----------------------------------------------------------------------------
(* Properties.                                                             *)

ControlType ==
    /\ req \in Requests
    /\ stage \in 0..9 /\ left \in 0..4 /\ tries \in 0..(MaxTries - 1)
DiskType ==
    /\ medium \in {"approved", "other"}
    /\ table \in {"source", "wiped", "partial", "created", "foreign"}
    /\ kernel \in {"current", "settling", "stale"}
    /\ early \in BOOLEAN /\ late \in BOOLEAN
    /\ gate \in {"closed", "open", "refused"}
TargetType ==
    /\ wrote \in BOOLEAN
    /\ formatted \subseteq Roles /\ stray \in 0..2
    /\ placed \in {"nowhere", "approved", "elsewhere"}
MountType ==
    /\ session \in {"none", "unverified", "verified"}
    /\ held \in BOOLEAN
    /\ report \in {"none", "clean", "failed"}
VerdictType ==
    /\ primary \in Causes
    /\ succeeded \in BOOLEAN
    /\ outcome \in Outcomes
TypeOK == ControlType /\ DiskType /\ TargetType /\ MountType /\ VerdictType

\* Nothing is written before the gate has opened, and an outcome that tells the
\* user the disk was not changed ("disk degistirilmedi") is true.
RefusalsLeaveDisk ==
    /\ wrote => gate = "open"
    /\ {primary, outcome.cause} \cap
          {"UNSUPPORTED_MODE", "PREFLIGHT_FAILED", "UNSUPPORTED_PLATFORM",
           "PLATFORM_CHECK_FAILED"} # {} => ~wrote

\* A medium exchanged, a table rewritten or a kernel that has not adopted the
\* new table, any time up to the probe that accepts the layout, ends the
\* installation before anything is formatted: every mkfs of a confirmed plan
\* falls on the approved partitions unless the disk changed after that probe.
EarlyChangeStops == Confirmed /\ ~late => stray = 0

\* In the modes that share the disk, a change between a verification and the
\* mkfs that follows it costs that one partition: the next step notices, and
\* the stages never end well.
OneStrayFormat == Verified => stray <= 1 /\ (stray = 1 => ~succeeded)

\* What a layout that went stale may cost: nothing before its acceptance, and one
\* partition after it where the disk is shared.
StrayFormatsBounded == EarlyChangeStops /\ OneStrayFormat

\* OK is said of an installation only whose root lies mounted-and-unmounted on
\* the approved layout, with exactly the approved partitions formatted (a kept
\* EFI partition is not among them) and nothing left mounted.
SuccessInstalled ==
    outcome.said = "OK" =>
        /\ ~held
        /\ Confirmed /\ ~late => placed = "approved" /\ formatted = req.format

\* Every failure has a cause or an unclean cleanup, never the fallback cause of
\* an installation that ended without one; clean means nothing is mounted.
VerdictExplained ==
    pc \in {"answer", "done"} =>
        /\ outcome.cause # "SESSION_REJECTED"
        /\ outcome.said = "INSTALL_FAILED" =>
               outcome.cause # "none" \/ ~outcome.clean
        /\ outcome.clean => ~held

\* An installation ends, whatever its commands answer, or it waits for the answer
\* of one of them for ever, which only a deadline outside the engine ends: the
\* retries are bounded, and the cleanup runs once in the stage and once after it.
InstallEnds ==
    \/ <>(pc \in {"done", "dead"})
    \/ <>[](pc \notin {"check", "answer"}) /\ <>[][FALSE]_<<control, left, tries>>

\* The abstract installation this pipeline is an implementation of.
Disk == IF wrote THEN "written" ELSE "untouched"
Verdict ==
    IF pc = "dead" THEN "killed"
    ELSE IF pc # "done" THEN "none"
    ELSE IF outcome.said = "OK" THEN "success"
    ELSE IF outcome.clean THEN "failed" ELSE "leaking"

Promise == INSTANCE Installation WITH
    allowed  <- gate = "open",
    disk     <- Disk,
    complete <- succeeded,
    verdict  <- Verdict

\* Each step of the pipeline is a step of the abstract installation or none.
KeepsPromise == Promise!Spec

-----------------------------------------------------------------------------
(* The inductive invariant: what the place in the pipeline tells.           *)

Admission   == {"check", "platform", "open", "preflight", "esp"}
Planning    == {"plan", "probe", "gate"}
Writing     == {"wipe", "write", "rescan", "ready", "accept", "verify"}
Formatting  == {"topology", "check esp", "mkfs esp", "check root", "mkfs root"}
Mounting    == {"check mount", "mount root", "mount esp"}
Ended       == {"finally", "answer", "done", "dead"}

StageInv ==
    /\ pc \in Admission => stage = 0
    /\ pc = "prepare" => stage = 1
    /\ pc \in Planning \cup Writing => stage = 2
    /\ pc \in Formatting => stage = 3
    /\ pc \in Mounting => stage = 4
    /\ pc = "work" => stage \in {5, 6, 7, 8}
    /\ pc = "cleanup" => stage = 9

ModeInv ==
    /\ pc \in {"topology", "wipe"} => Full
    /\ pc \in {"check esp", "check root", "check mount", "verify", "probe"} => Verified
    /\ pc = "mkfs esp" => "esp" \in req.format
    /\ pc = "write" /\ Full => left \in {1, 2, 3, 4}
    /\ pc = "wipe" => left \in {3, 4}

\* Up to the gate nothing is written, from the gate on it is open, and after
\* the root's file system something has been written.
GateInv ==
    /\ pc \in Admission \cup {"prepare"} \cup Planning =>
           gate = "closed" /\ ~wrote
    /\ pc \in Writing \cup Formatting \cup Mounting \cup {"work", "cleanup"}
          => gate = "open"
    /\ pc \in Mounting \cup {"work", "cleanup"} \/ succeeded => wrote
    /\ wrote => gate = "open"

\* While the disk has not changed since its layout was accepted, it is there
\* and the formatting is as far as its place says.
LayoutInv ==
    Confirmed /\ ~late =>
        /\ stray = 0
        /\ pc \in {"accept", "check mount", "mount root"} \cup Formatting => InPlace
        /\ pc \in {"check root", "mkfs root"} => formatted = req.format \ {"root"}
        /\ pc \in Mounting \cup {"work", "cleanup"} \/ succeeded =>
               formatted = req.format
        /\ pc \in {"mount esp", "work", "cleanup"} \/ succeeded =>
               placed = "approved"

\* Strays: none before the first mkfs, and none at all without a late change.
StrayInv ==
    /\ pc \in Admission \cup {"prepare"} \cup Planning \cup Writing
              \cup {"topology", "check esp", "mkfs esp"} =>
           stray = 0 /\ formatted = {}
    /\ pc \in {"check root", "mkfs root"} => stray \in {0, 1}
    /\ Verified =>
        /\ pc \in {"mkfs esp", "check root", "mkfs root", "check mount"} =>
               InPlace \/ table = "foreign"
        /\ stray \in {0, 1}
        /\ stray = 1 =>
            /\ table = "foreign" /\ ~succeeded
            /\ pc \in {"check root", "check mount"} \cup Ended

\* Where a failure has its name, and success its nine stages.
CauseInv ==
    /\ pc \notin Ended => primary = "none" /\ ~succeeded
    /\ pc = "finally" => (primary = "none" <=> succeeded)
    /\ primary # "none" => ~succeeded
    /\ primary \in {"none", "PREFLIGHT_FAILED", "INSTALL_EXCEPTION", "STAGE_FAILED"}
    /\ primary = "PREFLIGHT_FAILED" => ~wrote

\* Only a session that was opened mounts, and success means it has unmounted.
HeldInv ==
    /\ pc \in {"check", "platform", "open"} => session = "none"
    /\ pc \notin {"check", "platform", "open"} \cup Ended => session = "verified"
    /\ session = "none" => ~held
    /\ succeeded => ~held

OutcomeInv ==
    /\ pc \notin {"answer", "done", "dead"} => outcome = NoOutcome
    /\ pc # "done" => outcome.said = "none"
    /\ pc \in {"answer", "done"} =>
        /\ outcome.cause = "none" <=> succeeded
        /\ outcome.cause # "SESSION_REJECTED"
    /\ outcome.clean => ~held
    /\ outcome.said = "OK" => succeeded /\ pc = "done"
    /\ outcome.said = "INSTALL_FAILED" => ~(succeeded /\ outcome.clean)
    /\ outcome.cause \in {"UNSUPPORTED_MODE", "PREFLIGHT_FAILED",
          "UNSUPPORTED_PLATFORM", "PLATFORM_CHECK_FAILED"} => ~wrote

IInv ==
    /\ TypeOK /\ StageInv /\ ModeInv /\ GateInv /\ LayoutInv /\ StrayInv
    /\ CauseInv /\ HeldInv /\ OutcomeInv
=============================================================================
