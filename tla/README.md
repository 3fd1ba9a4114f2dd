# ro-Installer: TLA+ models, model checking and proofs

ro-Installer installs an operating system on a disk from a live session. A
graphical program collects the user's choices; everything that writes to a disk
runs in privileged processes that the program starts and cannot control. What
can go wrong is mostly a matter of *who still believes what*: the disk confirmed
on the screen is another one when the first write happens, a command that was
given up goes on working, a failed run says that it was clean. The modules here
model those processes from their source and check, and in part prove, what they
promise.

Paths below are relative to the repository.

## 1. The system

```
GUI  (lib/screens, lib/state)             unprivileged
  HelperClient (lib/services/helper_client.dart)
     | one JSON request, then lines of events          pkexec
helper  (linux/ro-installer-helper)       root, holds the installer lock
     | stdin: request, later one "continue" line and end of file
     | stdout: progress, ready, result, session-report
session (linux/ro-installer-session)      root, own mount namespace
     | Popen                     | unix socket: command, idle, validate-target,
     v                           |              ntfs-transaction, observe
engine  (bin/privileged_backend.dart)-----'
  InstallService: nine stages, MountSession
     commands (sfdisk, mkfs, mount, rsync, chroot ...) are the session's children
     NTFS worker (linux/ro_installer_ntfs_transaction.py) in a session of its own
world: the medium behind /dev/<disk>, its table, other programs
```

### Components

| component | state | operations | what makes it correct |
|---|---|---|---|
| helper: `handle`, `run_backend` | confirmed device, `authorized`, `failure`, `final`, deadline | validate, snapshot, spawn, read lines, gate, stop, reap | the engine gets authority only over what was confirmed; a refusal is clean; the verdict is true and the last thing that happens |
| engine: `runPrivilegedBackend` | authorized, outcome | adopt, plan, commit, announce, wait, install, report | writes only after the gate |
| session: `Supervisor` | adopted identity, `active`, `storage_active`, `storage_attempted`, `storage_incomplete`, client threads, lock `serial` | accept, read request, run command, run NTFS transaction, answer idle, shut down | one process at a time, none left behind, the NTFS worker never cut off, its outcome never misreported |
| mount session: `VerifiedMountSession` | `_owned`, `_unsafe`, `_attempted`, bound layout, ESP probe and protection | initialize, validateTarget, bind*, inspect*, mount, unmount, mountProtectedEsp, cleanup | takes away only what it made; "clean" is true; a reused EFI partition is never exposed |
| pipeline: `InstallService`, `StageContext`, nine stages | stage results, partition paths, created layout | prepare, partition, format, mount, copy, configure, boot loader, validate, clean up | order, failure, cleanup exactly once more than needed, one verdict |
| readiness: `full_disk_readiness` and relatives | readings of the device | settle, re-read, commit | every write follows a reading that matches |
| NTFS transaction and commit | phase, open descriptions, progress flags | shrink, flush, check, write backup and primary table, have the kernel reread, report; never rolls back | a whole table at every moment, the file system before the table, and the truth about how far it got |
| GPT, manual and NTFS planning | none (pure) | free extents, compact plan, shrink plan | aligned, disjoint, inside the disk, large enough |
| approved plans | snapshot, fingerprint | build, compare, encode | stale as soon as the disk differs |
| helper client | event position, terminal result | start, read, time out, finish | exactly one outcome, in order |
| records: `Recorder` | journal, sequence, budget | append, drop, finish, publish | no invented event, gaps are visible |
| record store | session directories, store lock | scan, reserve, admit, refuse | the quota holds while sessions write |
| manual worker | open descriptors, budget | describe, open, look, describe again; walk, add up | eligible is said of the plan's partitions, sufficient is enough |
| guest-agent client (QEMU tests) | buffer, token | synchronise, call, wait | answers are its own |
| copy progress | last value, partial line | feed, finish | monotone, at most 100 % |
| export, artifact collection | open files, target | find, copy, verify | a whole file or none |
| disk discovery, network state, preflight, installer state, screens | caches of tool output, choices | refresh, select, edit | an edit invalidates what was approved |

### What is hard

* *Time of check, time of use.* Helper, session and engine each look at the
  disk; nobody compares their three identities in one place.
* *Given-up work.* The engine can drop its connection while the session's child
  still runs; the child's effect comes later.
* *Two guardians, two clocks.* Helper and session time the same engine from
  different starts; either can be killed.
* *Work that must not be stopped.* The NTFS worker must finish although the
  engine that asked for it is dead or over time.
* *Partial failure* in every sequence of steps that has to be undone.

`PROJECT.json` lists each hazard with the line where it bites and the properties
that would catch it.

## 2. Modules

### MutationGate (helper, session, engine and the world)

From the confirmation to the first write and back to the verdict.
`hpc`, `epc`, `spc` stand for the place in `handle`/`run_backend`,
`runPrivilegedBackend` around `InstallService`, and `Supervisor.run`. The
engine's pipe is the sequence `out`, its standard input `gate` and `stdin`.
`disk` is the kernel's `diskSequence` of the medium behind the path: a replaced
medium always has a larger one. Helper, session (`adopted`) and engine
(`planned`) read disk and table at different moments, and `ReplaceMedium`,
`ForeignRepartition` and `ForeignUse` may happen between any two steps. The
engine may print anything at any moment (`EngineJunk`), fail, hang, or crash; so
may the session; the helper may be killed. Each `Helper*` and `Gate*` action is
one step of the source between two operations another process can see, so the
write of the continue line (`GateWrite`), the closing of the pipe (`GateClose`)
and the setting of `authorized` (`GateAuthorize`) are three: an engine that reads
the end of its input may write before the flag is set, and does so in the model.

`ApprovedTarget` compares the readings of helper, session and engine, all of them
taken before the gate line. It is no promise about what is behind the path when
the write happens: after `GateDevice` no check of these three follows, and the
model reaches writes to a medium exchanged after it. What an exchange *before*
it costs is `SwapDisarms` (section 4); what later checks of the stages catch is
InstallPipeline's subject.

### SessionSupervisor (accept loop, client threads, processes, shutdown)

The main thread (`mpc`) waits for the engine, then runs its shutdown line by
line: storage, descendants, closing, joining, draining, killing, reaping. The
accept loop and every client thread are processes of their own, a command and a
transaction have their child's life in them, and an engine may leave any request
behind. A queued thread can get the lock after the kill: the model has it.

`kill_owned_children` walks through `/proc` once. `KillOwned` kills what is there
and may miss, for any set of living processes, one each has just forked. `Timed`
are the commands with a time limit: `session:501` waits without one when
`timeoutMs` is null, as `runCmd` (`install_service.dart:75-80`) and all but one
command of the mount session leave it. A command that is still being fed its
input (`session:496-498`) has no limit yet either and counts as untimed.

### MountSession (VerifiedMountSession)

`table` is what lies below `/mnt`, `owned` the session's records. A mount is a
record of id, place, device, whether the whole file system is visible, and
whether it is writable: the fields the decisions compare. Each call is broken at
every `await`. `pending` is the effect of a command the engine gave up on; the
supervisor serves the next request only when it has ended (`Served`, which
SessionSupervisor's `OneAtATime` and `IdleMeansQuiet` justify), but the engine's
own reading of `/proc/self/mountinfo` waits for nothing. A request may never be
answered. `StageCommand` is any other command of a stage, which may mount,
unmount, or leave a process behind.
An inventory that cannot be read is the nondeterministic failure branch of every
reading. Mount ids are reused, as the kernel does. Not in the model: two mounts
that agree in id and in every field are one (as in `MountRecord.same`).

The environment calls `mount` for the target only after a layout is bound, or
for a full-disk plan, or after an NTFS inspection has begun; `/mnt` comes first.
That is the order of the stages (`mounting_stage.dart`).

### InstallPipeline and Installation (runInstall and its nine stages)

`pc` is the step `runInstall` is in, `stage` the stage it last began. Each check
that stands before a write, each command that writes, and each probe is a step
of its own: `ProbeSource`, `Authorize`, `Wipe`, `PartitionDisk`,
`AppendPartitions`, `Rescan`, `WaitFor...` and `VerifyManual` are stage 2;
`CheckTopology`, `CheckEsp`, `FormatEsp`, `CheckRoot`, `FormatRoot` stage 3;
`CheckMount`, `MountRoot`, `MountEsp` stage 4. Stages 5 to 8 write below the
mounted target and are one step each (`Work`). `Finally` is the `finally` block,
`Answer` the end of `runPrivilegedBackend`. A command that fails may have had
its effect.

A request is its mode, whether a confirmed plan came with it, and the partitions
to create and to format: full disk with a plan, full disk without one (the
legacy path, which waits two seconds instead of probing), free space, and every
manual plan that `ManualInstallationPlan.build` accepts.

The disk is three readings: `medium` (the approved device or another under the
same name), `table`, and `kernel` (whether the partition nodes are those of the
table). `InPlace` is what all three say after partitioning. `Disturb` exchanges
the medium or has another program write a table between any two steps; `Adopt`
is the kernel taking a new table over, some time after `partprobe`. The history
variables `early` and `late` say whether a disturbance fell before or after the
moment the layout was accepted; nothing reads them but the properties.

The mounts are one bit, the helper's side of the gate its answer: the detail is
in MountSession and MutationGate. The clean report of `CleanUp` is what
MountSession's `CleanupTruthful` justifies.

`Installation` is the abstract specification: five variables a caller can tell
apart, and the steps allow, write, hold, complete, succeed, fail, die.
`Promise == INSTANCE Installation WITH ...` maps the pipeline to it.

### NtfsTransaction and StorageCommit (the worker, ntfsresize, the supervisor's verdict)

`pc` walks through `execute`, `BlockNtfsTransaction.run`,
`resize_and_commit_ntfs`, `run_native_resize` and `commit_ntfs_gpt` in the order
of the code. The medium is three places: the source file system, the backup
table and the primary table. Each has a content a reader sees (`page`) and one
that a power loss is sure to leave (`disk`); only the two `fsync` actions
(`NativeFlush`, `SyncTables`) bring them together. Writing a table takes two
steps, entries and header, and between them the copy is `part`. `descs` are the
descriptions of the source partition: reader, writer, their duplicates, the
child's copy, the fresh reader. `changed`, `started` and `copies` are the flags
the failure reports carry. `native` is the child, which may hang, survive its
kill as `stuck`, and write after the worker has reported.

Every step may fail. `WorkerDies` covers the supervisor's kill, the resource
limits and a crash; `PowerLoss` writes, drops or tears what was not flushed.
`Disturb` has another program overwrite a table copy, or takes away lease,
namespace, parent or disk (`"context"`), which `Owned` then refuses. `upsets`
remembers what came when; nothing but the properties reads its moments. A check
of the code reads everything twice; as a foreign change is never undone, the
moment its second pass begins stands for all of it. The parsing of GPT, boot
sector, `$Volume` and tool output is data: each yields "as expected" or not.

`StorageCommit` is the abstract specification: the file system, the table and
the one verdict. `Promise == INSTANCE StorageCommit WITH ...` maps the worker to
it: the file system is new once it is flushed and its writer gone.

### SessionRecords and RecordStore (what a session writes down)

`SessionRecords` is one `Recorder` and the engine that feeds it. The engine's
script is what an installation says that ends in any stage, well or not; `Say`,
`Reply` and `GiveUp` are `InstallObservation`, which falls silent for good after
the first reply that takes too long, though the request may still be served. A
recorder operation is a list `work` of file-system steps (append a line, create,
fill and rename the temporary summary); each may fail and the supervisor may be
killed between any two. `seen` is the history of what the recorder was given.

`RecordStore` is the admission of a session to the store: the starter scans one
directory after the other, member by member, size before lock, while the
sessions in them go on writing. `Stored` counts the units on the disk one by
one, beside and independent of what the starter adds up. `leased` says whether starts hold the
installation lease, as production does.

### StoragePlanning (ro_installer_gpt.py)

The three planners as operators on a table (`CompactPlan`, `ManualPlan`,
`ShrinkPlan`), each yielding the one plan or none, and a state machine that
takes a confirmed plan through admission, gate, writing and final verification
while other programs edit the table (`ForeignEdit`) and the kernel lags
(`kernel`, `Reread`). A table is a set of rows and `rest`, everything a snapshot
does not show; `Masked` is what the preservation fingerprint binds.

### NtfsAdmission (the evidence about the source volume)

The five jobs that look at the volume: assess, preview, admit, worker, check. A
job is a script of readings (`Inspection`, `Preparation`), each with the earlier
one it must agree with; every reading is a step. Between them the volume is
mounted, filled, hibernated, the tools are upgraded, and a writer of the whole
disk ignores the exclusive open (`Stray`). `Look(v)` is what each kind of
reading can tell apart of a volume `v`, `past` the history of the volume since
the job began. The resize itself is one step here, NtfsTransaction has it in
detail.

### ManualProbe, EfiBudget and ManualWorker (ro_installer_manual.py)

`ManualProbe` looks into the partitions a manual plan reuses, with every open,
comparison and reading a step of its own; `EfiBudget` walks the EFI source, adds
up the budget of the code and, beside it, what a FAT volume grows by
(`FileTakes`, `EntryTakes`). `ManualWorker` is the process that runs either.

### GuestAgent (qga_client.py)

The client the QEMU tests talk to their guest with. The serial line `toClient`
is cut into pieces anywhere and survives the client, its successor finds the
answers of its predecessors there. `Sent` gives an answer its delimiter and its
two halves, the least that can be torn.

### MC modules

Each run has an `MC` module that extends its module and gives the instance its
sets. `MCMutationGate` begins every behaviour with one table and the older
medium. `MCSessionSupervisor` has one command with a time limit and one without;
the first is issued first, as a bound, and so is one of the two transactions,
which are interchangeable; and one process at a time outlives the command or
worker that forked it (`OneEscapee`), which a kill that misses nothing always
allows. Its accept loop looks at `stop` when there is
something to see (`Prompt`): rounds that change nothing are left out.

## 3. Runs

| run | bounds | what it shows |
|---|---|---|
| `gate` | 2 media, 2 tables, 1 line in the pipe besides the one being answered | `ApprovedTarget`, `RefusalIsClean`, `VerdictSound`, `KilledOnlyByTimer`, `HelperTerminates`, `EngineReclaimed` |
| `session` | 2 commands, one of them with a time limit, 2 transactions, 1 idle question, 2 client threads | `NothingOutlivesRun`, `OneAtATime`, `StatusAccounts`, `IdleMeansQuiet`, `WorkerSpared`, `SessionReturns` |
| `mounts` | all plans, 5 mounts at a time, 2 troubles | `CleanupTruthful`, `OnlyOwnedUnmounted`, `EspShielded`, `NtfsNeverFallsBack`, `CallsEnd` |
| `pipeline` | every request, 3 probes | `StrayFormatsBounded`, `SuccessInstalled`, `KeepsPromise`, `InstallEnds` |
| `ntfs` | 2 interferences, each at any place and moment | `StaleWritesNothing`, `SurvivesPowerLoss`, `HonestVerdict`, `SuccessIsComplete`, `KeepsPromise`, `TransactionEnds` |
| `records` | 2 stages, a journal one run can overfill, 1 command | `RecordsAgree`, `ReportHonest` |
| `record_store` | 4 sessions, room for 3, or for 2 at their worst | `QuotaKept`, `LiveReserved` |
| `record_store_parallel` | 3 sessions | `WithinQuota` is violated: see *Finding* |
| `planning` | 9 tables of up to 3 partitions on 14 sectors, every choice, 2 foreign edits | `PlanSound`, `AsConfirmed`, `PlannersExact` |
| `ntfs_admission` | a volume of 4 units, 2 tool chains, 1 use and 1 stray write per job | `OneVolume`, `ResizesTheConfirmed` |
| `manual` | every choice of roles, 3 changes; trees of up to 5 entries, 3 deep | `EligibleIsThePlans`, `SufficientFits` |
| `guest_agent` | 3 clients | `ReportsItsOwn`, `AnswerStillComes` |

Some properties join what belongs together: `VerdictSound` is `VerdictTruthful`
and `VerdictIsLast`; `StatusAccounts` is `SingleAttempt` and `HonestStatus`;
`WorkerSpared` is `WorkerNeverCancelled` and `NoLateWorker`;
`StrayFormatsBounded` is `EarlyChangeStops` and `OneStrayFormat`. The type
invariants are not checked by the runs: they are proved (section 4).

*Finding.* `linux/ro_installer_records.py:3-5` says that parallel starts cannot
exceed the store quota. A start takes the size of a session's journal (lines
191-195) before it tries the journal's lock (197): a session that writes its
last lines and ends in between is counted as finished with its old size. The
installation lease keeps two sessions from being alive at once, so the program
as shipped keeps the quota (`QuotaKept`); the docstring's claim about parallel
starts does not hold by itself.

*Bounds.* Two media and two tables are the least that can differ between two
readings, and a third reading can only equal one of them or be newer. One line
in the pipe lets a bad line stand behind the good one that is being answered;
the proofs hold for every length. Two requests of a kind, two threads and one
idle question give every pair of requests in both orders, save that of the two
commands, and reach the limit of threads (32 in the code); one escaped process
reaches each of the waits it can hold up, and the proofs hold for any number. Five mounts hold the largest layout of the protected
EFI partition plus a foreign mount; a mount beyond them fails, as with the
kernel's own limit. A trouble is a command given up or something another command
did to the mounts: two give every pair. Three probes of a new layout stand for
the twenty (or five seconds) of the code: a first, one in between and the last;
two interferences with the NTFS worker let one hide the other, or break both
tables. Two stages give a success before a failure; the journal is short enough
to overflow in either. The stack of open operations does not overflow in this
run, as it does not in the program, whose spans nest two deep under a limit of
sixteen: with `MaxStack = 1` the run passes too, but then no installation keeps
its log past the first copy. The theorems hold for every limit. The store has room for two sessions at their worst case
and three short ones, so both limits are met. The sectors of a megabyte are two,
so that an unaligned edge is possible; the tables have gaps before, between and
after partitions, of one sector and of many, and none. Two foreign edits let one
restore what the other broke. In `ntfs_admission` one stray writer per job is
the most that two readings of everything can notice: with two, the volume can be
changed and changed back between them. Both properties say `strays <= 1`
themselves, so they hold, and are proved, for every bound. Clusters hold two directory entries and
names take up to three, so a name may be longer than a cluster, as on the
smallest FAT volumes. Three clients let an answer skip one.

*Symmetry.* Sessions of the store are only compared, and `record_store` has no
liveness; the others use no symmetry. `MCMutationGate` and
`MCSessionSupervisor` take one of several behaviours that are renamings of each
other, as their comments say.

*Deadlock* is checked in the runs of the gate, the session and the pipeline,
where the end states stutter explicitly or cannot be reached. It is not where
the modelled program really ends: after a cleanup or at once when `/mnt` is in
use (`mounts`), with a verdict or without power (`ntfs`), with the last session,
answer or client (the others).

*Fairness.* Of commands nothing is assumed, for the code gives most of them no
time limit: `runCmd` passes none, `SessionCommandRunner` sends `timeoutMs: null`
(line 154), and `session:501` then waits for as long as it takes. What ends a
hanging command from outside is the session's `BACKEND_TIMEOUT` and, behind it,
the helper's deadline, which kills the group.

* `gate`: the helper is a running process, its deadline and the session's are
  timers. Nothing is assumed of the engine, nor that the session ends by itself:
  it may be held up by a command.
* `session`: the main thread, the accept loop and the client threads run, and
  waits with a limit expire (`Timed`, the worker's own deadline, those of `run`).
  A process killed by its own parent ends; nothing else is assumed of processes.
  A thread that joins its output pumps (`PipeHeld`) waits for the last holder of
  the pipe. `SessionReturns` says that `run` returns or is held up for ever at
  one of three waits that have no deadline (`HeldUp`): `thread.join` or the drain
  on a pipe that an escaped process holds, `thread.join` on an untimed command
  whose thread got the lock behind the one kill, and `waitpid` on an escaped
  process. The model reaches all three. Under the helper the group is then killed
  at its deadline; a session started without a helper (`--auto`) has nobody.
* `mounts`: a call goes on where it reads the engine's own `mountinfo` and
  records (`OwnStep`). `mount`, `umount`, `lsblk` and the idle question have no
  limit, so `CallsEnd` says that a call ends or stands at one request for ever:
  no call goes round, asking again and again, however many requests fail.
* `pipeline`: only the two steps that wait for nothing. `InstallEnds` says that
  an installation ends or waits for one command or request for ever; retries and
  cleanups do not add up without bound. Nothing is assumed of the disk or of the
  kernel, which may never adopt a table.
* `ntfs`: the worker's steps, each of which has a deadline, and the supervisor's
  wait; nothing is assumed of ntfsresize.

The other modules promise safety only, and are checked without fairness.

*The windows that stay.* `SuccessInstalled` and `StrayFormatsBounded` say nothing
of a full-disk installation whose medium is exchanged after its layout was
accepted: stage 3 formats by name and looks at no identity again, and the model
reaches such an installation that ends with OK. The modes that share the disk
verify before every mkfs and before mounting, and lose at most the one partition
between a verification and its mkfs (`OneStrayFormat`). The NTFS worker does not
see a table that another program changes between the check of that very copy and
its first write (`Overwritten`): it overwrites it. And a power loss leaves no
whole table when, in the moment after that check, someone breaks the copy that
is not being written (`Fatal`). No check of the worker could close either; the
lease keeps the installer's own programs out of them.

Each property has a mutant of the code, next to the definition it replaces, that
the run must refute: a dropped comparison, a missing kill, a lock not taken, a
record added instead of replaced.

## 4. Proofs

`MutationGateProofs` proves for all tables and all bounds that

* `TargetApproved`, `CleanRefusal`, `SoundVerdict` (from `TruthfulVerdict` and
  `LastVerdict`): the invariants of run `gate` hold of `Spec`, and with them the
  types (`TypeCorrect`);
* `SwapsDisarm`: a medium exchanged at any moment before the gate's last look at
  the device is never written to, even if the session adopted it and the engine
  planned on it. `SwapStays` is the argument: the medium's number only grows, so
  an exchange that is ahead of a comparison stays visible to it;
* `TimerOnlyKills`: so does its action property.

They rest on `Inductive`, `Spec => []IInv`. None of the invariants is inductive:
that the engine acts on the confirmed medium needs to know where everybody else
has looked. `IInv` adds

* `IdentityInv`: the identities are a chain of readings of a number that only
  grows: confirmed <= adopted <= current. When the gate reads `confirmed` again,
  the adopted identity between the two readings is pinned to it. This is why the
  session may adopt what it finds without being told what was confirmed;
* `ReadyInv`: a `ready` line in the pipe, or being answered, means the engine has
  committed, and a committed engine stays so;
* `GateInv`: the continue line, the closed pipe and `authorized` appear in that
  order, and only a killed helper leaves them half done. An engine with authority,
  and so a written disk, is found from the closing of the pipe on; between that
  and the flag the helper has no step that could fail;
* `OutcomeInv`: an `ok` line in the pipe or read comes from an engine that
  finished and exited;
* `EndInv`: nobody lives once the helper reaps, and an authorized group is
  stopped only when late.

Every step of `Next` is treated once per part (`TypeStep`, `IdentityStep`,
`ReadyStep`, `GateInvStep`, `OutcomeStep`, `EndStep`, `VerdictStep`), over
lemmas on the pipe (`SendFacts`, `TailFacts`, `KeptFacts`, `PipeStep`) and on
what each actor leaves alone (`Frames`). The assumptions are
`TablesAssumption` and `BoundsAssumption` only.

`SessionSupervisorProofs` proves for any requests and any limit on threads that
the invariants of run `session` hold (`NothingOutlives`, `OneProcessAtATime`,
`StatusIsAccount`, `IdleIsQuiet`) and its action property (`WorkersAreSpared`).
They follow from `Inductive`, whose `IInv` is stated in the module itself:

* `LockInv`: a thread is in its serial section exactly while it holds the lock,
  and only there has it a child. Everything else leans on this;
* `StorageInv`: one transaction at most is begun, storage is active while a
  worker is ahead, running or to be cleared, and an outcome that went wrong or
  was not heard has set `storage_failed`;
* `EngineInv`, `BacklogInv`: the engine waits for one request; another that is
  under way was abandoned inside its serial section, so a new one queues up
  behind it. This is what makes the answer to "idle" worth something
  (`QuietInv`);
* `MainInv`: what each step of the shutdown may rely on. That storage stays
  inactive after the drain rests on `stop` being set before it.

The assumptions are `KindsAssumption` and `NoneAssumption`; each part has a lemma
with one step for each of the 37 actions.

`InstallPipelineProofs` proves for every request and every number of probes that
`TypeOK`, `RefusalsLeaveDisk`, `StrayFormatsBounded`, `SuccessInstalled` and
`VerdictExplained` hold (`TypeCorrect`, `RefusalsAreClean`,
`StrayFormatsAreBounded` from `EarlyChangesStop` and `OneStray`,
`SuccessIsInstalled`, `VerdictsExplained`), and that `Spec` implements `Installation`
(`Refinement`). Its invariant says what a place in the pipeline tells about the
rest:

* `StageInv`, `ModeInv`: which stage a place belongs to, and which partitioning
  path reaches it. The legacy path and the full-disk path share their places;
  that a topology check or a wipe means a full disk comes from here;
* `GateInv`: the gate is closed up to the first write, open from there on, and a
  pipeline that has got to its mounts has written;
* `LayoutInv`: while the disk has not changed late, the layout is in place from
  its acceptance to the mounts, and exactly the partitions due are formatted.
  "accept" is in it: the probe saw the table, the validation after it does not;
* `StrayInv`: a verified mode that formatted a wrong partition has a foreign
  table, and every verification ahead of it refuses that;
* `CauseInv`, `HeldInv`, `OutcomeInv`: who names a failure, which session knows
  what is mounted, and how the outcome follows from both.

One lemma takes each part through every action (`StageStep`, `GateStep`,
`StrayStep`, ...), and the refinement has one for each kind of abstract step
(`RefineWrite`, `RefineHold`, `RefineCleanup`, `RefineAnswer`, `RefineRest`).
The only assumption is `TriesAssumption`.

`NtfsProofs` proves for any number of interferences that the
invariants of run `ntfs` hold (`TypeCorrect`, `NothingStaleWritten`,
`PowerLossSurvived`, `RereadsUnobstructed`, `VerdictsHonest`,
`SuccessesComplete`, `AnswersUnderstood`), that no table is written or shown
before the file system is ready for it (`FilesystemIsFirst`), and that `Spec`
implements `StorageCommit` (`Refinement`). The argument:

* `ChildInv`, `CountInv`: where the child, the file system and the counters
  stand in each part of the run; what is flushed stays flushed because nobody
  writes the file system once its writer is gone;
* `CopyInv`: what a written copy looks like, seen and flushed; this is where an
  `fsync` that is left out would break the proof;
* `WholeInv`: one copy is whole, and while one is being written it is the other;
* `NoticeInv`: an interference is still visible to the next check, or it hit the
  one window; and a worker is never past a check that an interference preceded;
* `DescInv`, `AnswerInv`: which descriptions are open where, and how a report
  bounds what happened.

`StaleWritesNothing` and `SurvivesPowerLoss` are inductive with these. There is
a lemma per part and a step per action; the refinement separates the steps that
touch a flag (`RefineNext`) from those that can only finish the resize
(`RefineQuiet`). The only assumption is `UpsetsAssumption`.

The same module proves of the evidence (`EvidenceSpec` of NtfsAdmission)
that `OneVolume` and `ResizesTheConfirmed` hold for any capacity, any tool
chains and any number of uses (`ReadsOneVolume`, `ConfirmedIsResized`). Neither
is inductive: both speak of a job that has finished. `EvidenceInv` says what a
job knows on the way:

* `HeldInv`: who has begun keeps the source open, so nobody mounts it, and until
  a stray writer comes the volume is the one it opened;
* `CutInv`: one stray writer cuts the readings in two, the first `c` fit the
  volume before it and the rest the volume after it;
* `AgreeInv`: each reading agrees with the one it was compared with, and before
  the resize each passed its own test.

`PreparationIsWhole` is the argument for the double inspections. Behind the
fourteenth reading the comparisons of the fifteenth and sixteenth close the cut;
before the fourth everything that was read earlier is read again; and in between
the two minima, boot sectors and metadata straddle the cut and were found equal.
No assumption is used.

`ManualWorkerProofs` proves about the two jobs of ManualWorker:

* `BudgetSuffices`, `SufficientFits` for every tree, file size, cluster size and
  limit. The invariant is `Ahead`: the volume grows by at most two clusters for
  each name when names fit into a cluster, and by at most three otherwise, and
  then the fixed headroom covers the third; one lemma bounds what an entry can
  add to a directory. The assumptions are `FatAssumption` and `NamesAssumption`,
  the numbers of FAT and of the code;
* `OnlyThePlansPartitions`, `EligibleIsThePlans` for every set of roles and any
  number of changes to the disk. The property speaks of the end, so `ProbeInv`
  follows the probe partition by partition: what is open is, by place and
  sequence number, what the snapshot expected; a verdict already given is
  `Sound`, that is, true of what was open then; and a partition that has become
  another has a later sequence number, which the last description shows;
* `CopyFits`: the worker as composed keeps the promise of its budget
  (`PartsOfTheWorker` splits a behaviour of the worker into its two parts).

`StoragePlanningProofs` proves for every geometry, table, choice and edit of
another program that

* `AcceptedAsConfirmed`: what is accepted is the confirmed table changed as the
  plan says. Its invariant `PlanInv` says that plan, choice and table of the
  confirmation stay together, and that admission bound the preservation proof to
  them. The step is `Accept`: the fingerprint leaves the planned rows out, so it
  takes a count to see that no row but the planned ones is new: both tables have
  the same number of foreign rows and every row has a number of its own;
* `PlansSound`: every plan of the three planners keeps `PlanSound`. The lemmas
  under it are arithmetic of alignment (`Up`, `Down`), the lowest open slots and
  that a gap's ends stay clear of every partition;
* `PlannersAreExact`: a planner finds the widest layout, or the last cut, exactly
  when there is one. This needs the greatest and least element of a bounded set
  of sectors, taken from the well-foundedness of the naturals.

The assumptions are `GeometryAssumption` and `InputAssumption`.

`ObservationProofs` proves of the three modules that observe an installation. Of
the store (`StoreSpec`), for any number of sessions and any limits, that
`QuotaKept` and `LiveReserved` hold (`QuotaIsKept`, `LiveAreReserved`). The
invariant `StoreInv` says what a start in the middle of its scan may rely on:

* `ScanInv`, `RoomInv`: it looks into directories that are there and that nobody
  adds to, and between two of them there is room for one session more;
* `LiveInv`: it has reserved a worst case for every session it found alive and
  that still is. This holds without the lease, because a journal whose lock was
  free stays free: a closed session never writes again;
* `SumInv`: under the lease nothing is written while it measures, so what it has
  added up is the weight of the files; and beside the one session alive there is
  room for its worst case. Without the lease this is what fails (*Finding*).

`WeightAdd` adds one session to the units counted. The assumption is
`StoreAssumption`; that the limit on sessions is at least one is needed, for a
start never compares it with an empty store.

Of the record of one session (`Spec`), for any number of stages and any limits,
that `RecordsAgree` and `ReportHonest` hold (`RecordsSpeakTrue`,
`ReportsAreHonest`). No induction over the journal is needed: a report is applied
event by event, so it is enough to follow what each event credits. `RecorderInv`
has two halves, which every step keeps (`MovesOn` and `QuietStep` are the lemmas
the steps share):

* `FilesInv` is about what is on disk. `OrderInv` says in which order the steps
  left in `work` stand, so that a rename always finds a whole temporary file;
  `JournalInv` that a log still recording has every event but the one about to
  be appended, and `CompleteInv` that the log is called complete only right
  after `session.end`; `CreditInv` that a stage counts in the report once its end
  was seen, and in a file once it is in the journal;
* `CourseInv` and `FinishInv` are about what is said. `n` messages of some script
  have been served, what is under way is the next one, and as long as the engine
  is willing none is missing: so a stage whose end was served is credited or
  about to be, and an outcome that was served is the script's. From there it is
  a step to what `finish` may conclude.

Of the guest-agent client (`AgentSpec`), for any number of clients, that
`ReportsItsOwn` and `AnswerStillComes` hold (`ReportsAreItsOwn`,
`AnswersStillCome`). `AgentInv` looks at what the client has still to read,
buffer and line together:

* `SyncInv`: while it synchronises, its token is the last question and unanswered,
  or the answer is the end of what is to be read, whole and after a delimiter, or
  the guest rebooted and lost it. Nothing else there is of its token, so the only
  answer it can take for its own is its own;
* `TalkInv`: from then on there is one question or its answer and nothing else,
  which is why the client may tell answers apart by their shape;
* `OwnInv`: the process it waits for is the one it started.

`Dropped` and `Received` say what a read does to the pieces left; the first line
end is found through the well-foundedness of the naturals. The assumptions are
`LimitsAssumption` and `ClientsAssumption`.

`MountSessionProofs` proves for every set of plans, any number of mounts and any
amount of trouble that the invariants and the action property of run `mounts`
hold (`TypeCorrect`, `TruthfulCleanup`, `ShieldHolds`, `NeverTheWipedNames`,
`UnmountsItsOwn`). None is inductive: a granted protection says nothing of a
command that is still to take effect, a cleanup nothing of what it has already
taken away. `IInv`, stated at the end of MountSession, adds

* `IdInv`, `WantedInv`: ids stand for mounts, now and after a late effect, and a
  command wants one thing, or a bind of `/dev` with its `pts`;
* `CallInv`: a running unmount has just seen that everything is the session's;
  a command that answered yes has left nothing pending;
* `NameInv`, `BareInv`: with an NTFS plan nothing has the names of a wiped disk;
  a kept EFI partition is whole and writable at the staging directory and at
  `/boot/efi` only;
* `ProtectInv`: how that comes down to the staging directory, by the time the
  remount is read back, and to nothing, by the time protection is granted. Here
  the proof needs that there is one mount at `/boot/efi` at most, that is, that
  the bind was refused unless the place was empty;
* `CleanupInv`: as long as cleanup says it goes well, what it owns is what it has
  yet to go through, and nothing pending can mount.

`CoreKeeps`, `ProtectKeeps`, `ShieldKeeps` and `CleanupKeeps` take the parts
through every action; `MadeFacts` is what the kernel's choice of ids gives. The
assumptions are `BoundsAssumption` (room for one mount) and `PlansAssumption`.

Model-checked only:

* liveness (`HelperTerminates`, `EngineReclaimed`, `TransactionEnds`, and with the
  waits for ever that section 3 names `SessionReturns`, `CallsEnd`,
  `InstallEnds`): fairness and ENABLED are out of the prover's reach.

Every safety invariant and every action property that a run expects to hold is
stated by a theorem; liveness and the one violated property are not.

## 5. What the models leave out

* The contents of requests, plans and progress messages: they are compared or
  forwarded whole. That `handle` rebuilds the plan from its own snapshot is
  `HelperSnapshot`.
* The set-up of the session's `main` (namespace, power inhibitor) and the
  installation lock itself: RecordStore has the lease as a choice, the gate as a
  given.
* `HelperClient` and the GUI's half of the pipe; copy progress; log export and
  artifact collection (copies checked by content); the caches of disk discovery
  and network state; the installer state of the screens; the output capture of
  the command runner.
* Bytes of GPT, boot sector and NTFS metadata, signatures of file systems, and
  the output of the tools that read them: a check sees what it expects or
  refuses. The screen's size arithmetic (`manual_partition_sizing.dart`).
* Of a session's record: an engine that reports an outcome without having begun a
  stage. One that says nothing before it exits is in.
* `alongside` partitioning: `InstallService` refuses it.
* Presentation, translations, packaging, manifest and locale generators, key
  sender and policy checks of the build, test doubles: no protocol runs in them.

## 6. Plan

What is left, the most important first:

1. **InstallLease**: the lock inherited by helper, session, engine and worker;
   refinement of mutual exclusion over the disk, with a proof.
2. **HelperClient**: the event protocol against one-verdict.
3. **CopyProgress**, **ArtifactExport**, **DiskDiscovery**.

Every module keeps to the same form: constants with named assumptions, one
action per step of the code, invariants as conjunctions of named parts, no
recursive operator where a theorem is planned.
