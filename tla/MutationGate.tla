---------------------------- MODULE MutationGate ----------------------------
(***************************************************************************)
(* The mutation gate: how one privileged installation gets from a user's   *)
(* confirmation to the first write on the disk, and how its verdict gets   *)
(* back.  Three processes and the world:                                   *)
(*                                                                         *)
(*   helper   linux/ro-installer-helper (handle, run_backend)              *)
(*   session  linux/ro-installer-session, the engine's parent              *)
(*   engine   lib/services/privileged_backend.dart around InstallService   *)
(*   world    the medium behind /dev/<disk> and its partition table, which *)
(*            udev, a user or another program may change at any moment     *)
(*                                                                         *)
(* The helper writes one request on the engine's standard input, reads     *)
(* lines from its standard output, and answers "ready" with one "continue" *)
(* line followed by end of file.                                           *)
(***************************************************************************)
EXTENDS Naturals, Sequences

CONSTANTS
    Tables,     \* partition-table fingerprints a disk can show
    MaxSeq,     \* bound: media that pass through the slot (diskSequence)
    MaxOut      \* bound: lines the engine's stdout pipe holds

ASSUME TablesAssumption == "none" \notin Tables /\ Tables # {}
ASSUME BoundsAssumption == MaxSeq \in Nat \ {0} /\ MaxOut \in Nat \ {0}

VARIABLES
    request,      \* [mode, disk, table, reports]: what the user confirmed
    disk,         \* diskSequence of the medium now behind the path
    table,        \* fingerprint of the partition table now on it
    usable,       \* no mount, swap, live-root or holder protects it now
    hpc,          \* helper: where handle/run_backend stands
    confirmed,    \* helper: device identity admitted under the lock (0: none)
    authorized,   \* helper: run_backend's flag of the same name
    failure,      \* helper: run_backend's first HelperError, if any
    final,        \* helper: the engine's result line
    reportSeen,   \* helper: the session-report line was read
    late,         \* helper: the BACKEND_TIMEOUT deadline has passed
    output,       \* helper: main's output_available
    verdict,      \* helper: what handle returned or raised
    epc,          \* engine: where the run stands
    planned,      \* engine: table its read-only planning compared and used
    engineAuth,   \* engine: runPrivilegedBackend's authorized
    outcome,      \* engine: runInstall's result
    mutated,      \* engine: has written to the disk
    spc,          \* session process
    adopted,      \* session: Supervisor.expected (0: none)
    status,       \* session: exit status
    out,          \* engine/session stdout pipe, oldest line first
    gate,         \* the continue line's device on the engine's stdin (0: none)
    stdin         \* engine's stdin: "open" or at end of file

world   == <<disk, table, usable>>
helper  == <<hpc, confirmed, authorized, failure, final, reportSeen, late,
             output, verdict>>
engine  == <<epc, planned, engineAuth, outcome, mutated>>
session == <<spc, adopted, status>>
pipes   == <<out, gate, stdin>>
vars    == <<request, world, helper, engine, session, pipes>>

Modes   == {"full", "free", "manual"}
Lines   == {"progress", "ready", "ok", "failed", "report", "junk"}
Live    == {"adopt", "plan", "commit", "announce", "await", "eof",
            "install", "report"}
Ended   == {"exited", "crashed", "killed"}
InGate  == {"gateDevice", "gateTable", "send", "close", "authorize"}

Requests ==
    [mode : Modes, disk : 1..MaxSeq, table : Tables, reports : BOOLEAN]

WorldType ==
    disk \in 1..MaxSeq /\ table \in Tables /\ usable \in BOOLEAN

HelperType ==
    /\ hpc \in {"validate", "snapshot", "proof", "revalidate", "pump",
                "stop", "reap", "done", "dead"} \cup InGate
    /\ confirmed \in 0..MaxSeq
    /\ authorized \in BOOLEAN /\ failure \in BOOLEAN
    /\ reportSeen \in BOOLEAN /\ late \in BOOLEAN /\ output \in BOOLEAN
    /\ final \in {"none", "ok", "failed"}
    /\ verdict \in {"none", "installed", "failed"}

EngineType ==
    /\ epc \in {"off"} \cup Live \cup Ended
    /\ planned \in Tables \cup {"none"}
    /\ engineAuth \in BOOLEAN /\ mutated \in BOOLEAN
    /\ outcome \in {"none", "ok", "failed"}

SessionType ==
    /\ spc \in {"off", "up", "exited", "crashed", "killed"}
    /\ adopted \in 0..MaxSeq
    /\ status \in {"none", "zero", "bad"}
    /\ gate \in 0..MaxSeq /\ stdin \in {"open", "closed"}

TypeOK ==
    /\ request \in Requests /\ out \in Seq(Lines)
    /\ WorldType /\ HelperType /\ EngineType /\ SessionType

\* Free-space and manual installation exist only in protocol 2, which is also
\* the protocol that asks for a session report.
Init ==
    /\ disk \in 1..MaxSeq /\ table \in Tables /\ usable \in BOOLEAN
    /\ request \in {r \in Requests : r.disk <= disk
                                  /\ (r.mode # "full" => r.reports)}
    /\ hpc = "validate" /\ confirmed = 0 /\ authorized = FALSE
    /\ failure = FALSE /\ final = "none" /\ reportSeen = FALSE
    /\ late = FALSE /\ output = TRUE /\ verdict = "none"
    /\ epc = "off" /\ planned = "none" /\ engineAuth = FALSE
    /\ outcome = "none" /\ mutated = FALSE
    /\ spc = "off" /\ adopted = 0 /\ status = "none"
    /\ out = <<>> /\ gate = 0 /\ stdin = "open"

-----------------------------------------------------------------------------
(* The world.  The kernel numbers media with a growing diskSequence, so a  *)
(* replaced medium is never mistaken for the one before; a partition table *)
(* may change and change back.                                             *)

ReplaceMedium ==
    /\ disk < MaxSeq
    /\ disk' = disk + 1 /\ table' \in Tables /\ usable' \in BOOLEAN
    /\ UNCHANGED <<request, helper, engine, session, pipes>>

ForeignRepartition ==
    /\ table' \in Tables \ {table}
    /\ UNCHANGED <<request, disk, usable, helper, engine, session, pipes>>

ForeignUse ==
    /\ usable' = ~usable
    /\ UNCHANGED <<request, disk, table, helper, engine, session, pipes>>

-----------------------------------------------------------------------------
(* Helper: admission under the installer lock.                             *)

NeedsTable == request.mode # "full"

\* fail(...) raised outside run_backend: the verdict, and no engine.
Refuse ==
    /\ hpc' = "done" /\ verdict' = "failed"
    /\ UNCHANGED <<request, world, confirmed, authorized, failure, final,
                   reportSeen, late, output, engine, session, pipes>>

Admit(next) ==
    /\ hpc' = next
    /\ UNCHANGED <<request, world, confirmed, authorized, failure, final,
                   reportSeen, late, output, verdict, engine, session, pipes>>

HelperValidate ==
    /\ hpc = "validate"
    /\ \/ /\ usable /\ disk = request.disk
          /\ confirmed' = disk
          /\ hpc' = IF NeedsTable THEN "snapshot" ELSE "revalidate"
          /\ UNCHANGED <<request, world, authorized, failure, final,
                         reportSeen, late, output, verdict, engine, session,
                         pipes>>
       \/ ~(usable /\ disk = request.disk) /\ Refuse

\* gpt_snapshot, then the plan rebuilt from it against the confirmed one; the
\* plan carries the device and the table fingerprint.
HelperSnapshot ==
    /\ hpc = "snapshot"
    /\ \/ disk = confirmed /\ table = request.table /\ Admit("proof")
       \/ ~(disk = confirmed /\ table = request.table) /\ Refuse

\* The second, preserving snapshot must show the same table.
HelperProof ==
    /\ hpc = "proof"
    /\ \/ disk = confirmed /\ table = request.table /\ Admit("revalidate")
       \/ ~(disk = confirmed /\ table = request.table) /\ Refuse

\* The last validation and Popen of the session, which starts the engine.
HelperSpawn ==
    /\ hpc = "revalidate"
    /\ \/ /\ usable /\ disk = confirmed
          /\ hpc' = "pump" /\ spc' = "up" /\ epc' = "adopt"
          /\ UNCHANGED <<request, world, confirmed, authorized, failure,
                         final, reportSeen, late, output, verdict, planned,
                         engineAuth, outcome, mutated, adopted, status, pipes>>
       \/ ~(usable /\ disk = confirmed) /\ Refuse

-----------------------------------------------------------------------------
(* Helper: run_backend's loop.                                             *)

\* Mutated form: every failure stops the group, authorized or not.
HelperFailsAlwaysStops ==
    /\ failure' = TRUE /\ hpc' = "stop"
    /\ UNCHANGED <<request, world, confirmed, authorized, final, reportSeen,
                   late, output, verdict, engine, session, gate, stdin>>

\* `failure = error`, then `if failure and not authorized: break`.
HelperFails ==
    /\ failure' = TRUE
    /\ hpc' = IF authorized THEN "pump" ELSE "stop"
    /\ UNCHANGED <<request, world, confirmed, authorized, final, reportSeen,
                   late, output, verdict, engine, session, gate, stdin>>

\* Malformed lines, anything after the session report, anything but the
\* report after the result, and a second ready.
Rejected(m) ==
    \/ m = "junk"
    \/ reportSeen
    \/ m # "report" /\ final # "none"
    \/ m = "ready" /\ authorized

Receiving == hpc = "pump" /\ ~failure /\ out # <<>>

HelperRejects ==
    /\ Receiving /\ Rejected(Head(out))
    /\ out' = Tail(out) /\ HelperFails

\* Progress and copy-progress are forwarded; a full or closed GUI pipe clears
\* output_available for good and changes nothing else.
HelperForwards ==
    /\ Receiving /\ Head(out) = "progress" /\ ~Rejected("progress")
    /\ out' = Tail(out)
    /\ output' \in {output, FALSE}
    /\ UNCHANGED <<request, world, hpc, confirmed, authorized, failure, final,
                   reportSeen, late, verdict, engine, session, gate, stdin>>

HelperReceivesReport ==
    /\ Receiving /\ Head(out) = "report" /\ ~Rejected("report")
    /\ out' = Tail(out) /\ reportSeen' = TRUE
    /\ UNCHANGED <<request, world, hpc, confirmed, authorized, failure, final,
                   late, output, verdict, engine, session, gate, stdin>>

HelperReceivesResult ==
    /\ Receiving /\ Head(out) \in {"ok", "failed"} /\ ~Rejected(Head(out))
    /\ out' = Tail(out) /\ final' = Head(out)
    /\ UNCHANGED <<request, world, hpc, confirmed, authorized, failure,
                   reportSeen, late, output, verdict, engine, session, gate,
                   stdin>>

HelperReceivesReady ==
    /\ Receiving /\ Head(out) = "ready" /\ ~Rejected("ready")
    /\ out' = Tail(out) /\ hpc' = "gateDevice"
    /\ UNCHANGED <<request, world, confirmed, authorized, failure, final,
                   reportSeen, late, output, verdict, engine, session, gate,
                   stdin>>

GateStep(next) ==
    /\ hpc' = next
    /\ UNCHANGED <<request, world, confirmed, authorized, failure, final,
                   reportSeen, late, output, verdict, engine, session, pipes>>

\* Mutated form: the device is validated again but not compared.
GateDeviceUncompared ==
    /\ hpc = "gateDevice"
    /\ \/ usable /\ GateStep(IF NeedsTable THEN "gateTable" ELSE "send")
       \/ ~usable /\ UNCHANGED out /\ HelperFails

\* validate_device(...) != confirmed -> DEVICE_CHANGED.
GateDevice ==
    /\ hpc = "gateDevice"
    /\ \/ /\ usable /\ disk = confirmed
          /\ GateStep(IF NeedsTable THEN "gateTable" ELSE "send")
       \/ ~(usable /\ disk = confirmed) /\ UNCHANGED out /\ HelperFails

\* The fresh snapshot must equal the admitted one.
GateTable ==
    /\ hpc = "gateTable"
    /\ \/ disk = confirmed /\ table = request.table /\ GateStep("send")
       \/ ~(disk = confirmed /\ table = request.table)
          /\ UNCHANGED out /\ HelperFails

\* Write and flush the continue line.  A group that is already gone breaks the
\* pipe: OSError, reported as BACKEND_ERROR through the finally clause.
GateWrite ==
    /\ hpc = "send"
    /\ \/ /\ epc \notin Ended \/ spc = "up"
          /\ gate' = confirmed /\ hpc' = "close"
          /\ UNCHANGED <<request, world, confirmed, authorized, failure, final,
                         reportSeen, late, output, verdict, engine, session,
                         out, stdin>>
       \/ /\ epc \in Ended /\ spc # "up"
          /\ UNCHANGED out /\ HelperFails

\* Close the engine's stdin: its wait for end of file is over.
GateClose ==
    /\ hpc = "close"
    /\ stdin' = "closed" /\ hpc' = "authorize"
    /\ UNCHANGED <<request, world, confirmed, authorized, failure, final,
                   reportSeen, late, output, verdict, engine, session, out,
                   gate>>

\* Mutated form: the authorization is not recorded.
GateAuthorizeUnrecorded == hpc = "authorize" /\ GateStep("pump")

\* `authorized = True`, by when the engine may have begun to write.
GateAuthorize ==
    /\ hpc = "authorize"
    /\ authorized' = TRUE /\ hpc' = "pump"
    /\ UNCHANGED <<request, world, confirmed, failure, final, reportSeen, late,
                   output, verdict, engine, session, pipes>>

\* stderr, stdout or message-count limits.
HelperOverflow ==
    /\ hpc = "pump" /\ ~failure /\ spc = "up"
    /\ UNCHANGED out /\ HelperFails

\* After a failure past the gate the stream is drained, never parsed.
HelperDrains ==
    /\ hpc = "pump" /\ failure /\ out # <<>>
    /\ out' = Tail(out)
    /\ UNCHANGED <<request, world, helper, engine, session, gate, stdin>>

DeadlinePasses ==
    /\ hpc = "pump" /\ ~late
    /\ late' = TRUE
    /\ UNCHANGED <<request, world, hpc, confirmed, authorized, failure, final,
                   reportSeen, output, verdict, engine, session, pipes>>

\* Mutated form: the deadline is not looked at once the engine is authorized.
HelperWatchdogSparesAuthorized ==
    /\ hpc = "pump" /\ late /\ ~authorized
    /\ failure' = TRUE /\ hpc' = "stop"
    /\ UNCHANGED <<request, world, confirmed, authorized, final, reportSeen,
                   late, output, verdict, engine, session, pipes>>

HelperWatchdog ==
    /\ hpc = "pump" /\ late
    /\ failure' = TRUE /\ hpc' = "stop"
    /\ UNCHANGED <<request, world, confirmed, authorized, final, reportSeen,
                   late, output, verdict, engine, session, pipes>>

\* Mutated form: process.kill() instead of the process group.
KillSessionOnly ==
    /\ spc' = IF spc = "up" THEN "killed" ELSE spc
    /\ status' = IF spc = "up" THEN "bad" ELSE status
    /\ UNCHANGED <<epc, planned, engineAuth, outcome, mutated, adopted>>

\* stop_backend_group: SIGKILL for the session's process group.
KillGroup ==
    /\ epc' = IF epc \in Live THEN "killed" ELSE epc
    /\ spc' = IF spc = "up" THEN "killed" ELSE spc
    /\ status' = IF spc = "up" THEN "bad" ELSE status
    /\ UNCHANGED <<planned, engineAuth, outcome, mutated, adopted>>

HelperStops ==
    /\ hpc = "stop" /\ KillGroup /\ hpc' = "reap"
    /\ UNCHANGED <<request, world, confirmed, authorized, failure, final,
                   reportSeen, late, output, verdict, pipes>>

\* End of file on both streams: every holder of the pipe is gone.
HelperEof ==
    /\ hpc = "pump" /\ out = <<>> /\ epc \in Ended /\ spc # "up"
    /\ hpc' = "reap"
    /\ UNCHANGED <<request, world, confirmed, authorized, failure, final,
                   reportSeen, late, output, verdict, engine, session, pipes>>

Succeeded ==
    ~failure /\ final = "ok" /\ authorized /\ status = "zero"

\* The session's status is read, the verdict formed, and the finally clause
\* kills what is left before the result line is written.
HelperReaps ==
    /\ hpc = "reap"
    /\ verdict' = IF Succeeded THEN "installed" ELSE "failed"
    /\ KillGroup /\ stdin' = "closed" /\ hpc' = "done"
    /\ UNCHANGED <<request, world, confirmed, authorized, failure, final,
                   reportSeen, late, output, out, gate>>

\* SIGKILL of the helper: its pipe ends close, nothing else is told.
HelperDies ==
    /\ hpc \notin {"done", "dead"}
    /\ hpc' = "dead" /\ stdin' = "closed" /\ out' = <<>>
    /\ UNCHANGED <<request, world, confirmed, authorized, failure, final,
                   reportSeen, late, output, verdict, engine, session, gate>>

-----------------------------------------------------------------------------
(* Engine.  A line blocks while the pipe is full and is lost once the      *)
(* helper is dead.                                                         *)

Send(m) ==
    IF hpc \in {"dead", "done"}
    THEN UNCHANGED out
    ELSE Len(out) < MaxOut /\ out' = Append(out, m)

EngineStep(next) ==
    /\ epc' = next
    /\ UNCHANGED <<request, world, helper, planned, engineAuth, outcome,
                   mutated, session, gate, stdin>>

EngineProgress ==
    /\ epc \in Live \ {"report"} /\ Send("progress")
    /\ UNCHANGED <<request, world, helper, engine, session, gate, stdin>>

\* Whatever else reaches the inherited stdout, and half-written lines.
EngineJunk ==
    /\ epc \in Live /\ Send("junk")
    /\ UNCHANGED <<request, world, helper, engine, session, gate, stdin>>

\* MountSession.validateTarget(disk): the session adopts what it sees.  It is
\* not told which identity the helper confirmed.
EngineAdopts ==
    /\ epc = "adopt" /\ spc = "up" /\ usable
    /\ adopted' = disk /\ epc' = "plan"
    /\ UNCHANGED <<request, world, helper, planned, engineAuth, outcome,
                   mutated, spc, status, pipes>>

\* Preflight and stage 1 to the mutation boundary; a free-space or manual run
\* compares a fresh probe with the approved snapshot.
EnginePlans ==
    /\ epc = "plan" /\ spc = "up"
    /\ NeedsTable => disk = request.disk /\ table = request.table
    /\ planned' = table /\ epc' = "commit"
    /\ UNCHANGED <<request, world, helper, engineAuth, outcome, mutated,
                   session, pipes>>

\* validateTarget(disk, commit: true) inside beforeFirstMutation.
EngineCommits ==
    /\ epc = "commit" /\ spc = "up" /\ usable /\ disk = adopted
    /\ UNCHANGED out /\ EngineStep("announce")

EngineAnnounces ==
    /\ epc = "announce" /\ Send("ready") /\ EngineStep("await")

EngineReadsGate ==
    /\ epc = "await" /\ gate # 0 /\ gate = request.disk
    /\ UNCHANGED out /\ EngineStep("eof")

EngineAuthorized ==
    /\ epc = "eof" /\ stdin = "closed"
    /\ epc' = "install" /\ engineAuth' = TRUE
    /\ UNCHANGED <<request, world, helper, planned, outcome, mutated, session,
                   pipes>>

EngineMutates ==
    /\ epc = "install" /\ ~mutated /\ spc = "up"
    /\ mutated' = TRUE
    /\ UNCHANGED <<request, world, helper, epc, planned, engineAuth, outcome,
                   session, pipes>>

\* All nine stages and the cleanup verified.
EngineCompletes ==
    /\ epc = "install" /\ mutated /\ spc = "up"
    /\ outcome' = "ok" /\ epc' = "report"
    /\ UNCHANGED <<request, world, helper, planned, engineAuth, mutated,
                   session, pipes>>

\* Any check, stage or command fails; the gate's 15 s (45 s) and end-of-file
\* (1 s) waits expire; stdin ends without a line; the gate names another disk.
EngineFails ==
    /\ epc \in Live \ {"report"}
    /\ outcome' = "failed" /\ epc' = "report"
    /\ UNCHANGED <<request, world, helper, planned, engineAuth, mutated,
                   session, pipes>>

EngineReports ==
    /\ epc = "report"
    /\ Send(IF outcome = "ok" /\ engineAuth THEN "ok" ELSE "failed")
    /\ EngineStep("exited")

EngineCrashes ==
    /\ epc \in Live
    /\ UNCHANGED out \/ Send("junk")
    /\ EngineStep("crashed")

-----------------------------------------------------------------------------
(* Session: Supervisor.run around the engine, then the report.             *)

\* Mutated form: engine.wait() without a timeout.
SessionWaitsForever == FALSE /\ UNCHANGED vars

\* engine.wait(BACKEND_TIMEOUT) expires: the engine is killed, status 9.
SessionTimeout ==
    /\ spc = "up" /\ epc \in Live
    /\ UNCHANGED out /\ EngineStep("killed")

\* Exit with the engine's status, or 9 if a child leaked or storage failed;
\* with protocol 2 the report line goes out first, unless publishing fails.
SessionEnds ==
    /\ spc = "up" /\ epc \in Ended
    /\ spc' = "exited"
    /\ status' \in IF epc = "exited" /\ outcome = "ok" /\ engineAuth
                   THEN {"zero", "bad"} ELSE {"bad"}
    /\ \/ UNCHANGED out
       \/ request.reports /\ Send("report")
    /\ UNCHANGED <<request, world, helper, engine, adopted, gate, stdin>>

SessionCrashes ==
    /\ spc = "up"
    /\ spc' = "crashed" /\ status' = "bad"
    /\ UNCHANGED out \/ Send("junk")
    /\ UNCHANGED <<request, world, helper, engine, adopted, gate, stdin>>

-----------------------------------------------------------------------------
WorldNext   == ReplaceMedium \/ ForeignRepartition \/ ForeignUse
Admission   == HelperValidate \/ HelperSnapshot \/ HelperProof \/ HelperSpawn
Pump        == \/ HelperRejects \/ HelperForwards \/ HelperReceivesReport
               \/ HelperReceivesResult \/ HelperReceivesReady \/ HelperDrains
               \/ HelperOverflow \/ HelperEof
Gate        == \/ GateDevice \/ GateTable \/ GateWrite \/ GateClose
               \/ GateAuthorize
Finish      == HelperWatchdog \/ HelperStops \/ HelperReaps
EngineNext  == \/ EngineProgress \/ EngineJunk \/ EngineAdopts \/ EnginePlans
               \/ EngineCommits \/ EngineAnnounces \/ EngineReadsGate
               \/ EngineAuthorized \/ EngineMutates \/ EngineCompletes
               \/ EngineFails \/ EngineReports \/ EngineCrashes
SessionNext == SessionTimeout \/ SessionEnds \/ SessionCrashes

\* Nothing is left to happen in the installation.
Over == hpc \in {"done", "dead"} /\ epc \notin Live /\ spc # "up"

Next == \/ WorldNext \/ Admission \/ Pump \/ Gate \/ Finish \/ DeadlinePasses
        \/ HelperDies \/ EngineNext \/ SessionNext

Spec == Init /\ [][Next]_vars

\* The helper is a running process; its deadline and the session's are timers.
\* The engine is assumed to make no progress at all, and the session none but
\* its timer: it may wait for a command without a time limit for ever.
Fairness ==
    /\ WF_vars(Admission) /\ WF_vars(Gate) /\ WF_vars(Finish)
    /\ WF_vars(DeadlinePasses)
    /\ WF_vars(SessionTimeout)

FairSpec == Spec /\ Fairness

-----------------------------------------------------------------------------
(* What the gate is for.                                                   *)

\* The engine is given authority to write only when user, helper, session and
\* engine mean the same medium, although the session adopted its identity on
\* its own, and when the table its plan was built on is the confirmed one
\* (run_backend's ready branch, validate-target, beforeFirstMutation).  This is
\* about what they read before the gate line: no check follows it here, and a
\* medium or a table may still be exchanged after it.
ApprovedTarget ==
    engineAuth =>
        /\ confirmed = request.disk /\ gate = request.disk
        /\ adopted = request.disk
        /\ NeedsTable => planned = request.table

\* A medium other than the confirmed one is behind the path, and the gate's
\* last look at the device is still to come.
Swapped == disk # request.disk /\ gate = 0 /\ hpc # "send"

\* A medium exchanged at any moment before the gate's last look at the device
\* (validate_device and, if the plan has a table, gpt_snapshot) is never
\* written to, even if the session adopted it and the engine planned on it.
SwapDisarms == [](Swapped => []~mutated)

\* Unless the helper itself was killed, a disk that was written to is one the
\* helper knows it authorized: every refusal before the gate (DEVICE_CHANGED,
\* protocol errors, overflow, a dead session) left the disk untouched.  The
\* engine may be faster than the flag, but the helper decides nothing between
\* closing the pipe and setting it.
RefusalIsClean ==
    mutated => authorized \/ hpc \in {"authorize", "dead"}

\* The helper answers "installed" only for an engine that wrote, completed
\* all stages and cleanup and exited, under a session that found no leak.
VerdictTruthful ==
    verdict = "installed" =>
        epc = "exited" /\ outcome = "ok" /\ mutated /\ status = "zero"

\* When the verdict is out, nothing of the installation runs any more
\* (stop_backend_group in run_backend's finally clause).
VerdictIsLast ==
    hpc = "done" => epc \notin Live /\ spc # "up"

\* The verdict is true, and it is the last thing that happens.
VerdictSound == VerdictTruthful /\ VerdictIsLast

\* An engine that holds authority is never cancelled by a malformed stream,
\* an overflow or a lost GUI: only the two deadlines kill it.
KilledOnlyByTimer ==
    [][epc = "install" /\ epc' = "killed" => late \/ UNCHANGED helper]_vars

\* The helper always comes to an end, whatever the engine does or fails to do.
HelperTerminates == <>(hpc \in {"done", "dead"})

\* A hanging engine is eventually gone, even after the helper was killed,
\* as long as either of its two guardians lives (BACKEND_TIMEOUT twice).
EngineReclaimed ==
    <>[](epc \notin Live \/ (hpc = "dead" /\ spc = "crashed"))
-----------------------------------------------------------------------------
(* The inductive invariant behind the safety properties.               *)

\* A line of kind m is in the pipe.
InPipe(m) == \E i \in DOMAIN out : out[i] = m

\* The engine has passed its own commit check, so its session has adopted an
\* identity and, unless the whole disk goes, its plan was the confirmed one.
Committed ==
    /\ adopted # 0
    /\ NeedsTable => planned = request.table

\* The identities form a chain of reads of a growing number.
IdentityInv ==
    /\ request.disk <= disk
    /\ confirmed \in {0, request.disk}
    /\ hpc \notin {"validate", "done", "dead"} => confirmed = request.disk
    /\ epc # "off" => confirmed = request.disk
    /\ adopted # 0 => confirmed = request.disk /\ confirmed <= adopted
    /\ adopted <= disk
    /\ epc \in {"off", "adopt"} => adopted = 0

\* Before the ready line is answered.
ReadyInv ==
    /\ epc \in {"plan", "commit"} => adopted # 0
    /\ epc = "commit" /\ NeedsTable => planned = request.table
    /\ epc \in {"announce", "await", "eof", "install"} => Committed
    /\ InPipe("ready") => Committed
    /\ hpc \in InGate => Committed

\* The gate device check pins the adopted identity between two equal reads.
GateInv ==
    /\ hpc \in {"gateTable", "send", "close", "authorize"} =>
          adopted = request.disk
    /\ gate # 0 => gate = request.disk /\ adopted = request.disk /\ Committed
    /\ gate # 0 => authorized \/ hpc \in {"close", "authorize", "dead"}
    /\ authorized => gate # 0
    /\ hpc \in {"close", "authorize"} => gate # 0
    /\ hpc = "authorize" => stdin = "closed"
    /\ stdin = "closed" => authorized \/ hpc \in {"authorize", "dead", "done"}
    /\ epc = "eof" => gate # 0
    /\ engineAuth => gate # 0 /\ stdin = "closed"
    /\ engineAuth => authorized \/ hpc \in {"authorize", "dead"}
    /\ mutated => engineAuth

\* What is known about the engine's success.
OutcomeInv ==
    /\ epc = "install" => engineAuth
    /\ outcome = "ok" => engineAuth /\ mutated
    /\ outcome = "ok" => epc \in {"report"} \cup Ended
    /\ (InPipe("ok") \/ final = "ok") => outcome = "ok" /\ epc = "exited"
    /\ status = "zero" => spc = "exited"
    /\ verdict = "installed" => hpc = "done"

\* hpc "reap" is reached with the group gone; "done" keeps it gone; an authorized
\* group is stopped by the deadline only.
EndInv ==
    /\ hpc \in {"validate", "snapshot", "proof", "revalidate"} =>
          epc = "off" /\ spc = "off"
    /\ hpc \in {"reap", "done"} => epc \notin Live /\ spc # "up"
    /\ epc = "off" <=> spc = "off"
    /\ hpc = "stop" => late \/ ~authorized

IInv == /\ TypeOK /\ IdentityInv /\ ReadyInv /\ GateInv /\ OutcomeInv /\ EndInv
        /\ VerdictTruthful
=============================================================================
