---------------------------- MODULE NtfsAdmission ----------------------------
(***************************************************************************)
(* The evidence for an NTFS shrink (linux/ro_installer_ntfs.py): the       *)
(* inspection of the source, the preparation of an exact target, the       *)
(* confirmation, the worker's second preparation, the resize and the look  *)
(* at its result.  Every reading is a step, because other programs mount,  *)
(* fill, hibernate and rewrite the volume and upgrade the tools meanwhile. *)
(* NtfsTransaction has the writes in detail; here a resize is one step.    *)
(***************************************************************************)
EXTENDS Naturals, Sequences

CONSTANTS
    Size,        \* of the source partition
    Target,      \* of the confirmed plan
    Slack,       \* 1 GiB kept above the minimum
    Tools,       \* tool chains that can be installed
    Qualified,   \* those qualify_resize_toolchain accepts
    MaxChanges,  \* bound: uses of the volume between and during the jobs
    MaxStrays    \* bound: writes that ignore the exclusive open, in one job

ASSUME CapacityAssumption ==
    Size \in Nat /\ Target \in Nat /\ Slack \in Nat /\ Target < Size /\ Qualified \subseteq Tools

ASSUME BoundsAssumption == MaxChanges \in Nat /\ MaxStrays \in Nat

VARIABLES
    vol,       \* the volume: [extent, label, state, used]
    mounted,   \* another program has it mounted
    tools,     \* the tool chain installed
    stage,     \* "assess", "preview", "admit", "worker", "resize", "check" or the end
    held,      \* the exclusive open of the source
    reads,     \* what the running job has read
    shown,     \* inspection evidence the user was shown
    promised,  \* preparation evidence the user confirmed
    past,      \* history: the volume since the job began
    strays, changes

evidence == <<vol, mounted, tools, stage, held, reads, shown, promised, past, strays, changes>>

-----------------------------------------------------------------------------
\* boot_sector and resized_boot_sector, metadata and resized_metadata, the minimum
\* and the test run: what each can tell apart of a volume.
Look(v) == [boot |-> <<v.extent, v.label>>, meta |-> <<v.state>>,
            minimum |-> <<v.used>>, test |-> <<v.used <= Target>>]
Reading(field) == IF field = "tools" THEN <<tools>> ELSE Look(vol)[field]

\* What a job reads, and which earlier reading it must agree with (0: none).
See(field, as) == [field |-> field, as |-> as]
Inspection == <<See("boot", 0), See("meta", 0), See("minimum", 0), See("boot", 1), See("meta", 2)>>

\* Mutant: the second inspection only looks whether it still passes.
PreparationOnce ==
    <<See("tools", 0),
      See("boot", 0), See("meta", 0), See("minimum", 0), See("boot", 2), See("meta", 3),
      See("boot", 0), See("meta", 0), See("test", 0), See("boot", 7), See("meta", 8),
      See("boot", 0), See("meta", 0), See("minimum", 0), See("boot", 12), See("meta", 13),
      See("tools", 1)>>

\* _prepare_resize_evidence: two inspections around a test run at the target size.
Preparation ==
    <<See("tools", 0),
      See("boot", 0), See("meta", 0), See("minimum", 0), See("boot", 2), See("meta", 3),
      See("boot", 0), See("meta", 0), See("test", 0), See("boot", 7), See("meta", 8),
      See("boot", 2), See("meta", 3), See("minimum", 4), See("boot", 12), See("meta", 13),
      See("tools", 1)>>

Jobs == {"assess", "preview", "admit", "worker", "check"}
Script(s) == IF s \in {"preview", "worker"} THEN Preparation ELSE Inspection
InspectionOf(s, r) ==
    IF s \in {"preview", "worker"} THEN <<r[2], r[3], r[4]>> ELSE <<r[1], r[2], r[3]>>
PreparationOf(r) == <<InspectionOf("worker", r), r[7], r[8], r[1]>>

\* A reading that the job accepts: before the resize a whole, clean, awake volume
\* and a qualified tool chain; after it the new extent, marked for a check.
Accepted(s, field, value) ==
    /\ field = "boot" => IF s = "check" THEN value = <<"target", shown[1][2]>>
                                        ELSE value[1] = "whole"
    /\ field = "meta" => value[1] = (IF s = "check" THEN "chkdsk" ELSE "clean")
    /\ field = "minimum" => value[1] <= (IF s = "check" THEN Target ELSE Size)
    /\ field = "test" => value[1]
    /\ field = "tools" => value[1] \in Qualified

Volumes == [extent: {"whole", "part", "target"}, label: {1, 2},
            state: {"clean", "dirty", "asleep", "chkdsk"}, used: 1..Size]

EvidenceInit ==
    /\ vol \in [extent: {"whole"}, label: {1}, state: {"clean", "asleep"}, used: 1..Size]
    /\ mounted = FALSE /\ tools \in Tools
    /\ stage = "assess" /\ held = FALSE /\ reads = <<>>
    /\ shown = <<>> /\ promised = <<>> /\ past = {}
    /\ strays = 0 /\ changes = 0

-----------------------------------------------------------------------------
\* inspect_ntfs and the worker open the partition exclusively, and check that it is
\* still the one of the snapshot.
OpenSource ==
    /\ stage \in Jobs /\ reads = <<>> /\ past = {}
    /\ ~mounted
    /\ held' = TRUE /\ past' = {vol} /\ strays' = 0
    /\ UNCHANGED <<vol, mounted, tools, stage, reads, shown, promised, changes>>

\* One reading, with the comparison that hangs on it.
Read ==
    /\ stage \in Jobs /\ past # {}
    /\ Len(reads) < Len(Script(stage))
    /\ LET see == Script(stage)[Len(reads) + 1]
           value == Reading(see.field)
       IN  /\ Accepted(stage, see.field, value)
           /\ see.as # 0 => reads[see.as] = value
           /\ reads' = Append(reads, value)
    /\ UNCHANGED <<vol, mounted, tools, stage, held, shown, promised, past, strays, changes>>

Finished == past # {} /\ Len(reads) = Len(Script(stage))
Close(next) ==
    /\ stage' = next /\ held' = FALSE /\ reads' = <<>> /\ past' = {}
    /\ UNCHANGED <<vol, mounted, tools, strays, changes>>

\* assess-ntfs-shrink: the user sees the minimum.
Assessed ==
    /\ stage = "assess" /\ Finished
    /\ Close("preview") /\ shown' = InspectionOf(stage, reads)
    /\ UNCHANGED promised

Ample(r) == r[4][1] + Slack <= Target

\* prepare-ntfs-shrink: for the inspection that was shown; the user confirms.
Previewed ==
    /\ stage = "preview" /\ Finished
    /\ InspectionOf(stage, reads) = shown /\ Ample(reads)
    /\ Close("admit") /\ promised' = PreparationOf(reads)
    /\ UNCHANGED shown

\* normalize_ntfs_confirmation: a fresh inspection must match the confirmed one.
Admitted ==
    /\ stage = "admit" /\ Finished
    /\ InspectionOf(stage, reads) = shown
    /\ Close("worker")
    /\ UNCHANGED <<shown, promised>>

\* Mutant: the worker is content with whatever its own preparation finds.
ApprovedAnew ==
    /\ stage = "worker" /\ Finished /\ Ample(reads)
    /\ stage' = "resize"
    /\ UNCHANGED <<vol, mounted, tools, held, reads, shown, promised, past, strays, changes>>

\* resize_and_commit_ntfs: the worker prepares again, and keeps the source open.
Approved ==
    /\ stage = "worker" /\ Finished
    /\ InspectionOf(stage, reads) = shown /\ Ample(reads)
    /\ PreparationOf(reads) = promised
    /\ stage' = "resize"
    /\ UNCHANGED <<vol, mounted, tools, held, reads, shown, promised, past, strays, changes>>

\* run_native_resize: qualified tools; ntfsresize ends, or is cut short.
Resize ==
    /\ stage = "resize" /\ tools \in Qualified
    /\ \/ /\ vol.used <= Target
          /\ vol' = [vol EXCEPT !.extent = "target", !.state = "chkdsk"]
          /\ stage' = "check"
       \/ /\ vol' = [vol EXCEPT !.extent = "part", !.state = "dirty"]
          /\ stage' = "failed"
    /\ reads' = <<>> /\ past' = IF stage' = "check" THEN {vol'} ELSE {}
    /\ held' = (stage' = "check") /\ strays' = 0
    /\ UNCHANGED <<mounted, tools, shown, promised, changes>>

\* inspect_resized_fd.
Checked ==
    /\ stage = "check" /\ Finished
    /\ Close("done")
    /\ UNCHANGED <<shown, promised>>

\* A check that does not hold, a deadline, an output limit, the alarm.
Fail ==
    /\ stage \notin {"done", "failed"}
    /\ Close("failed")
    /\ UNCHANGED <<shown, promised>>

-----------------------------------------------------------------------------
\* Other programs.  A mount marks the volume in use and needs it unclaimed.
Mount ==
    /\ ~mounted /\ ~held /\ vol.state # "asleep" /\ changes < MaxChanges
    /\ mounted' = TRUE /\ vol' = [vol EXCEPT !.state = "dirty"]
    /\ changes' = changes + 1
    /\ UNCHANGED <<tools, stage, held, reads, shown, promised, past, strays>>

\* Files come and go; the volume may be left clean, dirty or with Windows asleep.
Unmount ==
    /\ mounted /\ mounted' = FALSE
    /\ \E used \in 1..Size, state \in {"clean", "dirty", "asleep"} :
          vol' = [vol EXCEPT !.used = used, !.state = state]
    /\ UNCHANGED <<tools, stage, held, reads, shown, promised, past, strays, changes>>

Upgrade ==
    /\ stage \notin {"done", "failed"}
    /\ tools' \in Tools \ {tools}
    /\ UNCHANGED <<vol, mounted, stage, held, reads, shown, promised, past, strays, changes>>

\* A writer of the whole disk does not ask for the partition.
Stray ==
    /\ past # {} /\ strays < MaxStrays
    /\ \E used \in 1..Size, label \in {1, 2} :
          vol' = [vol EXCEPT !.used = used, !.label = label]
    /\ past' = past \cup {vol'}
    /\ strays' = strays + 1
    /\ UNCHANGED <<mounted, tools, stage, held, reads, shown, promised, changes>>

EvidenceNext ==
    \/ OpenSource \/ Read \/ Assessed \/ Previewed \/ Admitted \/ Approved \/ Resize
    \/ Checked \/ Fail \/ Mount \/ Unmount \/ Upgrade \/ Stray

EvidenceSpec == EvidenceInit /\ [][EvidenceNext]_evidence

-----------------------------------------------------------------------------
\* Readings of one job are readings of one volume: although they are minutes apart
\* and each is taken by another program, they all fit a state the volume was in
\* while the job ran, even if a stray writer changed it once meanwhile.
OneVolume ==
    stage \in Jobs /\ Finished /\ strays <= 1 =>
        \E v \in past : \A k \in DOMAIN reads :
            LET field == Script(stage)[k].field
            IN  field # "tools" => reads[k] = Look(v)[field]

\* Whatever happened between the preview and the worker, the volume that is about
\* to be resized is the one that was confirmed: the same boot sector, clean, awake
\* and needing the same space.  A stray writer that gets in once more while the
\* worker looks is noticed, or comes after the last look that could notice it.
ResizesTheConfirmed ==
    stage = "resize" /\ strays <= 1 =>
        /\ ~mounted
        /\ \E v \in past :
              /\ strays = 0 => v = vol
              /\ <<Look(v).boot, Look(v).meta, Look(v).minimum>> = shown
              /\ v.extent = "whole" /\ v.state = "clean" /\ v.used + Slack <= Target
=============================================================================
