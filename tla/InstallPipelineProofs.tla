------------------------- MODULE InstallPipelineProofs -------------------------
(***************************************************************************)
(* Theorems about InstallPipeline, for every request, every number of      *)
(* probes and every way the disk can change.                               *)
(***************************************************************************)
EXTENDS InstallPipeline, TLAPS

USE TriesAssumption DEF vars, device, target, mounts, control, rest, still,
    Go, Begin, Abort, StageFailed, Thrown, Broken, Full, Verified, Confirmed

-----------------------------------------------------------------------------
(* Facts the invariant's steps share.                                      *)

\* What the requests of partitionMethod and its plans have in common.
LEMMA RequestFacts ==
    ASSUME req \in Requests
    PROVE  /\ "root" \in req.format /\ req.format \subseteq Roles
           /\ Full => req.format = Roles /\ req.new = Roles
           /\ ~Confirmed => Full
           /\ req.mode \in {"full", "free_space", "manual"}
BY DEF Requests, ManualRequests, Request, Full, Confirmed, Roles

\* Outcomes are built from a known cause.
LEMMA OutcomeFacts ==
    ASSUME NEW c \in Causes, NEW b \in BOOLEAN
    PROVE  Outcome(c, b) \in Outcomes
BY DEF Outcome, Outcomes

\* The disk changes late in every place from "accept" to the mounted target,
\* and not at all once the stages work on it.
LEMMA PlaceFacts ==
    ASSUME StageInv
    PROVE  /\ pc \in {"accept"} \cup Formatting \cup Mounting => Accepted
           /\ pc \in {"work", "cleanup"} => ~(stage < 5)
<1>1. CASE pc = "accept"
  BY <1>1 DEF Accepted
<1>2. CASE pc \in Formatting \cup Mounting
  <2>1. stage = 3 \/ stage = 4
    BY <1>2 DEF StageInv
  <2>2. stage > 2
    BY <2>1
  <2>3. Accepted
    BY <2>2 DEF Accepted
  <2>4. pc \notin {"work", "cleanup"}
    BY <1>2 DEF Formatting, Mounting
  <2>5. QED
    BY <2>3, <2>4
<1>3. CASE pc \in {"work", "cleanup"}
  <2>1. stage \in {5, 6, 7, 8, 9}
    BY <1>3 DEF StageInv
  <2>2. ~(stage < 5)
    BY <2>1
  <2>3. pc \notin {"accept"} \cup Formatting \cup Mounting
    BY <1>3 DEF Formatting, Mounting
  <2>4. QED
    BY <2>2, <2>3
<1>4. QED
  BY <1>1, <1>2, <1>3

\* A mkfs is counted as stray only where the layout is not in place.
LEMMA FormatFacts ==
    ASSUME StrayInv, FormatEsp \/ FormatRoot
    PROVE  /\ stray \in {0, 1}
           /\ UNCHANGED stray \/ (stray' = stray + 1 /\ ~InPlace)
           /\ stray' \in {0, 1, 2}
           /\ stray = 0 => stray' \in {0, 1} /\ (stray' = 1 => ~InPlace)
<1>1. stray \in {0, 1}
  BY DEF FormatEsp, FormatRoot, StrayInv
<1>2. UNCHANGED stray \/ (stray' = stray + 1 /\ ~InPlace)
  BY DEF FormatEsp, FormatRoot, Format
<1>3. QED
  BY <1>1, <1>2

-----------------------------------------------------------------------------
(* One lemma for each part of the invariant.                               *)

\* Types: the request never changes, stages and probes stay within their bounds.
LEMMA ControlTypeStep ==
    ASSUME ControlType, StageInv, ModeInv
    PROVE  [Next]_vars => ControlType'
<1>. USE DEF ControlType
<1>1. ASSUME CheckRequest PROVE ControlType'
  BY <1>1 DEF CheckRequest, Refuse
<1>2. ASSUME CheckPlatform PROVE ControlType'
  BY <1>2 DEF CheckPlatform, Refuse
<1>3. ASSUME OpenSession PROVE ControlType'
  BY <1>3 DEF OpenSession
<1>4. ASSUME Preflight PROVE ControlType'
  BY <1>4 DEF Preflight
<1>5. ASSUME AdmitEsp PROVE ControlType'
  BY <1>5 DEF AdmitEsp
<1>6. ASSUME PrepareDisk PROVE ControlType'
  BY <1>6 DEF PrepareDisk
<1>7. ASSUME PlanPartitions PROVE ControlType'
  BY <1>7 DEF PlanPartitions
<1>8. ASSUME ProbeSource PROVE ControlType'
  BY <1>8 DEF ProbeSource, AsApproved
<1>9. ASSUME Authorize PROVE ControlType'
  BY <1>9 DEF Authorize
<1>10. ASSUME Wipe PROVE ControlType'
  BY <1>10 DEF Wipe, WriteTable, FailWrite, Stop2
<1>11. ASSUME PartitionDisk PROVE ControlType'
  <2>1. left \in {1, 2, 3, 4}
    BY <1>11 DEF PartitionDisk, ModeInv
  <2>2. left' = left - 1 /\ UNCHANGED <<req, tries, stage>>
    BY <1>11 DEF PartitionDisk, WriteTable, FailWrite, Stop2
  <2>3. QED
    BY <2>1, <2>2
<1>12. ASSUME AppendPartitions \/ Rescan
     PROVE  ControlType'
  BY <1>12 DEF AppendPartitions, WriteTable, FailWrite, Stop2, Rescan
<1>13. ASSUME WaitForFullDisk PROVE ControlType'
  <2>1. /\ stage' = stage \/ stage' = 3
        /\ tries' = tries \/ (tries + 1 < MaxTries /\ tries' = tries + 1)
        /\ UNCHANGED <<req, left>>
    BY <1>13 DEF WaitForFullDisk, ProbeLayout, AcceptLayout
  <2>2. QED
    BY <2>1, TriesAssumption
<1>14. ASSUME WaitForFreeSpace PROVE ControlType'
  <2>1. /\ stage' = stage \/ stage' = 3
        /\ tries' = tries \/ (tries + 1 < MaxTries /\ tries' = tries + 1)
        /\ UNCHANGED <<req, left>>
    BY <1>14 DEF WaitForFreeSpace, ProbeLayout, AcceptLayout
  <2>2. QED
    BY <2>1, TriesAssumption
<1>15. ASSUME VerifyManual PROVE ControlType'
  <2>1. (stage' = stage \/ stage' = 3) /\ UNCHANGED <<req, left, tries>>
    BY <1>15 DEF VerifyManual
  <2>2. QED
    BY <2>1
<1>16. ASSUME CheckTopology \/ CheckEsp \/ FormatEsp \/ CheckRoot
     PROVE  ControlType'
  BY <1>16 DEF CheckTopology, CheckEsp, VerifyLayout, FormatEsp, Format,
     CheckRoot
<1>17. ASSUME FormatRoot PROVE ControlType'
  <2>1. (stage' = stage \/ stage' = 4) /\ UNCHANGED <<req, left, tries>>
    BY <1>17 DEF FormatRoot, Format
  <2>2. QED
    BY <2>1
<1>18. ASSUME CheckMount \/ MountRoot
     PROVE  ControlType'
  BY <1>18 DEF CheckMount, VerifyLayout, MountRoot
<1>19. ASSUME MountEsp PROVE ControlType'
  <2>1. (stage' = stage \/ stage' = 5) /\ UNCHANGED <<req, left, tries>>
    BY <1>19 DEF MountEsp
  <2>2. QED
    BY <2>1
<1>20. ASSUME Work PROVE ControlType'
  <2>1. pc = "work" /\ stage \in {5, 6, 7, 8}
    BY <1>20 DEF Work, StageInv
  <2>2. stage' = stage \/ (stage < 8 /\ stage' = stage + 1) \/ stage' = 9
    BY <1>20 DEF Work
  <2>3. UNCHANGED <<req, left, tries>>
    BY <1>20 DEF Work
  <2>4. QED
    BY <2>1, <2>2, <2>3
<1>21. ASSUME CleanupStage \/ Finally \/ Answer
     PROVE  ControlType'
  BY <1>21 DEF CleanupStage, CleanUp, Finally, Settle, Answer, Success
<1>22. ASSUME Die \/ Disturb \/ Adopt \/ Done
     PROVE  ControlType'
  BY <1>22 DEF Die, Disturb, Accepted, Adopt, Done
<1>23. ASSUME UNCHANGED vars PROVE ControlType'
  BY <1>23
<1>24. QED
  BY <1>1, <1>2, <1>3, <1>4, <1>5, <1>6, <1>7, <1>8, <1>9, <1>10,
     <1>11, <1>12, <1>13, <1>14, <1>15, <1>16, <1>17, <1>18, <1>19, <1>20,
     <1>21, <1>22, <1>23 DEF Next, Engine

\* Types: the disk and the gate.
LEMMA DiskTypeStep ==
    ASSUME DiskType
    PROVE  [Next]_vars => DiskType'
<1>. USE DEF DiskType
<1>1. ASSUME CheckRequest \/ CheckPlatform \/ OpenSession \/ Preflight \/
             AdmitEsp \/ PrepareDisk \/ PlanPartitions \/ ProbeSource \/
             Authorize
     PROVE  DiskType'
  <2>1. CASE CheckRequest \/ CheckPlatform \/ OpenSession
    BY <2>1 DEF CheckRequest, Refuse, CheckPlatform, OpenSession
  <2>2. CASE Preflight \/ AdmitEsp \/ PrepareDisk
    BY <2>2 DEF Preflight, AdmitEsp, PrepareDisk
  <2>3. CASE PlanPartitions \/ ProbeSource
    BY <2>3 DEF PlanPartitions, ProbeSource
  <2>4. CASE Authorize
    BY <2>4 DEF AsApproved, Authorize
  <2> QED BY <1>1, <2>1, <2>2, <2>3, <2>4
<1>2. ASSUME Wipe \/ PartitionDisk \/ AppendPartitions \/ Rescan \/
             WaitForFullDisk \/ WaitForFreeSpace \/ VerifyManual
     PROVE  DiskType'
  <2>1. CASE Wipe
    BY <2>1 DEF Wipe, WriteTable, FailWrite, Stop2
  <2>2. CASE PartitionDisk
    BY <2>2 DEF PartitionDisk, WriteTable, FailWrite, Stop2
  <2>3. CASE AppendPartitions
    BY <2>3 DEF AppendPartitions, WriteTable, FailWrite, Stop2
  <2>4. CASE Rescan \/ VerifyManual
    BY <2>4 DEF Rescan, VerifyManual
  <2>5. CASE WaitForFullDisk
    BY <2>5 DEF WaitForFullDisk, ProbeLayout, AcceptLayout
  <2>6. CASE WaitForFreeSpace
    BY <2>6 DEF WaitForFreeSpace, ProbeLayout, AcceptLayout
  <2> QED BY <1>2, <2>1, <2>2, <2>3, <2>4, <2>5, <2>6
<1>3. ASSUME CheckTopology \/ CheckEsp \/ FormatEsp \/ CheckRoot \/
             FormatRoot \/ CheckMount \/ MountRoot \/ MountEsp
     PROVE  DiskType'
  <2>1. CASE CheckTopology \/ CheckEsp
    BY <2>1 DEF CheckTopology, CheckEsp, VerifyLayout
  <2>4. CASE CheckRoot \/ CheckMount
    BY <2>4 DEF CheckRoot, CheckMount, VerifyLayout
  <2>2. CASE FormatEsp \/ FormatRoot
    BY <2>2 DEF FormatEsp, FormatRoot, Format
  <2>3. CASE MountRoot \/ MountEsp
    BY <2>3 DEF MountRoot, MountEsp
  <2> QED BY <1>3, <2>1, <2>2, <2>3, <2>4
<1>4. ASSUME Work \/ CleanupStage \/ Finally \/ Answer
     PROVE  DiskType'
  <2>1. CASE Work
    BY <2>1 DEF Work
  <2>2. CASE CleanupStage
    BY <2>2 DEF CleanupStage, CleanUp
  <2>3. CASE Finally
    BY <2>3 DEF Finally
  <2>4. CASE Answer
    BY <2>4 DEF Answer
  <2> QED BY <1>4, <2>1, <2>2, <2>3, <2>4
<1>5. ASSUME Die \/ Disturb \/ Adopt \/ Done
     PROVE  DiskType'
  <2>1. CASE Die
    BY <2>1 DEF Die
  <2>2. CASE Disturb
    BY <2>2 DEF Disturb, Accepted
  <2>3. CASE Adopt \/ Done
    BY <2>3 DEF Adopt, Done
  <2> QED BY <1>5, <2>1, <2>2, <2>3
<1>6. ASSUME UNCHANGED vars PROVE DiskType'
  BY <1>6
<1>7. QED
  BY <1>1, <1>2, <1>3, <1>4, <1>5, <1>6 DEF Next, Engine

\* Types: at most two file systems are made, each stray at most once.
LEMMA TargetTypeStep ==
    ASSUME TargetType, StrayInv
    PROVE  [Next]_vars => TargetType'
<1>. USE DEF TargetType
<1>1. ASSUME CheckRequest \/ CheckPlatform \/ OpenSession \/ Preflight \/
             AdmitEsp \/ PrepareDisk \/ PlanPartitions \/ ProbeSource \/
             Authorize
     PROVE  TargetType'
  BY <1>1 DEF CheckRequest, Refuse, CheckPlatform, OpenSession, Preflight,
     AdmitEsp, PrepareDisk, PlanPartitions, ProbeSource, AsApproved,
     Authorize
<1>2. ASSUME Wipe \/ PartitionDisk \/ AppendPartitions \/ Rescan \/
             WaitForFullDisk \/ WaitForFreeSpace \/ VerifyManual
     PROVE  TargetType'
  BY <1>2 DEF Wipe, WriteTable, FailWrite, Stop2, PartitionDisk,
     AppendPartitions, Rescan, WaitForFullDisk, ProbeLayout, AcceptLayout,
     WaitForFreeSpace, VerifyManual
<1>3. ASSUME CheckTopology \/ CheckEsp
     PROVE  TargetType'
  BY <1>3 DEF CheckTopology, CheckEsp, VerifyLayout
<1>4. ASSUME FormatEsp PROVE TargetType'
  <2>1. UNCHANGED placed /\ wrote' = TRUE
    BY <1>4 DEF FormatEsp, Format
  <2>2. stray' \in 0..2
    BY <1>4, FormatFacts
  <2>3. formatted' \subseteq Roles
    BY <1>4 DEF FormatEsp, Format, Roles
  <2>4. QED
    BY <2>1, <2>2, <2>3
<1>5. ASSUME CheckRoot PROVE TargetType'
  BY <1>5 DEF CheckRoot, VerifyLayout
<1>6. ASSUME FormatRoot PROVE TargetType'
  <2>1. UNCHANGED placed /\ wrote' = TRUE
    BY <1>6 DEF FormatRoot, Format
  <2>2. stray' \in 0..2
    BY <1>6, FormatFacts
  <2>3. formatted' \subseteq Roles
    BY <1>6 DEF FormatRoot, Format, Roles
  <2>4. QED
    BY <2>1, <2>2, <2>3
<1>7. ASSUME CheckMount \/ MountRoot \/ MountEsp
     PROVE  TargetType'
  BY <1>7 DEF CheckMount, VerifyLayout, MountRoot, MountEsp
<1>8. ASSUME Work \/ CleanupStage \/ Finally \/ Answer
     PROVE  TargetType'
  BY <1>8 DEF Work, CleanupStage, CleanUp, Finally, Settle, Answer, Success
<1>9. ASSUME Die \/ Disturb \/ Adopt \/ Done
     PROVE  TargetType'
  BY <1>9 DEF Die, Disturb, Accepted, Adopt, Done
<1>10. ASSUME UNCHANGED vars PROVE TargetType'
  BY <1>10
<1>11. QED
  BY <1>1, <1>2, <1>3, <1>4, <1>5, <1>6, <1>7, <1>8, <1>9, <1>10
     DEF Next, Engine

\* Types: the mount session.
LEMMA MountTypeStep ==
    ASSUME MountType
    PROVE  [Next]_vars => MountType'
<1>. USE DEF MountType
<1>1. ASSUME CheckRequest \/ CheckPlatform \/ OpenSession \/ Preflight \/
             AdmitEsp \/ PrepareDisk \/ PlanPartitions \/ ProbeSource \/
             Authorize
     PROVE  MountType'
  BY <1>1 DEF CheckRequest, Refuse, CheckPlatform, OpenSession, Preflight,
     AdmitEsp, PrepareDisk, PlanPartitions, ProbeSource, AsApproved,
     Authorize
<1>2. ASSUME Wipe \/ PartitionDisk \/ AppendPartitions \/ Rescan \/
             WaitForFullDisk \/ WaitForFreeSpace \/ VerifyManual
     PROVE  MountType'
  BY <1>2 DEF Wipe, WriteTable, FailWrite, Stop2, PartitionDisk,
     AppendPartitions, Rescan, WaitForFullDisk, ProbeLayout, AcceptLayout,
     WaitForFreeSpace, VerifyManual
<1>3. ASSUME CheckTopology \/ CheckEsp \/ FormatEsp \/ CheckRoot \/
             FormatRoot \/ CheckMount \/ MountRoot \/ MountEsp
     PROVE  MountType'
  BY <1>3 DEF CheckTopology, CheckEsp, VerifyLayout, FormatEsp, Format,
     CheckRoot, FormatRoot, CheckMount, MountRoot, MountEsp
<1>4. ASSUME Work \/ CleanupStage \/ Finally \/ Answer
     PROVE  MountType'
  BY <1>4 DEF Work, CleanupStage, CleanUp, Finally, Settle, Answer, Success
<1>5. ASSUME Die \/ Disturb \/ Adopt \/ Done
     PROVE  MountType'
  BY <1>5 DEF Die, Disturb, Accepted, Adopt, Done
<1>6. ASSUME UNCHANGED vars PROVE MountType'
  BY <1>6
<1>7. QED
  BY <1>1, <1>2, <1>3, <1>4, <1>5, <1>6 DEF Next, Engine

\* Types: the verdict.
LEMMA VerdictTypeStep ==
    ASSUME VerdictType
    PROVE  [Next]_vars => VerdictType'
<1>. USE DEF VerdictType, Causes
<1>1. ASSUME CheckRequest PROVE VerdictType'
  <2>1. UNCHANGED <<primary, succeeded>>
    BY <1>1 DEF CheckRequest, Refuse
  <2>2. \/ UNCHANGED outcome
        \/ \E c \in Causes : outcome' = Outcome(c, TRUE)
    BY <1>1 DEF CheckRequest, Refuse
  <2>3. QED
    BY <2>1, <2>2, OutcomeFacts DEF VerdictType
<1>2. ASSUME CheckPlatform PROVE VerdictType'
  <2>1. UNCHANGED <<primary, succeeded>>
    BY <1>2 DEF CheckPlatform, Refuse
  <2>2. \/ UNCHANGED outcome
        \/ \E c \in Causes : outcome' = Outcome(c, TRUE)
    BY <1>2 DEF CheckPlatform, Refuse
  <2>3. QED
    BY <2>1, <2>2, OutcomeFacts DEF VerdictType
<1>3. ASSUME OpenSession \/ Preflight \/ AdmitEsp \/ PrepareDisk \/
             PlanPartitions \/ ProbeSource \/ Authorize
     PROVE  VerdictType'
  BY <1>3 DEF OpenSession, Preflight, AdmitEsp, PrepareDisk, PlanPartitions,
     ProbeSource, AsApproved, Authorize
<1>4. ASSUME Wipe \/ PartitionDisk \/ AppendPartitions \/ Rescan \/
             WaitForFullDisk \/ WaitForFreeSpace \/ VerifyManual
     PROVE  VerdictType'
  BY <1>4 DEF Wipe, WriteTable, FailWrite, Stop2, PartitionDisk,
     AppendPartitions, Rescan, WaitForFullDisk, ProbeLayout, AcceptLayout,
     WaitForFreeSpace, VerifyManual
<1>5. ASSUME CheckTopology \/ CheckEsp \/ FormatEsp \/ CheckRoot \/
             FormatRoot \/ CheckMount \/ MountRoot \/ MountEsp
     PROVE  VerdictType'
  BY <1>5 DEF CheckTopology, CheckEsp, VerifyLayout, FormatEsp, Format,
     CheckRoot, FormatRoot, CheckMount, MountRoot, MountEsp
<1>6. ASSUME Work \/ CleanupStage
     PROVE  VerdictType'
  BY <1>6 DEF Work, CleanupStage, CleanUp
<1>7. ASSUME Finally PROVE VerdictType'
  <2>1. UNCHANGED <<primary, succeeded>>
    BY <1>7 DEF Finally, CleanUp, Settle
  <2>2. \E c \in Causes, b \in BOOLEAN : outcome' = Outcome(c, b)
    BY <1>7 DEF Finally, CleanUp, Settle, VerdictType
  <2>3. QED
    BY <2>1, <2>2, OutcomeFacts DEF VerdictType
<1>8. ASSUME Answer PROVE VerdictType'
  <2>1. UNCHANGED <<primary, succeeded>>
    BY <1>8 DEF Answer
  <2>2. outcome' \in Outcomes
    BY <1>8 DEF Answer, VerdictType, Outcomes
  <2>3. QED
    BY <2>1, <2>2
<1>9. ASSUME Die \/ Disturb \/ Adopt \/ Done
     PROVE  VerdictType'
  BY <1>9 DEF Die, Disturb, Accepted, Adopt, Done
<1>10. ASSUME UNCHANGED vars PROVE VerdictType'
  BY <1>10
<1>11. QED
  BY <1>1, <1>2, <1>3, <1>4, <1>5, <1>6, <1>7, <1>8, <1>9, <1>10
     DEF Next, Engine

\* The stage number is the one its place belongs to.
LEMMA StageStep ==
    ASSUME StageInv
    PROVE  [Next]_vars => StageInv'
<1>. USE DEF StageInv, Admission, Planning, Writing, Formatting, Mounting,
             Ended
<1>1. ASSUME CheckRequest \/ CheckPlatform \/ OpenSession \/ Preflight \/
             AdmitEsp \/ PrepareDisk \/ PlanPartitions \/ ProbeSource \/
             Authorize
     PROVE  StageInv'
  BY <1>1 DEF CheckRequest, Refuse, CheckPlatform, OpenSession, Preflight,
     AdmitEsp, PrepareDisk, PlanPartitions, ProbeSource, AsApproved,
     Authorize
<1>2. ASSUME Wipe \/ PartitionDisk \/ AppendPartitions \/ Rescan \/
             WaitForFullDisk \/ WaitForFreeSpace \/ VerifyManual
     PROVE  StageInv'
  BY <1>2 DEF Wipe, WriteTable, FailWrite, Stop2, PartitionDisk,
     AppendPartitions, Rescan, WaitForFullDisk, ProbeLayout, AcceptLayout,
     WaitForFreeSpace, VerifyManual
<1>3. ASSUME CheckTopology \/ CheckEsp \/ FormatEsp \/ CheckRoot \/
             FormatRoot \/ CheckMount \/ MountRoot \/ MountEsp
     PROVE  StageInv'
  BY <1>3 DEF CheckTopology, CheckEsp, VerifyLayout, FormatEsp, Format,
     CheckRoot, FormatRoot, CheckMount, MountRoot, MountEsp
<1>4. ASSUME Work PROVE StageInv'
  <2>1. stage \in {5, 6, 7, 8} /\ pc = "work"
    BY <1>4 DEF Work, StageInv
  <2>2. stage < 8 => stage + 1 \in {5, 6, 7, 8}
    BY <2>1
  <2>3. pc' = "work" => stage' \in {5, 6, 7, 8}
    BY <1>4, <2>2 DEF Work
  <2>4. pc' # "work" => (pc' = "cleanup" /\ stage' = 9) \/ pc' = "finally"
    BY <1>4, <2>1 DEF Work
  <2>5. QED
    BY <2>3, <2>4
<1>5. ASSUME CleanupStage \/ Finally \/ Answer
     PROVE  StageInv'
  BY <1>5 DEF CleanupStage, CleanUp, Finally, Settle, Answer, Success
<1>6. ASSUME Die \/ Disturb \/ Adopt \/ Done
     PROVE  StageInv'
  <2>1. CASE Die
    BY <2>1 DEF Die
  <2>2. CASE Disturb
    BY <2>2 DEF Disturb, Accepted
  <2>3. CASE Adopt \/ Done
    BY <2>3 DEF Adopt, Done
  <2> QED BY <1>6, <2>1, <2>2, <2>3
<1>7. ASSUME UNCHANGED vars PROVE StageInv'
  BY <1>7
<1>8. QED
  BY <1>1, <1>2, <1>3, <1>4, <1>5, <1>6, <1>7 DEF Next, Engine

\* A place that only one partitioning path has is reached by that path only.
LEMMA ModeStep ==
    ASSUME ModeInv, ControlType
    PROVE  [Next]_vars => ModeInv'
<1>. USE DEF ModeInv
<1>1. ASSUME CheckRequest \/ CheckPlatform \/ OpenSession \/ Preflight \/
             AdmitEsp \/ PrepareDisk \/ PlanPartitions \/ ProbeSource \/
             Authorize
     PROVE  ModeInv'
  BY <1>1 DEF CheckRequest, Refuse, CheckPlatform, OpenSession, Preflight,
     AdmitEsp, PrepareDisk, PlanPartitions, ProbeSource, AsApproved,
     Authorize
<1>2. ASSUME Wipe PROVE ModeInv'
  BY <1>2 DEF Wipe, WriteTable, FailWrite, Stop2
<1>3. ASSUME PartitionDisk PROVE ModeInv'
  <2>1. left \in {1, 2, 3, 4} /\ pc = "write"
    BY <1>3 DEF PartitionDisk
  <2>2. left = 1 \/ left - 1 \in {1, 2, 3, 4}
    BY <2>1
  <2>3. /\ pc' \in {"write", "rescan", "finally"}
        /\ pc' = "write" => left # 1
        /\ left' = left - 1
    BY <1>3 DEF PartitionDisk, WriteTable, FailWrite, Stop2
  <2>4. QED
    BY <2>2, <2>3
<1>4. ASSUME AppendPartitions PROVE ModeInv'
  BY <1>4 DEF AppendPartitions, WriteTable, FailWrite, Stop2
<1>5. ASSUME Rescan PROVE ModeInv'
  BY <1>5, RequestFacts DEF Rescan, Stop2, ControlType
<1>6. ASSUME WaitForFullDisk \/ WaitForFreeSpace \/ VerifyManual
     PROVE  ModeInv'
  BY <1>6 DEF WaitForFullDisk, ProbeLayout, AcceptLayout, WaitForFreeSpace,
     VerifyManual
<1>7. ASSUME CheckTopology PROVE ModeInv'
  BY <1>7, RequestFacts DEF CheckTopology, Roles, ControlType
<1>8. ASSUME CheckEsp \/ FormatEsp \/ CheckRoot \/ FormatRoot \/ CheckMount
             \/ MountRoot \/ MountEsp
     PROVE  ModeInv'
  BY <1>8 DEF CheckEsp, VerifyLayout, FormatEsp, Format, CheckRoot,
     FormatRoot, CheckMount, MountRoot, MountEsp
<1>9. ASSUME Work \/ CleanupStage \/ Finally \/ Answer
     PROVE  ModeInv'
  BY <1>9 DEF Work, CleanupStage, CleanUp, Finally, Settle, Answer, Success
<1>10. ASSUME Die \/ Disturb \/ Adopt \/ Done
     PROVE  ModeInv'
  BY <1>10 DEF Die, Disturb, Accepted, Adopt, Done
<1>11. ASSUME UNCHANGED vars PROVE ModeInv'
  BY <1>11
<1>12. QED
  BY <1>1, <1>2, <1>3, <1>4, <1>5, <1>6, <1>7, <1>8, <1>9, <1>10,
     <1>11 DEF Next, Engine

\* No write comes before the gate, and no later place is reached around it.
LEMMA GateStep ==
    ASSUME GateInv, CauseInv
    PROVE  [Next]_vars => GateInv'
<1>. USE DEF GateInv, CauseInv, Admission, Planning, Writing, Formatting,
             Mounting, Ended
<1>1. ASSUME CheckRequest PROVE GateInv'
  BY <1>1 DEF CheckRequest, Refuse
<1>2. ASSUME CheckPlatform PROVE GateInv'
  BY <1>2 DEF CheckPlatform, Refuse
<1>3. ASSUME OpenSession PROVE GateInv'
  BY <1>3 DEF OpenSession
<1>4. ASSUME Preflight PROVE GateInv'
  BY <1>4 DEF Preflight
<1>5. ASSUME AdmitEsp PROVE GateInv'
  BY <1>5 DEF AdmitEsp
<1>6. ASSUME PrepareDisk PROVE GateInv'
  BY <1>6 DEF PrepareDisk
<1>7. ASSUME PlanPartitions PROVE GateInv'
  BY <1>7 DEF PlanPartitions
<1>8. ASSUME ProbeSource PROVE GateInv'
  BY <1>8 DEF ProbeSource, AsApproved
<1>9. ASSUME Authorize PROVE GateInv'
  BY <1>9 DEF Authorize
<1>10. ASSUME Wipe PROVE GateInv'
  BY <1>10 DEF Wipe, WriteTable, FailWrite, Stop2
<1>11. ASSUME PartitionDisk PROVE GateInv'
  BY <1>11 DEF PartitionDisk, WriteTable, FailWrite, Stop2
<1>12. ASSUME AppendPartitions PROVE GateInv'
  BY <1>12 DEF AppendPartitions, WriteTable, FailWrite, Stop2
<1>13. ASSUME Rescan PROVE GateInv'
  BY <1>13 DEF Rescan, Stop2
<1>14. ASSUME WaitForFullDisk PROVE GateInv'
  <2>1. CASE ProbeLayout
    BY <1>14, <2>1 DEF ProbeLayout
  <2>2. CASE AcceptLayout("topology")
    BY <1>14, <2>2 DEF AcceptLayout
  <2>3. QED
    BY <1>14, <2>1, <2>2 DEF WaitForFullDisk
<1>15. ASSUME WaitForFreeSpace PROVE GateInv'
  <2>1. CASE ProbeLayout
    BY <1>15, <2>1 DEF ProbeLayout
  <2>2. CASE AcceptLayout("check esp")
    BY <1>15, <2>2 DEF AcceptLayout
  <2>3. QED
    BY <1>15, <2>1, <2>2 DEF WaitForFreeSpace
<1>16. ASSUME VerifyManual PROVE GateInv'
  BY <1>16 DEF VerifyManual
<1>17. ASSUME CheckTopology PROVE GateInv'
  BY <1>17 DEF CheckTopology
<1>18. ASSUME CheckEsp PROVE GateInv'
  BY <1>18 DEF CheckEsp, VerifyLayout
<1>19. ASSUME FormatEsp PROVE GateInv'
  BY <1>19 DEF FormatEsp, Format
<1>20. ASSUME CheckRoot PROVE GateInv'
  BY <1>20 DEF CheckRoot, VerifyLayout
<1>21. ASSUME FormatRoot PROVE GateInv'
  BY <1>21 DEF FormatRoot, Format
<1>22. ASSUME CheckMount PROVE GateInv'
  BY <1>22 DEF CheckMount, VerifyLayout
<1>23. ASSUME MountRoot PROVE GateInv'
  BY <1>23 DEF MountRoot
<1>24. ASSUME MountEsp PROVE GateInv'
  BY <1>24 DEF MountEsp
<1>25. ASSUME Work PROVE GateInv'
  BY <1>25 DEF Work
<1>26. ASSUME CleanupStage PROVE GateInv'
  BY <1>26 DEF CleanupStage, CleanUp
<1>27. ASSUME Finally PROVE GateInv'
  BY <1>27 DEF Finally, CleanUp, Settle
<1>28. ASSUME Answer PROVE GateInv'
  BY <1>28 DEF Answer, Success
<1>29. ASSUME Die PROVE GateInv'
  BY <1>29 DEF Die
<1>30. ASSUME Disturb PROVE GateInv'
  BY <1>30 DEF Disturb, Accepted
<1>31. ASSUME Adopt PROVE GateInv'
  BY <1>31 DEF Adopt
<1>32. ASSUME Done PROVE GateInv'
  BY <1>32 DEF Done
<1>33. ASSUME UNCHANGED vars PROVE GateInv'
  BY <1>33
<1>34. QED
  BY <1>1, <1>2, <1>3, <1>4, <1>5, <1>6, <1>7, <1>8, <1>9, <1>10,
     <1>11, <1>12, <1>13, <1>14, <1>15, <1>16, <1>17, <1>18, <1>19, <1>20,
     <1>21, <1>22, <1>23, <1>24, <1>25, <1>26, <1>27, <1>28, <1>29, <1>30,
     <1>31, <1>32, <1>33 DEF Next, Engine

\* An accepted layout stays in place, and formatting proceeds on it.
LEMMA LayoutStep ==
    ASSUME ControlType, StageInv, ModeInv, LayoutInv, StrayInv, CauseInv
    PROVE  [Next]_vars => LayoutInv'
<1>. USE DEF LayoutInv, CauseInv, InPlace, Goal, Admission, Planning, Writing,
             Formatting, Mounting, Ended
<1>1. ASSUME CheckRequest \/ CheckPlatform \/ OpenSession \/ Preflight \/
             AdmitEsp \/ PrepareDisk \/ PlanPartitions \/ ProbeSource \/
             Authorize
     PROVE  LayoutInv'
  BY <1>1 DEF CheckRequest, Refuse, CheckPlatform, OpenSession, Preflight,
     AdmitEsp, PrepareDisk, PlanPartitions, ProbeSource, AsApproved,
     Authorize
<1>2. ASSUME Wipe \/ PartitionDisk \/ AppendPartitions \/ Rescan
     PROVE  LayoutInv'
  BY <1>2 DEF Wipe, WriteTable, FailWrite, Stop2, PartitionDisk,
     AppendPartitions, Rescan
<1>3. ASSUME WaitForFullDisk PROVE LayoutInv'
  <2>1. CASE ProbeLayout
    BY <1>3, <2>1 DEF ProbeLayout
  <2>2. CASE AcceptLayout("topology")
    BY <1>3, <2>2 DEF AcceptLayout
  <2>3. QED
    BY <1>3, <2>1, <2>2 DEF WaitForFullDisk
<1>4. ASSUME WaitForFreeSpace PROVE LayoutInv'
  <2>1. CASE ProbeLayout
    BY <1>4, <2>1 DEF ProbeLayout
  <2>2. CASE AcceptLayout("check esp")
    BY <1>4, <2>2 DEF AcceptLayout
  <2>3. QED
    BY <1>4, <2>1, <2>2 DEF WaitForFreeSpace
<1>5. ASSUME VerifyManual PROVE LayoutInv'
  BY <1>5 DEF VerifyManual
<1>6. ASSUME CheckTopology PROVE LayoutInv'
  BY <1>6 DEF CheckTopology
<1>7. ASSUME CheckEsp PROVE LayoutInv'
  BY <1>7, RequestFacts DEF CheckEsp, VerifyLayout, StrayInv, ModeInv, ControlType, Roles
<1>8. ASSUME FormatEsp PROVE LayoutInv'
  BY <1>8, RequestFacts DEF FormatEsp, Format, StrayInv, ModeInv, ControlType, Roles
<1>9. ASSUME CheckRoot PROVE LayoutInv'
  BY <1>9 DEF CheckRoot, VerifyLayout
<1>10. ASSUME FormatRoot PROVE LayoutInv'
  <2>1. pc = "mkfs root" /\ Format("root", Begin(4, IF Full THEN "mount root" ELSE "check mount"))
    BY <1>10 DEF FormatRoot
  <2>2. req' = req /\ placed' = placed /\ succeeded' = succeeded  BY <2>1 DEF Format
  <2>3. UNCHANGED device /\ ~succeeded /\ req \in Requests
    BY <2>1 DEF Format, ControlType
  <2>4. ASSUME Confirmed, ~late
        PROVE  InPlace /\ stray = 0 /\ formatted = req.format \ {"root"} /\ "root" \in req.format
    BY <2>1, <2>3, <2>4, RequestFacts
  <2>5. ASSUME Confirmed, ~late
        PROVE  /\ stray' = 0
               /\ pc' = "finally"
                  \/ (pc' \in {"mount root", "check mount"} /\ formatted' = req.format)
    <3>1. CASE InPlace /\ formatted' = formatted \cup {"root"} /\ stray' = stray
      BY <2>1, <2>4, <2>5, <3>1 DEF Format
    <3>2. CASE formatted' = formatted /\ stray' = stray /\ pc' = "finally"
      BY <2>4, <2>5, <3>2
    <3> QED BY <2>1, <2>4, <2>5, <3>1, <3>2 DEF Format
  <2> QED BY <2>2, <2>3, <2>4, <2>5 DEF Confirmed
<1>11. ASSUME CheckMount \/ MountRoot \/ MountEsp
     PROVE  LayoutInv'
  BY <1>11 DEF CheckMount, VerifyLayout, MountRoot, MountEsp
<1>12. ASSUME Work \/ CleanupStage \/ Finally \/ Answer
     PROVE  LayoutInv'
  BY <1>12 DEF Work, CleanupStage, CleanUp, Finally, Settle, Answer, Success
<1>13. ASSUME Die PROVE LayoutInv'
  BY <1>13 DEF Die
<1>14. ASSUME Disturb PROVE LayoutInv'
  <2>1. late \/ Accepted => late'
    BY <1>14 DEF Disturb
  <2>2. UNCHANGED <<pc, succeeded, req, stray>> /\ ~succeeded /\ stage < 5
    BY <1>14 DEF Disturb
  <2>3. QED
    BY <2>1, <2>2, PlaceFacts
<1>15. ASSUME Adopt \/ Done
     PROVE  LayoutInv'
  BY <1>15 DEF Adopt, Done
<1>16. ASSUME UNCHANGED vars PROVE LayoutInv'
  BY <1>16
<1>17. QED
  BY <1>1, <1>2, <1>3, <1>4, <1>5, <1>6, <1>7, <1>8, <1>9, <1>10,
     <1>11, <1>12, <1>13, <1>14, <1>15, <1>16 DEF Next, Engine

\* A verified mode loses one partition at the most, and then never succeeds.
LEMMA StrayStep ==
    ASSUME ControlType, ModeInv, StrayInv, CauseInv
    PROVE  [Next]_vars => StrayInv'
<1>. USE DEF StrayInv, CauseInv, Admission, Planning, Writing, Formatting,
             Mounting, Ended
<1>1. ASSUME CheckRequest \/ CheckPlatform \/ OpenSession \/ Preflight \/
             AdmitEsp \/ PrepareDisk \/ PlanPartitions \/ ProbeSource \/
             Authorize
     PROVE  StrayInv'
  BY <1>1 DEF CheckRequest, Refuse, CheckPlatform, OpenSession, Preflight,
     AdmitEsp, PrepareDisk, PlanPartitions, ProbeSource, AsApproved,
     Authorize, InPlace, Goal
<1>2. ASSUME Wipe \/ PartitionDisk \/ AppendPartitions \/ Rescan
     PROVE  StrayInv'
  BY <1>2 DEF Wipe, WriteTable, FailWrite, Stop2, PartitionDisk,
     AppendPartitions, Rescan, InPlace, Goal
<1>3. ASSUME WaitForFullDisk PROVE StrayInv'
  <2>1. CASE ProbeLayout
    BY <1>3, <2>1 DEF ProbeLayout
  <2>2. CASE AcceptLayout("topology")
    BY <1>3, <2>2 DEF AcceptLayout
  <2>3. QED
    BY <1>3, <2>1, <2>2 DEF WaitForFullDisk
<1>4. ASSUME WaitForFreeSpace PROVE StrayInv'
  <2>1. CASE ProbeLayout
    BY <1>4, <2>1 DEF ProbeLayout
  <2>2. CASE AcceptLayout("check esp")
    BY <1>4, <2>2 DEF AcceptLayout
  <2>3. QED
    BY <1>4, <2>1, <2>2 DEF WaitForFreeSpace
<1>5. ASSUME VerifyManual PROVE StrayInv'
  BY <1>5 DEF VerifyManual, InPlace, Goal
<1>6. ASSUME CheckTopology PROVE StrayInv'
  BY <1>6 DEF CheckTopology, ModeInv
<1>7. ASSUME CheckEsp PROVE StrayInv'
  BY <1>7 DEF CheckEsp, VerifyLayout, InPlace, Goal
<1>8. ASSUME FormatEsp PROVE StrayInv'
  <2>1. /\ stray = 0 /\ UNCHANGED <<req, table, medium, kernel>>
        /\ pc = "mkfs esp" /\ pc' \in {"mkfs root", "check root", "finally"}
        /\ UNCHANGED succeeded /\ ~succeeded
    BY <1>8 DEF FormatEsp, Format
  <2>2. InPlace' <=> InPlace
    BY <2>1 DEF InPlace, Goal
  <2>3. pc' = "mkfs root" => Full
    BY <1>8 DEF FormatEsp, Format
  <2>4. stray' \in {0, 1} /\ (stray' = 1 => ~InPlace)
    BY <1>8, <2>1, FormatFacts
  <2>5. QED
    BY <2>1, <2>2, <2>3, <2>4
<1>9. ASSUME CheckRoot PROVE StrayInv'
  BY <1>9 DEF CheckRoot, VerifyLayout, InPlace, Goal
<1>10. ASSUME FormatRoot PROVE StrayInv'
  <2>1. /\ UNCHANGED <<req, table, medium, kernel>>
        /\ pc = "mkfs root" /\ pc' \in {"mount root", "check mount", "finally"}
        /\ UNCHANGED succeeded /\ ~succeeded
    BY <1>10 DEF FormatRoot, Format
  <2>2. InPlace' <=> InPlace
    BY <2>1 DEF InPlace, Goal
  <2>3. pc' = "mount root" => Full
    BY <1>10 DEF FormatRoot, Format
  <2>4. Verified => stray = 0
    BY <2>1
  <2>5. Verified => stray' \in {0, 1} /\ (stray' = 1 => ~InPlace)
    BY <1>10, <2>4, FormatFacts
  <2>6. QED
    BY <2>1, <2>2, <2>3, <2>5
<1>11. ASSUME CheckMount PROVE StrayInv'
  BY <1>11 DEF CheckMount, VerifyLayout, InPlace, Goal
<1>12. ASSUME MountRoot PROVE StrayInv'
  BY <1>12 DEF MountRoot, InPlace, Goal
<1>13. ASSUME MountEsp PROVE StrayInv'
  BY <1>13 DEF MountEsp, InPlace, Goal
<1>14. ASSUME Work PROVE StrayInv'
  BY <1>14 DEF Work, InPlace, Goal
<1>15. ASSUME CleanupStage PROVE StrayInv'
  BY <1>15 DEF CleanupStage, CleanUp, InPlace, Goal
<1>16. ASSUME Finally PROVE StrayInv'
  BY <1>16 DEF Finally, CleanUp, Settle, InPlace, Goal
<1>17. ASSUME Answer PROVE StrayInv'
  BY <1>17 DEF Answer, Success, InPlace, Goal
<1>18. ASSUME Die PROVE StrayInv'
  BY <1>18 DEF Die, InPlace, Goal
<1>19. ASSUME Disturb PROVE StrayInv'
  BY <1>19 DEF Disturb, Accepted, InPlace, Goal
<1>20. ASSUME Adopt PROVE StrayInv'
  BY <1>20 DEF Adopt, InPlace, Goal
<1>21. ASSUME Done PROVE StrayInv'
  BY <1>21 DEF Done, InPlace, Goal
<1>22. ASSUME UNCHANGED vars PROVE StrayInv'
  BY <1>22 DEF InPlace, Goal
<1>23. QED
  BY <1>1, <1>2, <1>3, <1>4, <1>5, <1>6, <1>7, <1>8, <1>9, <1>10,
     <1>11, <1>12, <1>13, <1>14, <1>15, <1>16, <1>17, <1>18, <1>19, <1>20,
     <1>21, <1>22 DEF Next, Engine

\* Failures are named once and by who may name them.
LEMMA CauseStep ==
    ASSUME GateInv, CauseInv
    PROVE  [Next]_vars => CauseInv'
<1>. USE DEF CauseInv, GateInv, Admission, Planning, Writing, Formatting,
             Mounting, Ended
<1>1. ASSUME CheckRequest PROVE CauseInv'
  BY <1>1 DEF CheckRequest, Refuse
<1>2. ASSUME CheckPlatform PROVE CauseInv'
  BY <1>2 DEF CheckPlatform, Refuse
<1>3. ASSUME OpenSession PROVE CauseInv'
  BY <1>3 DEF OpenSession
<1>4. ASSUME Preflight PROVE CauseInv'
  BY <1>4 DEF Preflight
<1>5. ASSUME AdmitEsp PROVE CauseInv'
  BY <1>5 DEF AdmitEsp
<1>6. ASSUME PrepareDisk PROVE CauseInv'
  BY <1>6 DEF PrepareDisk
<1>7. ASSUME PlanPartitions PROVE CauseInv'
  BY <1>7 DEF PlanPartitions
<1>8. ASSUME ProbeSource PROVE CauseInv'
  BY <1>8 DEF ProbeSource, AsApproved
<1>9. ASSUME Authorize PROVE CauseInv'
  BY <1>9 DEF Authorize
<1>10. ASSUME Wipe PROVE CauseInv'
  BY <1>10 DEF Wipe, WriteTable, FailWrite, Stop2
<1>11. ASSUME PartitionDisk PROVE CauseInv'
  BY <1>11 DEF PartitionDisk, WriteTable, FailWrite, Stop2
<1>12. ASSUME AppendPartitions PROVE CauseInv'
  BY <1>12 DEF AppendPartitions, WriteTable, FailWrite, Stop2
<1>13. ASSUME Rescan PROVE CauseInv'
  BY <1>13 DEF Rescan, Stop2
<1>14. ASSUME WaitForFullDisk PROVE CauseInv'
  <2>1. CASE ProbeLayout
    BY <1>14, <2>1 DEF ProbeLayout
  <2>2. CASE AcceptLayout("topology")
    BY <1>14, <2>2 DEF AcceptLayout
  <2>3. QED
    BY <1>14, <2>1, <2>2 DEF WaitForFullDisk
<1>15. ASSUME WaitForFreeSpace PROVE CauseInv'
  <2>1. CASE ProbeLayout
    BY <1>15, <2>1 DEF ProbeLayout
  <2>2. CASE AcceptLayout("check esp")
    BY <1>15, <2>2 DEF AcceptLayout
  <2>3. QED
    BY <1>15, <2>1, <2>2 DEF WaitForFreeSpace
<1>16. ASSUME VerifyManual PROVE CauseInv'
  BY <1>16 DEF VerifyManual
<1>17. ASSUME CheckTopology PROVE CauseInv'
  BY <1>17 DEF CheckTopology
<1>18. ASSUME CheckEsp PROVE CauseInv'
  BY <1>18 DEF CheckEsp, VerifyLayout
<1>19. ASSUME FormatEsp PROVE CauseInv'
  BY <1>19 DEF FormatEsp, Format
<1>20. ASSUME CheckRoot PROVE CauseInv'
  BY <1>20 DEF CheckRoot, VerifyLayout
<1>21. ASSUME FormatRoot PROVE CauseInv'
  BY <1>21 DEF FormatRoot, Format
<1>22. ASSUME CheckMount PROVE CauseInv'
  BY <1>22 DEF CheckMount, VerifyLayout
<1>23. ASSUME MountRoot PROVE CauseInv'
  BY <1>23 DEF MountRoot
<1>24. ASSUME MountEsp PROVE CauseInv'
  BY <1>24 DEF MountEsp
<1>25. ASSUME Work PROVE CauseInv'
  BY <1>25 DEF Work
<1>26. ASSUME CleanupStage PROVE CauseInv'
  <2>1. \/ pc' = "finally" /\ succeeded' = TRUE /\ UNCHANGED primary
        \/ pc' = "finally" /\ UNCHANGED succeeded /\ primary' \in {"STAGE_FAILED", "INSTALL_EXCEPTION"}
    BY <1>26 DEF CleanupStage, CleanUp
  <2>2. pc = "cleanup" /\ UNCHANGED wrote
    BY <1>26 DEF CleanupStage
  <2>3. QED
    BY <2>1, <2>2
<1>27. ASSUME Finally PROVE CauseInv'
  BY <1>27 DEF Finally, CleanUp, Settle
<1>28. ASSUME Answer PROVE CauseInv'
  BY <1>28 DEF Answer, Success
<1>29. ASSUME Die PROVE CauseInv'
  BY <1>29 DEF Die
<1>30. ASSUME Disturb PROVE CauseInv'
  BY <1>30 DEF Disturb, Accepted
<1>31. ASSUME Adopt PROVE CauseInv'
  BY <1>31 DEF Adopt
<1>32. ASSUME Done PROVE CauseInv'
  BY <1>32 DEF Done
<1>33. ASSUME UNCHANGED vars PROVE CauseInv'
  BY <1>33
<1>34. QED
  BY <1>1, <1>2, <1>3, <1>4, <1>5, <1>6, <1>7, <1>8, <1>9, <1>10,
     <1>11, <1>12, <1>13, <1>14, <1>15, <1>16, <1>17, <1>18, <1>19, <1>20,
     <1>21, <1>22, <1>23, <1>24, <1>25, <1>26, <1>27, <1>28, <1>29, <1>30,
     <1>31, <1>32, <1>33 DEF Next, Engine

\* What is mounted is known to the session that has to take it away.
LEMMA HeldStep ==
    ASSUME HeldInv, CauseInv, MountType
    PROVE  [Next]_vars => HeldInv'
<1>. USE DEF HeldInv, CauseInv, MountType, Admission, Planning, Writing,
             Formatting, Mounting, Ended
<1>1. ASSUME CheckRequest PROVE HeldInv'
  BY <1>1 DEF CheckRequest, Refuse
<1>2. ASSUME CheckPlatform PROVE HeldInv'
  BY <1>2 DEF CheckPlatform, Refuse
<1>3. ASSUME OpenSession PROVE HeldInv'
  BY <1>3 DEF OpenSession
<1>4. ASSUME Preflight PROVE HeldInv'
  BY <1>4 DEF Preflight
<1>5. ASSUME AdmitEsp PROVE HeldInv'
  BY <1>5 DEF AdmitEsp
<1>6. ASSUME PrepareDisk PROVE HeldInv'
  BY <1>6 DEF PrepareDisk
<1>7. ASSUME PlanPartitions PROVE HeldInv'
  BY <1>7 DEF PlanPartitions
<1>8. ASSUME ProbeSource PROVE HeldInv'
  BY <1>8 DEF ProbeSource, AsApproved
<1>9. ASSUME Authorize PROVE HeldInv'
  BY <1>9 DEF Authorize
<1>10. ASSUME Wipe PROVE HeldInv'
  BY <1>10 DEF Wipe, WriteTable, FailWrite, Stop2
<1>11. ASSUME PartitionDisk PROVE HeldInv'
  BY <1>11 DEF PartitionDisk, WriteTable, FailWrite, Stop2
<1>12. ASSUME AppendPartitions PROVE HeldInv'
  BY <1>12 DEF AppendPartitions, WriteTable, FailWrite, Stop2
<1>13. ASSUME Rescan PROVE HeldInv'
  BY <1>13 DEF Rescan, Stop2
<1>14. ASSUME WaitForFullDisk PROVE HeldInv'
  <2>1. CASE ProbeLayout
    BY <1>14, <2>1 DEF ProbeLayout
  <2>2. CASE AcceptLayout("topology")
    BY <1>14, <2>2 DEF AcceptLayout
  <2>3. QED
    BY <1>14, <2>1, <2>2 DEF WaitForFullDisk
<1>15. ASSUME WaitForFreeSpace PROVE HeldInv'
  <2>1. CASE ProbeLayout
    BY <1>15, <2>1 DEF ProbeLayout
  <2>2. CASE AcceptLayout("check esp")
    BY <1>15, <2>2 DEF AcceptLayout
  <2>3. QED
    BY <1>15, <2>1, <2>2 DEF WaitForFreeSpace
<1>16. ASSUME VerifyManual PROVE HeldInv'
  BY <1>16 DEF VerifyManual
<1>17. ASSUME CheckTopology PROVE HeldInv'
  BY <1>17 DEF CheckTopology
<1>18. ASSUME CheckEsp PROVE HeldInv'
  BY <1>18 DEF CheckEsp, VerifyLayout
<1>19. ASSUME FormatEsp PROVE HeldInv'
  BY <1>19 DEF FormatEsp, Format
<1>20. ASSUME CheckRoot PROVE HeldInv'
  BY <1>20 DEF CheckRoot, VerifyLayout
<1>21. ASSUME FormatRoot PROVE HeldInv'
  BY <1>21 DEF FormatRoot, Format
<1>22. ASSUME CheckMount PROVE HeldInv'
  BY <1>22 DEF CheckMount, VerifyLayout
<1>23. ASSUME MountRoot PROVE HeldInv'
  BY <1>23 DEF MountRoot
<1>24. ASSUME MountEsp PROVE HeldInv'
  BY <1>24 DEF MountEsp
<1>25. ASSUME Work PROVE HeldInv'
  BY <1>25 DEF Work
<1>26. ASSUME CleanupStage PROVE HeldInv'
  <2>1. \/ pc' = "finally" /\ held' = FALSE
        \/ pc' = "finally" /\ UNCHANGED succeeded
    BY <1>26 DEF CleanupStage, CleanUp
  <2>2. pc = "cleanup" /\ UNCHANGED session
    BY <1>26 DEF CleanupStage
  <2>3. QED
    BY <2>1, <2>2
<1>27. ASSUME Finally PROVE HeldInv'
  <2>1. pc = "finally" /\ pc' = "answer" /\ UNCHANGED <<session, succeeded>>
    BY <1>27 DEF Finally, CleanUp, Settle
  <2>2. held' = held \/ held' = FALSE
    BY <1>27 DEF Finally, CleanUp, Settle
  <2>3. QED
    BY <2>1, <2>2
<1>28. ASSUME Answer PROVE HeldInv'
  BY <1>28 DEF Answer, Success
<1>29. ASSUME Die PROVE HeldInv'
  BY <1>29 DEF Die
<1>30. ASSUME Disturb PROVE HeldInv'
  BY <1>30 DEF Disturb, Accepted
<1>31. ASSUME Adopt PROVE HeldInv'
  BY <1>31 DEF Adopt
<1>32. ASSUME Done PROVE HeldInv'
  BY <1>32 DEF Done
<1>33. ASSUME UNCHANGED vars PROVE HeldInv'
  BY <1>33
<1>34. QED
  BY <1>1, <1>2, <1>3, <1>4, <1>5, <1>6, <1>7, <1>8, <1>9, <1>10,
     <1>11, <1>12, <1>13, <1>14, <1>15, <1>16, <1>17, <1>18, <1>19, <1>20,
     <1>21, <1>22, <1>23, <1>24, <1>25, <1>26, <1>27, <1>28, <1>29, <1>30,
     <1>31, <1>32, <1>33 DEF Next, Engine

\* The outcome follows from the failure, the stages and the cleanup.
LEMMA OutcomeStep ==
    ASSUME OutcomeInv, CauseInv, HeldInv, GateInv, VerdictType
    PROVE  [Next]_vars => OutcomeInv'
<1>. USE DEF OutcomeInv, Outcome, NoOutcome, Ended
<1>1. ASSUME CheckRequest PROVE OutcomeInv'
  <2>1. \/ UNCHANGED outcome /\ pc' \in {"platform", "open"}
        \/ /\ pc' = "answer" /\ outcome'.said = "none" /\ outcome'.clean
           /\ outcome'.cause \in {"UNSUPPORTED_MODE", "PREFLIGHT_FAILED",
                 "UNSUPPORTED_PLATFORM", "PLATFORM_CHECK_FAILED"}
    BY <1>1 DEF CheckRequest, Refuse
  <2>2. pc \in {"check", "platform"} /\ UNCHANGED <<wrote, held, succeeded>>
    BY <1>1 DEF CheckRequest
  <2>3. ~wrote /\ ~held /\ ~succeeded /\ outcome = NoOutcome
    BY <2>2 DEF GateInv, HeldInv, CauseInv, Admission
  <2>4. QED
    BY <2>1, <2>2, <2>3
<1>2. ASSUME CheckPlatform PROVE OutcomeInv'
  <2>1. \/ UNCHANGED outcome /\ pc' \in {"platform", "open"}
        \/ /\ pc' = "answer" /\ outcome'.said = "none" /\ outcome'.clean
           /\ outcome'.cause \in {"UNSUPPORTED_MODE", "PREFLIGHT_FAILED",
                 "UNSUPPORTED_PLATFORM", "PLATFORM_CHECK_FAILED"}
    BY <1>2 DEF CheckPlatform, Refuse
  <2>2. pc \in {"check", "platform"} /\ UNCHANGED <<wrote, held, succeeded>>
    BY <1>2 DEF CheckPlatform
  <2>3. ~wrote /\ ~held /\ ~succeeded /\ outcome = NoOutcome
    BY <2>2 DEF GateInv, HeldInv, CauseInv, Admission
  <2>4. QED
    BY <2>1, <2>2, <2>3
<1>3. ASSUME OpenSession \/ Preflight \/ AdmitEsp \/ PrepareDisk \/
             PlanPartitions \/ ProbeSource \/ Authorize
     PROVE  OutcomeInv'
  BY <1>3 DEF OpenSession, Preflight, AdmitEsp, PrepareDisk, PlanPartitions,
     ProbeSource, AsApproved, Authorize
<1>4. ASSUME Wipe \/ PartitionDisk \/ AppendPartitions \/ Rescan
     PROVE  OutcomeInv'
  BY <1>4 DEF Wipe, WriteTable, FailWrite, Stop2, PartitionDisk,
     AppendPartitions, Rescan
<1>5. ASSUME WaitForFullDisk PROVE OutcomeInv'
  <2>1. CASE ProbeLayout
    BY <1>5, <2>1 DEF ProbeLayout
  <2>2. CASE AcceptLayout("topology")
    BY <1>5, <2>2 DEF AcceptLayout
  <2>3. QED
    BY <1>5, <2>1, <2>2 DEF WaitForFullDisk
<1>6. ASSUME WaitForFreeSpace PROVE OutcomeInv'
  <2>1. CASE ProbeLayout
    BY <1>6, <2>1 DEF ProbeLayout
  <2>2. CASE AcceptLayout("check esp")
    BY <1>6, <2>2 DEF AcceptLayout
  <2>3. QED
    BY <1>6, <2>1, <2>2 DEF WaitForFreeSpace
<1>7. ASSUME VerifyManual PROVE OutcomeInv'
  BY <1>7 DEF VerifyManual
<1>8. ASSUME CheckTopology PROVE OutcomeInv'
  BY <1>8 DEF CheckTopology
<1>9. ASSUME CheckEsp PROVE OutcomeInv'
  BY <1>9 DEF CheckEsp, VerifyLayout
<1>10. ASSUME FormatEsp PROVE OutcomeInv'
  <2>1. outcome' = NoOutcome /\ pc' \notin {"answer", "done", "dead"}
    BY <1>10 DEF FormatEsp, Format
  <2>2. QED
    BY <2>1
<1>11. ASSUME CheckRoot PROVE OutcomeInv'
  BY <1>11 DEF CheckRoot, VerifyLayout
<1>12. ASSUME FormatRoot PROVE OutcomeInv'
  <2>1. outcome' = NoOutcome /\ pc' \notin {"answer", "done", "dead"}
    BY <1>12 DEF FormatRoot, Format
  <2>2. QED
    BY <2>1
<1>13. ASSUME CheckMount PROVE OutcomeInv'
  BY <1>13 DEF CheckMount, VerifyLayout
<1>14. ASSUME MountRoot PROVE OutcomeInv'
  <2>1. outcome' = NoOutcome /\ pc' \notin {"answer", "done", "dead"}
    BY <1>14 DEF MountRoot
  <2>2. QED
    BY <2>1
<1>15. ASSUME MountEsp PROVE OutcomeInv'
  BY <1>15 DEF MountEsp
<1>16. ASSUME Work PROVE OutcomeInv'
  BY <1>16 DEF Work
<1>17. ASSUME CleanupStage PROVE OutcomeInv'
  <2>1. outcome' = NoOutcome /\ pc' \notin {"answer", "done", "dead"}
    BY <1>17 DEF CleanupStage, CleanUp
  <2>2. QED
    BY <2>1
<1>18. ASSUME Finally PROVE OutcomeInv'
  <2>1. ~wrote \/ primary # "PREFLIGHT_FAILED"
    BY DEF CauseInv
  <2>2. pc = "finally" /\ pc' = "answer" /\ UNCHANGED <<wrote, succeeded>>
    BY <1>18 DEF Finally, CleanUp, Settle
  <2>3. primary = "none" <=> succeeded
    BY <2>2 DEF CauseInv
  <2>4. primary \in {"none", "PREFLIGHT_FAILED", "INSTALL_EXCEPTION", "STAGE_FAILED"}
    BY DEF CauseInv
  <2>5. \E clean \in BOOLEAN : outcome' = Outcome(primary, clean) /\ (clean => ~held')
    <3>1. CASE session = "none"
      <4>1. Settle(TRUE) /\ UNCHANGED held
        BY <1>18, <3>1 DEF Finally
      <4>2. ~held
        BY <3>1 DEF HeldInv
      <4>3. QED
        BY <4>1, <4>2, <2>3 DEF Settle
    <3>2. CASE session # "none" /\ Settle(TRUE)
      BY <1>18, <2>3, <3>2 DEF Finally, CleanUp, Settle
    <3>3. CASE session # "none" /\ ~Settle(TRUE)
      BY <1>18, <2>3, <3>3 DEF Finally, CleanUp, Settle
    <3>4. QED
      BY <3>1, <3>2, <3>3
  <2>6. QED
    BY <2>1, <2>2, <2>3, <2>4, <2>5
<1>19. ASSUME Answer PROVE OutcomeInv'
  <2>1. pc = "answer" /\ pc' = "done" /\ UNCHANGED <<wrote, succeeded, held>>
    BY <1>19 DEF Answer
  <2>2. PICK said \in {"OK", "INSTALL_FAILED", "BACKEND_ERROR"} :
          /\ said = "OK" => succeeded /\ Success(outcome) /\ gate = "open"
          /\ said = "INSTALL_FAILED" =>
                 ~(succeeded /\ Success(outcome) /\ gate = "open")
          /\ outcome' = [outcome EXCEPT !.said = said]
    BY <1>19 DEF Answer
  <2>3. outcome'.said = said /\ outcome'.cause = outcome.cause /\ outcome'.clean = outcome.clean
    BY <2>2 DEF VerdictType, Outcomes
  <2>4. succeeded => gate = "open"
    BY DEF GateInv
  <2>5. QED
    BY <2>1, <2>2, <2>3, <2>4 DEF Success
<1>20. ASSUME Die \/ Disturb \/ Adopt \/ Done
     PROVE  OutcomeInv'
  BY <1>20 DEF Die, Disturb, Accepted, Adopt, Done
<1>21. ASSUME UNCHANGED vars PROVE OutcomeInv'
  BY <1>21
<1>22. QED
  BY <1>1, <1>2, <1>3, <1>4, <1>5, <1>6, <1>7, <1>8, <1>9, <1>10,
     <1>11, <1>12, <1>13, <1>14, <1>15, <1>16, <1>17, <1>18, <1>19, <1>20,
     <1>21 DEF Next, Engine

-----------------------------------------------------------------------------
(* The invariant.                                                           *)

\* Every request starts in the invariant.
LEMMA InitInv == Init => IInv
<1>. SUFFICES ASSUME Init PROVE IInv
  OBVIOUS
<1>1. ControlType
  BY DEF Init, ControlType
<1>2. DiskType /\ MountType
  BY DEF Init, DiskType, MountType
<1>3. TargetType
  <2>1. wrote = FALSE /\ formatted = {} /\ stray = 0 /\ placed = "nowhere"
    BY DEF Init
  <2>2. stray \in 0..2
    BY <2>1
  <2>3. formatted \subseteq Roles
    BY <2>1
  <2>4. QED
    BY <2>1, <2>2, <2>3 DEF TargetType
<1>4. VerdictType
  BY OutcomeFacts DEF Init, VerdictType, NoOutcome, Causes
<1>5. StageInv /\ ModeInv /\ GateInv /\ LayoutInv /\ StrayInv
  BY DEF Init, StageInv, ModeInv, GateInv, LayoutInv, StrayInv, Admission,
         Planning, Writing, Formatting, Mounting, Ended
<1>6. CauseInv /\ HeldInv /\ OutcomeInv
  BY DEF Init, CauseInv, HeldInv, OutcomeInv, NoOutcome, Outcome, Admission,
         Ended
<1>7. QED
  BY <1>1, <1>2, <1>3, <1>4, <1>5, <1>6 DEF IInv, TypeOK

\* Every step keeps it: each part by its own lemma.
LEMMA NextInv == IInv /\ [Next]_vars => IInv'
<1>. SUFFICES ASSUME IInv, [Next]_vars PROVE IInv'
  OBVIOUS
<1>. USE DEF IInv, TypeOK
<1>1. TypeOK'
  BY ControlTypeStep, DiskTypeStep, TargetTypeStep, MountTypeStep,
     VerdictTypeStep
<1>2. StageInv' /\ ModeInv' /\ GateInv'
  BY StageStep, ModeStep, GateStep
<1>3. LayoutInv' /\ StrayInv'
  BY LayoutStep, StrayStep
<1>4. CauseInv' /\ HeldInv' /\ OutcomeInv'
  BY CauseStep, HeldStep, OutcomeStep
<1>5. QED
  BY <1>1, <1>2, <1>3, <1>4

\* The places, the gate, the layout and the verdict fit together in every state.
THEOREM Inductive == Spec => []IInv
  BY InitInv, NextInv, PTL DEF Spec

\* Every variable of the pipeline stays in its state space.
THEOREM TypeCorrect == Spec => []TypeOK
<1>1. IInv => TypeOK
  BY DEF IInv
<1>2. QED
  BY <1>1, Inductive, PTL

\* Nothing is written before the gate, and a refusal leaves the disk alone
\* (beforeFirstMutation and the early returns of runInstall).
THEOREM RefusalsAreClean == Spec => []RefusalsLeaveDisk
<1>1. IInv => RefusalsLeaveDisk
  <2>. SUFFICES ASSUME IInv PROVE RefusalsLeaveDisk
    OBVIOUS
  <2>1. wrote => gate = "open"
    BY DEF IInv, GateInv
  <2>2. primary \in {"UNSUPPORTED_MODE", "PREFLIGHT_FAILED",
           "UNSUPPORTED_PLATFORM", "PLATFORM_CHECK_FAILED"} => ~wrote
    BY DEF IInv, CauseInv
  <2>3. outcome.cause \in {"UNSUPPORTED_MODE", "PREFLIGHT_FAILED",
           "UNSUPPORTED_PLATFORM", "PLATFORM_CHECK_FAILED"} => ~wrote
    BY DEF IInv, OutcomeInv
  <2>4. QED
    BY <2>1, <2>2, <2>3 DEF RefusalsLeaveDisk
<1>2. QED
  BY <1>1, Inductive, PTL

\* A disk that changes before its layout is accepted is not formatted
\* (waitForFullDiskLayout, waitForFreeSpaceLayout, verifyManualLayoutNow).
THEOREM EarlyChangesStop == Spec => []EarlyChangeStops
<1>1. IInv => EarlyChangeStops
  BY DEF IInv, LayoutInv, EarlyChangeStops
<1>2. QED
  BY <1>1, Inductive, PTL

\* Where the disk is shared, a change after that costs one partition at most,
\* and the installation fails (the verifications before every mkfs).
THEOREM OneStray == Spec => []OneStrayFormat
<1>1. IInv => OneStrayFormat
  <2>1. ASSUME IInv, Verified PROVE stray \in {0, 1} /\ (stray = 1 => ~succeeded)
    BY <2>1 DEF IInv, StrayInv
  <2>2. ASSUME stray \in {0, 1} PROVE stray <= 1
    BY <2>2
  <2>3. QED
    BY <2>1, <2>2 DEF OneStrayFormat
<1>2. QED
  BY <1>1, Inductive, PTL

\* A layout that went stale costs nothing before it is accepted, and one partition
\* after that where the disk is shared.
THEOREM StrayFormatsAreBounded == Spec => []StrayFormatsBounded
BY EarlyChangesStop, OneStray, PTL DEF StrayFormatsBounded

\* "OK" is said of the approved layout, formatted as approved and unmounted.
THEOREM SuccessIsInstalled == Spec => []SuccessInstalled
<1>1. IInv => SuccessInstalled
  BY DEF IInv, LayoutInv, HeldInv, OutcomeInv, SuccessInstalled
<1>2. QED
  BY <1>1, Inductive, PTL

\* Every failed installation says why, and "clean" is true.
THEOREM VerdictsExplained == Spec => []VerdictExplained
<1>1. IInv => VerdictExplained
  BY DEF IInv, OutcomeInv, VerdictExplained
<1>2. QED
  BY <1>1, Inductive, PTL

-----------------------------------------------------------------------------
(* The pipeline implements the abstract installation.                      *)

\* What the abstract installation sees.
LEMMA Unseen ==
    ASSUME UNCHANGED <<gate, wrote, held, succeeded>>,
           pc \notin {"done", "dead"}, pc' \notin {"done", "dead"}
    PROVE  UNCHANGED Promise!vars
BY DEF Promise!vars, Disk, Verdict

\* An installation begins with nothing allowed, written, held or said.
LEMMA RefineInit == Init => Promise!Init
BY DEF Init, Promise!Init, Disk, Verdict

\* Steps that write: the gate is open, and the stages are not behind them.
LEMMA RefineWrite ==
    ASSUME IInv, Wipe \/ PartitionDisk \/ AppendPartitions \/ FormatEsp \/ FormatRoot
    PROVE  Promise!Write
<1>1. /\ pc \in {"wipe", "write", "mkfs esp", "mkfs root"}
      /\ wrote' = TRUE
      /\ UNCHANGED <<gate, held, succeeded>>
  BY DEF Wipe, PartitionDisk, AppendPartitions, WriteTable, FailWrite,
         FormatEsp, FormatRoot, Format
<1>2. pc' \notin {"done", "dead"}
  BY DEF Wipe, PartitionDisk, AppendPartitions, WriteTable, FailWrite, Stop2,
         FormatEsp, FormatRoot, Format
<1>3. gate = "open" /\ ~succeeded
  BY <1>1 DEF IInv, GateInv, CauseInv, Writing, Formatting, Ended
<1>4. QED
  BY <1>1, <1>2, <1>3 DEF Promise!Write, Disk, Verdict

\* Steps that mount or unmount.
LEMMA RefineHold ==
    ASSUME IInv, AdmitEsp \/ MountRoot \/ Finally
    PROVE  [Promise!Hold]_(Promise!vars)
<1>1. /\ pc \in {"esp", "mount root", "finally"}
      /\ UNCHANGED <<gate, wrote, succeeded>>
  BY DEF AdmitEsp, MountRoot, Finally
<1>2. pc' \notin {"done", "dead"}
  BY DEF AdmitEsp, MountRoot, Finally, CleanUp, Settle
<1>3. held' \in BOOLEAN
  BY DEF AdmitEsp, MountRoot, Finally, CleanUp, IInv, TypeOK, MountType
<1>4. CASE ~succeeded
  BY <1>1, <1>2, <1>3, <1>4 DEF Promise!Hold, Disk, Verdict
<1>5. CASE succeeded
  <2>1. pc = "finally" /\ ~held
    BY <1>1, <1>5 DEF IInv, CauseInv, HeldInv, Ended
  <2>2. Finally
    BY <2>1 DEF AdmitEsp, MountRoot
  <2>3. held' = held \/ held' = FALSE
    BY <2>1, <2>2 DEF Finally, CleanUp
  <2>4. UNCHANGED held
    BY <2>1, <2>3 DEF IInv, TypeOK, MountType
  <2>5. QED
    BY <1>1, <1>2, <2>1, <2>4, Unseen
<1>6. QED
  BY <1>4, <1>5

\* Stage 9: complete if the cleanup was clean, otherwise some mounts less.
LEMMA RefineCleanup ==
    ASSUME IInv, CleanupStage
    PROVE  Promise!Complete \/ Promise!Hold
<1>1. pc = "cleanup" /\ pc' = "finally" /\ UNCHANGED <<gate, wrote>>
  BY DEF CleanupStage, CleanUp
<1>2. wrote /\ ~succeeded
  BY <1>1 DEF IInv, GateInv, CauseInv, Ended
<1>3. \/ held' = FALSE /\ succeeded' = TRUE
      \/ held' \in BOOLEAN /\ UNCHANGED succeeded
  BY DEF CleanupStage, CleanUp, IInv, TypeOK, MountType
<1>4. QED
  BY <1>1, <1>2, <1>3 DEF Promise!Complete, Promise!Hold, Disk, Verdict

\* The answer: success with all stages behind it, or a failure that says
\* whether the mounts are gone.
LEMMA RefineAnswer ==
    ASSUME IInv, Answer
    PROVE  Promise!Succeed \/ Promise!Fail
<1>1. pc = "answer" /\ pc' = "done" /\ UNCHANGED <<gate, wrote, held, succeeded>>
  BY DEF Answer
<1>2. PICK said \in {"OK", "INSTALL_FAILED", "BACKEND_ERROR"} :
          /\ said = "OK" => succeeded
          /\ outcome' = [outcome EXCEPT !.said = said]
  BY DEF Answer
<1>3. outcome'.said = said /\ outcome'.clean = outcome.clean
  BY <1>2 DEF IInv, TypeOK, VerdictType, Outcomes
<1>4. (succeeded => ~held) /\ (outcome.clean => ~held)
  BY DEF IInv, HeldInv, OutcomeInv
<1>5. CASE said = "OK"
  BY <1>1, <1>2, <1>3, <1>4, <1>5 DEF Promise!Succeed, Disk, Verdict
<1>6. CASE said # "OK"
  BY <1>1, <1>3, <1>4, <1>6 DEF Promise!Fail, Disk, Verdict
<1>7. QED
  BY <1>5, <1>6

\* Every other step is invisible to the caller, but for the gate and the end.
LEMMA RefineRest ==
    ASSUME IInv, Next,
           ~(Wipe \/ PartitionDisk \/ AppendPartitions \/ FormatEsp \/ FormatRoot),
           ~(AdmitEsp \/ MountRoot \/ Finally), ~CleanupStage, ~Answer
    PROVE  Promise!Allow \/ Promise!Die \/ UNCHANGED Promise!vars
<1>1. CASE Authorize
  <2>1. /\ pc = "gate" /\ UNCHANGED <<wrote, held, succeeded>>
        /\ pc' \notin {"done", "dead"}
        /\ gate' \in {"open", "refused"}
    BY <1>1 DEF Authorize
  <2>2. gate = "closed" /\ ~wrote
    BY <2>1 DEF IInv, GateInv, Planning
  <2>3. QED
    BY <2>1, <2>2 DEF Promise!Allow, Promise!vars, Disk, Verdict
<1>2. CASE Die
  BY <1>2 DEF Die, Promise!Die, Disk, Verdict
<1>3. CASE Disturb \/ Adopt
  <2>1. UNCHANGED <<pc, gate, wrote, held, succeeded, outcome>>
    BY <1>3 DEF Disturb, Adopt
  <2>2. QED
    BY <2>1 DEF Promise!vars, Disk, Verdict
<1>4. CASE Done
  BY <1>4 DEF Done, Promise!vars, Disk, Verdict
<1>5. CASE \/ CheckRequest \/ CheckPlatform \/ OpenSession \/ Preflight
           \/ PrepareDisk \/ PlanPartitions \/ ProbeSource
  BY <1>5, Unseen DEF CheckRequest, CheckPlatform, Refuse, OpenSession,
     Preflight, PrepareDisk, PlanPartitions, ProbeSource
<1>6. CASE \/ Rescan \/ WaitForFullDisk \/ WaitForFreeSpace \/ VerifyManual
           \/ CheckTopology \/ CheckEsp \/ CheckRoot \/ CheckMount \/ MountEsp
           \/ Work
  <2>1. /\ UNCHANGED <<gate, wrote, held, succeeded>>
        /\ pc \notin {"done", "dead"}
    BY <1>6 DEF Rescan, WaitForFullDisk, WaitForFreeSpace, ProbeLayout,
       AcceptLayout, VerifyManual, CheckTopology, CheckEsp, CheckRoot,
       CheckMount, VerifyLayout, MountEsp, Work
  <2>2. pc' \notin {"done", "dead"}
    BY <1>6 DEF Rescan, Stop2, WaitForFullDisk, WaitForFreeSpace, ProbeLayout,
       AcceptLayout, VerifyManual, CheckTopology, CheckEsp, CheckRoot,
       CheckMount, VerifyLayout, MountEsp, Work
  <2>3. QED
    BY <2>1, <2>2, Unseen
<1>7. QED
  BY <1>1, <1>2, <1>3, <1>4, <1>5, <1>6 DEF Next, Engine

\* Each step of the pipeline is a step of the abstract installation or none.
LEMMA RefineNext == IInv /\ [Next]_vars => [Promise!Next]_(Promise!vars)
<1>. SUFFICES ASSUME IInv, [Next]_vars PROVE [Promise!Next]_(Promise!vars)
  OBVIOUS
<1>1. CASE UNCHANGED vars
  BY <1>1 DEF Promise!vars, Disk, Verdict
<1>2. CASE Next
  BY <1>2, RefineWrite, RefineHold, RefineCleanup, RefineAnswer, RefineRest
     DEF Promise!Next
<1>3. QED
  BY <1>1, <1>2

\* The nine stages, their checks and their cleanup promise what Installation
\* says: runInstall allows, writes, holds, completes and answers in that order.
THEOREM Refinement == Spec => KeepsPromise
<1>1. QED
  BY RefineInit, RefineNext, Inductive, PTL DEF Spec, KeepsPromise, Promise!Spec
=============================================================================
