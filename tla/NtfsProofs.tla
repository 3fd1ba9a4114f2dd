------------------------------- MODULE NtfsProofs -------------------------------
(***************************************************************************)
(* Theorems about the NTFS modules, for any number of interferences: first *)
(* the worker's writes (NtfsTransaction), then the evidence that is        *)
(* gathered before and after them (NtfsAdmission).                         *)
(***************************************************************************)
EXTENDS NtfsTransaction, NtfsAdmission, SequenceTheorems, TLAPS

USE DEF looked, closing, Proceed, Refuse

LEMMA AnswerFacts ==
    /\ NoAnswer \in Answers /\ Success \in Answers
    /\ \A d \in BOOLEAN : Unknown(d) \in Answers
    /\ \A p \in Phases, c \in BOOLEAN, g \in BOOLEAN, n \in 0..2,
          d \in BOOLEAN : Failure(p, c, g, n, d) \in Answers
<1>1. \A s \in {"none", "success", "failed"},
         p \in Phases \cup {"none", "unknown"}, k \in BOOLEAN,
         c \in BOOLEAN, g \in BOOLEAN, n \in 0..2, d \in BOOLEAN :
            Answer(s, p, k, c, g, n, d) \in Answers
  BY DEF Answer, Answers
<1>2. 0 \in 0..2 /\ 2 \in 0..2
  OBVIOUS
<1>3. QED
  BY <1>1, <1>2 DEF NoAnswer, Success, Unknown, Failure

-----------------------------------------------------------------------------
(* What each part of TypeOK needs to survive a step.                       *)

LEMMA MediumTypeStep ==
    ASSUME MediumType, CountInv
    PROVE  [Next]_vars => MediumType'
<1>. USE DEF MediumType, Places, Copies, Contents, Alive, Dups, Before,
             Resizing, Writing, Kernel, Running, Working
<1>1. ASSUME TakeContext PROVE MediumType'
  BY <1>1 DEF TakeContext, Owned, Phases
<1>2. ASSUME HoldPower PROVE MediumType'
  BY <1>2 DEF HoldPower, Phases
<1>3. ASSUME OpenSources PROVE MediumType'
  <2>1. /\ pc' \in {"handover", "unwind"} /\ fault' \in {fault, "admission"}
        /\ descs' = descs \/ descs' = {"reader", "writer"}
        /\ UNCHANGED <<copy, page, disk, kview, native, copies>>
    BY <1>3 DEF OpenSources
  <2>2. "admission" \in Phases  BY DEF Phases
  <2>3. pc' \in Working \cup {"exited", "ended", "off"}  BY <2>1
  <2>4. /\ fault' \in Phases \cup {"none"}
        /\ descs' \subseteq Dups \cup {"reader", "writer", "owned", "fresh"}
    BY <2>1, <2>2
  <2> HIDE DEF Working, Dups, Before, Resizing, Writing, Kernel
  <2> QED BY <2>1, <2>3, <2>4
<1>4. ASSUME HandOver PROVE MediumType'
  BY <1>4 DEF HandOver, Phases
<1>5. ASSUME Prepare PROVE MediumType'
  BY <1>5 DEF Prepare, Owned, InView, Phases
<1>6. ASSUME Launch PROVE MediumType'
  <2>1. /\ pc' \in {"native", "unwind"} /\ fault' \in {fault, "native"}
        /\ descs' = descs \/ descs' = descs \cup {"owned"}
        /\ native' = native \/ native' = "running"
        /\ UNCHANGED <<copy, page, disk, kview, copies>>
    BY <1>6 DEF Launch
  <2>2. "native" \in Phases  BY DEF Phases
  <2>3. pc' \in Working \cup {"exited", "ended", "off"}  BY <2>1
  <2>4. /\ fault' \in Phases \cup {"none"}
        /\ descs' \subseteq Dups \cup {"reader", "writer", "owned", "fresh"}
    BY <2>1, <2>2
  <2> HIDE DEF Working, Dups, Before, Resizing, Writing, Kernel
  <2> QED BY <2>1, <2>3, <2>4
<1>7. ASSUME NativeFinishes PROVE MediumType'
  BY <1>7 DEF NativeFinishes
<1>8. ASSUME NativeFails PROVE MediumType'
  BY <1>8 DEF NativeFails, Phases
<1>9. ASSUME NativeFlush PROVE MediumType'
  BY <1>9 DEF NativeFlush, Flushed, Phases
<1>10. ASSUME CheckFilesystem PROVE MediumType'
  BY <1>10 DEF CheckFilesystem, Owned, Shrunk, Phases
<1>11. ASSUME PlanTables PROVE MediumType'
  BY <1>11 DEF PlanTables, Owned, InView, Phases
<1>12. ASSUME CheckGroup PROVE MediumType'
  BY <1>12 DEF CheckGroup, Owned, InView, Done, GptPhase, Phases
<1>13. ASSUME WriteEntries PROVE MediumType'
  BY <1>13 DEF WriteEntries, Put, GptPhase, Phases
<1>14. ASSUME WriteHeader PROVE MediumType'
  BY <1>14 DEF WriteHeader, Put, GptPhase, Phases
<1>15. ASSUME SyncTables PROVE MediumType'
  BY <1>15 DEF SyncTables, Flushed, GptPhase, Phases
<1>16. ASSUME VerifyGroup PROVE MediumType'
  BY <1>16 DEF VerifyGroup, InView, Done, GptPhase, CountInv, Phases
<1>17. ASSUME VerifyTables PROVE MediumType'
  BY <1>17 DEF VerifyTables, InView, Owned, Phases
<1>18. ASSUME ReleaseDuplicates PROVE MediumType'
  BY <1>18 DEF ReleaseDuplicates, Phases
<1>19. ASSUME CloseSources PROVE MediumType'
  BY <1>19 DEF CloseSources, Phases
<1>20. ASSUME CheckIdentity PROVE MediumType'
  BY <1>20 DEF CheckIdentity, Owned, Phases
<1>21. ASSUME Reread PROVE MediumType'
  BY <1>21 DEF Reread, Phases
<1>22. ASSUME AwaitKernel PROVE MediumType'
  BY <1>22 DEF AwaitKernel, Owned, InView, Phases
<1>23. ASSUME CheckFreshSource PROVE MediumType'
  BY <1>23 DEF CheckFreshSource, Owned, InView, Shrunk, Phases
<1>24. ASSUME CloseFresh PROVE MediumType'
  BY <1>24 DEF CloseFresh, Phases
<1>25. ASSUME LeaveContext PROVE MediumType'
  BY <1>25 DEF LeaveContext, Success, Failure, Answer
<1>26. ASSUME Unwind PROVE MediumType'
  BY <1>26 DEF Unwind, Failure, Answer
<1>27. ASSUME SayAnswer PROVE MediumType'
  BY <1>27 DEF SayAnswer, NoAnswer, Answer
<1>28. ASSUME NativeWrites PROVE MediumType'
  BY <1>28 DEF NativeWrites, Put
<1>29. ASSUME NativeEnds PROVE MediumType'
  BY <1>29 DEF NativeEnds
<1>30. ASSUME KernelPublishes PROVE MediumType'
  BY <1>30 DEF KernelPublishes, KernelReads
<1>31. ASSUME WorkerDies PROVE MediumType'
  BY <1>31 DEF WorkerDies, NoAnswer, Answer
<1>32. ASSUME Conclude PROVE MediumType'
  BY <1>32 DEF Conclude, Unknown, Answer, Acceptable
<1>33. ASSUME Disturb PROVE MediumType'
  BY <1>33 DEF Disturb, Upset, Put
<1>34. ASSUME PowerLoss PROVE MediumType'
  BY <1>34 DEF PowerLoss, AfterLoss
<1>35. ASSUME UNCHANGED vars PROVE MediumType'
  BY <1>35 DEF vars
<1>36. QED   BY <1>1, <1>2, <1>3, <1>4, <1>5, <1>6, <1>7, <1>8, <1>9, <1>10,
     <1>11, <1>12, <1>13, <1>14, <1>15, <1>16, <1>17, <1>18, <1>19, <1>20,
     <1>21, <1>22, <1>23, <1>24, <1>25, <1>26, <1>27, <1>28, <1>29, <1>30,
     <1>31, <1>32, <1>33, <1>34, <1>35 DEF Next, Worker

LEMMA FlagTypeStep ==
    ASSUME FlagType
    PROVE  [Next]_vars => FlagType'
<1>. USE DEF FlagType
<1>1. ASSUME OpenSources PROVE FlagType'
  BY <1>1 DEF OpenSources, Owned
<1>2. ASSUME HandOver PROVE FlagType'
  BY <1>2 DEF HandOver
<1>3. ASSUME Launch PROVE FlagType'
  BY <1>3 DEF Launch
<1>4. ASSUME NativeFails PROVE FlagType'
  BY <1>4 DEF NativeFails
<1>5. ASSUME NativeFlush PROVE FlagType'
  BY <1>5 DEF NativeFlush, Flushed
<1>6. ASSUME WriteEntries PROVE FlagType'
  BY <1>6 DEF WriteEntries, Put, GptPhase
<1>7. ASSUME ReleaseDuplicates PROVE FlagType'
  BY <1>7 DEF ReleaseDuplicates
<1>8. ASSUME CloseSources PROVE FlagType'
  BY <1>8 DEF CloseSources
<1>9. ASSUME CloseFresh PROVE FlagType'
  BY <1>9 DEF CloseFresh
<1>10. ASSUME Unwind PROVE FlagType'
  BY <1>10 DEF Unwind, Failure, Answer
<1>11. ASSUME TakeContext \/ HoldPower \/ Prepare \/ NativeFinishes \/
             CheckFilesystem \/ PlanTables \/ CheckGroup \/ WriteHeader \/
             SyncTables \/ VerifyGroup \/ VerifyTables \/ CheckIdentity \/
             Reread \/ AwaitKernel \/ CheckFreshSource \/ LeaveContext \/
             SayAnswer \/ NativeWrites \/ NativeEnds \/ KernelPublishes \/
             WorkerDies \/ Conclude \/ Disturb \/ PowerLoss
     PROVE  FlagType'
  BY <1>11 DEF TakeContext, HoldPower, Prepare, NativeFinishes,
     CheckFilesystem, PlanTables, CheckGroup, WriteHeader, SyncTables,
     VerifyGroup, VerifyTables, CheckIdentity, Reread, AwaitKernel,
     CheckFreshSource, LeaveContext, SayAnswer, NativeWrites, NativeEnds,
     KernelPublishes, WorkerDies, Conclude, Disturb, PowerLoss
<1>12. ASSUME UNCHANGED vars PROVE FlagType'
  BY <1>12 DEF vars
<1>13. QED   BY <1>1, <1>2, <1>3, <1>4, <1>5, <1>6, <1>7, <1>8, <1>9, <1>10,
     <1>11, <1>12 DEF Next, Worker

LEMMA AnswerTypeStep ==
    ASSUME MediumType, FlagType, AnswerType, AnswerInv
    PROVE  [Next]_vars => AnswerType'
<1>. USE DEF AnswerType
<1>1. ASSUME LeaveContext PROVE AnswerType'
  <2>1. "cleanup" \in Phases /\ 2 \in 0..2
    BY DEF Phases
  <2>2. Failure("cleanup", TRUE, TRUE, 2, TRUE) \in Answers
    BY <2>1, AnswerFacts
  <2>3. answer' \in Answers
    BY <1>1, <2>2, AnswerFacts DEF LeaveContext
  <2>4. QED
    BY <1>1, <2>3 DEF LeaveContext
<1>2. ASSUME Unwind PROVE AnswerType'
  <2>1. fault \in Phases /\ copies \in 0..2
    BY <1>2 DEF Unwind, AnswerInv, MediumType
  <2>2. dirty' \in BOOLEAN
    BY <1>2 DEF Unwind, FlagType
  <2>3. Failure(fault, changed, started, copies, dirty') \in Answers
    BY <2>1, <2>2, AnswerFacts DEF FlagType
  <2>4. QED
    BY <1>2, <2>3, AnswerFacts DEF Unwind
<1>3. ASSUME SayAnswer PROVE AnswerType'
  BY <1>3, AnswerFacts DEF SayAnswer
<1>4. ASSUME WorkerDies PROVE AnswerType'
  BY <1>4, AnswerFacts DEF WorkerDies
<1>5. ASSUME Conclude PROVE AnswerType'
  <2>1. verdict' = answer \/ \E d \in BOOLEAN : verdict' = Unknown(d)
    BY <1>5 DEF Conclude
  <2>2. verdict' \in Answers
    BY <2>1, AnswerFacts
  <2>3. QED
    BY <1>5, <2>2 DEF Conclude
<1>6. ASSUME TakeContext \/ HoldPower \/ OpenSources \/ HandOver \/
             Prepare \/ Launch \/ NativeFinishes \/ NativeFails \/
             NativeFlush \/ CheckFilesystem \/ PlanTables \/ CheckGroup \/
             WriteEntries \/ WriteHeader \/ SyncTables \/ VerifyGroup \/
             VerifyTables \/ ReleaseDuplicates \/ CloseSources \/
             CheckIdentity \/ Reread \/ AwaitKernel \/ CheckFreshSource \/
             CloseFresh \/ NativeWrites \/ NativeEnds \/ KernelPublishes
             \/ Disturb \/ PowerLoss
     PROVE  AnswerType'
  BY <1>6 DEF TakeContext, HoldPower, OpenSources, HandOver, Prepare,
     Launch, NativeFinishes, NativeFails, NativeFlush, CheckFilesystem,
     PlanTables, CheckGroup, WriteEntries, WriteHeader, SyncTables,
     VerifyGroup, VerifyTables, ReleaseDuplicates, CloseSources,
     CheckIdentity, Reread, AwaitKernel, CheckFreshSource, CloseFresh,
     NativeWrites, NativeEnds, KernelPublishes, Disturb, PowerLoss
<1>7. ASSUME UNCHANGED vars PROVE AnswerType'
  BY <1>7 DEF vars
<1>8. QED   BY <1>1, <1>2, <1>3, <1>4, <1>5, <1>6, <1>7 DEF Next, Worker

LEMMA UpsetTypeStep ==
    ASSUME MediumType, UpsetType
    PROVE  [Next]_vars => UpsetType'
<1>. USE DEF UpsetType
<1>1. ASSUME Disturb PROVE UpsetType'
  <2>1. PICK k \in Copies \cup {"context"} : upsets' = upsets \cup {Upset(k)}
    BY <1>1 DEF Disturb
  <2>2. pc \in Working \cup {"exited"} /\ copy \in Copies
    BY <1>1 DEF Disturb, MediumType
  <2>3. \A b \in BOOLEAN : [kind |-> k, pc |-> pc, copy |-> copy, spare |-> b]
            \in [kind : Copies \cup {"context"}, pc : Working \cup {"exited"},
                 copy : Copies, spare : BOOLEAN]
    BY <2>2
  <2>4. (k = "context" \/ Whole(Other(k))) \in BOOLEAN
    BY DEF Whole
  <2>5. Upset(k) \in [kind : Copies \cup {"context"},
                      pc : Working \cup {"exited"}, copy : Copies,
                      spare : BOOLEAN]
    BY <2>3, <2>4, Zenon DEF Upset
  <2>6. QED
    BY <2>1, <2>5
<1>2. ASSUME TakeContext \/ HoldPower \/ OpenSources \/ HandOver \/
             Prepare \/ Launch \/ NativeFinishes \/ NativeFails \/
             NativeFlush \/ CheckFilesystem \/ PlanTables \/ CheckGroup \/
             WriteEntries \/ WriteHeader \/ SyncTables \/ VerifyGroup \/
             VerifyTables \/ ReleaseDuplicates \/ CloseSources \/
             CheckIdentity \/ Reread \/ AwaitKernel \/ CheckFreshSource \/
             CloseFresh \/ LeaveContext \/ Unwind \/ SayAnswer \/
             NativeWrites \/ NativeEnds \/ KernelPublishes \/ WorkerDies
             \/ Conclude \/ PowerLoss
     PROVE  UpsetType'
  BY <1>2 DEF TakeContext, HoldPower, OpenSources, HandOver, Prepare,
     Launch, NativeFinishes, NativeFails, NativeFlush, CheckFilesystem,
     PlanTables, CheckGroup, WriteEntries, WriteHeader, SyncTables,
     VerifyGroup, VerifyTables, ReleaseDuplicates, CloseSources,
     CheckIdentity, Reread, AwaitKernel, CheckFreshSource, CloseFresh,
     LeaveContext, Unwind, SayAnswer, NativeWrites, NativeEnds,
     KernelPublishes, WorkerDies, Conclude, PowerLoss
<1>3. ASSUME UNCHANGED vars PROVE UpsetType'
  BY <1>3 DEF vars
<1>4. QED   BY <1>1, <1>2, <1>3 DEF Next, Worker

-----------------------------------------------------------------------------
(* The child, the file system and the kernel's view of it.                 *)

LEMMA ChildStep ==
    ASSUME MediumType, ChildInv, CountInv, CopyInv
    PROVE  [Next]_vars => ChildInv'
<1>. USE DEF MediumType, ChildInv, Alive, Places, Copies, Contents,
             Before, Resizing, Writing, Kernel, Running, Working
<1>1. ASSUME TakeContext PROVE ChildInv'
  BY <1>1 DEF TakeContext, Owned
<1>2. ASSUME HoldPower PROVE ChildInv'
  BY <1>2 DEF HoldPower
<1>3. ASSUME OpenSources PROVE ChildInv'
  BY <1>3 DEF OpenSources, Owned
<1>4. ASSUME HandOver PROVE ChildInv'
  BY <1>4 DEF HandOver
<1>5. ASSUME Prepare PROVE ChildInv'
  BY <1>5 DEF Prepare, Owned, InView
<1>6. ASSUME Launch PROVE ChildInv'
  BY <1>6 DEF Launch
<1>7. ASSUME NativeFinishes PROVE ChildInv'
  BY <1>7 DEF NativeFinishes
<1>8. ASSUME NativeFails PROVE ChildInv'
  BY <1>8 DEF NativeFails
<1>9. ASSUME NativeFlush PROVE ChildInv'
  BY <1>9 DEF NativeFlush, Flushed
<1>10. ASSUME CheckFilesystem PROVE ChildInv'
  BY <1>10 DEF CheckFilesystem, Owned, Shrunk
<1>11. ASSUME PlanTables PROVE ChildInv'
  BY <1>11 DEF PlanTables, Owned, InView
<1>12. ASSUME CheckGroup PROVE ChildInv'
  BY <1>12 DEF CheckGroup, Owned, InView, Done, GptPhase
<1>13. ASSUME WriteEntries PROVE ChildInv'
  BY <1>13 DEF WriteEntries, Put, GptPhase
<1>14. ASSUME WriteHeader PROVE ChildInv'
  BY <1>14 DEF WriteHeader, Put, GptPhase
<1>15. ASSUME SyncTables PROVE ChildInv'
  BY <1>15 DEF SyncTables, Flushed, GptPhase
<1>16. ASSUME VerifyGroup PROVE ChildInv'
  BY <1>16 DEF VerifyGroup, InView, Done, GptPhase
<1>17. ASSUME VerifyTables PROVE ChildInv'
  BY <1>17 DEF VerifyTables, InView, Owned
<1>18. ASSUME ReleaseDuplicates PROVE ChildInv'
  BY <1>18 DEF ReleaseDuplicates
<1>19. ASSUME CloseSources PROVE ChildInv'
  BY <1>19 DEF CloseSources
<1>20. ASSUME CheckIdentity PROVE ChildInv'
  BY <1>20 DEF CheckIdentity, Owned
<1>21. ASSUME Reread PROVE ChildInv'
  BY <1>21 DEF Reread, CountInv
<1>22. ASSUME AwaitKernel PROVE ChildInv'
  BY <1>22 DEF AwaitKernel, Owned, InView
<1>23. ASSUME CheckFreshSource PROVE ChildInv'
  BY <1>23 DEF CheckFreshSource, Owned, InView, Shrunk
<1>24. ASSUME CloseFresh PROVE ChildInv'
  BY <1>24 DEF CloseFresh
<1>25. ASSUME LeaveContext PROVE ChildInv'
  BY <1>25 DEF LeaveContext, Success, Failure, Answer
<1>26. ASSUME Unwind PROVE ChildInv'
  BY <1>26 DEF Unwind, Failure, Answer
<1>27. ASSUME SayAnswer PROVE ChildInv'
  BY <1>27 DEF SayAnswer, NoAnswer, Answer
<1>28. ASSUME NativeWrites PROVE ChildInv'
  BY <1>28 DEF NativeWrites, Put
<1>29. ASSUME NativeEnds PROVE ChildInv'
  BY <1>29 DEF NativeEnds
<1>30. ASSUME KernelPublishes PROVE ChildInv'
  BY <1>30 DEF KernelPublishes, KernelReads, CountInv, CopyInv, Untouched
<1>31. ASSUME WorkerDies PROVE ChildInv'
  BY <1>31 DEF WorkerDies, NoAnswer, Answer
<1>32. ASSUME Conclude PROVE ChildInv'
  BY <1>32 DEF Conclude, Unknown, Answer, Acceptable
<1>33. ASSUME Disturb PROVE ChildInv'
  BY <1>33 DEF Disturb, Upset, Put
<1>34. ASSUME PowerLoss PROVE ChildInv'
  BY <1>34 DEF PowerLoss, AfterLoss
<1>35. ASSUME UNCHANGED vars PROVE ChildInv'
  BY <1>35 DEF vars
<1>36. QED   BY <1>1, <1>2, <1>3, <1>4, <1>5, <1>6, <1>7, <1>8, <1>9, <1>10,
     <1>11, <1>12, <1>13, <1>14, <1>15, <1>16, <1>17, <1>18, <1>19, <1>20,
     <1>21, <1>22, <1>23, <1>24, <1>25, <1>26, <1>27, <1>28, <1>29, <1>30,
     <1>31, <1>32, <1>33, <1>34, <1>35 DEF Next, Worker

-----------------------------------------------------------------------------
(* The order of the two copies.                                            *)

LEMMA CountStep ==
    ASSUME MediumType, CountInv, CopyInv, ChildInv
    PROVE  [Next]_vars => CountInv'
<1>. USE DEF MediumType, CountInv, Places, Copies, Contents, Before,
             Resizing, Writing, Kernel, Running, Working
<1>1. ASSUME TakeContext PROVE CountInv'
  BY <1>1 DEF TakeContext, Owned
<1>2. ASSUME HoldPower PROVE CountInv'
  BY <1>2 DEF HoldPower
<1>3. ASSUME OpenSources PROVE CountInv'
  BY <1>3 DEF OpenSources, Owned
<1>4. ASSUME HandOver PROVE CountInv'
  BY <1>4 DEF HandOver
<1>5. ASSUME Prepare PROVE CountInv'
  BY <1>5 DEF Prepare, Owned, InView
<1>6. ASSUME Launch PROVE CountInv'
  BY <1>6 DEF Launch
<1>7. ASSUME NativeFinishes PROVE CountInv'
  BY <1>7 DEF NativeFinishes
<1>8. ASSUME NativeFails PROVE CountInv'
  BY <1>8 DEF NativeFails
<1>9. ASSUME NativeFlush PROVE CountInv'
  BY <1>9 DEF NativeFlush, Flushed, ChildInv
<1>10. ASSUME CheckFilesystem PROVE CountInv'
  BY <1>10 DEF CheckFilesystem, Owned, Shrunk
<1>11. ASSUME PlanTables PROVE CountInv'
  BY <1>11 DEF PlanTables, Owned, InView
<1>12. ASSUME CheckGroup PROVE CountInv'
  BY <1>12 DEF CheckGroup, Owned, InView, Done, GptPhase, CopyInv
<1>13. ASSUME WriteEntries PROVE CountInv'
  BY <1>13 DEF WriteEntries, Put, GptPhase
<1>14. ASSUME WriteHeader PROVE CountInv'
  BY <1>14 DEF WriteHeader, Put, GptPhase
<1>15. ASSUME SyncTables PROVE CountInv'
  BY <1>15 DEF SyncTables, Flushed, GptPhase
<1>16. ASSUME VerifyGroup PROVE CountInv'
  BY <1>16 DEF VerifyGroup, InView, Done, GptPhase
<1>17. ASSUME VerifyTables PROVE CountInv'
  BY <1>17 DEF VerifyTables, InView, Owned
<1>18. ASSUME ReleaseDuplicates PROVE CountInv'
  BY <1>18 DEF ReleaseDuplicates
<1>19. ASSUME CloseSources PROVE CountInv'
  BY <1>19 DEF CloseSources
<1>20. ASSUME CheckIdentity PROVE CountInv'
  BY <1>20 DEF CheckIdentity, Owned
<1>21. ASSUME Reread PROVE CountInv'
  BY <1>21 DEF Reread
<1>22. ASSUME AwaitKernel PROVE CountInv'
  BY <1>22 DEF AwaitKernel, Owned, InView
<1>23. ASSUME CheckFreshSource PROVE CountInv'
  BY <1>23 DEF CheckFreshSource, Owned, InView, Shrunk
<1>24. ASSUME CloseFresh PROVE CountInv'
  BY <1>24 DEF CloseFresh
<1>25. ASSUME LeaveContext PROVE CountInv'
  BY <1>25 DEF LeaveContext, Success, Failure, Answer
<1>26. ASSUME Unwind PROVE CountInv'
  BY <1>26 DEF Unwind, Failure, Answer
<1>27. ASSUME SayAnswer PROVE CountInv'
  BY <1>27 DEF SayAnswer, NoAnswer, Answer
<1>28. ASSUME NativeWrites PROVE CountInv'
  BY <1>28 DEF NativeWrites, Put
<1>29. ASSUME NativeEnds PROVE CountInv'
  BY <1>29 DEF NativeEnds
<1>30. ASSUME KernelPublishes PROVE CountInv'
  BY <1>30 DEF KernelPublishes, KernelReads
<1>31. ASSUME WorkerDies PROVE CountInv'
  BY <1>31 DEF WorkerDies, NoAnswer, Answer
<1>32. ASSUME Conclude PROVE CountInv'
  BY <1>32 DEF Conclude, Unknown, Answer, Acceptable
<1>33. ASSUME Disturb PROVE CountInv'
  BY <1>33 DEF Disturb, Upset, Put
<1>34. ASSUME PowerLoss PROVE CountInv'
  BY <1>34 DEF PowerLoss, AfterLoss
<1>35. ASSUME UNCHANGED vars PROVE CountInv'
  BY <1>35 DEF vars
<1>36. QED   BY <1>1, <1>2, <1>3, <1>4, <1>5, <1>6, <1>7, <1>8, <1>9, <1>10,
     <1>11, <1>12, <1>13, <1>14, <1>15, <1>16, <1>17, <1>18, <1>19, <1>20,
     <1>21, <1>22, <1>23, <1>24, <1>25, <1>26, <1>27, <1>28, <1>29, <1>30,
     <1>31, <1>32, <1>33, <1>34, <1>35 DEF Next, Worker

-----------------------------------------------------------------------------
(* What a written copy looks like.                                         *)

LEMMA CopyStep ==
    ASSUME MediumType, CountInv, CopyInv, ChildInv
    PROVE  [Next]_vars => CopyInv'
<1>. USE DEF MediumType, CountInv, CopyInv, Untouched, Places, Copies,
             Contents, Before, Resizing, Writing, Kernel, Running, Working
<1>1. ASSUME TakeContext PROVE CopyInv'
  BY <1>1 DEF TakeContext, Owned
<1>2. ASSUME HoldPower PROVE CopyInv'
  BY <1>2 DEF HoldPower
<1>3. ASSUME OpenSources PROVE CopyInv'
  BY <1>3 DEF OpenSources, Owned
<1>4. ASSUME HandOver PROVE CopyInv'
  BY <1>4 DEF HandOver
<1>5. ASSUME Prepare PROVE CopyInv'
  BY <1>5 DEF Prepare, Owned, InView
<1>6. ASSUME Launch PROVE CopyInv'
  BY <1>6 DEF Launch
<1>7. ASSUME NativeFinishes PROVE CopyInv'
  BY <1>7 DEF NativeFinishes
<1>8. ASSUME NativeFails PROVE CopyInv'
  BY <1>8 DEF NativeFails
<1>9. ASSUME NativeFlush PROVE CopyInv'
  BY <1>9 DEF NativeFlush, Flushed
<1>10. ASSUME CheckFilesystem PROVE CopyInv'
  BY <1>10 DEF CheckFilesystem, Owned, Shrunk
<1>11. ASSUME PlanTables PROVE CopyInv'
  BY <1>11 DEF PlanTables, Owned, InView
<1>12. ASSUME CheckGroup PROVE CopyInv'
  BY <1>12 DEF CheckGroup, Owned, InView, Done, GptPhase
<1>13. ASSUME WriteEntries PROVE CopyInv'
  BY <1>13 DEF WriteEntries, Put, GptPhase
<1>14. ASSUME WriteHeader PROVE CopyInv'
  BY <1>14 DEF WriteHeader, Put, GptPhase
<1>15. ASSUME SyncTables PROVE CopyInv'
  BY <1>15 DEF SyncTables, Flushed, GptPhase
<1>16. ASSUME VerifyGroup PROVE CopyInv'
  BY <1>16 DEF VerifyGroup, InView, Done, GptPhase
<1>17. ASSUME VerifyTables PROVE CopyInv'
  BY <1>17 DEF VerifyTables, InView, Owned
<1>18. ASSUME ReleaseDuplicates PROVE CopyInv'
  BY <1>18 DEF ReleaseDuplicates
<1>19. ASSUME CloseSources PROVE CopyInv'
  BY <1>19 DEF CloseSources
<1>20. ASSUME CheckIdentity PROVE CopyInv'
  BY <1>20 DEF CheckIdentity, Owned
<1>21. ASSUME Reread PROVE CopyInv'
  BY <1>21 DEF Reread
<1>22. ASSUME AwaitKernel PROVE CopyInv'
  BY <1>22 DEF AwaitKernel, Owned, InView
<1>23. ASSUME CheckFreshSource PROVE CopyInv'
  BY <1>23 DEF CheckFreshSource, Owned, InView, Shrunk
<1>24. ASSUME CloseFresh PROVE CopyInv'
  BY <1>24 DEF CloseFresh
<1>25. ASSUME LeaveContext PROVE CopyInv'
  BY <1>25 DEF LeaveContext, Success, Failure, Answer
<1>26. ASSUME Unwind PROVE CopyInv'
  BY <1>26 DEF Unwind, Failure, Answer
<1>27. ASSUME SayAnswer PROVE CopyInv'
  BY <1>27 DEF SayAnswer, NoAnswer, Answer
<1>28. ASSUME NativeWrites PROVE CopyInv'
  BY <1>28 DEF NativeWrites, Put
<1>29. ASSUME NativeEnds PROVE CopyInv'
  BY <1>29 DEF NativeEnds
<1>30. ASSUME KernelPublishes PROVE CopyInv'
  BY <1>30 DEF KernelPublishes, KernelReads
<1>31. ASSUME WorkerDies PROVE CopyInv'
  BY <1>31 DEF WorkerDies, NoAnswer, Answer
<1>32. ASSUME Conclude PROVE CopyInv'
  BY <1>32 DEF Conclude, Unknown, Answer, Acceptable
<1>33. ASSUME Disturb PROVE CopyInv'
  BY <1>33 DEF Disturb, Upset, Put
<1>34. ASSUME PowerLoss PROVE CopyInv'
  BY <1>34 DEF PowerLoss, AfterLoss
<1>35. ASSUME UNCHANGED vars PROVE CopyInv'
  BY <1>35 DEF vars
<1>36. QED   BY <1>1, <1>2, <1>3, <1>4, <1>5, <1>6, <1>7, <1>8, <1>9, <1>10,
     <1>11, <1>12, <1>13, <1>14, <1>15, <1>16, <1>17, <1>18, <1>19, <1>20,
     <1>21, <1>22, <1>23, <1>24, <1>25, <1>26, <1>27, <1>28, <1>29, <1>30,
     <1>31, <1>32, <1>33, <1>34, <1>35 DEF Next, Worker

-----------------------------------------------------------------------------
(* One copy stays whole: whoever writes one has just seen the other.       *)

LEMMA WholeStep ==
    ASSUME MediumType, UpsetType, CountInv, CopyInv, WholeInv
    PROVE  [Next]_vars => WholeInv'
<1>. USE DEF WholeInv, Whole, Other, MediumType, CountInv, CopyInv,
             Untouched, Places, Copies, Contents, Before, Resizing,
             Writing, Kernel, Running, Working
<1>1. ASSUME TakeContext PROVE WholeInv'
  BY <1>1 DEF TakeContext, Owned
<1>2. ASSUME HoldPower PROVE WholeInv'
  BY <1>2 DEF HoldPower
<1>3. ASSUME OpenSources PROVE WholeInv'
  BY <1>3 DEF OpenSources, Owned
<1>4. ASSUME HandOver PROVE WholeInv'
  BY <1>4 DEF HandOver
<1>5. ASSUME Prepare PROVE WholeInv'
  BY <1>5 DEF Prepare, Owned, InView
<1>6. ASSUME Launch PROVE WholeInv'
  BY <1>6 DEF Launch
<1>7. ASSUME NativeFinishes PROVE WholeInv'
  BY <1>7 DEF NativeFinishes
<1>8. ASSUME NativeFails PROVE WholeInv'
  BY <1>8 DEF NativeFails
<1>9. ASSUME NativeFlush PROVE WholeInv'
  BY <1>9 DEF NativeFlush, Flushed
<1>10. ASSUME CheckFilesystem PROVE WholeInv'
  BY <1>10 DEF CheckFilesystem, Owned, Shrunk
<1>11. ASSUME PlanTables PROVE WholeInv'
  BY <1>11 DEF PlanTables, Owned, InView
<1>12. ASSUME CheckGroup PROVE WholeInv'
  BY <1>12 DEF CheckGroup, Owned, InView, Done, GptPhase
<1>13. ASSUME WriteEntries PROVE WholeInv'
  BY <1>13 DEF WriteEntries, Put, GptPhase
<1>14. ASSUME WriteHeader PROVE WholeInv'
  BY <1>14 DEF WriteHeader, Put, GptPhase
<1>15. ASSUME SyncTables PROVE WholeInv'
  BY <1>15 DEF SyncTables, Flushed, GptPhase
<1>16. ASSUME VerifyGroup PROVE WholeInv'
  BY <1>16 DEF VerifyGroup, InView, Done, GptPhase
<1>17. ASSUME VerifyTables PROVE WholeInv'
  BY <1>17 DEF VerifyTables, InView, Owned
<1>18. ASSUME ReleaseDuplicates PROVE WholeInv'
  BY <1>18 DEF ReleaseDuplicates
<1>19. ASSUME CloseSources PROVE WholeInv'
  BY <1>19 DEF CloseSources
<1>20. ASSUME CheckIdentity PROVE WholeInv'
  BY <1>20 DEF CheckIdentity, Owned
<1>21. ASSUME Reread PROVE WholeInv'
  BY <1>21 DEF Reread
<1>22. ASSUME AwaitKernel PROVE WholeInv'
  BY <1>22 DEF AwaitKernel, Owned, InView
<1>23. ASSUME CheckFreshSource PROVE WholeInv'
  BY <1>23 DEF CheckFreshSource, Owned, InView, Shrunk
<1>24. ASSUME CloseFresh PROVE WholeInv'
  BY <1>24 DEF CloseFresh
<1>25. ASSUME LeaveContext PROVE WholeInv'
  BY <1>25 DEF LeaveContext, Success, Failure, Answer
<1>26. ASSUME Unwind PROVE WholeInv'
  BY <1>26 DEF Unwind, Failure, Answer
<1>27. ASSUME SayAnswer PROVE WholeInv'
  BY <1>27 DEF SayAnswer, NoAnswer, Answer
<1>28. ASSUME NativeWrites PROVE WholeInv'
  BY <1>28 DEF NativeWrites, Put
<1>29. ASSUME NativeEnds PROVE WholeInv'
  BY <1>29 DEF NativeEnds
<1>30. ASSUME KernelPublishes PROVE WholeInv'
  BY <1>30 DEF KernelPublishes, KernelReads
<1>31. ASSUME WorkerDies PROVE WholeInv'
  BY <1>31 DEF WorkerDies, NoAnswer, Answer
<1>32. ASSUME Conclude PROVE WholeInv'
  BY <1>32 DEF Conclude, Unknown, Answer, Acceptable
<1>33. ASSUME Disturb PROVE WholeInv'
  <2>. SUFFICES ASSUME pc # "off", \A u \in upsets' : ~Fatal(u)
                PROVE  /\ \E c \in Copies : Whole(c)'
                       /\ pc \in {"entries", "header", "fsync"}
                              => Whole(Other(copy))'
    BY <1>33 DEF Disturb
  <2>1. PICK k \in Copies \cup {"context"} :
            /\ upsets' = upsets \cup {Upset(k)}
            /\ IF k = "context" THEN UNCHANGED page ELSE Put(k, "foreign")
    BY <1>33 DEF Disturb
  <2>2. \A u \in upsets : ~Fatal(u)
    BY <2>1
  <2>3. ~Fatal(Upset(k))
    BY <2>1
  <2>4. UNCHANGED <<pc, copy, disk>>
    BY <1>33 DEF Disturb
  <2>5. CASE k = "context"
    BY <2>1, <2>2, <2>4, <2>5
  <2>6. CASE k \in Copies
    <3>1. Whole(Other(k)) /\ ~(pc = "entries" /\ k = Other(copy))
      BY <2>3, <2>6 DEF Fatal, Upset
    <3>2. page' = [page EXCEPT ![k] = "foreign"]
      BY <2>1, <2>6 DEF Put
    <3>3. Whole(Other(k))'
      BY <3>1, <3>2, <2>4, <2>6
    <3>4. ASSUME pc \in {"entries", "header", "fsync"}
          PROVE  Whole(Other(copy))'
      <4>1. Whole(Other(copy))
        BY <2>2, <3>4
      <4>2. pc \in {"header", "fsync"} => ~Whole(copy)
        BY <3>4
      <4>3. k = copy
        BY <2>6, <3>1, <3>4, <4>2
      <4>4. QED
        BY <3>3, <4>3, <2>4
    <3>5. QED
      BY <3>3, <3>4, <2>4, <2>6
  <2>7. QED
    BY <2>1, <2>5, <2>6
<1>34. ASSUME PowerLoss PROVE WholeInv'
  BY <1>34 DEF PowerLoss, AfterLoss
<1>35. ASSUME UNCHANGED vars PROVE WholeInv'
  BY <1>35 DEF vars
<1>36. QED   BY <1>1, <1>2, <1>3, <1>4, <1>5, <1>6, <1>7, <1>8, <1>9, <1>10,
     <1>11, <1>12, <1>13, <1>14, <1>15, <1>16, <1>17, <1>18, <1>19, <1>20,
     <1>21, <1>22, <1>23, <1>24, <1>25, <1>26, <1>27, <1>28, <1>29, <1>30,
     <1>31, <1>32, <1>33, <1>34, <1>35 DEF Next, Worker

-----------------------------------------------------------------------------
(* Interference is seen by the next check.                                 *)

LEMMA NoticeStep ==
    ASSUME MediumType, UpsetType, ChildInv, CountInv, CopyInv, NoticeInv
    PROVE  [Next]_vars => NoticeInv'
<1>. USE DEF NoticeInv, Noticed, Past, Overwritten, Precedes, MediumType,
             UpsetType, CountInv, CopyInv, Untouched, Places, Copies,
             Contents, Before, Resizing, Writing, Kernel, Running, Working
<1>1. ASSUME TakeContext PROVE NoticeInv'
  BY <1>1 DEF TakeContext, Owned
<1>2. ASSUME HoldPower PROVE NoticeInv'
  BY <1>2 DEF HoldPower
<1>3. ASSUME OpenSources PROVE NoticeInv'
  BY <1>3 DEF OpenSources, Owned
<1>4. ASSUME HandOver PROVE NoticeInv'
  BY <1>4 DEF HandOver
<1>5. ASSUME Prepare PROVE NoticeInv'
  BY <1>5 DEF Prepare, Owned, InView
<1>6. ASSUME Launch PROVE NoticeInv'
  BY <1>6 DEF Launch, ChildInv
<1>7. ASSUME NativeFinishes PROVE NoticeInv'
  BY <1>7 DEF NativeFinishes
<1>8. ASSUME NativeFails PROVE NoticeInv'
  BY <1>8 DEF NativeFails
<1>9. ASSUME NativeFlush PROVE NoticeInv'
  BY <1>9 DEF NativeFlush, Flushed
<1>10. ASSUME CheckFilesystem PROVE NoticeInv'
  BY <1>10 DEF CheckFilesystem, Owned, Shrunk
<1>11. ASSUME PlanTables PROVE NoticeInv'
  BY <1>11 DEF PlanTables, Owned, InView
<1>12. ASSUME CheckGroup PROVE NoticeInv'
  BY <1>12 DEF CheckGroup, Owned, InView, Done, GptPhase
<1>13. ASSUME WriteEntries PROVE NoticeInv'
  BY <1>13 DEF WriteEntries, Put, GptPhase
<1>14. ASSUME WriteHeader PROVE NoticeInv'
  BY <1>14 DEF WriteHeader, Put, GptPhase
<1>15. ASSUME SyncTables PROVE NoticeInv'
  BY <1>15 DEF SyncTables, Flushed, GptPhase
<1>16. ASSUME VerifyGroup PROVE NoticeInv'
  BY <1>16 DEF VerifyGroup, InView, Done, GptPhase
<1>17. ASSUME VerifyTables PROVE NoticeInv'
  BY <1>17 DEF VerifyTables, InView, Owned
<1>18. ASSUME ReleaseDuplicates PROVE NoticeInv'
  BY <1>18 DEF ReleaseDuplicates
<1>19. ASSUME CloseSources PROVE NoticeInv'
  BY <1>19 DEF CloseSources
<1>20. ASSUME CheckIdentity PROVE NoticeInv'
  BY <1>20 DEF CheckIdentity, Owned
<1>21. ASSUME Reread PROVE NoticeInv'
  BY <1>21 DEF Reread
<1>22. ASSUME AwaitKernel PROVE NoticeInv'
  BY <1>22 DEF AwaitKernel, Owned, InView
<1>23. ASSUME CheckFreshSource PROVE NoticeInv'
  BY <1>23 DEF CheckFreshSource, Owned, InView, Shrunk
<1>24. ASSUME CloseFresh PROVE NoticeInv'
  BY <1>24 DEF CloseFresh
<1>25. ASSUME LeaveContext PROVE NoticeInv'
  BY <1>25 DEF LeaveContext, Success, Failure, Answer
<1>26. ASSUME Unwind PROVE NoticeInv'
  BY <1>26 DEF Unwind, Failure, Answer
<1>27. ASSUME SayAnswer PROVE NoticeInv'
  BY <1>27 DEF SayAnswer, NoAnswer, Answer
<1>28. ASSUME NativeWrites PROVE NoticeInv'
  BY <1>28 DEF NativeWrites, Put
<1>29. ASSUME NativeEnds PROVE NoticeInv'
  BY <1>29 DEF NativeEnds
<1>30. ASSUME KernelPublishes PROVE NoticeInv'
  BY <1>30 DEF KernelPublishes, KernelReads
<1>31. ASSUME WorkerDies PROVE NoticeInv'
  BY <1>31 DEF WorkerDies, NoAnswer, Answer
<1>32. ASSUME Conclude PROVE NoticeInv'
  BY <1>32 DEF Conclude, Unknown, Answer, Acceptable
<1>33. ASSUME Disturb PROVE NoticeInv'
  BY <1>33 DEF Disturb, Upset, Put, ChildInv
<1>34. ASSUME PowerLoss PROVE NoticeInv'
  BY <1>34 DEF PowerLoss, AfterLoss
<1>35. ASSUME UNCHANGED vars PROVE NoticeInv'
  BY <1>35 DEF vars
<1>36. QED   BY <1>1, <1>2, <1>3, <1>4, <1>5, <1>6, <1>7, <1>8, <1>9, <1>10,
     <1>11, <1>12, <1>13, <1>14, <1>15, <1>16, <1>17, <1>18, <1>19, <1>20,
     <1>21, <1>22, <1>23, <1>24, <1>25, <1>26, <1>27, <1>28, <1>29, <1>30,
     <1>31, <1>32, <1>33, <1>34, <1>35 DEF Next, Worker

-----------------------------------------------------------------------------
(* Stale approvals write nothing.                                          *)

LEMMA StaleStep ==
    ASSUME MediumType, UpsetType, ChildInv, CountInv, CopyInv, NoticeInv,
           StaleWritesNothing
    PROVE  [Next]_vars => StaleWritesNothing'
<1>. USE DEF StaleWritesNothing, Untouched, MediumType, Places, Copies,
             Contents, Before, Resizing, Writing, Kernel, Running, Working
<1>1. ASSUME TakeContext PROVE StaleWritesNothing'
  BY <1>1 DEF TakeContext, Owned
<1>2. ASSUME HoldPower PROVE StaleWritesNothing'
  BY <1>2 DEF HoldPower
<1>3. ASSUME OpenSources PROVE StaleWritesNothing'
  BY <1>3 DEF OpenSources, Owned
<1>4. ASSUME HandOver PROVE StaleWritesNothing'
  BY <1>4 DEF HandOver
<1>5. ASSUME Prepare PROVE StaleWritesNothing'
  BY <1>5 DEF Prepare, Owned, InView
<1>6. ASSUME Launch PROVE StaleWritesNothing'
  BY <1>6 DEF Launch
<1>7. ASSUME NativeFinishes PROVE StaleWritesNothing'
  BY <1>7 DEF NativeFinishes
<1>8. ASSUME NativeFails PROVE StaleWritesNothing'
  BY <1>8 DEF NativeFails
<1>9. ASSUME NativeFlush PROVE StaleWritesNothing'
  BY <1>9 DEF NativeFlush, Flushed
<1>10. ASSUME CheckFilesystem PROVE StaleWritesNothing'
  BY <1>10 DEF CheckFilesystem, Owned, Shrunk
<1>11. ASSUME PlanTables PROVE StaleWritesNothing'
  BY <1>11 DEF PlanTables, Owned, InView
<1>12. ASSUME CheckGroup PROVE StaleWritesNothing'
  BY <1>12 DEF CheckGroup, Owned, InView, Done, GptPhase
<1>13. ASSUME WriteEntries PROVE StaleWritesNothing'
  BY <1>13 DEF WriteEntries, Put, GptPhase, NoticeInv, Past
<1>14. ASSUME WriteHeader PROVE StaleWritesNothing'
  BY <1>14 DEF WriteHeader, Put, GptPhase, NoticeInv, Past
<1>15. ASSUME SyncTables PROVE StaleWritesNothing'
  BY <1>15 DEF SyncTables, Flushed, GptPhase
<1>16. ASSUME VerifyGroup PROVE StaleWritesNothing'
  BY <1>16 DEF VerifyGroup, InView, Done, GptPhase
<1>17. ASSUME VerifyTables PROVE StaleWritesNothing'
  BY <1>17 DEF VerifyTables, InView, Owned
<1>18. ASSUME ReleaseDuplicates PROVE StaleWritesNothing'
  BY <1>18 DEF ReleaseDuplicates
<1>19. ASSUME CloseSources PROVE StaleWritesNothing'
  BY <1>19 DEF CloseSources
<1>20. ASSUME CheckIdentity PROVE StaleWritesNothing'
  BY <1>20 DEF CheckIdentity, Owned
<1>21. ASSUME Reread PROVE StaleWritesNothing'
  BY <1>21 DEF Reread
<1>22. ASSUME AwaitKernel PROVE StaleWritesNothing'
  BY <1>22 DEF AwaitKernel, Owned, InView
<1>23. ASSUME CheckFreshSource PROVE StaleWritesNothing'
  BY <1>23 DEF CheckFreshSource, Owned, InView, Shrunk
<1>24. ASSUME CloseFresh PROVE StaleWritesNothing'
  BY <1>24 DEF CloseFresh
<1>25. ASSUME LeaveContext PROVE StaleWritesNothing'
  BY <1>25 DEF LeaveContext, Success, Failure, Answer
<1>26. ASSUME Unwind PROVE StaleWritesNothing'
  BY <1>26 DEF Unwind, Failure, Answer
<1>27. ASSUME SayAnswer PROVE StaleWritesNothing'
  BY <1>27 DEF SayAnswer, NoAnswer, Answer
<1>28. ASSUME NativeWrites PROVE StaleWritesNothing'
  <2>1. \A u \in upsets : ~Precedes(u, "fs")
    BY <1>28 DEF NativeWrites, NoticeInv, ChildInv, Precedes, Alive
  <2>2. \A p \in Copies : page'[p] = page[p]
    BY <1>28 DEF NativeWrites, Put
  <2>3. UNCHANGED <<pc, copy, upsets>>
    BY <1>28 DEF NativeWrites
  <2>4. QED
    BY <2>1, <2>2, <2>3 DEF Precedes, Overwritten
<1>29. ASSUME NativeEnds PROVE StaleWritesNothing'
  BY <1>29 DEF NativeEnds
<1>30. ASSUME KernelPublishes PROVE StaleWritesNothing'
  BY <1>30 DEF KernelPublishes, KernelReads
<1>31. ASSUME WorkerDies PROVE StaleWritesNothing'
  BY <1>31 DEF WorkerDies, NoAnswer, Answer
<1>32. ASSUME Conclude PROVE StaleWritesNothing'
  BY <1>32 DEF Conclude, Unknown, Answer, Acceptable
<1>33. ASSUME Disturb PROVE StaleWritesNothing'
  <2>1. PICK k \in Copies \cup {"context"} :
            /\ upsets' = upsets \cup {Upset(k)}
            /\ IF k = "context" THEN UNCHANGED page ELSE Put(k, "foreign")
    BY <1>33 DEF Disturb
  <2>2. \A p \in Places : Untouched(p) => Untouched(p)'
    BY <2>1 DEF Put
  <2>3. ASSUME NEW p \in Places, Precedes(Upset(k), p), pc # "off"
        PROVE  Untouched(p)
    BY <2>3 DEF Precedes, Upset, ChildInv, CountInv, CopyInv
  <2>4. pc' = pc /\ pc # "off"
    BY <1>33 DEF Disturb
  <2>5. QED
    BY <2>1, <2>2, <2>3, <2>4 DEF Precedes, Overwritten
<1>34. ASSUME PowerLoss PROVE StaleWritesNothing'
  BY <1>34 DEF PowerLoss, AfterLoss
<1>35. ASSUME UNCHANGED vars PROVE StaleWritesNothing'
  BY <1>35 DEF vars
<1>36. QED   BY <1>1, <1>2, <1>3, <1>4, <1>5, <1>6, <1>7, <1>8, <1>9, <1>10,
     <1>11, <1>12, <1>13, <1>14, <1>15, <1>16, <1>17, <1>18, <1>19, <1>20,
     <1>21, <1>22, <1>23, <1>24, <1>25, <1>26, <1>27, <1>28, <1>29, <1>30,
     <1>31, <1>32, <1>33, <1>34, <1>35 DEF Next, Worker

-----------------------------------------------------------------------------
(* A power loss finds what WholeInv says.                                  *)

LEMMA SurviveStep ==
    ASSUME MediumType, ChildInv, CountInv, WholeInv, SurvivesPowerLoss
    PROVE  [Next]_vars => SurvivesPowerLoss'
<1>. USE DEF SurvivesPowerLoss, MediumType, Places, Copies, Contents,
             Before, Resizing, Writing, Kernel, Running, Working
<1>1. ASSUME TakeContext PROVE SurvivesPowerLoss'
  BY <1>1 DEF TakeContext, Owned
<1>2. ASSUME HoldPower PROVE SurvivesPowerLoss'
  BY <1>2 DEF HoldPower
<1>3. ASSUME OpenSources PROVE SurvivesPowerLoss'
  BY <1>3 DEF OpenSources, Owned
<1>4. ASSUME HandOver PROVE SurvivesPowerLoss'
  BY <1>4 DEF HandOver
<1>5. ASSUME Prepare PROVE SurvivesPowerLoss'
  BY <1>5 DEF Prepare, Owned, InView
<1>6. ASSUME Launch PROVE SurvivesPowerLoss'
  BY <1>6 DEF Launch
<1>7. ASSUME NativeFinishes PROVE SurvivesPowerLoss'
  BY <1>7 DEF NativeFinishes
<1>8. ASSUME NativeFails PROVE SurvivesPowerLoss'
  BY <1>8 DEF NativeFails
<1>9. ASSUME NativeFlush PROVE SurvivesPowerLoss'
  BY <1>9 DEF NativeFlush, Flushed
<1>10. ASSUME CheckFilesystem PROVE SurvivesPowerLoss'
  BY <1>10 DEF CheckFilesystem, Owned, Shrunk
<1>11. ASSUME PlanTables PROVE SurvivesPowerLoss'
  BY <1>11 DEF PlanTables, Owned, InView
<1>12. ASSUME CheckGroup PROVE SurvivesPowerLoss'
  BY <1>12 DEF CheckGroup, Owned, InView, Done, GptPhase
<1>13. ASSUME WriteEntries PROVE SurvivesPowerLoss'
  BY <1>13 DEF WriteEntries, Put, GptPhase
<1>14. ASSUME WriteHeader PROVE SurvivesPowerLoss'
  BY <1>14 DEF WriteHeader, Put, GptPhase
<1>15. ASSUME SyncTables PROVE SurvivesPowerLoss'
  BY <1>15 DEF SyncTables, Flushed, GptPhase
<1>16. ASSUME VerifyGroup PROVE SurvivesPowerLoss'
  BY <1>16 DEF VerifyGroup, InView, Done, GptPhase
<1>17. ASSUME VerifyTables PROVE SurvivesPowerLoss'
  BY <1>17 DEF VerifyTables, InView, Owned
<1>18. ASSUME ReleaseDuplicates PROVE SurvivesPowerLoss'
  BY <1>18 DEF ReleaseDuplicates
<1>19. ASSUME CloseSources PROVE SurvivesPowerLoss'
  BY <1>19 DEF CloseSources
<1>20. ASSUME CheckIdentity PROVE SurvivesPowerLoss'
  BY <1>20 DEF CheckIdentity, Owned
<1>21. ASSUME Reread PROVE SurvivesPowerLoss'
  BY <1>21 DEF Reread
<1>22. ASSUME AwaitKernel PROVE SurvivesPowerLoss'
  BY <1>22 DEF AwaitKernel, Owned, InView
<1>23. ASSUME CheckFreshSource PROVE SurvivesPowerLoss'
  BY <1>23 DEF CheckFreshSource, Owned, InView, Shrunk
<1>24. ASSUME CloseFresh PROVE SurvivesPowerLoss'
  BY <1>24 DEF CloseFresh
<1>25. ASSUME LeaveContext PROVE SurvivesPowerLoss'
  BY <1>25 DEF LeaveContext, Success, Failure, Answer
<1>26. ASSUME Unwind PROVE SurvivesPowerLoss'
  BY <1>26 DEF Unwind, Failure, Answer
<1>27. ASSUME SayAnswer PROVE SurvivesPowerLoss'
  BY <1>27 DEF SayAnswer, NoAnswer, Answer
<1>28. ASSUME NativeWrites PROVE SurvivesPowerLoss'
  BY <1>28 DEF NativeWrites, Put, ChildInv, Alive
<1>29. ASSUME NativeEnds PROVE SurvivesPowerLoss'
  BY <1>29 DEF NativeEnds
<1>30. ASSUME KernelPublishes PROVE SurvivesPowerLoss'
  BY <1>30 DEF KernelPublishes, KernelReads
<1>31. ASSUME WorkerDies PROVE SurvivesPowerLoss'
  BY <1>31 DEF WorkerDies, NoAnswer, Answer
<1>32. ASSUME Conclude PROVE SurvivesPowerLoss'
  BY <1>32 DEF Conclude, Unknown, Answer, Acceptable
<1>33. ASSUME Disturb PROVE SurvivesPowerLoss'
  BY <1>33 DEF Disturb, Upset, Put
<1>34. ASSUME PowerLoss PROVE SurvivesPowerLoss'
  BY <1>34 DEF PowerLoss, AfterLoss, ChildInv, CountInv, WholeInv, Whole
<1>35. ASSUME UNCHANGED vars PROVE SurvivesPowerLoss'
  BY <1>35 DEF vars
<1>36. QED   BY <1>1, <1>2, <1>3, <1>4, <1>5, <1>6, <1>7, <1>8, <1>9, <1>10,
     <1>11, <1>12, <1>13, <1>14, <1>15, <1>16, <1>17, <1>18, <1>19, <1>20,
     <1>21, <1>22, <1>23, <1>24, <1>25, <1>26, <1>27, <1>28, <1>29, <1>30,
     <1>31, <1>32, <1>33, <1>34, <1>35 DEF Next, Worker

-----------------------------------------------------------------------------
(* The descriptions open in each part of the run.                          *)

LEMMA DescStep ==
    ASSUME MediumType, DescInv
    PROVE  [Next]_vars => DescInv'
<1>. USE DEF DescInv, Sources, Dups, Before, Resizing, Writing, Kernel,
             Running, Working
<1>1. ASSUME TakeContext PROVE DescInv'
  BY <1>1 DEF TakeContext, Owned
<1>2. ASSUME HoldPower PROVE DescInv'
  BY <1>2 DEF HoldPower
<1>3. ASSUME OpenSources PROVE DescInv'
  BY <1>3 DEF OpenSources, Owned
<1>4. ASSUME HandOver PROVE DescInv'
  BY <1>4 DEF HandOver
<1>5. ASSUME Prepare PROVE DescInv'
  BY <1>5 DEF Prepare, Owned, InView
<1>6. ASSUME Launch PROVE DescInv'
  BY <1>6 DEF Launch
<1>7. ASSUME NativeFinishes PROVE DescInv'
  BY <1>7 DEF NativeFinishes
<1>8. ASSUME NativeFails PROVE DescInv'
  BY <1>8 DEF NativeFails
<1>9. ASSUME NativeFlush PROVE DescInv'
  BY <1>9 DEF NativeFlush, Flushed
<1>10. ASSUME CheckFilesystem PROVE DescInv'
  BY <1>10 DEF CheckFilesystem, Owned, Shrunk
<1>11. ASSUME PlanTables PROVE DescInv'
  BY <1>11 DEF PlanTables, Owned, InView
<1>12. ASSUME CheckGroup PROVE DescInv'
  BY <1>12 DEF CheckGroup, Owned, InView, Done, GptPhase
<1>13. ASSUME WriteEntries PROVE DescInv'
  BY <1>13 DEF WriteEntries, Put, GptPhase
<1>14. ASSUME WriteHeader PROVE DescInv'
  BY <1>14 DEF WriteHeader, Put, GptPhase
<1>15. ASSUME SyncTables PROVE DescInv'
  BY <1>15 DEF SyncTables, Flushed, GptPhase
<1>16. ASSUME VerifyGroup PROVE DescInv'
  BY <1>16 DEF VerifyGroup, InView, Done, GptPhase
<1>17. ASSUME VerifyTables PROVE DescInv'
  BY <1>17 DEF VerifyTables, InView, Owned
<1>18. ASSUME ReleaseDuplicates PROVE DescInv'
  BY <1>18 DEF ReleaseDuplicates
<1>19. ASSUME CloseSources PROVE DescInv'
  BY <1>19 DEF CloseSources
<1>20. ASSUME CheckIdentity PROVE DescInv'
  BY <1>20 DEF CheckIdentity, Owned
<1>21. ASSUME Reread PROVE DescInv'
  BY <1>21 DEF Reread
<1>22. ASSUME AwaitKernel PROVE DescInv'
  BY <1>22 DEF AwaitKernel, Owned, InView
<1>23. ASSUME CheckFreshSource PROVE DescInv'
  BY <1>23 DEF CheckFreshSource, Owned, InView, Shrunk
<1>24. ASSUME CloseFresh PROVE DescInv'
  BY <1>24 DEF CloseFresh
<1>25. ASSUME LeaveContext PROVE DescInv'
  BY <1>25 DEF LeaveContext, Success, Failure, Answer
<1>26. ASSUME Unwind PROVE DescInv'
  BY <1>26 DEF Unwind, Failure, Answer
<1>27. ASSUME SayAnswer PROVE DescInv'
  BY <1>27 DEF SayAnswer, NoAnswer, Answer
<1>28. ASSUME NativeWrites PROVE DescInv'
  BY <1>28 DEF NativeWrites, Put
<1>29. ASSUME NativeEnds PROVE DescInv'
  BY <1>29 DEF NativeEnds
<1>30. ASSUME KernelPublishes PROVE DescInv'
  BY <1>30 DEF KernelPublishes, KernelReads
<1>31. ASSUME WorkerDies PROVE DescInv'
  BY <1>31 DEF WorkerDies, NoAnswer, Answer
<1>32. ASSUME Conclude PROVE DescInv'
  BY <1>32 DEF Conclude, Unknown, Answer, Acceptable
<1>33. ASSUME Disturb PROVE DescInv'
  BY <1>33 DEF Disturb, Upset, Put
<1>34. ASSUME PowerLoss PROVE DescInv'
  BY <1>34 DEF PowerLoss, AfterLoss
<1>35. ASSUME UNCHANGED vars PROVE DescInv'
  BY <1>35 DEF vars
<1>36. QED   BY <1>1, <1>2, <1>3, <1>4, <1>5, <1>6, <1>7, <1>8, <1>9, <1>10,
     <1>11, <1>12, <1>13, <1>14, <1>15, <1>16, <1>17, <1>18, <1>19, <1>20,
     <1>21, <1>22, <1>23, <1>24, <1>25, <1>26, <1>27, <1>28, <1>29, <1>30,
     <1>31, <1>32, <1>33, <1>34, <1>35 DEF Next, Worker

-----------------------------------------------------------------------------
(* Reports and verdicts follow the progress.                               *)

LEMMA AnswerStep ==
    ASSUME TypeOK, ChildInv, CountInv, CopyInv, AnswerInv
    PROVE  [Next]_vars => AnswerInv'
<1>. USE DEF AnswerInv, Final, TypeOK, MediumType, FlagType, ChildInv,
             CountInv, CopyInv, Alive, Acceptable, Answer, Untouched,
             Places, Copies, Contents, Before, Resizing, Writing, Kernel,
             Running, Working
<1>1. ASSUME TakeContext PROVE AnswerInv'
  BY <1>1 DEF TakeContext, Owned, Phases
<1>2. ASSUME HoldPower PROVE AnswerInv'
  BY <1>2 DEF HoldPower, Phases
<1>3. ASSUME OpenSources PROVE AnswerInv'
  BY <1>3 DEF OpenSources, Owned, Phases
<1>4. ASSUME HandOver PROVE AnswerInv'
  BY <1>4 DEF HandOver, Phases
<1>5. ASSUME Prepare PROVE AnswerInv'
  BY <1>5 DEF Prepare, Owned, InView, Phases
<1>6. ASSUME Launch PROVE AnswerInv'
  BY <1>6 DEF Launch, Phases
<1>7. ASSUME NativeFinishes PROVE AnswerInv'
  BY <1>7 DEF NativeFinishes
<1>8. ASSUME NativeFails PROVE AnswerInv'
  BY <1>8 DEF NativeFails, Phases
<1>9. ASSUME NativeFlush PROVE AnswerInv'
  BY <1>9 DEF NativeFlush, Flushed, Phases
<1>10. ASSUME CheckFilesystem PROVE AnswerInv'
  BY <1>10 DEF CheckFilesystem, Owned, Shrunk, Phases
<1>11. ASSUME PlanTables PROVE AnswerInv'
  BY <1>11 DEF PlanTables, Owned, InView, Phases
<1>12. ASSUME CheckGroup PROVE AnswerInv'
  BY <1>12 DEF CheckGroup, Owned, InView, Done, GptPhase, Phases
<1>13. ASSUME WriteEntries PROVE AnswerInv'
  BY <1>13 DEF WriteEntries, Put, GptPhase, Phases
<1>14. ASSUME WriteHeader PROVE AnswerInv'
  BY <1>14 DEF WriteHeader, Put, GptPhase, Phases
<1>15. ASSUME SyncTables PROVE AnswerInv'
  BY <1>15 DEF SyncTables, Flushed, GptPhase, Phases
<1>16. ASSUME VerifyGroup PROVE AnswerInv'
  BY <1>16 DEF VerifyGroup, InView, Done, GptPhase, Phases
<1>17. ASSUME VerifyTables PROVE AnswerInv'
  BY <1>17 DEF VerifyTables, InView, Owned, Phases
<1>18. ASSUME ReleaseDuplicates PROVE AnswerInv'
  BY <1>18 DEF ReleaseDuplicates, Phases
<1>19. ASSUME CloseSources PROVE AnswerInv'
  BY <1>19 DEF CloseSources, Phases
<1>20. ASSUME CheckIdentity PROVE AnswerInv'
  BY <1>20 DEF CheckIdentity, Owned, Phases
<1>21. ASSUME Reread PROVE AnswerInv'
  BY <1>21 DEF Reread, Phases
<1>22. ASSUME AwaitKernel PROVE AnswerInv'
  BY <1>22 DEF AwaitKernel, Owned, InView, Phases
<1>23. ASSUME CheckFreshSource PROVE AnswerInv'
  BY <1>23 DEF CheckFreshSource, Owned, InView, Shrunk, Phases
<1>24. ASSUME CloseFresh PROVE AnswerInv'
  BY <1>24 DEF CloseFresh, Phases
<1>25. ASSUME LeaveContext PROVE AnswerInv'
  BY <1>25 DEF LeaveContext, Success, Failure, Phases
<1>26. ASSUME Unwind PROVE AnswerInv'
  <2>1. CASE answer' = Failure(fault, changed, started, copies, dirty')
    BY <1>26, <2>1 DEF Unwind, Failure, Phases
  <2>2. ASSUME NEW d \in BOOLEAN, answer' = Unknown(d) PROVE AnswerInv'
    BY <1>26, <2>2 DEF Unwind, Unknown
  <2>3. QED
    BY <1>26, <2>1, <2>2 DEF Unwind
<1>27. ASSUME SayAnswer PROVE AnswerInv'
  BY <1>27 DEF SayAnswer, NoAnswer
<1>28. ASSUME NativeWrites PROVE AnswerInv'
  BY <1>28 DEF NativeWrites, Put
<1>29. ASSUME NativeEnds PROVE AnswerInv'
  BY <1>29 DEF NativeEnds
<1>30. ASSUME KernelPublishes PROVE AnswerInv'
  BY <1>30 DEF KernelPublishes, KernelReads
<1>31. ASSUME WorkerDies PROVE AnswerInv'
  BY <1>31 DEF WorkerDies, NoAnswer
<1>32. ASSUME Conclude PROVE AnswerInv'
  <2>1. CASE native \notin Alive /\ Acceptable(answer) /\ verdict' = answer
    BY <1>32, <2>1 DEF Conclude
  <2>2. ASSUME NEW d \in BOOLEAN, native \in Alive => d, verdict' = Unknown(d)
        PROVE  AnswerInv'
    BY <1>32, <2>2 DEF Conclude, Unknown
  <2>3. QED
    BY <1>32, <2>1, <2>2 DEF Conclude
<1>33. ASSUME Disturb PROVE AnswerInv'
  <2>1. PICK k \in Copies \cup {"context"} :
            /\ upsets' = upsets \cup {Upset(k)}
            /\ IF k = "context" THEN UNCHANGED page ELSE Put(k, "foreign")
    BY <1>33 DEF Disturb
  <2>2. Upset(k).kind = k /\ Upset(k).pc = pc
    BY DEF Upset
  <2>3. pc' = pc /\ pc \notin {"ended", "off"}
    BY <1>33 DEF Disturb
  <2>4. /\ page'["fs"] = page["fs"]
        /\ \A c \in Copies : c # k => page'[c] = page[c]
    BY <2>1 DEF Put
  <2>5. UNCHANGED <<disk, kview, native, changed, started, copies, fault,
                    answer, verdict>>
    BY <1>33 DEF Disturb
  <2>6. ASSUME Final, pc \in {"cleanup", "leave", "answer", "exited"}
        PROVE  Final'
    BY <2>1, <2>2, <2>4, <2>5, <2>6
  <2>7. QED
    BY <2>3, <2>5, <2>6
<1>34. ASSUME PowerLoss PROVE AnswerInv'
  BY <1>34 DEF PowerLoss, AfterLoss
<1>35. ASSUME UNCHANGED vars PROVE AnswerInv'
  BY <1>35 DEF vars
<1>36. QED   BY <1>1, <1>2, <1>3, <1>4, <1>5, <1>6, <1>7, <1>8, <1>9, <1>10,
     <1>11, <1>12, <1>13, <1>14, <1>15, <1>16, <1>17, <1>18, <1>19, <1>20,
     <1>21, <1>22, <1>23, <1>24, <1>25, <1>26, <1>27, <1>28, <1>29, <1>30,
     <1>31, <1>32, <1>33, <1>34, <1>35 DEF Next, Worker

-----------------------------------------------------------------------------
(* The inductive invariant.                                                *)

LEMMA InitInv == Init => IInv
<1>. SUFFICES ASSUME Init PROVE IInv
  OBVIOUS
<1>. USE DEF Init
<1>1. TypeOK
  <2>1. NoAnswer \in Answers
    BY AnswerFacts
  <2>2. MediumType
    BY DEF MediumType, Working, Running, Before, Copies, Places, Contents
  <2>3. QED
    BY <2>1, <2>2 DEF TypeOK, FlagType, AnswerType, UpsetType
<1>2. ChildInv /\ CountInv /\ CopyInv
  BY DEF ChildInv, CountInv, CopyInv, Untouched, Copies, Places, Before,
         Resizing, Writing, Kernel, Alive
<1>3. WholeInv
  BY DEF WholeInv, Whole, Copies, Places
<1>4. NoticeInv /\ StaleWritesNothing /\ SurvivesPowerLoss
  BY DEF NoticeInv, StaleWritesNothing, SurvivesPowerLoss
<1>5. DescInv
  BY DEF DescInv, Writing
<1>6. AnswerInv
  BY DEF AnswerInv, NoAnswer, Answer
<1>7. QED
  BY <1>1, <1>2, <1>3, <1>4, <1>5, <1>6 DEF IInv

LEMMA NextInv == IInv /\ [Next]_vars => IInv'
<1>. SUFFICES ASSUME IInv, [Next]_vars PROVE IInv'
  OBVIOUS
<1>. USE DEF IInv
<1>1. MediumType' /\ FlagType' /\ AnswerType' /\ UpsetType'
  BY MediumTypeStep, FlagTypeStep, AnswerTypeStep, UpsetTypeStep DEF TypeOK
<1>2. ChildInv' /\ CountInv' /\ CopyInv'
  BY ChildStep, CountStep, CopyStep DEF TypeOK
<1>3. WholeInv' /\ NoticeInv'
  BY WholeStep, NoticeStep DEF TypeOK
<1>4. StaleWritesNothing' /\ SurvivesPowerLoss'
  BY StaleStep, SurviveStep DEF TypeOK
<1>5. DescInv' /\ AnswerInv'
  BY DescStep, AnswerStep DEF TypeOK
<1>6. QED
  BY <1>1, <1>2, <1>3, <1>4, <1>5 DEF TypeOK

\* The invariant holds throughout, however often others interfere.
THEOREM Inductive == Spec => []IInv
<1>1. QED
  BY InitInv, NextInv, PTL DEF Spec

-----------------------------------------------------------------------------
(* The properties the run checks.                                          *)

\* The variables keep their types.
THEOREM TypeCorrect == Spec => []TypeOK
<1>1. IInv => TypeOK
  BY DEF IInv
<1>2. QED
  BY <1>1, Inductive, PTL

\* commit_ntfs_gpt and resize_and_commit_ntfs write nothing after an approval
\* that went stale before their last check.
THEOREM NothingStaleWritten == Spec => []StaleWritesNothing
<1>1. IInv => StaleWritesNothing
  BY DEF IInv
<1>2. QED
  BY <1>1, Inductive, PTL

\* A power loss at any moment leaves a whole table, and no table that cuts the
\* file system off.
THEOREM PowerLossSurvived == Spec => []SurvivesPowerLoss
<1>1. IInv => SurvivesPowerLoss
  BY DEF IInv
<1>2. QED
  BY <1>1, Inductive, PTL

\* The file system has its size on the medium before a table is written.
THEOREM FilesystemIsFirst == Spec => []FilesystemFirst
<1>1. IInv => FilesystemFirst
  BY DEF IInv, ChildInv, FilesystemFirst
<1>2. QED
  BY <1>1, Inductive, PTL

\* Nothing of the worker's keeps the kernel from rereading.
THEOREM RereadsUnobstructed == Spec => []RereadUnobstructed
<1>1. IInv => RereadUnobstructed
  BY DEF IInv, ChildInv, DescInv, RereadUnobstructed, Kernel, Alive
<1>2. QED
  BY <1>1, Inductive, PTL

\* A verdict says neither less than happened nor more than is durable.
THEOREM VerdictsHonest == Spec => []HonestVerdict
<1>1. ASSUME IInv PROVE HonestVerdict
  <2>. SUFFICES ASSUME verdict.status # "none", pc # "off"
        PROVE  /\ ~verdict.changed => page["fs"] = "old" /\ native = "none"
               /\ ~verdict.started => \A c \in Copies : Untouched(c)
               /\ verdict.copies > 0 => disk["backup"] \in {"new", "foreign"}
               /\ verdict.copies = 2 => disk["primary"] \in {"new", "foreign"}
               /\ native \in Alive => verdict.cleanup
    BY DEF HonestVerdict
  <2>1. /\ ~verdict.changed => ~changed
        /\ ~verdict.started => ~started
        /\ verdict.copies <= copies
        /\ native \in Alive => verdict.cleanup
    BY <1>1 DEF IInv, AnswerInv
  <2>2. verdict.copies \in 0..2 /\ copies \in 0..2
    BY <1>1 DEF IInv, TypeOK, AnswerType, MediumType, Answers
  <2>3. /\ verdict.copies > 0 => copies > 0
        /\ verdict.copies = 2 => copies = 2
    BY <2>1, <2>2
  <2>4. QED
    BY <1>1, <2>1, <2>3 DEF IInv, ChildInv, CopyInv
<1>2. QED
  BY <1>1, Inductive, PTL

\* Success is said of a disk that is shrunk, committed and shown.
THEOREM SuccessesComplete == Spec => []SuccessIsComplete
<1>1. IInv => SuccessIsComplete
  BY DEF IInv, AnswerInv, DescInv, Final, SuccessIsComplete
<1>2. QED
  BY <1>1, Inductive, PTL

\* The supervisor understands every answer.
THEOREM AnswersUnderstood == Spec => []AnswerUnderstood
<1>1. IInv => AnswerUnderstood
  BY DEF IInv, AnswerInv, AnswerUnderstood
<1>2. QED
  BY <1>1, Inductive, PTL

-----------------------------------------------------------------------------
(* NtfsTransaction implements StorageCommit.                               *)

LEMMA RefineInit == Init => Promise!Init
BY DEF Init, Promise!Init, Durable, NoAnswer, Answer

\* Once shrunk for good, always so.
LEMMA DurableStays == IInv /\ [Next]_vars /\ Durable => Durable'
<1>. SUFFICES ASSUME IInv, [Next]_vars, Durable PROVE Durable'
  OBVIOUS
<1>. USE DEF IInv, TypeOK, MediumType, Durable, Copies, Places, Alive
<1>1. CASE Launch
  BY <1>1 DEF Launch, ChildInv, Before
<1>2. CASE NativeFlush \/ SyncTables
  BY <1>2 DEF NativeFlush, SyncTables, Flushed
<1>3. CASE WriteEntries \/ WriteHeader
  BY <1>3 DEF WriteEntries, WriteHeader, Put
<1>4. CASE Disturb
  BY <1>4 DEF Disturb, Put
<1>5. CASE PowerLoss
  BY <1>5 DEF PowerLoss, AfterLoss
<1>6. CASE TakeContext \/ HoldPower \/ OpenSources \/ HandOver \/ Prepare
           \/ NativeFinishes \/ NativeFails \/ CheckFilesystem \/ PlanTables
           \/ CheckGroup \/ VerifyGroup \/ VerifyTables \/ ReleaseDuplicates
           \/ CloseSources \/ CheckIdentity \/ Reread \/ AwaitKernel
           \/ CheckFreshSource \/ CloseFresh \/ LeaveContext \/ Unwind
           \/ SayAnswer \/ NativeWrites \/ NativeEnds \/ KernelPublishes
           \/ WorkerDies \/ Conclude
  BY <1>6 DEF TakeContext, HoldPower, OpenSources, HandOver, Prepare,
     NativeFinishes, NativeFails, CheckFilesystem, PlanTables, CheckGroup,
     VerifyGroup, VerifyTables, ReleaseDuplicates, CloseSources,
     CheckIdentity, Reread, AwaitKernel, CheckFreshSource, CloseFresh,
     LeaveContext, Unwind, SayAnswer, NativeWrites, NativeEnds,
     KernelPublishes, WorkerDies, Conclude
<1>7. CASE UNCHANGED vars
  BY <1>7 DEF vars
<1>8. QED
  BY <1>1, <1>2, <1>3, <1>4, <1>5, <1>6, <1>7 DEF Next, Worker

\* A step that leaves progress and verdict alone ends the resize at most.
LEMMA RefineQuiet ==
    ASSUME IInv, [Next]_vars, UNCHANGED <<changed, started, copies, verdict>>
    PROVE  [Promise!Next]_(Promise!vars)
<1>1. Durable => Durable'
  BY DurableStays
<1>2. Durable' => changed
  BY NextInv DEF Durable, IInv, ChildInv
<1>3. CASE Durable <=> Durable'
  BY <1>3 DEF Promise!vars
<1>4. CASE ~Durable /\ Durable'
  BY <1>2, <1>4 DEF Promise!Next, Promise!EndResize
<1>5. QED
  BY <1>1, <1>3, <1>4

LEMMA RefineNext == IInv /\ [Next]_vars => [Promise!Next]_(Promise!vars)
<1>. SUFFICES ASSUME IInv, [Next]_vars PROVE [Promise!Next]_(Promise!vars)
  OBVIOUS
<1>1. CASE Launch
  <2>1. verdict.status = "none" /\ ~changed /\ ~started /\ copies # 2
    BY <1>1 DEF Launch, IInv, AnswerInv, ChildInv, CountInv, Resizing
  <2>2. UNCHANGED <<started, copies, verdict>> /\ ~Durable /\ ~Durable'
    BY <1>1, <2>1 DEF Launch, IInv, ChildInv, Durable
  <2>3. CASE changed'
    BY <2>1, <2>2, <2>3
       DEF Promise!Next, Promise!BeginResize, Promise!vars
  <2>4. CASE ~changed'
    BY <2>1, <2>2, <2>4 DEF Promise!vars
  <2>5. QED
    BY <2>3, <2>4
<1>2. CASE WriteEntries
  <2>1. verdict.status = "none" /\ copies # 2 /\ started'
    BY <1>2 DEF WriteEntries, IInv, AnswerInv, CountInv, Writing, TypeOK,
                MediumType, Copies
  <2>2. Durable /\ Durable'
    <3>1. Durable
      BY <1>2 DEF WriteEntries, IInv, ChildInv, Writing, Durable
    <3>2. QED
      BY <3>1, DurableStays
  <2>3. UNCHANGED <<changed, copies, verdict>>
    BY <1>2 DEF WriteEntries
  <2>4. CASE started
    BY <2>1, <2>2, <2>3, <2>4 DEF Promise!vars
  <2>5. CASE ~started
    BY <2>1, <2>2, <2>3, <2>5
       DEF Promise!Next, Promise!BeginTable, Promise!vars
  <2>6. QED
    BY <2>4, <2>5
<1>3. CASE VerifyGroup
  <2>1. verdict.status = "none" /\ started
    BY <1>3 DEF VerifyGroup, IInv, AnswerInv, CountInv
  <2>2. UNCHANGED <<changed, started, verdict>> /\ (Durable <=> Durable')
    BY <1>3 DEF VerifyGroup, Durable
  <2>3. copies # 2
    BY <1>3 DEF VerifyGroup, IInv, CountInv, Writing, TypeOK, MediumType, Copies
  <2>4. CASE copies' = 2
    BY <2>1, <2>2, <2>3, <2>4
       DEF Promise!Next, Promise!EndTable, Promise!vars
  <2>5. CASE copies' # 2
    BY <2>1, <2>2, <2>3, <2>5 DEF Promise!vars
  <2>6. QED
    BY <2>4, <2>5
<1>4. CASE Conclude
  <2>1. verdict.status = "none" /\ UNCHANGED <<changed, started, copies>>
    BY <1>4 DEF Conclude, IInv, AnswerInv
  <2>2. Durable <=> Durable'
    BY <1>4 DEF Conclude, Durable, IInv, ChildInv, CopyInv, Alive
  <2>3. verdict'.status \in {"success", "failed"}
    BY <1>4 DEF Conclude, Acceptable, Unknown, Answer
  <2>4. verdict'.status = "success" => copies = 2
    BY NextInv, <2>1 DEF IInv, AnswerInv
  <2>5. /\ ~verdict'.changed => ~changed /\ ~Durable
        /\ ~verdict'.started => ~started /\ copies # 2
    BY NextInv, <2>1, <2>3 DEF IInv, AnswerInv, ChildInv, CountInv, Durable
  <2>6. QED
    BY <2>1, <2>2, <2>3, <2>4, <2>5
       DEF Promise!Next, Promise!Say, Promise!Verdicts, Promise!vars
<1>5. ASSUME ~(Launch \/ WriteEntries \/ VerifyGroup \/ Conclude)
      PROVE  UNCHANGED <<changed, started, copies, verdict>>
  BY <1>5 DEF Next, Worker, vars, TakeContext, HoldPower, OpenSources,
     HandOver, Prepare, NativeFinishes, NativeFails, NativeFlush,
     CheckFilesystem, PlanTables, CheckGroup, WriteHeader, SyncTables,
     VerifyTables, ReleaseDuplicates, CloseSources, CheckIdentity, Reread,
     AwaitKernel, CheckFreshSource, CloseFresh, LeaveContext, Unwind,
     SayAnswer, NativeWrites, NativeEnds, KernelPublishes, WorkerDies,
     Disturb, PowerLoss
<1>6. QED
  BY <1>1, <1>2, <1>3, <1>4, <1>5, RefineQuiet

\* Every behaviour of the worker and its supervisor is one StorageCommit
\* allows.
THEOREM Refinement == Spec => KeepsPromise
<1>1. QED
  BY RefineInit, RefineNext, Inductive, PTL DEF Spec, Promise!Spec, KeepsPromise
-----------------------------------------------------------------------------
(* The evidence: NtfsAdmission, beside the transaction.                    *)

-----------------------------------------------------------------------------
(* The inductive invariant of the evidence.                                *)

Extents == {"whole", "part", "target"}
States == {"clean", "dirty", "asleep", "chkdsk"}
\* What a reading can yield.
Values == (Extents \X {1, 2}) \cup {<<x>> : x \in States \cup (1..Size) \cup BOOLEAN \cup Tools}

\* The worker's readings are kept while it resizes.
Job == IF stage = "resize" THEN "worker" ELSE stage
Plan == Script(Job)
Looking == stage \in Jobs \cup {"resize"} /\ past # {}

\* The types.
Typed ==
    /\ stage \in Jobs \cup {"resize", "done", "failed"}
    /\ vol \in Volumes /\ tools \in Tools
    /\ mounted \in BOOLEAN /\ held \in BOOLEAN /\ strays \in Nat
    /\ reads \in Seq(Values) /\ past \subseteq Volumes

\* A job that has begun keeps the source open, and the volume out of other hands: only a
\* stray writer changes it.
HeldInv ==
    /\ held <=> past # {}
    /\ held => ~mounted
    /\ past = {} => reads = <<>>
    /\ stage \in {"done", "failed"} => past = {}
    /\ stage = "resize" => past # {}
    /\ strays = 0 /\ past # {} => past = {vol}
    /\ past # {} => vol \in past

\* The first c readings fit the volume v, the rest fits the volume as it is.
Split(v, c) ==
    \A k \in 1..Len(reads) :
        Plan[k].field # "tools" => reads[k] = Look(IF k <= c THEN v ELSE vol)[Plan[k].field]

\* One stray writer cuts the readings of a job in two.
CutInv ==
    Looking /\ strays <= 1 => \E v \in past, c \in 0..Len(reads) : Split(v, c)

\* Each reading agrees with the earlier one it was compared with, and is acceptable.
AgreeInv ==
    Looking => /\ Len(reads) <= Len(Plan)
               /\ \A k \in 1..Len(reads) :
                     /\ Plan[k].as # 0 => reads[k] = reads[Plan[k].as]
                     /\ Job # "check" /\ Plan[k].field = "meta" => reads[k][1] = "clean"
                     /\ Job # "check" /\ Plan[k].field = "boot" => reads[k][1] = "whole"

\* What the worker has found when it resizes is what the user was shown.
ShownInv ==
    stage = "resize" => /\ Len(reads) = Len(Preparation)
                        /\ <<reads[2], reads[3], reads[4]>> = shown
                        /\ Ample(reads)

EvidenceInv == Typed /\ HeldInv /\ CutInv /\ AgreeInv /\ ShownInv

-----------------------------------------------------------------------------
(* The scripts.                                                            *)

Fields == {"boot", "meta", "minimum", "test", "tools"}

\* The readings of an inspection.
LEMMA InspectionFacts ==
    /\ Len(Inspection) = 5
    /\ Inspection[1] = See("boot", 0) /\ Inspection[2] = See("meta", 0)
    /\ Inspection[3] = See("minimum", 0)
    /\ Inspection[4] = See("boot", 1) /\ Inspection[5] = See("meta", 2)
BY DEF Inspection

\* The readings of a preparation.
LEMMA PreparationFacts ==
    /\ Len(Preparation) = 17
    /\ Preparation[1] = See("tools", 0)
    /\ Preparation[2] = See("boot", 0) /\ Preparation[3] = See("meta", 0)
    /\ Preparation[4] = See("minimum", 0)
    /\ Preparation[5] = See("boot", 2) /\ Preparation[6] = See("meta", 3)
    /\ Preparation[7] = See("boot", 0) /\ Preparation[8] = See("meta", 0)
    /\ Preparation[9] = See("test", 0)
    /\ Preparation[10] = See("boot", 7) /\ Preparation[11] = See("meta", 8)
    /\ Preparation[12] = See("boot", 2) /\ Preparation[13] = See("meta", 3)
    /\ Preparation[14] = See("minimum", 4)
    /\ Preparation[15] = See("boot", 12) /\ Preparation[16] = See("meta", 13)
    /\ Preparation[17] = See("tools", 1)
BY DEF Preparation

\* A script is readings of the known fields, each compared with an earlier one or none.
LEMMA ScriptFacts ==
    ASSUME NEW s, NEW k \in 1..Len(Script(s))
    PROVE  /\ Len(Script(s)) \in {5, 17}
           /\ Script(s)[k].field \in Fields
           /\ Script(s)[k].as \in 0..(k - 1)
<1>1. CASE Script(s) = Preparation
  <2>1. k \in 1..17  BY <1>1, PreparationFacts
  <2>2. \/ k = 1 \/ k = 2 \/ k = 3 \/ k = 4 \/ k = 5 \/ k = 6 \/ k = 7 \/ k = 8 \/ k = 9
        \/ k = 10 \/ k = 11 \/ k = 12 \/ k = 13 \/ k = 14 \/ k = 15 \/ k = 16 \/ k = 17
    BY <2>1
  <2> QED BY <1>1, <2>2, PreparationFacts DEF See, Fields
<1>2. CASE Script(s) = Inspection
  <2>1. k = 1 \/ k = 2 \/ k = 3 \/ k = 4 \/ k = 5  BY <1>2, InspectionFacts
  <2> QED BY <1>2, <2>1, InspectionFacts DEF See, Fields
<1> QED BY <1>1, <1>2 DEF Script

-----------------------------------------------------------------------------
(* One volume.                                                             *)

\* A volume that all readings fit.
FitsAll(v) ==
    \A k \in 1..Len(reads) : Plan[k].field # "tools" => reads[k] = Look(v)[Plan[k].field]

\* What a preparation has to agree on leaves no room for a cut: both sides are one volume, or
\* the cut is before the first minimum or behind the last, where comparisons close it.
LEMMA PreparationIsWhole ==
    ASSUME Plan = Preparation, Len(reads) = 17, AgreeInv, Looking,
           NEW v, NEW c \in 0..17, Split(v, c)
    PROVE  FitsAll(v) \/ FitsAll(vol)
<1>1. /\ reads[5] = reads[2] /\ reads[6] = reads[3]
      /\ reads[12] = reads[2] /\ reads[13] = reads[3] /\ reads[14] = reads[4]
      /\ reads[15] = reads[12] /\ reads[16] = reads[13]
  <2>1. \A k \in 1..17 : Plan[k].as # 0 => reads[k] = reads[Plan[k].as]  BY DEF AgreeInv
  <2> QED BY <2>1, PreparationFacts DEF See
<1> DEFINE Side(k) == Look(IF k <= c THEN v ELSE vol)
<1>2. /\ reads[2] = Side(2).boot /\ reads[3] = Side(3).meta /\ reads[4] = Side(4).minimum
      /\ reads[5] = Side(5).boot /\ reads[6] = Side(6).meta
      /\ reads[7] = Side(7).boot /\ reads[8] = Side(8).meta /\ reads[9] = Side(9).test
      /\ reads[10] = Side(10).boot /\ reads[11] = Side(11).meta
      /\ reads[12] = Side(12).boot /\ reads[13] = Side(13).meta /\ reads[14] = Side(14).minimum
      /\ reads[15] = Side(15).boot /\ reads[16] = Side(16).meta
  <2>1. \A k \in 1..17 : Plan[k].field # "tools" => reads[k] = Side(k)[Plan[k].field]
    BY DEF Split
  <2> HIDE DEF Side
  <2> QED BY <2>1, PreparationFacts DEF See
<1> DEFINE Fit(x) ==
      /\ reads[2] = Look(x).boot /\ reads[3] = Look(x).meta
      /\ reads[4] = Look(x).minimum
      /\ reads[5] = Look(x).boot /\ reads[6] = Look(x).meta
      /\ reads[7] = Look(x).boot /\ reads[8] = Look(x).meta /\ reads[9] = Look(x).test
      /\ reads[10] = Look(x).boot /\ reads[11] = Look(x).meta
      /\ reads[12] = Look(x).boot /\ reads[13] = Look(x).meta
      /\ reads[14] = Look(x).minimum
      /\ reads[15] = Look(x).boot /\ reads[16] = Look(x).meta
<1>3. ASSUME NEW x, Fit(x) PROVE FitsAll(x)
  <2> SUFFICES ASSUME NEW k \in 1..17, Plan[k].field # "tools"
               PROVE  reads[k] = Look(x)[Plan[k].field]
    BY DEF FitsAll
  <2>1. \/ k = 1 \/ k = 2 \/ k = 3 \/ k = 4 \/ k = 5 \/ k = 6 \/ k = 7 \/ k = 8 \/ k = 9
        \/ k = 10 \/ k = 11 \/ k = 12 \/ k = 13 \/ k = 14 \/ k = 15 \/ k = 16 \/ k = 17
    OBVIOUS
  <2> QED BY <1>3, <2>1, PreparationFacts DEF See
<1>4. CASE c >= 14
  <2>1. Fit(v)  BY <1>1, <1>2, <1>4
  <2> QED BY <2>1, <1>3
<1>5. CASE c < 4
  <2>1. Fit(vol)  BY <1>1, <1>2, <1>5
  <2> QED BY <2>1, <1>3
<1>6. CASE 4 <= c /\ c < 14
  <2>1. /\ Look(v).boot = Look(vol).boot /\ Look(v).meta = Look(vol).meta
        /\ Look(v).minimum = Look(vol).minimum
    BY <1>1, <1>2, <1>6
  <2>2. v.used = vol.used  BY <2>1 DEF Look
  <2>3. Look(v).test = Look(vol).test  BY <2>2 DEF Look
  <2> HIDE DEF Look
  <2>4. Fit(vol)  BY <1>1, <1>2, <1>6, <2>1, <2>3
  <2> QED BY <2>4, <1>3
<1> QED BY <1>4, <1>5, <1>6

\* The same for an inspection, which compares its boot sector and metadata only.
LEMMA InspectionIsWhole ==
    ASSUME Plan = Inspection, Len(reads) = 5, AgreeInv, Looking,
           NEW v, NEW c \in 0..5, Split(v, c)
    PROVE  FitsAll(v) \/ FitsAll(vol)
<1>1. reads[4] = reads[1] /\ reads[5] = reads[2]
  <2>1. \A k \in 1..5 : Plan[k].as # 0 => reads[k] = reads[Plan[k].as]  BY DEF AgreeInv
  <2> QED BY <2>1, InspectionFacts DEF See
<1> DEFINE Side(k) == Look(IF k <= c THEN v ELSE vol)
<1>2. /\ reads[1] = Side(1).boot /\ reads[2] = Side(2).meta /\ reads[3] = Side(3).minimum
      /\ reads[4] = Side(4).boot /\ reads[5] = Side(5).meta
  <2>1. \A k \in 1..5 : Plan[k].field # "tools" => reads[k] = Side(k)[Plan[k].field]
    BY DEF Split
  <2> HIDE DEF Side
  <2> QED BY <2>1, InspectionFacts DEF See
<1> DEFINE Fit(x) ==
      /\ reads[1] = Look(x).boot /\ reads[2] = Look(x).meta
      /\ reads[3] = Look(x).minimum
      /\ reads[4] = Look(x).boot /\ reads[5] = Look(x).meta
<1>3. ASSUME NEW x, Fit(x) PROVE FitsAll(x)
  <2> SUFFICES ASSUME NEW k \in 1..5 PROVE reads[k] = Look(x)[Plan[k].field]
    BY DEF FitsAll
  <2>1. k = 1 \/ k = 2 \/ k = 3 \/ k = 4 \/ k = 5  OBVIOUS
  <2> QED BY <1>3, <2>1, InspectionFacts DEF See
<1>4. CASE c >= 3
  <2>1. Fit(v)  BY <1>1, <1>2, <1>4
  <2> QED BY <2>1, <1>3
<1>5. CASE c < 3
  <2>1. Fit(vol)  BY <1>1, <1>2, <1>5
  <2> QED BY <2>1, <1>3
<1> QED BY <1>4, <1>5

\* A finished job has read one volume.
LEMMA OneVolumeRead ==
    ASSUME EvidenceInv, Looking, strays <= 1, Len(reads) = Len(Plan)
    PROVE  \E v \in past : FitsAll(v)
<1>1. PICK v \in past, c \in 0..Len(reads) : Split(v, c)  BY DEF EvidenceInv, CutInv
<1>2. vol \in past  BY DEF EvidenceInv, HeldInv, Looking
<1>3. CASE Plan = Preparation
  <2>1. Len(reads) = 17  BY <1>3, PreparationFacts
  <2> QED BY <1>1, <1>2, <1>3, <2>1, PreparationIsWhole DEF EvidenceInv
<1>4. CASE Plan = Inspection
  <2>1. Len(reads) = 5  BY <1>4, InspectionFacts
  <2> QED BY <1>1, <1>2, <1>4, <2>1, InspectionIsWhole DEF EvidenceInv
<1> QED BY <1>3, <1>4 DEF Plan, Script

\* The invariant implies the first property.
LEMMA ImpliesOneVolume == EvidenceInv => OneVolume
<1> SUFFICES ASSUME EvidenceInv, stage \in Jobs, Finished, strays <= 1
             PROVE  \E v \in past : \A k \in DOMAIN reads :
                       Script(stage)[k].field # "tools" =>
                          reads[k] = Look(v)[Script(stage)[k].field]
  BY DEF OneVolume
<1>1. Plan = Script(stage)  BY DEF Plan, Job, Jobs
<1>2. Looking /\ Len(reads) = Len(Plan)  BY <1>1 DEF Looking, Finished
<1>3. DOMAIN reads = 1..Len(reads)  BY DEF EvidenceInv, Typed
<1>4. PICK v \in past : FitsAll(v)  BY <1>2, OneVolumeRead
<1> QED BY <1>1, <1>3, <1>4 DEF FitsAll

\* The invariant implies the second.
LEMMA ImpliesConfirmed == EvidenceInv => ResizesTheConfirmed
<1> SUFFICES ASSUME EvidenceInv, stage = "resize", strays <= 1
             PROVE  /\ ~mounted
                    /\ \E v \in past :
                          /\ strays = 0 => v = vol
                          /\ <<Look(v).boot, Look(v).meta, Look(v).minimum>> = shown
                          /\ v.extent = "whole" /\ v.state = "clean"
                          /\ v.used + Slack <= Target
  BY DEF ResizesTheConfirmed
<1>1. Plan = Preparation /\ Job = "worker"  BY DEF Plan, Job, Script
<1>2. Len(reads) = 17 /\ Len(Plan) = 17  BY <1>1, PreparationFacts DEF EvidenceInv, ShownInv
<1>3. past # {} /\ ~mounted /\ Looking  BY DEF EvidenceInv, HeldInv, Looking
<1>4. PICK v \in past : FitsAll(v)  BY <1>2, <1>3, OneVolumeRead
<1>5. /\ reads[2] = Look(v).boot /\ reads[3] = Look(v).meta
      /\ reads[4] = Look(v).minimum
  BY <1>1, <1>2, <1>4, PreparationFacts DEF FitsAll, See
<1>6. reads[3][1] = "clean" /\ reads[2][1] = "whole"
  BY <1>1, <1>2, <1>3, PreparationFacts DEF EvidenceInv, AgreeInv, See
<1>7. v.state = "clean" /\ v.extent = "whole"  BY <1>5, <1>6 DEF Look
<1>8. reads[4][1] = v.used  BY <1>5 DEF Look
<1>9. v.used + Slack <= Target  BY <1>8 DEF EvidenceInv, ShownInv, Ample
<1>10. <<Look(v).boot, Look(v).meta, Look(v).minimum>> = shown
  BY <1>5 DEF EvidenceInv, ShownInv
<1>11. strays = 0 => v = vol  BY <1>3, <1>4 DEF EvidenceInv, HeldInv
<1> QED BY <1>3, <1>4, <1>7, <1>9, <1>10, <1>11

-----------------------------------------------------------------------------

\* A reading is of its type.
LEMMA ReadingTyped ==
    ASSUME Typed, NEW field \in Fields
    PROVE  Reading(field) \in Values
<1>1. /\ vol.extent \in Extents /\ vol.label \in {1, 2} /\ vol.state \in States
      /\ vol.used \in 1..Size
  BY DEF Typed, Volumes, Extents, States
<1>2. CASE field = "boot"
  <2>1. <<vol.extent, vol.label>> \in Extents \X {1, 2}  BY <1>1
  <2> QED BY <1>2, <2>1 DEF Reading, Look, Values
<1>3. CASE field = "meta"
  <2>1. Reading(field) = <<vol.state>>  BY <1>3 DEF Reading, Look
  <2> QED BY <1>1, <2>1 DEF Values
<1>4. CASE field = "minimum"
  <2>1. Reading(field) = <<vol.used>>  BY <1>4 DEF Reading, Look
  <2> QED BY <1>1, <2>1 DEF Values
<1>5. CASE field = "test"
  <2>1. Reading(field) = <<vol.used <= Target>>  BY <1>5 DEF Reading, Look
  <2>2. (vol.used <= Target) \in BOOLEAN  OBVIOUS
  <2> QED BY <2>1, <2>2, Zenon DEF Values
<1>6. CASE field = "tools"
  <2>1. Reading(field) = <<tools>>  BY <1>6 DEF Reading
  <2> QED BY <2>1 DEF Values, Typed
<1> QED BY <1>2, <1>3, <1>4, <1>5, <1>6 DEF Fields

\* The start.
LEMMA EvidenceStarts == EvidenceInit => EvidenceInv
<1> SUFFICES ASSUME EvidenceInit PROVE EvidenceInv  OBVIOUS
<1>1. vol \in Volumes  BY DEF EvidenceInit, Volumes
<1>4. <<>> \in Seq(Values)  BY EmptySeq
<1>2. Typed  BY <1>1, <1>4 DEF EvidenceInit, Typed, Jobs
<1>3. past = {} /\ stage = "assess" /\ ~held  BY DEF EvidenceInit
<1> QED BY <1>2, <1>3 DEF EvidenceInit, EvidenceInv, HeldInv, CutInv, AgreeInv, ShownInv, Looking

\* A job opens the source.
LEMMA OpenStep == EvidenceInv /\ OpenSource => EvidenceInv'
<1> SUFFICES ASSUME EvidenceInv, OpenSource PROVE EvidenceInv'  OBVIOUS
<1>1. /\ past' = {vol} /\ vol' = vol /\ reads' = <<>> /\ Len(reads') = 0 /\ vol' \in past'
      /\ stage' = stage /\ stage \in Jobs /\ held' /\ ~mounted' /\ strays' = 0
  BY DEF OpenSource
<1>2. Typed'  BY <1>1 DEF OpenSource, EvidenceInv, Typed
<1>3. HeldInv'  BY <1>1 DEF HeldInv, Jobs
<1>4. Split(vol, 0)'  BY <1>1 DEF Split
<1>5. CutInv'  BY <1>1, <1>4 DEF CutInv
<1>6. Len(Plan) \in Nat
  BY InspectionFacts, PreparationFacts DEF Plan, Script
<1>7. Plan' = Plan  BY <1>1 DEF Plan, Job
<1>8. AgreeInv'  BY <1>1, <1>6, <1>7 DEF AgreeInv
<1>9. ShownInv'  BY <1>1 DEF ShownInv, Jobs
<1> QED BY <1>2, <1>3, <1>5, <1>8, <1>9 DEF EvidenceInv

\* One reading more, of the volume as it is.
LEMMA ReadStep == EvidenceInv /\ Read => EvidenceInv'
<1> SUFFICES ASSUME EvidenceInv, Read PROVE EvidenceInv'  OBVIOUS
<1> DEFINE n == Len(reads) + 1
           see == Plan[n]
           value == Reading(see.field)
<1>1. /\ stage \in Jobs /\ past # {} /\ Job = stage /\ Plan = Script(stage) /\ Looking
      /\ Len(reads) < Len(Plan)
  BY DEF Read, Jobs, Plan, Job, Looking
<1>2. Len(Plan) \in {5, 17}
  BY InspectionFacts, PreparationFacts DEF Plan, Script
<1>3. reads \in Seq(Values) /\ Len(reads) \in Nat  BY DEF EvidenceInv, Typed
<1>4. n \in 1..Len(Plan)  BY <1>1, <1>2, <1>3
<1>5. see.field \in Fields /\ see.as \in 0..(n - 1)  BY <1>1, <1>4, ScriptFacts
<1>6. value \in Values  BY <1>5, ReadingTyped DEF EvidenceInv
<1>7. /\ reads' = Append(reads, value)
      /\ see.as # 0 => reads[see.as] = value
      /\ Accepted(stage, see.field, value)
  BY <1>1 DEF Read
<1>8. /\ vol' = vol /\ mounted' = mounted /\ tools' = tools /\ stage' = stage
      /\ held' = held /\ past' = past /\ strays' = strays
  BY DEF Read
<1>9. Job' = Job /\ Plan' = Plan /\ Looking' = Looking  BY <1>8 DEF Job, Plan, Looking
<1> HIDE DEF value
<1>10. /\ reads' \in Seq(Values) /\ Len(reads') = n
       /\ \A k \in 1..Len(reads) : reads'[k] = reads[k]
       /\ reads'[n] = value
  BY <1>3, <1>6, <1>7, AppendProperties
<1> HIDE DEF see
<1>11. Typed'  BY <1>8, <1>10 DEF EvidenceInv, Typed
<1>12. HeldInv'  BY <1>1, <1>8 DEF EvidenceInv, HeldInv
<1>13. CutInv'
  <2> SUFFICES ASSUME strays <= 1
               PROVE  \E v \in past, c \in 0..n : Split(v, c)'
    BY <1>8, <1>9, <1>10 DEF CutInv
  <2>1. PICK v \in past, c \in 0..Len(reads) : Split(v, c)
    BY <1>1 DEF EvidenceInv, CutInv
  <2>2. c \in 0..n /\ ~(n <= c)  BY <1>3, <2>1
  <2>3. ASSUME NEW k \in 1..n, Plan[k].field # "tools"
        PROVE  reads'[k] = Look(IF k <= c THEN v ELSE vol)[Plan[k].field]
    <3>1. CASE k = n
      BY <1>10, <2>2, <2>3, <3>1 DEF value, see, Reading
    <3>2. CASE k # n
      <4>1. k \in 1..Len(reads)  BY <1>3, <3>2
      <4> QED BY <1>10, <2>1, <2>3, <4>1 DEF Split
    <3> QED BY <3>1, <3>2
  <2>4. Split(v, c)'  BY <1>8, <1>9, <1>10, <2>3 DEF Split
  <2> QED BY <2>2, <2>4
<1>14. AgreeInv'
  <2>1. ASSUME NEW k \in 1..n
        PROVE  /\ Plan[k].as # 0 => reads'[k] = reads'[Plan[k].as]
               /\ Job # "check" /\ Plan[k].field = "meta" => reads'[k][1] = "clean"
               /\ Job # "check" /\ Plan[k].field = "boot" => reads'[k][1] = "whole"
    <3>1. CASE k = n
      <4>1. see.as # 0 => see.as \in 1..Len(reads)  BY <1>3, <1>5
      <4>2. see.as # 0 => reads'[see.as] = value  BY <1>7, <1>10, <4>1
      <4>3. Plan[k] = see /\ reads'[k] = value  BY <1>10, <3>1 DEF see
      <4>4. /\ Job # "check" /\ see.field = "meta" => value[1] = "clean"
            /\ Job # "check" /\ see.field = "boot" => value[1] = "whole"
        BY <1>1, <1>7 DEF Accepted
      <4> QED BY <4>2, <4>3, <4>4
    <3>2. CASE k # n
      <4>1. k \in 1..Len(reads)  BY <1>3, <3>2
      <4>2. k \in 1..Len(Script(Job))  BY <1>1, <1>2, <1>3, <4>1 DEF Plan
      <4>3. Plan[k].as \in 0..(k - 1)  BY <4>2, ScriptFacts DEF Plan
      <4>4. Plan[k].as # 0 => Plan[k].as \in 1..Len(reads)  BY <1>3, <4>1, <4>3
      <4>5. /\ Plan[k].as # 0 => reads[k] = reads[Plan[k].as]
            /\ Job # "check" /\ Plan[k].field = "meta" => reads[k][1] = "clean"
            /\ Job # "check" /\ Plan[k].field = "boot" => reads[k][1] = "whole"
        BY <1>1, <4>1 DEF EvidenceInv, AgreeInv
      <4> QED BY <1>10, <4>1, <4>4, <4>5
    <3> QED BY <3>1, <3>2
  <2>2. n <= Len(Plan)  BY <1>4
  <2> QED BY <1>9, <1>10, <2>1, <2>2 DEF AgreeInv
<1>15. ShownInv'  BY <1>1, <1>8 DEF ShownInv, Jobs
<1> QED BY <1>11, <1>12, <1>13, <1>14, <1>15 DEF EvidenceInv

\* A job ends, and what it held is gone.
LEMMA CloseStep ==
    ASSUME EvidenceInv, NEW next \in Jobs \cup {"done", "failed"}, Close(next)
    PROVE  EvidenceInv'
<1>1. /\ past' = {} /\ ~held' /\ held' = FALSE /\ reads' = <<>> /\ stage' = next
      /\ vol' = vol /\ mounted' = mounted /\ tools' = tools /\ strays' = strays
      /\ stage' # "resize"
  BY DEF Close, Jobs
<1>3. <<>> \in Seq(Values)  BY EmptySeq
<1>2. Typed'  BY <1>1, <1>3 DEF EvidenceInv, Typed
<1> QED BY <1>1, <1>2 DEF EvidenceInv, HeldInv, CutInv, AgreeInv, ShownInv, Looking

\* The worker goes over to the resize with what it has read.
LEMMA ApprovedStep == EvidenceInv /\ Approved => EvidenceInv'
<1> SUFFICES ASSUME EvidenceInv, Approved PROVE EvidenceInv'  OBVIOUS
<1>1. /\ stage = "worker" /\ stage' = "resize" /\ past # {}
      /\ vol' = vol /\ mounted' = mounted /\ tools' = tools /\ held' = held
      /\ reads' = reads /\ shown' = shown /\ past' = past /\ strays' = strays
      /\ Len(reads) = Len(Script(stage)) /\ InspectionOf(stage, reads) = shown
      /\ Ample(reads)
  BY DEF Approved, Finished
<1>2. Job = "worker" /\ Job' = "worker"  BY <1>1 DEF Job
<1>3. Plan' = Plan  BY <1>2 DEF Plan
<1>4. Looking /\ Looking'  BY <1>1 DEF Looking, Jobs
<1>5. Typed'  BY <1>1 DEF EvidenceInv, Typed
<1>6. HeldInv'  BY <1>1 DEF EvidenceInv, HeldInv
<1>7. CutInv'
  <2> SUFFICES ASSUME strays <= 1
               PROVE  \E v \in past, c \in 0..Len(reads) : Split(v, c)'
    BY <1>1, <1>4 DEF CutInv
  <2>1. PICK v \in past, c \in 0..Len(reads) : Split(v, c)
    BY <1>4 DEF EvidenceInv, CutInv
  <2>2. Split(v, c)'  BY <1>1, <1>3, <2>1 DEF Split
  <2> QED BY <2>2
<1>8. AgreeInv'  BY <1>1, <1>2, <1>3, <1>4 DEF EvidenceInv, AgreeInv
<1>9. ShownInv'  BY <1>1 DEF ShownInv, Script, InspectionOf, Ample
<1> QED BY <1>5, <1>6, <1>7, <1>8, <1>9 DEF EvidenceInv

\* The resize leaves the source open for the check of its result, or gives up.
LEMMA ResizeStep == EvidenceInv /\ Resize => EvidenceInv'
<1> SUFFICES ASSUME EvidenceInv, Resize PROVE EvidenceInv'  OBVIOUS
<1>1. vol \in Volumes  BY DEF EvidenceInv, Typed
<1>2. vol' \in Volumes
  <2>1. [vol EXCEPT !.extent = "target", !.state = "chkdsk"] \in Volumes
    BY <1>1 DEF Volumes
  <2>2. [vol EXCEPT !.extent = "part", !.state = "dirty"] \in Volumes
    BY <1>1 DEF Volumes
  <2> QED BY <2>1, <2>2 DEF Resize
<1>3. /\ reads' = <<>> /\ Len(reads') = 0 /\ stage' \in {"check", "failed"}
      /\ past' = (IF stage' = "check" THEN {vol'} ELSE {})
      /\ held' = (stage' = "check") /\ strays' = 0
      /\ mounted' = mounted /\ tools' = tools
  BY DEF Resize
<1>4. ~mounted  BY DEF EvidenceInv, HeldInv, Resize
<1>5. Typed'
  <2>1. held' \in BOOLEAN  BY <1>3
  <2>2. past' \subseteq Volumes  BY <1>2, <1>3
  <2> QED BY <1>2, <1>3, <2>1, <2>2 DEF EvidenceInv, Typed, Jobs
<1>6. CASE stage' = "failed"
  <2>1. past' = {} /\ ~held'  BY <1>3, <1>6
  <2> QED BY <1>3, <1>5, <1>6, <2>1 DEF EvidenceInv, HeldInv, CutInv, AgreeInv, ShownInv, Looking
<1>7. CASE stage' = "check"
  <2>1. past' = {vol'} /\ held' /\ vol' \in past'  BY <1>3, <1>7
  <2>2. HeldInv'  BY <1>3, <1>4, <1>7, <2>1 DEF HeldInv
  <2>3. Split(vol, 0)'  BY <1>3 DEF Split
  <2>4. CutInv'  BY <1>3, <2>1, <2>3 DEF CutInv
  <2>5. Len(Plan') \in Nat
    BY <1>7, InspectionFacts, PreparationFacts DEF Plan, Job, Script
  <2>6. AgreeInv'  BY <1>3, <2>5 DEF AgreeInv
  <2> QED BY <1>5, <1>7, <2>2, <2>4, <2>6 DEF EvidenceInv, ShownInv
<1> QED BY <1>3, <1>6, <1>7

\* Whoever uses the volume by the rules does so while no job holds it.
LEMMA UseStep == EvidenceInv /\ (Mount \/ Unmount) => EvidenceInv'
<1> SUFFICES ASSUME EvidenceInv, Mount \/ Unmount PROVE EvidenceInv'  OBVIOUS
<1>1. past = {} /\ ~held /\ reads = <<>>  BY DEF EvidenceInv, HeldInv, Mount, Unmount
<1>2. /\ past' = {} /\ ~held' /\ held' = held /\ reads' = <<>> /\ stage' = stage
      /\ tools' = tools /\ strays' = strays /\ mounted' \in BOOLEAN
  <2>1. mounted' \in BOOLEAN  BY DEF Mount, Unmount
  <2>2. /\ past' = past /\ held' = held /\ reads' = reads
        /\ stage' = stage /\ tools' = tools /\ strays' = strays
    <3>1. CASE Mount  BY <3>1 DEF Mount
    <3>2. CASE Unmount  BY <3>2 DEF Unmount
    <3> QED BY <3>1, <3>2
  <2> QED BY <1>1, <2>1, <2>2
<1>3. vol \in Volumes  BY DEF EvidenceInv, Typed
<1>4. vol' \in Volumes
  <2>1. [vol EXCEPT !.state = "dirty"] \in Volumes  BY <1>3 DEF Volumes
  <2>2. \A used \in 1..Size, state \in {"clean", "dirty", "asleep"} :
           [vol EXCEPT !.used = used, !.state = state] \in Volumes
    BY <1>3 DEF Volumes
  <2> QED BY <2>1, <2>2 DEF Mount, Unmount
<1>5. Typed'  BY <1>2, <1>4 DEF EvidenceInv, Typed
<1>6. stage # "resize"  BY <1>1 DEF EvidenceInv, HeldInv
<1> QED BY <1>2, <1>5, <1>6 DEF HeldInv, CutInv, AgreeInv, ShownInv, Looking, EvidenceInv

\* A stray writer: the readings so far are of the volume before it.
LEMMA StrayStep == EvidenceInv /\ Stray => EvidenceInv'
<1> SUFFICES ASSUME EvidenceInv, Stray PROVE EvidenceInv'  OBVIOUS
<1>1. /\ past # {} /\ past' = past \cup {vol'} /\ strays' = strays + 1
      /\ mounted' = mounted /\ tools' = tools /\ stage' = stage /\ held' = held
      /\ reads' = reads /\ shown' = shown
  BY DEF Stray
<1>2. vol \in Volumes /\ strays \in Nat /\ Len(reads) \in Nat  BY DEF EvidenceInv, Typed
<1>3. vol' \in Volumes
  <2>1. \A used \in 1..Size, label \in {1, 2} :
           [vol EXCEPT !.used = used, !.label = label] \in Volumes
    BY <1>2 DEF Volumes
  <2> QED BY <2>1 DEF Stray
<1>4. Job' = Job /\ Plan' = Plan  BY <1>1 DEF Job, Plan
<1>5. Typed'  BY <1>1, <1>2, <1>3 DEF EvidenceInv, Typed
<1>6. HeldInv'  BY <1>1, <1>2 DEF EvidenceInv, HeldInv
<1>7. CutInv'
  <2> SUFFICES ASSUME Looking', strays' <= 1
               PROVE  \E v \in past', c \in 0..Len(reads') : Split(v, c)'
    BY DEF CutInv
  <2>1. strays = 0 /\ past = {vol} /\ Looking
    BY <1>1, <1>2 DEF EvidenceInv, HeldInv, Looking
  <2>2. PICK v \in past, c \in 0..Len(reads) : Split(v, c)
    BY <2>1 DEF EvidenceInv, CutInv
  <2>3. v = vol  BY <2>1
  <2>4. Split(v, Len(reads))'
    <3>1. ASSUME NEW k \in 1..Len(reads), Plan[k].field # "tools"
          PROVE  reads[k] = Look(v)[Plan[k].field]
      BY <2>2, <2>3, <3>1 DEF Split
    <3>2. \A k \in 1..Len(reads) : k <= Len(reads)  BY <1>2
    <3> QED BY <1>1, <1>4, <3>1, <3>2 DEF Split
  <2>5. v \in past' /\ Len(reads) \in 0..Len(reads') /\ Len(reads)' = Len(reads)
    BY <1>1, <1>2
  <2> QED BY <2>4, <2>5
<1>8. AgreeInv'  BY <1>1, <1>4 DEF EvidenceInv, AgreeInv, Looking
<1>9. ShownInv'  BY <1>1 DEF EvidenceInv, ShownInv, Ample
<1> QED BY <1>5, <1>6, <1>7, <1>8, <1>9 DEF EvidenceInv

\* The tools are upgraded, or nothing happens.
LEMMA UpgradeStep == EvidenceInv /\ (Upgrade \/ UNCHANGED evidence) => EvidenceInv'
<1> SUFFICES ASSUME EvidenceInv, Upgrade \/ UNCHANGED evidence PROVE EvidenceInv'  OBVIOUS
<1>1. /\ vol' = vol /\ mounted' = mounted /\ stage' = stage /\ held' = held
      /\ reads' = reads /\ shown' = shown /\ past' = past /\ strays' = strays
      /\ tools' \in Tools
  BY DEF Upgrade, evidence, EvidenceInv, Typed
<1>2. Job' = Job /\ Plan' = Plan /\ Looking' = Looking  BY <1>1 DEF Job, Plan, Looking
<1>3. Typed'  BY <1>1 DEF EvidenceInv, Typed
<1>4. HeldInv'  BY <1>1 DEF EvidenceInv, HeldInv
<1>5. CutInv'  BY <1>1, <1>2 DEF EvidenceInv, CutInv, Split
<1>6. AgreeInv'  BY <1>1, <1>2 DEF EvidenceInv, AgreeInv
<1>7. ShownInv'  BY <1>1 DEF EvidenceInv, ShownInv, Ample
<1> QED BY <1>3, <1>4, <1>5, <1>6, <1>7 DEF EvidenceInv

\* Every step keeps the invariant.
LEMMA EvidenceSteps == EvidenceInv /\ [EvidenceNext]_evidence => EvidenceInv'
<1> SUFFICES ASSUME EvidenceInv, [EvidenceNext]_evidence PROVE EvidenceInv'  OBVIOUS
<1>1. CASE OpenSource  BY <1>1, OpenStep
<1>2. CASE Read  BY <1>2, ReadStep
<1>3. CASE Assessed
  <2>1. Close("preview")  BY <1>3 DEF Assessed
  <2> QED BY <2>1, CloseStep DEF Jobs
<1>4. CASE Previewed
  <2>1. Close("admit")  BY <1>4 DEF Previewed
  <2> QED BY <2>1, CloseStep DEF Jobs
<1>5. CASE Admitted
  <2>1. Close("worker")  BY <1>5 DEF Admitted
  <2> QED BY <2>1, CloseStep DEF Jobs
<1>6. CASE Approved  BY <1>6, ApprovedStep
<1>7. CASE Resize  BY <1>7, ResizeStep
<1>8. CASE Checked
  <2>1. Close("done")  BY <1>8 DEF Checked
  <2> QED BY <2>1, CloseStep
<1>9. CASE Fail
  <2>1. Close("failed")  BY <1>9 DEF Fail
  <2> QED BY <2>1, CloseStep
<1>10. CASE Mount \/ Unmount  BY <1>10, UseStep
<1>11. CASE Upgrade \/ UNCHANGED evidence  BY <1>11, UpgradeStep
<1>12. CASE Stray  BY <1>12, StrayStep
<1> QED
  BY <1>1, <1>2, <1>3, <1>4, <1>5, <1>6, <1>7, <1>8, <1>9, <1>10, <1>11, <1>12 DEF EvidenceNext

\* The inductive invariant, for any capacity, tool chains, uses and stray writers.
THEOREM EvidenceIsKept == EvidenceSpec => []EvidenceInv
BY EvidenceStarts, EvidenceSteps, PTL DEF EvidenceSpec

\* What a finished job has read, minutes apart and through several programs, is one state the
\* volume was in while the job ran, although a stray writer may have changed it once (the double
\* inspections of _prepare_resize_evidence in ro_installer_ntfs.py).
THEOREM ReadsOneVolume == EvidenceSpec => []OneVolume
BY EvidenceIsKept, ImpliesOneVolume, PTL

\* The volume that is resized is the one the user confirmed, clean and with room, whatever was
\* done to it between the preview and the worker (resize_and_commit_ntfs).
THEOREM ConfirmedIsResized == EvidenceSpec => []ResizesTheConfirmed
BY EvidenceIsKept, ImpliesConfirmed, PTL
=============================================================================
