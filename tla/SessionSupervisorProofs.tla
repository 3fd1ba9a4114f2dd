---------------------- MODULE SessionSupervisorProofs ----------------------
(***************************************************************************)
(* Proofs about SessionSupervisor for any number of requests of each kind  *)
(* and any limit on client threads: IInv is inductive, and the promises on *)
(* processes, storage and status follow from it.  Each lemma takes one     *)
(* part of IInv through every step of Next.                                *)
(***************************************************************************)
EXTENDS SessionSupervisor, SequenceTheorems, TLAPS

(* A connection that waits to be accepted is the only one. *)
LEMMA HeadOfBacklog ==
    ASSUME PlaceType, BacklogInv, backlog # <<>>
    PROVE  /\ Head(backlog) \in Requests
           /\ pc[Head(backlog)] = "backlog"
           /\ Tail(backlog) = <<>>
<1>1. backlog \in Seq(Requests)
    BY DEF PlaceType
<1>2. Len(backlog) \in Nat /\ Len(backlog) # 0
    BY <1>1, EmptySeq, LenProperties
<1>3. Len(backlog) <= 1
    BY DEF BacklogInv
<1>4. Len(backlog) = 1
    BY <1>2, <1>3
<1>5. Head(backlog) = backlog[1] /\ Head(backlog) \in Requests
    BY <1>1, <1>4, HeadTailProperties
<1>6. Tail(backlog) \in Seq(Requests) /\ Len(Tail(backlog)) = 0
    BY <1>1, <1>4, HeadTailProperties
<1>7. Tail(backlog) = <<>>
    BY <1>6, EmptySeq
<1>8. QED
    BY <1>4, <1>5, <1>7 DEF BacklogInv

(* Every place stays one the code has. *)
LEMMA PlaceStep ==
    ASSUME PlaceType, BacklogInv, [Next]_vars
    PROVE  PlaceType'
<1> USE NoneAssumption DEF PlaceType, BacklogInv, Holding, engineVars, serverVars,
   threadVars, processVars, storageVars, mainVars
<1>1. ASSUME NEW r \in Requests, EngineIssues(r) PROVE PlaceType'
    BY <1>1 DEF EngineIssues
<1>2. ASSUME NEW r \in Requests, EngineAbandons(r) PROVE PlaceType'
    BY <1>2 DEF EngineAbandons
<1>3. CASE EngineEnds
    BY <1>3 DEF EngineEnds
<1>4. CASE ServerChecks
    BY <1>4 DEF ServerChecks
<1>5. CASE ServerAccepts
    BY <1>5, HeadOfBacklog DEF ServerAccepts, Answer, Lost
<1>6. CASE ServerTimesOut
    BY <1>6 DEF ServerTimesOut
<1>7. ASSUME NEW r \in Requests, ThreadReads(r) PROVE PlaceType'
    BY <1>7 DEF ThreadReads, Answer, Lost
<1>8. ASSUME NEW r \in Requests, ThreadEnters(r) PROVE PlaceType'
    BY <1>8 DEF ThreadEnters, Entry
<1>9. ASSUME NEW r \in Requests, IdleReplies(r) PROVE PlaceType'
    BY <1>9 DEF IdleReplies, Answer, Lost, Leave
<1>10. ASSUME NEW r \in Requests, CommandSpawns(r) PROVE PlaceType'
    BY <1>10 DEF CommandSpawns, Answer, Lost, Move, Leave
<1>11. ASSUME NEW r \in Requests, CommandTimesOut(r) PROVE PlaceType'
    BY <1>11 DEF CommandTimesOut, CutShort, Move
<1>39. ASSUME NEW r \in Requests, CommandLosesInput(r) PROVE PlaceType'
    BY <1>39 DEF CommandLosesInput, CutShort, Move
<1>12. ASSUME NEW r \in Requests, CommandReaped(r) PROVE PlaceType'
    BY <1>12 DEF CommandReaped, Move
<1>13. ASSUME NEW r \in Requests, CommandSweeps(r) PROVE PlaceType'
    BY <1>13 DEF CommandSweeps, Move, KillOwned, Forking
<1>14. ASSUME NEW r \in Requests, CommandReplies(r) PROVE PlaceType'
    BY <1>14 DEF CommandReplies, Answer, Lost, Leave, KillOwned, Forking
<1>15. ASSUME NEW r \in Requests, TransactionAdmitted(r) PROVE PlaceType'
    BY <1>15 DEF TransactionAdmitted, StorageMayStart
<1>16. ASSUME NEW r \in Requests, TransactionRefused(r) PROVE PlaceType'
    BY <1>16 DEF TransactionRefused, Answer, Lost, Leave, StorageMayStart
<1>17. ASSUME NEW r \in Requests, WorkerLaunched(r) PROVE PlaceType'
    BY <1>17 DEF WorkerLaunched, Move
<1>18. ASSUME NEW r \in Requests, WorkerTimesOut(r) PROVE PlaceType'
    BY <1>18 DEF WorkerTimesOut
<1>19. ASSUME NEW r \in Requests, WorkerReaped(r) PROVE PlaceType'
    BY <1>19 DEF WorkerReaped, Move
<1>20. ASSUME NEW r \in Requests, WorkerCleared(r) PROVE PlaceType'
    BY <1>20 DEF WorkerCleared, KillOwned, Forking
<1>21. ASSUME NEW r \in Requests, TransactionConcludes(r) PROVE PlaceType'
    BY <1>21 DEF TransactionConcludes
<1>22. ASSUME NEW r \in Requests, TransactionAnswers(r) PROVE PlaceType'
    BY <1>22 DEF TransactionAnswers, Answer, Lost, Leave
<1>23. ASSUME NEW r \in Requests, ChildExits(r) PROVE PlaceType'
    BY <1>23 DEF ChildExits
<1>24. ASSUME NEW r \in Requests, StrayExits(r) PROVE PlaceType'
    BY <1>24 DEF StrayExits
<1>25. ASSUME NEW r \in Requests, CommandLosesPeer(r) PROVE PlaceType'
    BY <1>25 DEF CommandLosesPeer, Lost
<1>26. CASE MainSeesExit
    BY <1>26 DEF MainSeesExit, Main
<1>27. CASE MainTimesOut
    BY <1>27 DEF MainTimesOut, KillEngine
<1>28. CASE MainExtendedTimesOut
    BY <1>28 DEF MainExtendedTimesOut, KillEngine
<1>29. CASE MainChecksStorage
    BY <1>29 DEF MainChecksStorage, Main
<1>30. CASE MainChecksDescendants
    BY <1>30 DEF MainChecksDescendants, Main
<1>31. CASE MainCloses
    BY <1>31 DEF MainCloses, Main
<1>32. CASE MainJoinsServer
    BY <1>32 DEF MainJoinsServer, Main
<1>33. CASE MainDrainsStorage
    BY <1>33 DEF MainDrainsStorage, Main
<1>34. CASE MainKills
    BY <1>34 DEF MainKills, Main, KillOwned, Forking
<1>35. CASE MainJoins
    BY <1>35 DEF MainJoins, Main
<1>36. CASE MainReaps
    BY <1>36 DEF MainReaps, Main
<1>37. CASE UNCHANGED vars
    BY <1>37 DEF vars
<1>38. QED
    BY <1>1, <1>2, <1>3, <1>4, <1>5, <1>6, <1>7, <1>8, <1>9, <1>10, <1>11, <1>12, <1>13,
       <1>14, <1>15, <1>16, <1>17, <1>18, <1>19, <1>20, <1>21, <1>22, <1>23, <1>24, <1>25,
       <1>26, <1>27, <1>28, <1>29, <1>30, <1>31, <1>32, <1>33, <1>34, <1>35, <1>36, <1>37, <1>39
        DEF Next, EngineNext, ServerNext, CommandNext, StorageNext, ThreadNext,
           ProcessNext, MainNext, Returned

(* Flags stay Boolean. *)
LEMMA FlagStep ==
    ASSUME FlagType, [Next]_vars
    PROVE  FlagType'
<1> USE NoneAssumption DEF FlagType, engineVars, serverVars, threadVars, processVars,
   storageVars, mainVars
<1>1. ASSUME NEW r \in Requests, EngineIssues(r) PROVE FlagType'
    BY <1>1 DEF EngineIssues
<1>2. ASSUME NEW r \in Requests, EngineAbandons(r) PROVE FlagType'
    BY <1>2 DEF EngineAbandons
<1>3. CASE EngineEnds
    BY <1>3 DEF EngineEnds
<1>4. CASE ServerChecks
    BY <1>4 DEF ServerChecks
<1>5. CASE ServerAccepts
    BY <1>5 DEF ServerAccepts, Answer, Lost
<1>6. CASE ServerTimesOut
    BY <1>6 DEF ServerTimesOut
<1>7. ASSUME NEW r \in Requests, ThreadReads(r) PROVE FlagType'
    BY <1>7 DEF ThreadReads, Answer, Lost
<1>8. ASSUME NEW r \in Requests, ThreadEnters(r) PROVE FlagType'
    BY <1>8 DEF ThreadEnters, Entry
<1>9. ASSUME NEW r \in Requests, IdleReplies(r) PROVE FlagType'
    BY <1>9 DEF IdleReplies, Answer, Lost, Leave
<1>10. ASSUME NEW r \in Requests, CommandSpawns(r) PROVE FlagType'
    BY <1>10 DEF CommandSpawns, Answer, Lost, Move, Leave
<1>11. ASSUME NEW r \in Requests, CommandTimesOut(r) PROVE FlagType'
    BY <1>11 DEF CommandTimesOut, CutShort, Move
<1>39. ASSUME NEW r \in Requests, CommandLosesInput(r) PROVE FlagType'
    BY <1>39 DEF CommandLosesInput, CutShort, Move
<1>12. ASSUME NEW r \in Requests, CommandReaped(r) PROVE FlagType'
    BY <1>12 DEF CommandReaped, Move
<1>13. ASSUME NEW r \in Requests, CommandSweeps(r) PROVE FlagType'
    BY <1>13 DEF CommandSweeps, Move, KillOwned, Forking
<1>14. ASSUME NEW r \in Requests, CommandReplies(r) PROVE FlagType'
    BY <1>14 DEF CommandReplies, Answer, Lost, Leave, KillOwned, Forking
<1>15. ASSUME NEW r \in Requests, TransactionAdmitted(r) PROVE FlagType'
    BY <1>15 DEF TransactionAdmitted, StorageMayStart
<1>16. ASSUME NEW r \in Requests, TransactionRefused(r) PROVE FlagType'
    BY <1>16 DEF TransactionRefused, Answer, Lost, Leave, StorageMayStart
<1>17. ASSUME NEW r \in Requests, WorkerLaunched(r) PROVE FlagType'
    BY <1>17 DEF WorkerLaunched, Move
<1>18. ASSUME NEW r \in Requests, WorkerTimesOut(r) PROVE FlagType'
    BY <1>18 DEF WorkerTimesOut
<1>19. ASSUME NEW r \in Requests, WorkerReaped(r) PROVE FlagType'
    BY <1>19 DEF WorkerReaped, Move
<1>20. ASSUME NEW r \in Requests, WorkerCleared(r) PROVE FlagType'
    BY <1>20 DEF WorkerCleared, KillOwned, Forking
<1>21. ASSUME NEW r \in Requests, TransactionConcludes(r) PROVE FlagType'
    BY <1>21 DEF TransactionConcludes
<1>22. ASSUME NEW r \in Requests, TransactionAnswers(r) PROVE FlagType'
    BY <1>22 DEF TransactionAnswers, Answer, Lost, Leave
<1>23. ASSUME NEW r \in Requests, ChildExits(r) PROVE FlagType'
    BY <1>23 DEF ChildExits
<1>24. ASSUME NEW r \in Requests, StrayExits(r) PROVE FlagType'
    BY <1>24 DEF StrayExits
<1>25. ASSUME NEW r \in Requests, CommandLosesPeer(r) PROVE FlagType'
    BY <1>25 DEF CommandLosesPeer, Lost
<1>26. CASE MainSeesExit
    BY <1>26 DEF MainSeesExit, Main
<1>27. CASE MainTimesOut
    BY <1>27 DEF MainTimesOut, KillEngine
<1>28. CASE MainExtendedTimesOut
    BY <1>28 DEF MainExtendedTimesOut, KillEngine
<1>29. CASE MainChecksStorage
    BY <1>29 DEF MainChecksStorage, Main
<1>30. CASE MainChecksDescendants
    BY <1>30 DEF MainChecksDescendants, Main
<1>31. CASE MainCloses
    BY <1>31 DEF MainCloses, Main
<1>32. CASE MainJoinsServer
    BY <1>32 DEF MainJoinsServer, Main
<1>33. CASE MainDrainsStorage
    BY <1>33 DEF MainDrainsStorage, Main
<1>34. CASE MainKills
    BY <1>34 DEF MainKills, Main, KillOwned, Forking
<1>35. CASE MainJoins
    BY <1>35 DEF MainJoins, Main
<1>36. CASE MainReaps
    BY <1>36 DEF MainReaps, Main
<1>37. CASE UNCHANGED vars
    BY <1>37 DEF vars
<1>38. QED
    BY <1>1, <1>2, <1>3, <1>4, <1>5, <1>6, <1>7, <1>8, <1>9, <1>10, <1>11, <1>12, <1>13,
       <1>14, <1>15, <1>16, <1>17, <1>18, <1>19, <1>20, <1>21, <1>22, <1>23, <1>24, <1>25,
       <1>26, <1>27, <1>28, <1>29, <1>30, <1>31, <1>32, <1>33, <1>34, <1>35, <1>36, <1>37, <1>39
        DEF Next, EngineNext, ServerNext, CommandNext, StorageNext, ThreadNext,
           ProcessNext, MainNext, Returned

(* The serial section and its lock keep together, and children stay inside it. *)
LEMMA LockStep ==
    ASSUME PlaceType, BacklogInv, LockInv, [Next]_vars
    PROVE  LockInv'
<1> USE NoneAssumption DEF PlaceType, BacklogInv, LockInv, Holding, Running, Serving,
   Attempting, engineVars, serverVars, threadVars, processVars, storageVars, mainVars
<1>1. ASSUME NEW r \in Requests, EngineIssues(r) PROVE LockInv'
    BY <1>1 DEF EngineIssues
<1>2. ASSUME NEW r \in Requests, EngineAbandons(r) PROVE LockInv'
    BY <1>2 DEF EngineAbandons
<1>3. CASE EngineEnds
    BY <1>3 DEF EngineEnds
<1>4. CASE ServerChecks
    BY <1>4 DEF ServerChecks
<1>5. CASE ServerAccepts
    BY <1>5, HeadOfBacklog DEF ServerAccepts, Answer, Lost
<1>6. CASE ServerTimesOut
    BY <1>6 DEF ServerTimesOut
<1>7. ASSUME NEW r \in Requests, ThreadReads(r) PROVE LockInv'
    BY <1>7 DEF ThreadReads, Answer, Lost
<1>8. ASSUME NEW r \in Requests, ThreadEnters(r) PROVE LockInv'
    BY <1>8 DEF ThreadEnters, Entry
<1>9. ASSUME NEW r \in Requests, IdleReplies(r) PROVE LockInv'
    BY <1>9 DEF IdleReplies, Answer, Lost, Leave
<1>10. ASSUME NEW r \in Requests, CommandSpawns(r) PROVE LockInv'
    BY <1>10 DEF CommandSpawns, Answer, Lost, Move, Leave
<1>11. ASSUME NEW r \in Requests, CommandTimesOut(r) PROVE LockInv'
    BY <1>11 DEF CommandTimesOut, CutShort, Move
<1>39. ASSUME NEW r \in Requests, CommandLosesInput(r) PROVE LockInv'
    BY <1>39 DEF CommandLosesInput, CutShort, Move
<1>12. ASSUME NEW r \in Requests, CommandReaped(r) PROVE LockInv'
    BY <1>12 DEF CommandReaped, Move
<1>13. ASSUME NEW r \in Requests, CommandSweeps(r) PROVE LockInv'
    BY <1>13 DEF CommandSweeps, Move, KillOwned, Forking
<1>14. ASSUME NEW r \in Requests, CommandReplies(r) PROVE LockInv'
    BY <1>14 DEF CommandReplies, Answer, Lost, Leave, KillOwned, Forking
<1>15. ASSUME NEW r \in Requests, TransactionAdmitted(r) PROVE LockInv'
    BY <1>15 DEF TransactionAdmitted, StorageMayStart
<1>16. ASSUME NEW r \in Requests, TransactionRefused(r) PROVE LockInv'
    BY <1>16 DEF TransactionRefused, Answer, Lost, Leave, StorageMayStart
<1>17. ASSUME NEW r \in Requests, WorkerLaunched(r) PROVE LockInv'
    BY <1>17 DEF WorkerLaunched, Move
<1>18. ASSUME NEW r \in Requests, WorkerTimesOut(r) PROVE LockInv'
    BY <1>18 DEF WorkerTimesOut
<1>19. ASSUME NEW r \in Requests, WorkerReaped(r) PROVE LockInv'
    BY <1>19 DEF WorkerReaped, Move
<1>20. ASSUME NEW r \in Requests, WorkerCleared(r) PROVE LockInv'
    BY <1>20 DEF WorkerCleared, KillOwned, Forking
<1>21. ASSUME NEW r \in Requests, TransactionConcludes(r) PROVE LockInv'
    BY <1>21 DEF TransactionConcludes
<1>22. ASSUME NEW r \in Requests, TransactionAnswers(r) PROVE LockInv'
    BY <1>22 DEF TransactionAnswers, Answer, Lost, Leave
<1>23. ASSUME NEW r \in Requests, ChildExits(r) PROVE LockInv'
    BY <1>23 DEF ChildExits
<1>24. ASSUME NEW r \in Requests, StrayExits(r) PROVE LockInv'
    BY <1>24 DEF StrayExits
<1>25. ASSUME NEW r \in Requests, CommandLosesPeer(r) PROVE LockInv'
    BY <1>25 DEF CommandLosesPeer, Lost
<1>26. CASE MainSeesExit
    BY <1>26 DEF MainSeesExit, Main
<1>27. CASE MainTimesOut
    BY <1>27 DEF MainTimesOut, KillEngine
<1>28. CASE MainExtendedTimesOut
    BY <1>28 DEF MainExtendedTimesOut, KillEngine
<1>29. CASE MainChecksStorage
    BY <1>29 DEF MainChecksStorage, Main
<1>30. CASE MainChecksDescendants
    BY <1>30 DEF MainChecksDescendants, Main
<1>31. CASE MainCloses
    BY <1>31 DEF MainCloses, Main
<1>32. CASE MainJoinsServer
    BY <1>32 DEF MainJoinsServer, Main
<1>33. CASE MainDrainsStorage
    BY <1>33 DEF MainDrainsStorage, Main
<1>34. CASE MainKills
    BY <1>34 DEF MainKills, Main, KillOwned, Forking
<1>35. CASE MainJoins
    BY <1>35 DEF MainJoins, Main
<1>36. CASE MainReaps
    BY <1>36 DEF MainReaps, Main
<1>37. CASE UNCHANGED vars
    BY <1>37 DEF vars
<1>38. QED
    BY <1>1, <1>2, <1>3, <1>4, <1>5, <1>6, <1>7, <1>8, <1>9, <1>10, <1>11, <1>12, <1>13,
       <1>14, <1>15, <1>16, <1>17, <1>18, <1>19, <1>20, <1>21, <1>22, <1>23, <1>24, <1>25,
       <1>26, <1>27, <1>28, <1>29, <1>30, <1>31, <1>32, <1>33, <1>34, <1>35, <1>36, <1>37, <1>39
        DEF Next, EngineNext, ServerNext, CommandNext, StorageNext, ThreadNext,
           ProcessNext, MainNext, Returned

(* One transaction at most is begun, active while it has a worker to come, and
   what became of it is kept. *)
LEMMA StorageStep ==
    ASSUME FlagType, PlaceType, BacklogInv, LockInv, StorageInv, MainInv, [Next]_vars
    PROVE  StorageInv'
<1> USE NoneAssumption DEF PlaceType, BacklogInv, LockInv, StorageInv, MainInv, Holding,
   Running, Serving, Attempting, Tried, engineVars, serverVars, threadVars, processVars,
   storageVars, mainVars
<1>1. ASSUME NEW r \in Requests, EngineIssues(r) PROVE StorageInv'
    BY <1>1 DEF EngineIssues
<1>2. ASSUME NEW r \in Requests, EngineAbandons(r) PROVE StorageInv'
    BY <1>2 DEF EngineAbandons
<1>3. CASE EngineEnds
    BY <1>3 DEF EngineEnds
<1>4. CASE ServerChecks
    BY <1>4 DEF ServerChecks
<1>5. CASE ServerAccepts
    BY <1>5, HeadOfBacklog DEF ServerAccepts, Answer, Lost
<1>6. CASE ServerTimesOut
    BY <1>6 DEF ServerTimesOut
<1>7. ASSUME NEW r \in Requests, ThreadReads(r) PROVE StorageInv'
    BY <1>7 DEF ThreadReads, Answer, Lost
<1>8. ASSUME NEW r \in Requests, ThreadEnters(r) PROVE StorageInv'
    BY <1>8 DEF ThreadEnters, Entry
<1>9. ASSUME NEW r \in Requests, IdleReplies(r) PROVE StorageInv'
    BY <1>9 DEF IdleReplies, Answer, Lost, Leave
<1>10. ASSUME NEW r \in Requests, CommandSpawns(r) PROVE StorageInv'
    BY <1>10 DEF CommandSpawns, Answer, Lost, Move, Leave
<1>11. ASSUME NEW r \in Requests, CommandTimesOut(r) PROVE StorageInv'
    BY <1>11 DEF CommandTimesOut, CutShort, Move
<1>39. ASSUME NEW r \in Requests, CommandLosesInput(r) PROVE StorageInv'
    BY <1>39 DEF CommandLosesInput, CutShort, Move
<1>12. ASSUME NEW r \in Requests, CommandReaped(r) PROVE StorageInv'
    BY <1>12 DEF CommandReaped, Move
<1>13. ASSUME NEW r \in Requests, CommandSweeps(r) PROVE StorageInv'
    BY <1>13 DEF CommandSweeps, Move, KillOwned, Forking
<1>14. ASSUME NEW r \in Requests, CommandReplies(r) PROVE StorageInv'
    BY <1>14 DEF CommandReplies, Answer, Lost, Leave, KillOwned, Forking
<1>15. ASSUME NEW r \in Requests, TransactionAdmitted(r) PROVE StorageInv'
    BY <1>15 DEF TransactionAdmitted, StorageMayStart
<1>16. ASSUME NEW r \in Requests, TransactionRefused(r) PROVE StorageInv'
    BY <1>16 DEF TransactionRefused, Answer, Lost, Leave, StorageMayStart
<1>17. ASSUME NEW r \in Requests, WorkerLaunched(r) PROVE StorageInv'
    BY <1>17 DEF WorkerLaunched, Move
<1>18. ASSUME NEW r \in Requests, WorkerTimesOut(r) PROVE StorageInv'
    BY <1>18 DEF WorkerTimesOut
<1>19. ASSUME NEW r \in Requests, WorkerReaped(r) PROVE StorageInv'
    BY <1>19 DEF WorkerReaped, Move
<1>20. ASSUME NEW r \in Requests, WorkerCleared(r) PROVE StorageInv'
    BY <1>20 DEF WorkerCleared, KillOwned, Forking
<1>21. ASSUME NEW r \in Requests, TransactionConcludes(r) PROVE StorageInv'
    BY <1>21 DEF TransactionConcludes, FlagType
<1>22. ASSUME NEW r \in Requests, TransactionAnswers(r) PROVE StorageInv'
    BY <1>22 DEF TransactionAnswers, Answer, Lost, Leave, FlagType
<1>23. ASSUME NEW r \in Requests, ChildExits(r) PROVE StorageInv'
    BY <1>23 DEF ChildExits
<1>24. ASSUME NEW r \in Requests, StrayExits(r) PROVE StorageInv'
    BY <1>24 DEF StrayExits
<1>25. ASSUME NEW r \in Requests, CommandLosesPeer(r) PROVE StorageInv'
    BY <1>25 DEF CommandLosesPeer, Lost
<1>26. CASE MainSeesExit
    BY <1>26 DEF MainSeesExit, Main
<1>27. CASE MainTimesOut
    BY <1>27 DEF MainTimesOut, KillEngine
<1>28. CASE MainExtendedTimesOut
    BY <1>28 DEF MainExtendedTimesOut, KillEngine
<1>29. CASE MainChecksStorage
    BY <1>29 DEF MainChecksStorage, Main
<1>30. CASE MainChecksDescendants
    BY <1>30 DEF MainChecksDescendants, Main
<1>31. CASE MainCloses
    BY <1>31 DEF MainCloses, Main
<1>32. CASE MainJoinsServer
    BY <1>32 DEF MainJoinsServer, Main
<1>33. CASE MainDrainsStorage
    BY <1>33 DEF MainDrainsStorage, Main
<1>34. CASE MainKills
    BY <1>34 DEF MainKills, Main, KillOwned, Forking
<1>35. CASE MainJoins
    BY <1>35 DEF MainJoins, Main
<1>36. CASE MainReaps
    BY <1>36 DEF MainReaps, Main
<1>37. CASE UNCHANGED vars
    BY <1>37 DEF vars
<1>38. QED
    BY <1>1, <1>2, <1>3, <1>4, <1>5, <1>6, <1>7, <1>8, <1>9, <1>10, <1>11, <1>12, <1>13,
       <1>14, <1>15, <1>16, <1>17, <1>18, <1>19, <1>20, <1>21, <1>22, <1>23, <1>24, <1>25,
       <1>26, <1>27, <1>28, <1>29, <1>30, <1>31, <1>32, <1>33, <1>34, <1>35, <1>36, <1>37, <1>39
        DEF Next, EngineNext, ServerNext, CommandNext, StorageNext, ThreadNext,
           ProcessNext, MainNext, Returned

(* The engine waits for one request; others under way were abandoned. *)
LEMMA EngineStep ==
    ASSUME PlaceType, BacklogInv, LockInv, EngineInv, [Next]_vars
    PROVE  EngineInv'
<1> USE NoneAssumption DEF PlaceType, BacklogInv, LockInv, EngineInv, Holding, Running,
   Serving, Attempting, engineVars, serverVars, threadVars, processVars, storageVars,
   mainVars
<1>1. ASSUME NEW r \in Requests, EngineIssues(r) PROVE EngineInv'
    BY <1>1 DEF EngineIssues
<1>2. ASSUME NEW r \in Requests, EngineAbandons(r) PROVE EngineInv'
    BY <1>2 DEF EngineAbandons
<1>3. CASE EngineEnds
    BY <1>3 DEF EngineEnds
<1>4. CASE ServerChecks
    BY <1>4 DEF ServerChecks
<1>5. CASE ServerAccepts
    BY <1>5, HeadOfBacklog DEF ServerAccepts, Answer, Lost
<1>6. CASE ServerTimesOut
    BY <1>6 DEF ServerTimesOut
<1>7. ASSUME NEW r \in Requests, ThreadReads(r) PROVE EngineInv'
    BY <1>7 DEF ThreadReads, Answer, Lost
<1>8. ASSUME NEW r \in Requests, ThreadEnters(r) PROVE EngineInv'
    BY <1>8 DEF ThreadEnters, Entry
<1>9. ASSUME NEW r \in Requests, IdleReplies(r) PROVE EngineInv'
    BY <1>9 DEF IdleReplies, Answer, Lost, Leave
<1>10. ASSUME NEW r \in Requests, CommandSpawns(r) PROVE EngineInv'
    BY <1>10 DEF CommandSpawns, Answer, Lost, Move, Leave
<1>11. ASSUME NEW r \in Requests, CommandTimesOut(r) PROVE EngineInv'
    BY <1>11 DEF CommandTimesOut, CutShort, Move
<1>39. ASSUME NEW r \in Requests, CommandLosesInput(r) PROVE EngineInv'
    BY <1>39 DEF CommandLosesInput, CutShort, Move
<1>12. ASSUME NEW r \in Requests, CommandReaped(r) PROVE EngineInv'
    BY <1>12 DEF CommandReaped, Move
<1>13. ASSUME NEW r \in Requests, CommandSweeps(r) PROVE EngineInv'
    BY <1>13 DEF CommandSweeps, Move, KillOwned, Forking
<1>14. ASSUME NEW r \in Requests, CommandReplies(r) PROVE EngineInv'
    BY <1>14 DEF CommandReplies, Answer, Lost, Leave, KillOwned, Forking
<1>15. ASSUME NEW r \in Requests, TransactionAdmitted(r) PROVE EngineInv'
    BY <1>15 DEF TransactionAdmitted, StorageMayStart
<1>16. ASSUME NEW r \in Requests, TransactionRefused(r) PROVE EngineInv'
    BY <1>16 DEF TransactionRefused, Answer, Lost, Leave, StorageMayStart
<1>17. ASSUME NEW r \in Requests, WorkerLaunched(r) PROVE EngineInv'
    BY <1>17 DEF WorkerLaunched, Move
<1>18. ASSUME NEW r \in Requests, WorkerTimesOut(r) PROVE EngineInv'
    BY <1>18 DEF WorkerTimesOut
<1>19. ASSUME NEW r \in Requests, WorkerReaped(r) PROVE EngineInv'
    BY <1>19 DEF WorkerReaped, Move
<1>20. ASSUME NEW r \in Requests, WorkerCleared(r) PROVE EngineInv'
    BY <1>20 DEF WorkerCleared, KillOwned, Forking
<1>21. ASSUME NEW r \in Requests, TransactionConcludes(r) PROVE EngineInv'
    BY <1>21 DEF TransactionConcludes
<1>22. ASSUME NEW r \in Requests, TransactionAnswers(r) PROVE EngineInv'
    BY <1>22 DEF TransactionAnswers, Answer, Lost, Leave
<1>23. ASSUME NEW r \in Requests, ChildExits(r) PROVE EngineInv'
    BY <1>23 DEF ChildExits
<1>24. ASSUME NEW r \in Requests, StrayExits(r) PROVE EngineInv'
    BY <1>24 DEF StrayExits
<1>25. ASSUME NEW r \in Requests, CommandLosesPeer(r) PROVE EngineInv'
    BY <1>25 DEF CommandLosesPeer, Lost
<1>26. CASE MainSeesExit
    BY <1>26 DEF MainSeesExit, Main
<1>27. CASE MainTimesOut
    BY <1>27 DEF MainTimesOut, KillEngine
<1>28. CASE MainExtendedTimesOut
    BY <1>28 DEF MainExtendedTimesOut, KillEngine
<1>29. CASE MainChecksStorage
    BY <1>29 DEF MainChecksStorage, Main
<1>30. CASE MainChecksDescendants
    BY <1>30 DEF MainChecksDescendants, Main
<1>31. CASE MainCloses
    BY <1>31 DEF MainCloses, Main
<1>32. CASE MainJoinsServer
    BY <1>32 DEF MainJoinsServer, Main
<1>33. CASE MainDrainsStorage
    BY <1>33 DEF MainDrainsStorage, Main
<1>34. CASE MainKills
    BY <1>34 DEF MainKills, Main, KillOwned, Forking
<1>35. CASE MainJoins
    BY <1>35 DEF MainJoins, Main
<1>36. CASE MainReaps
    BY <1>36 DEF MainReaps, Main
<1>37. CASE UNCHANGED vars
    BY <1>37 DEF vars
<1>38. QED
    BY <1>1, <1>2, <1>3, <1>4, <1>5, <1>6, <1>7, <1>8, <1>9, <1>10, <1>11, <1>12, <1>13,
       <1>14, <1>15, <1>16, <1>17, <1>18, <1>19, <1>20, <1>21, <1>22, <1>23, <1>24, <1>25,
       <1>26, <1>27, <1>28, <1>29, <1>30, <1>31, <1>32, <1>33, <1>34, <1>35, <1>36, <1>37, <1>39
        DEF Next, EngineNext, ServerNext, CommandNext, StorageNext, ThreadNext,
           ProcessNext, MainNext, Returned

(* One connection at most is unaccepted. *)
LEMMA BacklogStep ==
    ASSUME PlaceType, BacklogInv, LockInv, EngineInv, [Next]_vars
    PROVE  BacklogInv'
<1> USE NoneAssumption DEF PlaceType, BacklogInv, LockInv, EngineInv, Holding, Running,
   Serving, Attempting, engineVars, serverVars, threadVars, processVars, storageVars,
   mainVars
<1>1. ASSUME NEW r \in Requests, EngineIssues(r) PROVE BacklogInv'
  <2>1. \A s \in Requests : pc[s] # "backlog"
    BY <1>1 DEF EngineIssues
  <2>2. backlog = <<>>
    <3>1. backlog # <<>> => Head(backlog) \in Requests /\ pc[Head(backlog)] = "backlog"
      BY HeadOfBacklog
    <3>2. QED
      BY <2>1, <3>1
  <2>3. backlog' = <<r>> /\ pc'[r] = "backlog"
    BY <1>1, <2>2 DEF EngineIssues
  <2>4. QED
    BY <2>3
<1>2. ASSUME NEW r \in Requests, EngineAbandons(r) PROVE BacklogInv'
    BY <1>2 DEF EngineAbandons
<1>3. CASE EngineEnds
    BY <1>3 DEF EngineEnds
<1>4. CASE ServerChecks
    BY <1>4 DEF ServerChecks
<1>5. CASE ServerAccepts
    BY <1>5, HeadOfBacklog DEF ServerAccepts, Answer, Lost
<1>6. CASE ServerTimesOut
    BY <1>6 DEF ServerTimesOut
<1>7. ASSUME NEW r \in Requests, ThreadReads(r) PROVE BacklogInv'
    BY <1>7 DEF ThreadReads, Answer, Lost
<1>8. ASSUME NEW r \in Requests, ThreadEnters(r) PROVE BacklogInv'
    BY <1>8 DEF ThreadEnters, Entry
<1>9. ASSUME NEW r \in Requests, IdleReplies(r) PROVE BacklogInv'
    BY <1>9 DEF IdleReplies, Answer, Lost, Leave
<1>10. ASSUME NEW r \in Requests, CommandSpawns(r) PROVE BacklogInv'
    BY <1>10 DEF CommandSpawns, Answer, Lost, Move, Leave
<1>11. ASSUME NEW r \in Requests, CommandTimesOut(r) PROVE BacklogInv'
    BY <1>11 DEF CommandTimesOut, CutShort, Move
<1>39. ASSUME NEW r \in Requests, CommandLosesInput(r) PROVE BacklogInv'
    BY <1>39 DEF CommandLosesInput, CutShort, Move
<1>12. ASSUME NEW r \in Requests, CommandReaped(r) PROVE BacklogInv'
    BY <1>12 DEF CommandReaped, Move
<1>13. ASSUME NEW r \in Requests, CommandSweeps(r) PROVE BacklogInv'
    BY <1>13 DEF CommandSweeps, Move, KillOwned, Forking
<1>14. ASSUME NEW r \in Requests, CommandReplies(r) PROVE BacklogInv'
    BY <1>14 DEF CommandReplies, Answer, Lost, Leave, KillOwned, Forking
<1>15. ASSUME NEW r \in Requests, TransactionAdmitted(r) PROVE BacklogInv'
    BY <1>15 DEF TransactionAdmitted, StorageMayStart
<1>16. ASSUME NEW r \in Requests, TransactionRefused(r) PROVE BacklogInv'
    BY <1>16 DEF TransactionRefused, Answer, Lost, Leave, StorageMayStart
<1>17. ASSUME NEW r \in Requests, WorkerLaunched(r) PROVE BacklogInv'
    BY <1>17 DEF WorkerLaunched, Move
<1>18. ASSUME NEW r \in Requests, WorkerTimesOut(r) PROVE BacklogInv'
    BY <1>18 DEF WorkerTimesOut
<1>19. ASSUME NEW r \in Requests, WorkerReaped(r) PROVE BacklogInv'
    BY <1>19 DEF WorkerReaped, Move
<1>20. ASSUME NEW r \in Requests, WorkerCleared(r) PROVE BacklogInv'
    BY <1>20 DEF WorkerCleared, KillOwned, Forking
<1>21. ASSUME NEW r \in Requests, TransactionConcludes(r) PROVE BacklogInv'
    BY <1>21 DEF TransactionConcludes
<1>22. ASSUME NEW r \in Requests, TransactionAnswers(r) PROVE BacklogInv'
    BY <1>22 DEF TransactionAnswers, Answer, Lost, Leave
<1>23. ASSUME NEW r \in Requests, ChildExits(r) PROVE BacklogInv'
    BY <1>23 DEF ChildExits
<1>24. ASSUME NEW r \in Requests, StrayExits(r) PROVE BacklogInv'
    BY <1>24 DEF StrayExits
<1>25. ASSUME NEW r \in Requests, CommandLosesPeer(r) PROVE BacklogInv'
    BY <1>25 DEF CommandLosesPeer, Lost
<1>26. CASE MainSeesExit
    BY <1>26 DEF MainSeesExit, Main
<1>27. CASE MainTimesOut
    BY <1>27 DEF MainTimesOut, KillEngine
<1>28. CASE MainExtendedTimesOut
    BY <1>28 DEF MainExtendedTimesOut, KillEngine
<1>29. CASE MainChecksStorage
    BY <1>29 DEF MainChecksStorage, Main
<1>30. CASE MainChecksDescendants
    BY <1>30 DEF MainChecksDescendants, Main
<1>31. CASE MainCloses
    BY <1>31 DEF MainCloses, Main
<1>32. CASE MainJoinsServer
    BY <1>32 DEF MainJoinsServer, Main
<1>33. CASE MainDrainsStorage
    BY <1>33 DEF MainDrainsStorage, Main
<1>34. CASE MainKills
    BY <1>34 DEF MainKills, Main, KillOwned, Forking
<1>35. CASE MainJoins
    BY <1>35 DEF MainJoins, Main
<1>36. CASE MainReaps
    BY <1>36 DEF MainReaps, Main
<1>37. CASE UNCHANGED vars
    BY <1>37 DEF vars
<1>38. QED
    BY <1>1, <1>2, <1>3, <1>4, <1>5, <1>6, <1>7, <1>8, <1>9, <1>10, <1>11, <1>12, <1>13,
       <1>14, <1>15, <1>16, <1>17, <1>18, <1>19, <1>20, <1>21, <1>22, <1>23, <1>24, <1>25,
       <1>26, <1>27, <1>28, <1>29, <1>30, <1>31, <1>32, <1>33, <1>34, <1>35, <1>36, <1>37, <1>39
        DEF Next, EngineNext, ServerNext, CommandNext, StorageNext, ThreadNext,
           ProcessNext, MainNext, Returned

(* After idle = true nothing of the session runs until the next request. *)
LEMMA QuietStep ==
    ASSUME PlaceType, BacklogInv, LockInv, EngineInv, QuietInv, [Next]_vars
    PROVE  QuietInv'
<1> USE NoneAssumption DEF PlaceType, BacklogInv, LockInv, EngineInv, QuietInv, Holding,
   Running, Serving, Attempting, engineVars, serverVars, threadVars, processVars,
   storageVars, mainVars
<1>1. ASSUME NEW r \in Requests, EngineIssues(r) PROVE QuietInv'
    BY <1>1 DEF EngineIssues
<1>2. ASSUME NEW r \in Requests, EngineAbandons(r) PROVE QuietInv'
    BY <1>2 DEF EngineAbandons
<1>3. CASE EngineEnds
    BY <1>3 DEF EngineEnds
<1>4. CASE ServerChecks
    BY <1>4 DEF ServerChecks
<1>5. CASE ServerAccepts
    BY <1>5, HeadOfBacklog DEF ServerAccepts, Answer, Lost
<1>6. CASE ServerTimesOut
    BY <1>6 DEF ServerTimesOut
<1>7. ASSUME NEW r \in Requests, ThreadReads(r) PROVE QuietInv'
    BY <1>7 DEF ThreadReads, Answer, Lost
<1>8. ASSUME NEW r \in Requests, ThreadEnters(r) PROVE QuietInv'
    BY <1>8 DEF ThreadEnters, Entry
<1>9. ASSUME NEW r \in Requests, IdleReplies(r) PROVE QuietInv'
  <2>1. CASE Lost(r)
    BY <1>9, <2>1 DEF IdleReplies, Answer, Leave
  <2>2. CASE ~Lost(r)
    <3>1. engine = "alive" /\ r = current /\ serial = r
      BY <1>9, <2>2 DEF IdleReplies, Lost
    <3>2. ASSUME NEW s \in Requests, s # r PROVE pc[s] \in {"unissued", "done"}
      BY <3>1, <3>2
    <3>3. quiet' = (Descendants = {}) /\ engine' = "alive" /\ current' = None
      BY <1>9, <2>2, <3>1 DEF IdleReplies, Answer
    <3>4. pc' = [pc EXCEPT ![r] = "done"] /\ UNCHANGED <<child, stray>>
      BY <1>9 DEF IdleReplies, Leave
    <3>5. Descendants = {} => \A s \in Requests : child[s] = "none" /\ stray[s] = "none"
      BY DEF Descendants
    <3>6. ASSUME NEW s \in Requests PROVE pc'[s] \in {"unissued", "done"}
      <4>1. CASE s = r  BY <3>4, <4>1
      <4>2. CASE s # r  BY <3>2, <3>4, <4>2
      <4> QED BY <4>1, <4>2
    <3>7. QED
      BY ONLY <3>3, <3>4, <3>5, <3>6 DEF QuietInv
  <2>3. QED
    BY <2>1, <2>2
<1>10. ASSUME NEW r \in Requests, CommandSpawns(r) PROVE QuietInv'
    BY <1>10 DEF CommandSpawns, Answer, Lost, Move, Leave
<1>11. ASSUME NEW r \in Requests, CommandTimesOut(r) PROVE QuietInv'
    BY <1>11 DEF CommandTimesOut, CutShort, Move
<1>39. ASSUME NEW r \in Requests, CommandLosesInput(r) PROVE QuietInv'
    BY <1>39 DEF CommandLosesInput, CutShort, Move
<1>12. ASSUME NEW r \in Requests, CommandReaped(r) PROVE QuietInv'
    BY <1>12 DEF CommandReaped, Move
<1>13. ASSUME NEW r \in Requests, CommandSweeps(r) PROVE QuietInv'
    BY <1>13 DEF CommandSweeps, Move, KillOwned, Forking
<1>14. ASSUME NEW r \in Requests, CommandReplies(r) PROVE QuietInv'
    BY <1>14 DEF CommandReplies, Answer, Lost, Leave, KillOwned, Forking
<1>15. ASSUME NEW r \in Requests, TransactionAdmitted(r) PROVE QuietInv'
    BY <1>15 DEF TransactionAdmitted, StorageMayStart
<1>16. ASSUME NEW r \in Requests, TransactionRefused(r) PROVE QuietInv'
    BY <1>16 DEF TransactionRefused, Answer, Lost, Leave, StorageMayStart
<1>17. ASSUME NEW r \in Requests, WorkerLaunched(r) PROVE QuietInv'
    BY <1>17 DEF WorkerLaunched, Move
<1>18. ASSUME NEW r \in Requests, WorkerTimesOut(r) PROVE QuietInv'
    BY <1>18 DEF WorkerTimesOut
<1>19. ASSUME NEW r \in Requests, WorkerReaped(r) PROVE QuietInv'
    BY <1>19 DEF WorkerReaped, Move
<1>20. ASSUME NEW r \in Requests, WorkerCleared(r) PROVE QuietInv'
    BY <1>20 DEF WorkerCleared, KillOwned, Forking
<1>21. ASSUME NEW r \in Requests, TransactionConcludes(r) PROVE QuietInv'
    BY <1>21 DEF TransactionConcludes
<1>22. ASSUME NEW r \in Requests, TransactionAnswers(r) PROVE QuietInv'
    BY <1>22 DEF TransactionAnswers, Answer, Lost, Leave
<1>23. ASSUME NEW r \in Requests, ChildExits(r) PROVE QuietInv'
    BY <1>23 DEF ChildExits
<1>24. ASSUME NEW r \in Requests, StrayExits(r) PROVE QuietInv'
    BY <1>24 DEF StrayExits
<1>25. ASSUME NEW r \in Requests, CommandLosesPeer(r) PROVE QuietInv'
    BY <1>25 DEF CommandLosesPeer, Lost
<1>26. CASE MainSeesExit
    BY <1>26 DEF MainSeesExit, Main
<1>27. CASE MainTimesOut
  <2>1. CASE attempted
    <3>1. UNCHANGED <<quiet, engine, current, pc, child, stray>>
      BY <1>27, <2>1 DEF MainTimesOut
    <3>2. QED
      BY <3>1
  <2>2. CASE ~attempted
    BY <1>27, <2>2 DEF MainTimesOut, KillEngine
  <2>3. QED
    BY <1>27, <2>1, <2>2 DEF MainTimesOut
<1>28. CASE MainExtendedTimesOut
    BY <1>28 DEF MainExtendedTimesOut, KillEngine
<1>29. CASE MainChecksStorage
    BY <1>29 DEF MainChecksStorage, Main
<1>30. CASE MainChecksDescendants
    BY <1>30 DEF MainChecksDescendants, Main
<1>31. CASE MainCloses
    BY <1>31 DEF MainCloses, Main
<1>32. CASE MainJoinsServer
    BY <1>32 DEF MainJoinsServer, Main
<1>33. CASE MainDrainsStorage
    BY <1>33 DEF MainDrainsStorage, Main
<1>34. CASE MainKills
    BY <1>34 DEF MainKills, Main, KillOwned, Forking
<1>35. CASE MainJoins
    BY <1>35 DEF MainJoins, Main
<1>36. CASE MainReaps
    BY <1>36 DEF MainReaps, Main
<1>37. CASE UNCHANGED vars
    BY <1>37 DEF vars
<1>38. QED
    BY <1>1, <1>2, <1>3, <1>4, <1>5, <1>6, <1>7, <1>8, <1>9, <1>10, <1>11, <1>12, <1>13,
       <1>14, <1>15, <1>16, <1>17, <1>18, <1>19, <1>20, <1>21, <1>22, <1>23, <1>24, <1>25,
       <1>26, <1>27, <1>28, <1>29, <1>30, <1>31, <1>32, <1>33, <1>34, <1>35, <1>36, <1>37, <1>39
        DEF Next, EngineNext, ServerNext, CommandNext, StorageNext, ThreadNext,
           ProcessNext, MainNext, Returned

(* The shutdown may rely on what its earlier steps established. *)
LEMMA MainStep ==
    ASSUME PlaceType, BacklogInv, LockInv, StorageInv, EngineInv, MainInv, [Next]_vars
    PROVE  MainInv'
<1> USE NoneAssumption DEF PlaceType, BacklogInv, LockInv, StorageInv, EngineInv, MainInv,
   Holding, Running, Serving, Attempting, Tried, Threads, engineVars, serverVars,
   threadVars, processVars, storageVars, mainVars
<1>1. ASSUME NEW r \in Requests, EngineIssues(r) PROVE MainInv'
    BY <1>1 DEF EngineIssues
<1>2. ASSUME NEW r \in Requests, EngineAbandons(r) PROVE MainInv'
    BY <1>2 DEF EngineAbandons
<1>3. CASE EngineEnds
    BY <1>3 DEF EngineEnds
<1>4. CASE ServerChecks
    BY <1>4 DEF ServerChecks
<1>5. CASE ServerAccepts
    BY <1>5, HeadOfBacklog DEF ServerAccepts, Answer, Lost
<1>6. CASE ServerTimesOut
    BY <1>6 DEF ServerTimesOut
<1>7. ASSUME NEW r \in Requests, ThreadReads(r) PROVE MainInv'
    BY <1>7 DEF ThreadReads, Answer, Lost
<1>8. ASSUME NEW r \in Requests, ThreadEnters(r) PROVE MainInv'
    BY <1>8 DEF ThreadEnters, Entry
<1>9. ASSUME NEW r \in Requests, IdleReplies(r) PROVE MainInv'
    BY <1>9 DEF IdleReplies, Answer, Lost, Leave
<1>10. ASSUME NEW r \in Requests, CommandSpawns(r) PROVE MainInv'
    BY <1>10 DEF CommandSpawns, Answer, Lost, Move, Leave
<1>11. ASSUME NEW r \in Requests, CommandTimesOut(r) PROVE MainInv'
    BY <1>11 DEF CommandTimesOut, CutShort, Move
<1>39. ASSUME NEW r \in Requests, CommandLosesInput(r) PROVE MainInv'
    BY <1>39 DEF CommandLosesInput, CutShort, Move
<1>12. ASSUME NEW r \in Requests, CommandReaped(r) PROVE MainInv'
    BY <1>12 DEF CommandReaped, Move
<1>13. ASSUME NEW r \in Requests, CommandSweeps(r) PROVE MainInv'
    BY <1>13 DEF CommandSweeps, Move, KillOwned, Forking
<1>14. ASSUME NEW r \in Requests, CommandReplies(r) PROVE MainInv'
    BY <1>14 DEF CommandReplies, Answer, Lost, Leave, KillOwned, Forking
<1>15. ASSUME NEW r \in Requests, TransactionAdmitted(r) PROVE MainInv'
    BY <1>15 DEF TransactionAdmitted, StorageMayStart
<1>16. ASSUME NEW r \in Requests, TransactionRefused(r) PROVE MainInv'
    BY <1>16 DEF TransactionRefused, Answer, Lost, Leave, StorageMayStart
<1>17. ASSUME NEW r \in Requests, WorkerLaunched(r) PROVE MainInv'
    BY <1>17 DEF WorkerLaunched, Move
<1>18. ASSUME NEW r \in Requests, WorkerTimesOut(r) PROVE MainInv'
    BY <1>18 DEF WorkerTimesOut
<1>19. ASSUME NEW r \in Requests, WorkerReaped(r) PROVE MainInv'
    BY <1>19 DEF WorkerReaped, Move
<1>20. ASSUME NEW r \in Requests, WorkerCleared(r) PROVE MainInv'
    BY <1>20 DEF WorkerCleared, KillOwned, Forking
<1>21. ASSUME NEW r \in Requests, TransactionConcludes(r) PROVE MainInv'
    BY <1>21 DEF TransactionConcludes
<1>22. ASSUME NEW r \in Requests, TransactionAnswers(r) PROVE MainInv'
    BY <1>22 DEF TransactionAnswers, Answer, Lost, Leave
<1>23. ASSUME NEW r \in Requests, ChildExits(r) PROVE MainInv'
    BY <1>23 DEF ChildExits
<1>24. ASSUME NEW r \in Requests, StrayExits(r) PROVE MainInv'
    BY <1>24 DEF StrayExits
<1>25. ASSUME NEW r \in Requests, CommandLosesPeer(r) PROVE MainInv'
    BY <1>25 DEF CommandLosesPeer, Lost
<1>26. CASE MainSeesExit
    BY <1>26 DEF MainSeesExit, Main
<1>27. CASE MainTimesOut
    BY <1>27 DEF MainTimesOut, KillEngine
<1>28. CASE MainExtendedTimesOut
    BY <1>28 DEF MainExtendedTimesOut, KillEngine
<1>29. CASE MainChecksStorage
    BY <1>29 DEF MainChecksStorage, Main
<1>30. CASE MainChecksDescendants
    BY <1>30 DEF MainChecksDescendants, Main
<1>31. CASE MainCloses
    BY <1>31 DEF MainCloses, Main
<1>32. CASE MainJoinsServer
    BY <1>32 DEF MainJoinsServer, Main
<1>33. CASE MainDrainsStorage
    BY <1>33 DEF MainDrainsStorage, Main
<1>34. CASE MainKills
    BY <1>34 DEF MainKills, Main, KillOwned, Forking
<1>35. CASE MainJoins
    BY <1>35 DEF MainJoins, Main
<1>36. CASE MainReaps
    BY <1>36 DEF MainReaps, Main
<1>37. CASE UNCHANGED vars
    BY <1>37 DEF vars
<1>38. QED
    BY <1>1, <1>2, <1>3, <1>4, <1>5, <1>6, <1>7, <1>8, <1>9, <1>10, <1>11, <1>12, <1>13,
       <1>14, <1>15, <1>16, <1>17, <1>18, <1>19, <1>20, <1>21, <1>22, <1>23, <1>24, <1>25,
       <1>26, <1>27, <1>28, <1>29, <1>30, <1>31, <1>32, <1>33, <1>34, <1>35, <1>36, <1>37, <1>39
        DEF Next, EngineNext, ServerNext, CommandNext, StorageNext, ThreadNext,
           ProcessNext, MainNext, Returned

-----------------------------------------------------------------------------
(* The invariant holds at the start. *)
LEMMA InitIInv == Init => IInv
<1> SUFFICES ASSUME Init PROVE IInv
    OBVIOUS
<1> USE NoneAssumption DEF Init
<1>1. TypeOK
  <2>1. FlagType
    BY DEF FlagType
  <2>2. PlaceType
    BY DEF PlaceType, Holding
  <2>3. QED
    BY <2>1, <2>2 DEF TypeOK
<1>2. LockInv
    BY DEF LockInv, Holding, Running, Serving, Attempting
<1>3. StorageInv
    BY DEF StorageInv, Tried, Attempting
<1>4. EngineInv /\ QuietInv
    BY DEF EngineInv, QuietInv
<1>5. BacklogInv
  <2>1. Len(backlog) = 0
    BY EmptySeq
  <2>2. QED
    BY <2>1 DEF BacklogInv
<1>6. MainInv
    BY DEF MainInv
<1>7. QED
    BY <1>1, <1>2, <1>3, <1>4, <1>5, <1>6 DEF IInv

(* No step of any thread, child or of the engine breaks the invariant. *)
LEMMA NextIInv == IInv /\ [Next]_vars => IInv'
<1> SUFFICES ASSUME IInv, [Next]_vars PROVE IInv'
    OBVIOUS
<1>1. /\ FlagType /\ PlaceType /\ LockInv /\ StorageInv /\ EngineInv
      /\ BacklogInv /\ QuietInv /\ MainInv
    BY DEF IInv, TypeOK
<1>2. FlagType' /\ PlaceType'
    BY <1>1, FlagStep, PlaceStep
<1>3. LockInv' /\ StorageInv'
    BY <1>1, LockStep, StorageStep
<1>4. EngineInv' /\ BacklogInv'
    BY <1>1, EngineStep, BacklogStep
<1>5. QuietInv' /\ MainInv'
    BY <1>1, QuietStep, MainStep
<1>6. QED
    BY <1>2, <1>3, <1>4, <1>5 DEF IInv, TypeOK

(* The invariant holds in every state the supervisor reaches. *)
THEOREM Inductive == Spec => []IInv
<1>1. Init => IInv
    BY InitIInv
<1>2. IInv /\ [Next]_vars => IInv'
    BY NextIInv
<1>3. QED
    BY <1>1, <1>2, PTL DEF Spec

(* Every variable keeps its type. *)
THEOREM TypeCorrect == Spec => []TypeOK
<1>1. IInv => TypeOK
    BY DEF IInv
<1>2. QED
    BY <1>1, Inductive, PTL

-----------------------------------------------------------------------------
(* When run (linux/ro-installer-session) returns, no command, worker or
   descendant of one is left, and no thread that could start one. *)
THEOREM NothingOutlives == Spec => []NothingOutlivesRun
<1>1. IInv => NothingOutlivesRun
  <2> SUFFICES ASSUME IInv, mpc = "returned", NEW r \in Requests
               PROVE  /\ child[r] = "none" /\ stray[r] = "none"
                      /\ pc[r] \in {"unissued", "backlog", "done"}
      BY DEF NothingOutlivesRun
  <2>1. Threads = {} /\ stray[r] = "none"
    BY DEF IInv, MainInv
  <2>2. pc[r] \notin {"reading", "queued"} \cup Holding
    BY <2>1 DEF Threads
  <2>3. pc[r] \in {"unissued", "backlog", "reading", "queued", "done"} \cup Holding
    BY DEF IInv, TypeOK, PlaceType
  <2>4. child[r] = "none"
    BY <2>2 DEF IInv, LockInv, Running, Holding
  <2>5. QED
    BY <2>1, <2>2, <2>3, <2>4
<1>2. QED
    BY <1>1, Inductive, PTL

(* Two requests never have a process at the same time, also when the engine
   gave one of them up: a child lives within the section of the serial lock. *)
THEOREM OneProcessAtATime == Spec => []OneAtATime
<1>1. IInv => OneAtATime
  <2> SUFFICES ASSUME IInv, NEW r \in Requests, NEW s \in Requests, r # s,
                      child[r] # "none", child[s] # "none"
               PROVE  FALSE
      BY DEF OneAtATime
  <2>1. serial = r /\ serial = s
    BY DEF IInv, LockInv, Running, Holding
  <2>2. QED
    BY <2>1
<1>2. QED
    BY <1>1, Inductive, PTL

(* The engine's cleanup may trust idle = true. *)
THEOREM IdleIsQuiet == Spec => []IdleMeansQuiet
<1>1. IInv => IdleMeansQuiet
    BY DEF IInv, QuietInv, IdleMeansQuiet, Descendants
<1>2. QED
    BY <1>1, Inductive, PTL

(* The storage worker is begun at most once (ntfs_attempted in the code), and
   exit status 0 is honest about what it did. *)
THEOREM StatusIsAccount == Spec => []StatusAccounts
<1>1. IInv => SingleAttempt
  <2> SUFFICES ASSUME IInv, NEW r \in Transactions, NEW s \in Transactions,
                      r # s, pc[r] \in Attempting, settled[s] # "none"
               PROVE  FALSE
      BY DEF SingleAttempt, Attempting
  <2>1. Tried(r) /\ Tried(s) /\ r \in Requests /\ s \in Requests
    BY KindsAssumption DEF Tried
  <2>2. QED
    BY <2>1 DEF IInv, StorageInv
<1>2. IInv => HonestStatus
  <2> SUFFICES ASSUME IInv, result = "zero" PROVE HonestStatus
      BY DEF HonestStatus
  <2>1. mpc = "returned" /\ exit = "zero" /\ ~leaked /\ ~failed /\ Threads = {}
    BY DEF IInv, MainInv
  <2>2. ASSUME NEW r \in Transactions, settled[r] # "none"
        PROVE  settled[r] = "success" /\ r \in told
    <3>1. r \in Requests /\ pc[r] \notin Holding
      BY <2>1, KindsAssumption DEF Threads
    <3>2. pc[r] \notin {"clear", "conclude", "answer"}
      BY <3>1 DEF Holding
    <3>3. QED
      BY <2>1, <2>2, <3>1, <3>2 DEF IInv, StorageInv
  <2>3. QED
    BY <2>1, <2>2 DEF HonestStatus
<1>3. IInv => StatusAccounts
    BY <1>1, <1>2 DEF StatusAccounts
<1>4. QED
    BY <1>3, Inductive, PTL

(* A step neither kills a storage worker nor starts one behind the drain. *)
LEMMA SparedStep ==
    ASSUME PlaceType, LockInv, StorageInv, MainInv, [Next]_vars, NEW t \in Transactions
    PROVE  /\ child[t] = "alive" => child'[t] # "killed"
           /\ mpc \in {"kill", "join", "reap", "returned"} =>
                 ~(child[t] = "none" /\ child'[t] = "alive")
<1> DEFINE Spared == /\ child[t] = "alive" => child'[t] # "killed"
                     /\ mpc \in {"kill", "join", "reap", "returned"} =>
                           ~(child[t] = "none" /\ child'[t] = "alive")
<1> USE NoneAssumption, KindsAssumption DEF PlaceType, LockInv, StorageInv, MainInv,
   Holding, Running, Serving, Attempting, Tried, engineVars, serverVars, threadVars,
   processVars, storageVars, mainVars
<1>1. ASSUME NEW r \in Requests, EngineIssues(r) PROVE Spared
    BY <1>1 DEF EngineIssues
<1>2. ASSUME NEW r \in Requests, EngineAbandons(r) PROVE Spared
    BY <1>2 DEF EngineAbandons
<1>3. ASSUME EngineEnds PROVE Spared
    BY <1>3 DEF EngineEnds
<1>4. ASSUME ServerChecks PROVE Spared
    BY <1>4 DEF ServerChecks
<1>5. ASSUME ServerAccepts PROVE Spared
    BY <1>5 DEF ServerAccepts, Answer, Lost
<1>6. ASSUME ServerTimesOut PROVE Spared
    BY <1>6 DEF ServerTimesOut
<1>7. ASSUME NEW r \in Requests, ThreadReads(r) PROVE Spared
    BY <1>7 DEF ThreadReads, Answer, Lost
<1>8. ASSUME NEW r \in Requests, ThreadEnters(r) PROVE Spared
    BY <1>8 DEF ThreadEnters, Entry
<1>9. ASSUME NEW r \in Requests, IdleReplies(r) PROVE Spared
    BY <1>9 DEF IdleReplies, Answer, Lost, Leave
<1>10. ASSUME NEW r \in Requests, CommandSpawns(r) PROVE Spared
    BY <1>10 DEF CommandSpawns, Answer, Lost, Move, Leave
<1>11. ASSUME NEW r \in Requests, CommandTimesOut(r) PROVE Spared
    BY <1>11 DEF CommandTimesOut, CutShort, Move
<1>39. ASSUME NEW r \in Requests, CommandLosesInput(r) PROVE Spared
    BY <1>39 DEF CommandLosesInput, CutShort, Move
<1>12. ASSUME NEW r \in Requests, CommandReaped(r) PROVE Spared
    BY <1>12 DEF CommandReaped, Move
<1>13. ASSUME NEW r \in Requests, CommandSweeps(r) PROVE Spared
    BY <1>13 DEF CommandSweeps, Move, KillOwned, Forking
<1>14. ASSUME NEW r \in Requests, CommandReplies(r) PROVE Spared
    BY <1>14 DEF CommandReplies, Answer, Lost, Leave, KillOwned, Forking
<1>15. ASSUME NEW r \in Requests, TransactionAdmitted(r) PROVE Spared
    BY <1>15 DEF TransactionAdmitted, StorageMayStart
<1>16. ASSUME NEW r \in Requests, TransactionRefused(r) PROVE Spared
    BY <1>16 DEF TransactionRefused, Answer, Lost, Leave, StorageMayStart
<1>17. ASSUME NEW r \in Requests, WorkerLaunched(r) PROVE Spared
    BY <1>17 DEF WorkerLaunched, Move
<1>18. ASSUME NEW r \in Requests, WorkerTimesOut(r) PROVE Spared
    BY <1>18 DEF WorkerTimesOut
<1>19. ASSUME NEW r \in Requests, WorkerReaped(r) PROVE Spared
    BY <1>19 DEF WorkerReaped, Move
<1>20. ASSUME NEW r \in Requests, WorkerCleared(r) PROVE Spared
    BY <1>20 DEF WorkerCleared, KillOwned, Forking
<1>21. ASSUME NEW r \in Requests, TransactionConcludes(r) PROVE Spared
    BY <1>21 DEF TransactionConcludes
<1>22. ASSUME NEW r \in Requests, TransactionAnswers(r) PROVE Spared
    BY <1>22 DEF TransactionAnswers, Answer, Lost, Leave
<1>23. ASSUME NEW r \in Requests, ChildExits(r) PROVE Spared
    BY <1>23 DEF ChildExits
<1>24. ASSUME NEW r \in Requests, StrayExits(r) PROVE Spared
    BY <1>24 DEF StrayExits
<1>25. ASSUME NEW r \in Requests, CommandLosesPeer(r) PROVE Spared
    BY <1>25 DEF CommandLosesPeer, Lost
<1>26. ASSUME MainSeesExit PROVE Spared
    BY <1>26 DEF MainSeesExit, Main
<1>27. ASSUME MainTimesOut PROVE Spared
    BY <1>27 DEF MainTimesOut, KillEngine
<1>28. ASSUME MainExtendedTimesOut PROVE Spared
    BY <1>28 DEF MainExtendedTimesOut, KillEngine
<1>29. ASSUME MainChecksStorage PROVE Spared
    BY <1>29 DEF MainChecksStorage, Main
<1>30. ASSUME MainChecksDescendants PROVE Spared
    BY <1>30 DEF MainChecksDescendants, Main
<1>31. ASSUME MainCloses PROVE Spared
    BY <1>31 DEF MainCloses, Main
<1>32. ASSUME MainJoinsServer PROVE Spared
    BY <1>32 DEF MainJoinsServer, Main
<1>33. ASSUME MainDrainsStorage PROVE Spared
    BY <1>33 DEF MainDrainsStorage, Main
<1>34. ASSUME MainKills PROVE Spared
    BY <1>34 DEF MainKills, Main, KillOwned, Forking
<1>35. ASSUME MainJoins PROVE Spared
    BY <1>35 DEF MainJoins, Main
<1>36. ASSUME MainReaps PROVE Spared
    BY <1>36 DEF MainReaps, Main
<1>37. ASSUME UNCHANGED vars PROVE Spared
    BY <1>37 DEF vars
<1>38. QED
    BY <1>1, <1>2, <1>3, <1>4, <1>5, <1>6, <1>7, <1>8, <1>9, <1>10, <1>11, <1>12, <1>13,
       <1>14, <1>15, <1>16, <1>17, <1>18, <1>19, <1>20, <1>21, <1>22, <1>23, <1>24, <1>25,
       <1>26, <1>27, <1>28, <1>29, <1>30, <1>31, <1>32, <1>33, <1>34, <1>35, <1>36, <1>37, <1>39
        DEF Next, EngineNext, ServerNext, CommandNext, StorageNext, ThreadNext,
           ProcessNext, MainNext, Returned

(* A storage worker that runs is ended by its own deadline only, and none starts
   once the session's end has waited for storage. *)
THEOREM WorkersAreSpared == Spec => WorkerSpared
<1>1. ASSUME IInv, [Next]_vars, NEW t \in Transactions
      PROVE  /\ child[t] = "alive" => child'[t] # "killed"
             /\ mpc \in {"kill", "join", "reap", "returned"} =>
                   ~(child[t] = "none" /\ child'[t] = "alive")
    BY <1>1, SparedStep DEF IInv, TypeOK
<1>2. IInv /\ [Next]_vars =>
        [\A r \in Transactions :
            child[r] = "alive" => child'[r] # "killed"]_vars
    BY <1>1
<1>3. IInv /\ [Next]_vars =>
        [\A r \in Transactions :
            mpc \in {"kill", "join", "reap", "returned"} =>
                ~(child[r] = "none" /\ child'[r] = "alive")]_vars
    BY <1>1
<1>4. Spec => WorkerNeverCancelled
    BY <1>2, Inductive, PTL DEF Spec, WorkerNeverCancelled
<1>5. Spec => NoLateWorker
    BY <1>3, Inductive, PTL DEF Spec, NoLateWorker
<1>6. QED
    BY <1>4, <1>5 DEF WorkerSpared
=============================================================================
