-------------------------- MODULE MutationGateProofs --------------------------
(* Theorems about MutationGate, for every disk, table and pipe size.         *)
EXTENDS MutationGate, TLAPS

-----------------------------------------------------------------------------
(* The pipe as a sequence: what appending and removing a line keeps.         *)

\* A line that was put in the pipe is of a known kind, and afterwards the pipe
\* holds nothing but what it held and that line (Send).
LEMMA SendFacts ==
    ASSUME TypeOK, NEW m \in Lines, Send(m)
    PROVE  /\ out' \in Seq(Lines)
           /\ \A x \in Lines : InPipe(x)' => InPipe(x) \/ x = m
<1>1. CASE UNCHANGED out
  BY <1>1 DEF TypeOK, InPipe
<1>2. CASE out' = Append(out, m)
  BY <1>2 DEF TypeOK, InPipe
<1>3. QED
  BY <1>1, <1>2 DEF Send

\* Taking the oldest line leaves only lines that were there (os.read and the
\* partition of pending in run_backend).
LEMMA TailFacts ==
    ASSUME TypeOK, out # <<>>, out' = Tail(out)
    PROVE  /\ out' \in Seq(Lines)
           /\ Head(out) \in Lines
           /\ InPipe(Head(out))
           /\ \A x \in Lines : InPipe(x)' => InPipe(x)
<1>1. out' \in Seq(Lines) /\ Head(out) \in Lines
  BY DEF TypeOK
<1>2. InPipe(Head(out))
  BY DEF TypeOK, InPipe
<1>3. ASSUME NEW x \in Lines, InPipe(x)' PROVE InPipe(x)
  <2>1. PICK i \in DOMAIN out' : out'[i] = x
    BY <1>3 DEF InPipe
  <2>2. i + 1 \in DOMAIN out /\ out[i + 1] = x
    BY <2>1 DEF TypeOK
  <2>3. QED
    BY <2>2 DEF InPipe
<1>4. QED
  BY <1>1, <1>2, <1>3
\* A step that leaves the pipe alone leaves its lines alone.
LEMMA KeptFacts ==
    ASSUME TypeOK, UNCHANGED out
    PROVE  /\ out' \in Seq(Lines)
           /\ \A x \in Lines : InPipe(x)' => InPipe(x)
BY DEF TypeOK, InPipe

-----------------------------------------------------------------------------
(* The inductive invariant, step by step.                                    *)

LEMMA InitInv == Init => IInv
<1>. SUFFICES ASSUME Init PROVE IInv
  OBVIOUS
<1>1. TypeOK
  <2>1. out \in Seq(Lines)
    BY DEF Init
  <2>2. confirmed \in 0..MaxSeq /\ adopted \in 0..MaxSeq /\ gate \in 0..MaxSeq
    BY BoundsAssumption DEF Init
  <2>3. request \in Requests
    BY DEF Init
  <2>4. QED
    BY <2>1, <2>2, <2>3 DEF Init, TypeOK, WorldType, HelperType, EngineType,
       SessionType
<1>2. \A x \in Lines : ~InPipe(x)
  BY DEF Init, InPipe
<1>3. IdentityInv
  BY <1>1 DEF Init, TypeOK, WorldType, Requests, IdentityInv
<1>4. ReadyInv /\ GateInv /\ OutcomeInv /\ EndInv /\ VerdictTruthful
  BY <1>2 DEF Init, ReadyInv, GateInv, OutcomeInv, EndInv, VerdictTruthful,
              Lines, InGate, Live
<1>5. QED
  BY <1>1, <1>3, <1>4 DEF IInv

USE DEF world, helper, engine, session, pipes, Live, Ended, InGate


\* Only the announcing engine sends "ready", and only a finished, authorized
\* one sends "ok"; every step leaves a well-formed pipe.
LEMMA PipeStep ==
    ASSUME TypeOK, Next
    PROVE  /\ out' \in Seq(Lines)
           /\ InPipe("ready")' => InPipe("ready") \/ epc = "announce"
           /\ InPipe("ok")' =>
                 \/ InPipe("ok")
                 \/ /\ epc = "report" /\ epc' = "exited"
                    /\ outcome = "ok" /\ outcome' = "ok"
<1>1. CASE UNCHANGED out
  BY <1>1, KeptFacts DEF Lines
<1>2. CASE out # <<>> /\ out' = Tail(out)
  BY <1>2, TailFacts DEF Lines
<1>3. CASE HelperDies
  <2>1. out' = <<>>
    BY <1>3 DEF HelperDies
  <2>2. QED
    BY <2>1 DEF InPipe
<1>4. CASE \E m \in {"progress", "junk", "report", "failed"} : Send(m)
  <2>1. PICK m \in {"progress", "junk", "report", "failed"} : Send(m)
    BY <1>4
  <2>2. QED
    BY <2>1, SendFacts DEF Lines
<1>5. CASE EngineAnnounces
  <2>1. Send("ready") /\ epc = "announce"
    BY <1>5 DEF EngineAnnounces
  <2>2. QED
    BY <2>1, SendFacts DEF Lines
<1>6. CASE EngineReports /\ outcome = "ok" /\ engineAuth
  <2>1. /\ Send("ok") /\ epc = "report" /\ epc' = "exited"
        /\ outcome = "ok" /\ outcome' = "ok"
    BY <1>6 DEF EngineReports, EngineStep
  <2>2. QED
    BY <2>1, SendFacts DEF Lines
<1>7. Next => \/ UNCHANGED out
              \/ out # <<>> /\ out' = Tail(out)
              \/ HelperDies
              \/ \E m \in {"progress", "junk", "report", "failed"} : Send(m)
              \/ EngineAnnounces
              \/ EngineReports /\ outcome = "ok" /\ engineAuth
  <2>1. WorldNext \/ Admission \/ Gate \/ Finish \/ DeadlinePasses => UNCHANGED out
    BY DEF WorldNext, ReplaceMedium, ForeignRepartition, ForeignUse,
       Admission, HelperValidate, HelperSnapshot, HelperProof, HelperSpawn,
       Refuse, Admit, Gate, GateDevice, GateTable, GateWrite, GateClose,
       GateAuthorize, GateStep, HelperFails, Finish, HelperWatchdog, HelperStops,
       HelperReaps, DeadlinePasses
  <2>2. Pump => UNCHANGED out \/ (out # <<>> /\ out' = Tail(out))
    BY DEF Pump, HelperRejects, HelperForwards, HelperReceivesReport,
       HelperReceivesResult, HelperReceivesReady, HelperDrains,
       HelperOverflow, HelperEof, Receiving
  <2>3. SessionNext => UNCHANGED out \/ Send("report") \/ Send("junk")
    BY DEF SessionNext, SessionTimeout, SessionEnds, SessionCrashes
  <2>4. EngineNext => \/ UNCHANGED out \/ Send("progress") \/ Send("junk")
                      \/ Send("failed") \/ EngineAnnounces
                      \/ EngineReports /\ outcome = "ok" /\ engineAuth
    BY DEF EngineNext, EngineProgress, EngineJunk, EngineAdopts,
       EnginePlans, EngineCommits, EngineReadsGate, EngineAuthorized,
       EngineMutates, EngineCompletes, EngineFails, EngineReports,
       EngineCrashes
  <2>5. QED
    BY <2>1, <2>2, <2>3, <2>4 DEF Next
<1>8. QED
  BY <1>1, <1>2, <1>3, <1>4, <1>5, <1>6, <1>7

\* Who may change what: the frame of each group of actions.
LEMMA Frames ==
    /\ Next => request' = request
    /\ WorldNext => UNCHANGED <<helper, engine, session, pipes>>
    /\ Admission => UNCHANGED <<world, pipes>>
    /\ Pump => UNCHANGED <<world, engine, session, gate, stdin>>
    /\ Gate => UNCHANGED <<world, engine, session>>
    /\ Finish \/ DeadlinePasses \/ HelperDies => UNCHANGED <<world, gate>>
    /\ EngineNext => UNCHANGED <<world, helper, gate, stdin>>
    /\ SessionNext => UNCHANGED <<world, helper, gate, stdin>>
<1>. USE DEF WorldNext, ReplaceMedium, ForeignRepartition, ForeignUse,
     Admission, HelperValidate, HelperSnapshot, HelperProof, HelperSpawn,
     Refuse, Admit, Pump, HelperRejects, HelperForwards, HelperReceivesReport,
     HelperReceivesResult, HelperReceivesReady, HelperDrains, HelperOverflow,
     HelperEof, HelperFails, Gate, GateDevice, GateTable, GateWrite, GateClose,
     GateAuthorize, GateStep, Finish, HelperWatchdog, HelperStops, HelperReaps,
     DeadlinePasses, HelperDies, EngineNext, EngineProgress, EngineJunk,
     EngineAdopts, EnginePlans, EngineCommits, EngineAnnounces,
     EngineReadsGate, EngineAuthorized, EngineMutates, EngineCompletes,
     EngineFails, EngineReports, EngineCrashes, EngineStep, SessionNext,
     SessionTimeout, SessionEnds, SessionCrashes
<1>1. WorldNext => UNCHANGED <<request, helper, engine, session, pipes>>
  OBVIOUS
<1>2. Admission => UNCHANGED <<request, world, pipes>>
  OBVIOUS
<1>3. Pump => UNCHANGED <<request, world, engine, session, gate, stdin>>
  OBVIOUS
<1>4. Gate => UNCHANGED <<request, world, engine, session>>
  OBVIOUS
<1>5. Finish \/ DeadlinePasses \/ HelperDies => UNCHANGED <<request, world, gate>>
  OBVIOUS
<1>6. EngineNext => UNCHANGED <<request, world, helper, gate, stdin>>
  OBVIOUS
<1>7. SessionNext => UNCHANGED <<request, world, helper, gate, stdin>>
  OBVIOUS
<1> HIDE DEF WorldNext, Admission, Pump, Gate, Finish, DeadlinePasses, HelperDies,
     EngineNext, SessionNext
<1>8. Next => request' = request
  BY <1>1, <1>2, <1>3, <1>4, <1>5, <1>6, <1>7 DEF Next
<1>9. QED
  BY ONLY <1>1, <1>2, <1>3, <1>4, <1>5, <1>6, <1>7, <1>8

\* Every step keeps the types; one step per component's part.
LEMMA TypeStep == IInv /\ Next => TypeOK'
<1>. SUFFICES ASSUME TypeOK, Next PROVE TypeOK'
  BY DEF IInv
<1>1. request' \in Requests /\ out' \in Seq(Lines)
  BY Frames, PipeStep DEF TypeOK
<1>2. WorldType'
  <2>1. CASE ReplaceMedium
    BY <2>1, BoundsAssumption DEF ReplaceMedium, TypeOK, WorldType
  <2>2. CASE ForeignRepartition \/ ForeignUse
    BY <2>2 DEF ForeignRepartition, ForeignUse, TypeOK, WorldType
  <2>3. CASE UNCHANGED world
    BY <2>3 DEF TypeOK, WorldType
  <2>4. QED
    BY <2>1, <2>2, <2>3, Frames DEF Next, WorldNext
<1>3. HelperType'
  <2>. USE BoundsAssumption DEF TypeOK, HelperType
  <2>1. CASE Admission
    BY <2>1 DEF Admission, HelperValidate, HelperSnapshot, HelperProof,
       HelperSpawn, Refuse, Admit, WorldType
  <2>2. CASE Pump
    <3>1. CASE HelperRejects
      BY <3>1 DEF HelperRejects, HelperFails, Receiving
    <3>2. CASE HelperForwards
      BY <3>2 DEF HelperForwards, HelperFails, Receiving
    <3>3. CASE HelperReceivesReport
      BY <3>3 DEF HelperReceivesReport, HelperFails, Receiving
    <3>4. CASE HelperReceivesResult
      BY <3>4 DEF HelperReceivesResult, HelperFails, Receiving
    <3>5. CASE HelperReceivesReady
      BY <3>5 DEF HelperReceivesReady, HelperFails, Receiving
    <3>6. CASE HelperDrains
      BY <3>6 DEF HelperDrains, HelperFails, Receiving
    <3>7. CASE HelperOverflow
      BY <3>7 DEF HelperOverflow, HelperFails, Receiving
    <3>8. CASE HelperEof
      BY <3>8 DEF HelperEof, HelperFails, Receiving
    <3> QED BY <2>2, <3>1, <3>2, <3>3, <3>4, <3>5, <3>6, <3>7, <3>8 DEF Pump
  <2>3. CASE Gate
    <3>1. CASE GateDevice
      BY <3>1 DEF GateDevice, GateStep, HelperFails
    <3>2. CASE GateTable
      BY <3>2 DEF GateTable, GateStep, HelperFails
    <3>3. CASE GateWrite
      BY <3>3 DEF GateWrite, GateStep, HelperFails
    <3>4. CASE GateClose
      BY <3>4 DEF GateClose, GateStep, HelperFails
    <3>5. CASE GateAuthorize
      BY <3>5 DEF GateAuthorize
    <3> QED BY <2>3, <3>1, <3>2, <3>3, <3>4, <3>5 DEF Gate
  <2>4. CASE Finish \/ DeadlinePasses \/ HelperDies
    <3>1. CASE HelperWatchdog
      BY <3>1 DEF HelperWatchdog
    <3>2. CASE HelperStops
      BY <3>2 DEF HelperStops
    <3>3. CASE HelperReaps
      BY <3>3 DEF HelperReaps
    <3>4. CASE DeadlinePasses \/ HelperDies
      BY <3>4 DEF DeadlinePasses, HelperDies
    <3> QED BY <2>4, <3>1, <3>2, <3>3, <3>4 DEF Finish
  <2>5. CASE UNCHANGED helper
    BY <2>5
  <2>6. QED
    BY <2>1, <2>2, <2>3, <2>4, <2>5, Frames DEF Next
<1>4. EngineType'
  <2>. USE DEF TypeOK, EngineType
  <2>1. CASE HelperSpawn
    BY <2>1 DEF HelperSpawn, Refuse
  <2>2. CASE EngineNext
    <3>1. CASE EngineProgress \/ EngineJunk \/ EngineAdopts \/ EnginePlans
      BY <3>1 DEF WorldType, EngineProgress, EngineJunk, EngineAdopts, EnginePlans, EngineStep
    <3>2. CASE EngineCommits \/ EngineAnnounces \/ EngineReadsGate \/ EngineAuthorized
      BY <3>2 DEF EngineCommits, EngineAnnounces, EngineReadsGate, EngineAuthorized, EngineStep
    <3>3. CASE EngineMutates \/ EngineCompletes \/ EngineFails
      BY <3>3 DEF EngineMutates, EngineCompletes, EngineFails, EngineStep
    <3>4. CASE EngineReports \/ EngineCrashes
      BY <3>4 DEF EngineReports, EngineCrashes, EngineStep
    <3> QED BY <2>2, <3>1, <3>2, <3>3, <3>4 DEF EngineNext
  <2>3. CASE SessionNext
    BY <2>3 DEF SessionNext, SessionTimeout, SessionEnds, SessionCrashes,
       EngineStep
  <2>4. CASE Finish \/ DeadlinePasses \/ HelperDies
    BY <2>4 DEF Finish, HelperWatchdog, HelperStops, HelperReaps, KillGroup,
       DeadlinePasses, HelperDies
  <2>5. CASE UNCHANGED engine
    BY <2>5
  <2>6. Admission => HelperSpawn \/ UNCHANGED engine
    BY DEF Admission, HelperValidate, HelperSnapshot, HelperProof, Refuse,
       Admit
  <2>7. QED
    BY <2>1, <2>2, <2>3, <2>4, <2>5, <2>6, Frames DEF Next
<1>5. SessionType'
  <2>. USE BoundsAssumption DEF TypeOK, SessionType
  <2>1. CASE HelperSpawn
    BY <2>1 DEF HelperSpawn, Refuse
  <2>2. CASE Gate
    BY <2>2 DEF Gate, GateDevice, GateTable, GateWrite, GateClose,
     GateAuthorize, GateStep,
       HelperFails, HelperType
  <2>3. CASE Finish \/ DeadlinePasses \/ HelperDies
    BY <2>3 DEF Finish, HelperWatchdog, HelperStops, HelperReaps, KillGroup,
       DeadlinePasses, HelperDies
  <2>4. CASE EngineNext
    BY <2>4 DEF WorldType, EngineNext, EngineProgress, EngineJunk,
       EngineAdopts, EnginePlans, EngineCommits, EngineAnnounces,
       EngineReadsGate, EngineAuthorized, EngineMutates, EngineCompletes,
       EngineFails, EngineReports, EngineCrashes, EngineStep
  <2>5. CASE SessionNext
    BY <2>5 DEF SessionNext, SessionTimeout, SessionEnds, SessionCrashes,
       EngineStep
  <2>6. CASE UNCHANGED <<session, gate, stdin>>
    BY <2>6
  <2>7. Admission => HelperSpawn \/ UNCHANGED <<session, pipes>>
    BY DEF Admission, HelperValidate, HelperSnapshot, HelperProof, Refuse,
       Admit
  <2>8. QED
    BY <2>1, <2>2, <2>3, <2>4, <2>5, <2>6, <2>7, Frames DEF Next
<1>6. QED
  BY <1>1, <1>2, <1>3, <1>4, <1>5 DEF TypeOK

\* Every identity a process holds is a read of the medium's growing number.
LEMMA IdentityStep == IInv /\ Next => IdentityInv'
<1>. SUFFICES ASSUME IInv, Next PROVE IdentityInv'
  OBVIOUS
<1>. USE DEF IInv, IdentityInv, EndInv, TypeOK, WorldType, HelperType, SessionType,
     Requests
<1>1. CASE WorldNext
  BY <1>1 DEF WorldNext, ReplaceMedium, ForeignRepartition, ForeignUse
<1>2. CASE Admission
  BY <1>2 DEF Admission, HelperValidate, HelperSnapshot, HelperProof,
     HelperSpawn, Refuse, Admit
<1>3. CASE Pump
  BY <1>3 DEF Pump, HelperRejects, HelperForwards, HelperReceivesReport,
     HelperReceivesResult, HelperReceivesReady, HelperDrains, HelperOverflow,
     HelperEof, Receiving, HelperFails
<1>4. CASE Gate
  BY <1>4 DEF Gate, GateDevice, GateTable, GateWrite, GateClose,
     GateAuthorize, GateStep,
     HelperFails
<1>5. CASE Finish \/ DeadlinePasses \/ HelperDies
  BY <1>5 DEF Finish, HelperWatchdog, HelperStops, HelperReaps, KillGroup,
     DeadlinePasses, HelperDies
<1>6. CASE EngineNext
  BY <1>6 DEF EngineNext, EngineProgress, EngineJunk, EngineAdopts,
     EnginePlans, EngineCommits, EngineAnnounces, EngineReadsGate,
     EngineAuthorized, EngineMutates, EngineCompletes, EngineFails,
     EngineReports, EngineCrashes, EngineStep
<1>7. CASE SessionNext
  BY <1>7 DEF SessionNext, SessionTimeout, SessionEnds, SessionCrashes,
     EngineStep
<1>8. QED
  BY <1>1, <1>2, <1>3, <1>4, <1>5, <1>6, <1>7 DEF Next

\* A ready line, read or unread, was sent by an engine past its commit check.
LEMMA ReadyStep == IInv /\ Next => ReadyInv'
<1>. SUFFICES ASSUME IInv, Next PROVE ReadyInv'
  OBVIOUS
<1>. USE DEF IInv, ReadyInv, Committed, NeedsTable, EndInv, IdentityInv,
     TypeOK, WorldType
<1>0. InPipe("ready")' => InPipe("ready") \/ epc = "announce"
  BY PipeStep DEF IInv
<1>a. out # <<>> => InPipe(Head(out))
  BY DEF InPipe
<1>1. CASE WorldNext
  BY <1>1, <1>0 DEF WorldNext, ReplaceMedium, ForeignRepartition, ForeignUse
<1>2. CASE Admission
  BY <1>2, <1>0 DEF Admission, HelperValidate, HelperSnapshot, HelperProof,
     HelperSpawn, Refuse, Admit
<1>3. CASE Pump
  BY <1>3, <1>0, <1>a DEF Pump, HelperRejects, HelperForwards, HelperReceivesReport,
     HelperReceivesResult, HelperReceivesReady, HelperDrains, HelperOverflow,
     HelperEof, Receiving, HelperFails
<1>4. CASE Gate
  BY <1>4, <1>0 DEF Gate, GateDevice, GateTable, GateWrite, GateClose,
     GateAuthorize, GateStep,
     HelperFails
<1>5. CASE Finish \/ DeadlinePasses \/ HelperDies
  BY <1>5, <1>0 DEF Finish, HelperWatchdog, HelperStops, HelperReaps, KillGroup,
     DeadlinePasses, HelperDies
<1>6. CASE EngineNext
  BY <1>6, <1>0 DEF EngineNext, EngineProgress, EngineJunk, EngineAdopts,
     EnginePlans, EngineCommits, EngineAnnounces, EngineReadsGate,
     EngineAuthorized, EngineMutates, EngineCompletes, EngineFails,
     EngineReports, EngineCrashes, EngineStep
<1>7. CASE SessionNext
  BY <1>7, <1>0 DEF SessionNext, SessionTimeout, SessionEnds, SessionCrashes,
     EngineStep
<1>8. QED
  BY <1>1, <1>2, <1>3, <1>4, <1>5, <1>6, <1>7 DEF Next

\* Between admission and the gate's second device check the medium's number can
\* only have grown; two equal reads therefore enclose the session's own.
LEMMA GateInvStep == IInv /\ Next => GateInv'
<1>. SUFFICES ASSUME IInv, Next PROVE GateInv'
  OBVIOUS
<1>. USE DEF IInv, Requests, TypeOK, WorldType, HelperType, SessionType, GateInv, ReadyInv,
     Committed, NeedsTable, EndInv, IdentityInv, OutcomeInv
<1>1. CASE WorldNext
  BY <1>1 DEF WorldNext, ReplaceMedium, ForeignRepartition, ForeignUse
<1>2. CASE Admission
  BY <1>2 DEF Admission, HelperValidate, HelperSnapshot, HelperProof,
     HelperSpawn, Refuse, Admit
<1>3. CASE Pump
  <2>1. UNCHANGED <<epc, adopted, planned, engineAuth, mutated, gate, stdin,
                    request, authorized>>
    BY <1>3, Frames DEF Pump, HelperRejects, HelperForwards,
       HelperReceivesReport, HelperReceivesResult, HelperReceivesReady,
       HelperDrains, HelperOverflow, HelperEof, HelperFails
  <2>2. hpc = "pump" /\ hpc' \in {"pump", "stop", "reap", "gateDevice"}
    BY <1>3 DEF Pump, HelperRejects, HelperForwards, HelperReceivesReport,
       HelperReceivesResult, HelperReceivesReady, HelperDrains,
       HelperOverflow, HelperEof, HelperFails, Receiving
  <2>3. QED
    BY <2>1, <2>2
<1>4. CASE Gate
  BY <1>4 DEF Gate, GateDevice, GateTable, GateWrite, GateClose,
     GateAuthorize, GateStep,
     HelperFails
<1>5. CASE Finish \/ DeadlinePasses \/ HelperDies
  BY <1>5 DEF Finish, HelperWatchdog, HelperStops, HelperReaps, KillGroup,
     DeadlinePasses, HelperDies
<1>6. CASE EngineNext
  <2>1. CASE EngineAdopts
    BY <1>6, <2>1 DEF EngineAdopts
  <2>2. CASE EnginePlans
    BY <1>6, <2>2 DEF EnginePlans
  <2>3. CASE EngineReadsGate
    BY <1>6, <2>3 DEF EngineReadsGate, EngineStep
  <2>4. CASE EngineAuthorized
    BY <1>6, <2>4 DEF EngineAuthorized
  <2>5. CASE EngineMutates \/ EngineCompletes \/ EngineFails
    BY <1>6, <2>5 DEF EngineMutates, EngineCompletes, EngineFails
  <2>6. CASE EngineProgress \/ EngineJunk \/ EngineCommits \/ EngineAnnounces
             \/ EngineReports \/ EngineCrashes
    BY <1>6, <2>6 DEF EngineProgress, EngineJunk, EngineCommits,
       EngineAnnounces, EngineReports, EngineCrashes, EngineStep
  <2>7. QED
    BY <1>6, <2>1, <2>2, <2>3, <2>4, <2>5, <2>6 DEF EngineNext
<1>7. CASE SessionNext
  BY <1>7 DEF SessionNext, SessionTimeout, SessionEnds, SessionCrashes,
     EngineStep
<1>8. QED
  BY <1>1, <1>2, <1>3, <1>4, <1>5, <1>6, <1>7 DEF Next

\* "ok" exists only in the pipe of an engine that exited after completing, and
\* status zero only at a session that exited.
LEMMA OutcomeStep == IInv /\ Next => OutcomeInv'
<1>. SUFFICES ASSUME IInv, Next PROVE OutcomeInv'
  OBVIOUS
<1>. USE DEF IInv, OutcomeInv, GateInv, ReadyInv, EndInv, TypeOK,
     HelperType, EngineType, SessionType
<1>0. InPipe("ok")' =>
         \/ InPipe("ok")
         \/ /\ epc = "report" /\ epc' = "exited"
            /\ outcome = "ok" /\ outcome' = "ok"
  BY PipeStep DEF IInv
<1>a. out # <<>> => InPipe(Head(out))
  BY DEF InPipe
<1>1. CASE WorldNext
  BY <1>1, <1>0 DEF WorldNext, ReplaceMedium, ForeignRepartition, ForeignUse
<1>2. CASE Admission
  BY <1>2, <1>0 DEF Admission, HelperValidate, HelperSnapshot, HelperProof,
     HelperSpawn, Refuse, Admit
<1>3. CASE Pump
  <2>1. CASE HelperReceivesResult
    BY <2>1, <1>0, <1>a DEF HelperReceivesResult, Receiving
  <2>2. CASE Pump /\ final' = final
    <3>1. UNCHANGED <<epc, outcome, engineAuth, mutated, spc, status, verdict>>
      BY <2>2 DEF Pump, HelperRejects, HelperForwards, HelperReceivesReport,
         HelperReceivesResult, HelperReceivesReady, HelperDrains,
         HelperOverflow, HelperEof, HelperFails
    <3>2. verdict # "installed"
      BY <1>3 DEF Pump, HelperRejects, HelperForwards, HelperReceivesReport,
         HelperReceivesResult, HelperReceivesReady, HelperDrains,
         HelperOverflow, HelperEof, Receiving
    <3>3. QED
      BY <2>2, <3>1, <3>2, <1>0
  <2>3. QED
    BY <1>3, <2>1, <2>2 DEF Pump, HelperRejects, HelperForwards,
       HelperReceivesReport, HelperReceivesReady, HelperDrains,
       HelperOverflow, HelperEof, HelperFails
<1>4. CASE Gate
  BY <1>4, <1>0 DEF Gate, GateDevice, GateTable, GateWrite, GateClose,
     GateAuthorize, GateStep,
     HelperFails
<1>5. CASE Finish \/ DeadlinePasses \/ HelperDies
  BY <1>5, <1>0 DEF Finish, HelperWatchdog, HelperStops, HelperReaps, KillGroup,
     DeadlinePasses, HelperDies
<1>6. CASE EngineNext
  BY <1>6, <1>0 DEF EngineNext, EngineProgress, EngineJunk, EngineAdopts,
     EnginePlans, EngineCommits, EngineAnnounces, EngineReadsGate,
     EngineAuthorized, EngineMutates, EngineCompletes, EngineFails,
     EngineReports, EngineCrashes, EngineStep
<1>7. CASE SessionNext
  BY <1>7, <1>0 DEF SessionNext, SessionTimeout, SessionEnds, SessionCrashes,
     EngineStep
<1>8. QED
  BY <1>1, <1>2, <1>3, <1>4, <1>5, <1>6, <1>7 DEF Next

\* The engine runs only under a session, and neither is left at the verdict.
LEMMA EndStep == IInv /\ Next => EndInv'
<1>. SUFFICES ASSUME IInv, Next PROVE EndInv'
  OBVIOUS
<1>. USE DEF IInv, EndInv
<1>1. CASE WorldNext
  BY <1>1 DEF WorldNext, ReplaceMedium, ForeignRepartition, ForeignUse
<1>2. CASE Admission
  BY <1>2 DEF Admission, HelperValidate, HelperSnapshot, HelperProof,
     HelperSpawn, Refuse, Admit
<1>3. CASE Pump
  <2>1. UNCHANGED <<epc, spc, authorized, late>>
    BY <1>3, Frames DEF Pump, HelperRejects, HelperForwards,
       HelperReceivesReport, HelperReceivesResult, HelperReceivesReady,
       HelperDrains, HelperOverflow, HelperEof, HelperFails
  <2>2. /\ hpc' \in {"pump", "stop", "reap", "gateDevice"}
        /\ hpc' = "stop" => ~authorized
        /\ hpc' = "reap" => epc \in Ended /\ spc # "up"
        /\ hpc = "pump"
    BY <1>3 DEF Pump, HelperRejects, HelperForwards, HelperReceivesReport,
       HelperReceivesResult, HelperReceivesReady, HelperDrains,
       HelperOverflow, HelperEof, HelperFails, Receiving
  <2>3. QED
    BY <2>1, <2>2
<1>4. CASE Gate
  BY <1>4 DEF Gate, GateDevice, GateTable, GateWrite, GateClose,
     GateAuthorize, GateStep,
     HelperFails
<1>5. CASE Finish \/ DeadlinePasses \/ HelperDies
  BY <1>5 DEF Finish, HelperWatchdog, HelperStops, HelperReaps, KillGroup,
     DeadlinePasses, HelperDies
<1>6. CASE EngineNext
  BY <1>6 DEF EngineNext, EngineProgress, EngineJunk, EngineAdopts,
     EnginePlans, EngineCommits, EngineAnnounces, EngineReadsGate,
     EngineAuthorized, EngineMutates, EngineCompletes, EngineFails,
     EngineReports, EngineCrashes, EngineStep
<1>7. CASE SessionNext
  BY <1>7 DEF SessionNext, SessionTimeout, SessionEnds, SessionCrashes,
     EngineStep
<1>8. QED
  BY <1>1, <1>2, <1>3, <1>4, <1>5, <1>6, <1>7 DEF Next

\* Only a reaped, clean run is called installed, and the verdict is the last step.
LEMMA VerdictStep == IInv /\ Next => VerdictTruthful'
<1>. SUFFICES ASSUME IInv, Next PROVE VerdictTruthful'
  OBVIOUS
<1>. USE DEF IInv, VerdictTruthful, OutcomeInv, EndInv
<1>1. CASE WorldNext
  BY <1>1 DEF WorldNext, ReplaceMedium, ForeignRepartition, ForeignUse
<1>2. CASE Admission
  BY <1>2 DEF Admission, HelperValidate, HelperSnapshot, HelperProof,
     HelperSpawn, Refuse, Admit
<1>3. CASE Pump
  BY <1>3 DEF Pump, HelperRejects, HelperForwards, HelperReceivesReport,
     HelperReceivesResult, HelperReceivesReady, HelperDrains, HelperOverflow,
     HelperEof, Receiving, HelperFails
<1>4. CASE Gate
  BY <1>4 DEF Gate, GateDevice, GateTable, GateWrite, GateClose,
     GateAuthorize, GateStep,
     HelperFails
<1>5. CASE Finish \/ DeadlinePasses \/ HelperDies
  BY <1>5 DEF Finish, HelperWatchdog, HelperStops, HelperReaps, KillGroup,
     DeadlinePasses, HelperDies, Succeeded
<1>6. CASE EngineNext
  BY <1>6 DEF EngineNext, EngineProgress, EngineJunk, EngineAdopts,
     EnginePlans, EngineCommits, EngineAnnounces, EngineReadsGate,
     EngineAuthorized, EngineMutates, EngineCompletes, EngineFails,
     EngineReports, EngineCrashes, EngineStep
<1>7. CASE SessionNext
  BY <1>7 DEF SessionNext, SessionTimeout, SessionEnds, SessionCrashes,
     EngineStep
<1>8. QED
  BY <1>1, <1>2, <1>3, <1>4, <1>5, <1>6, <1>7 DEF Next

\* The invariant is inductive: initial states satisfy it and no step leaves it.
THEOREM Inductive == Spec => []IInv
<1>1. Init => IInv
  BY InitInv
<1>2. IInv /\ [Next]_vars => IInv'
  <2>. SUFFICES ASSUME IInv, [Next]_vars PROVE IInv'
    OBVIOUS
  <2>1. CASE Next
    BY <2>1, TypeStep, IdentityStep, ReadyStep, GateInvStep, OutcomeStep,
       EndStep, VerdictStep DEF IInv
  <2>2. CASE UNCHANGED vars
    <3>. USE <2>2 DEF vars, IInv
    <3>1. \A x \in Lines : InPipe(x)' = InPipe(x)
      BY DEF InPipe
    <3>2. TypeOK'
      BY DEF TypeOK, WorldType, HelperType, EngineType, SessionType
    <3>3. IdentityInv' /\ EndInv' /\ VerdictTruthful'
      BY DEF IdentityInv, EndInv, VerdictTruthful
    <3>4. ReadyInv' /\ GateInv' /\ OutcomeInv'
      BY <3>1 DEF ReadyInv, GateInv, OutcomeInv, Committed, NeedsTable, Lines
    <3>5. QED
      BY <3>2, <3>3, <3>4
  <2>3. QED
    BY <2>1, <2>2
<1>3. QED
  BY <1>1, <1>2, PTL DEF Spec

-----------------------------------------------------------------------------
(* What follows for every disk, table set, pipe size and interleaving.       *)

\* Helper, session, engine, pipes and world stay in their state spaces.
THEOREM TypeCorrect == Spec => []TypeOK
<1>1. IInv => TypeOK
  BY DEF IInv
<1>2. QED
  BY <1>1, Inductive, PTL

\* Before an engine holds authority, helper, session and engine have each read
\* the identity the user confirmed and, unless the whole disk goes, the plan was
\* made on the confirmed table (run_backend's ready branch).  The theorem is
\* about these readings, all of them older than the gate line.
THEOREM TargetApproved == Spec => []ApprovedTarget
<1>1. IInv => ApprovedTarget
  BY DEF IInv, GateInv, IdentityInv, Committed, ApprovedTarget
<1>2. QED
  BY <1>1, Inductive, PTL

\* The medium's number only grows, and the gate's device check and its table
\* snapshot both compare it: an exchange before them keeps the line from ever
\* being written.
LEMMA SwapStays == IInv /\ Swapped /\ [Next]_vars => Swapped'
<1>. SUFFICES ASSUME IInv, Swapped, [Next]_vars PROVE Swapped'
  OBVIOUS
<1>. USE DEF IInv, IdentityInv, TypeOK, WorldType, Requests, Swapped
<1>1. CASE WorldNext
  <2>1. UNCHANGED <<gate, hpc, request>> /\ disk' >= disk
    BY <1>1, Frames DEF WorldNext, ReplaceMedium, ForeignRepartition, ForeignUse
  <2>2. QED
    BY <2>1
<1>2. CASE Admission
  BY <1>2 DEF Admission, HelperValidate, HelperSnapshot, HelperProof,
     HelperSpawn, Refuse, Admit
<1>3. CASE Pump
  BY <1>3 DEF Pump, HelperRejects, HelperForwards, HelperReceivesReport,
     HelperReceivesResult, HelperReceivesReady, HelperDrains, HelperOverflow,
     HelperEof, HelperFails
<1>4. CASE Gate
  <2>1. /\ confirmed = request.disk
        /\ disk' = disk /\ request' = request
    <3>1. hpc \in InGate
      BY <1>4 DEF Gate, GateDevice, GateTable, GateWrite, GateClose,
         GateAuthorize
    <3>2. confirmed = request.disk
      BY <3>1
    <3>3. disk' = disk /\ request' = request
      BY <1>4, Frames DEF Gate, GateDevice, GateTable, GateWrite, GateClose,
         GateAuthorize, GateStep, HelperFails
    <3>4. QED
      BY <3>2, <3>3
  <2>2. ~GateWrite /\ UNCHANGED gate
    BY <1>4 DEF Gate, GateDevice, GateTable, GateWrite, GateClose,
       GateAuthorize, GateStep, HelperFails
  <2>3. hpc' # "send"
    BY <1>4, <2>1, <2>2 DEF Gate, GateDevice, GateTable, GateClose,
       GateAuthorize, GateStep, HelperFails
  <2>4. QED
    BY <2>1, <2>2, <2>3
<1>5. CASE Finish \/ DeadlinePasses \/ HelperDies
  BY <1>5 DEF Finish, HelperWatchdog, HelperStops, HelperReaps,
     DeadlinePasses, HelperDies
<1>6. CASE EngineNext \/ SessionNext \/ UNCHANGED vars
  BY <1>6, Frames DEF vars
<1>7. QED
  BY <1>1, <1>2, <1>3, <1>4, <1>5, <1>6 DEF Next

\* A medium exchanged before the gate's last look at the device is never
\* written to (DEVICE_CHANGED in run_backend's ready branch).
THEOREM SwapsDisarm == Spec => SwapDisarms
<1>1. IInv /\ Swapped /\ [Next]_vars => Swapped'
  BY SwapStays
<1>2. IInv /\ Swapped => ~mutated
  BY DEF IInv, GateInv, Swapped
<1>3. QED
  BY <1>1, <1>2, Inductive, PTL DEF Spec, SwapDisarms

\* A disk that was written to is one the helper authorized or is about to record
\* as authorized, or the helper died: every refusal leaves the disk untouched.
THEOREM CleanRefusal == Spec => []RefusalIsClean
<1>1. IInv => RefusalIsClean
  BY DEF IInv, GateInv, RefusalIsClean
<1>2. QED
  BY <1>1, Inductive, PTL

\* "installed" is said of a completed, mutated, leak-free installation only.
THEOREM TruthfulVerdict == Spec => []VerdictTruthful
<1>1. IInv => VerdictTruthful
  BY DEF IInv
<1>2. QED
  BY <1>1, Inductive, PTL

\* No engine and no session outlives the helper's verdict.
THEOREM LastVerdict == Spec => []VerdictIsLast
<1>1. IInv => VerdictIsLast
  BY DEF IInv, EndInv, VerdictIsLast
<1>2. QED
  BY <1>1, Inductive, PTL

\* The verdict is true and final.
THEOREM SoundVerdict == Spec => []VerdictSound
BY TruthfulVerdict, LastVerdict, PTL DEF VerdictSound

\* A helper that has authorized the engine kills it at its deadline and at no
\* other moment; the session, whose deadline is its own, changes no helper state.
THEOREM TimerOnlyKills == Spec => KilledOnlyByTimer
<1>. DEFINE Timed == epc = "install" /\ epc' = "killed" => late \/ UNCHANGED helper
<1>1. IInv /\ [Next]_vars => [Timed]_vars
  <2>. SUFFICES ASSUME IInv, Next, epc = "install", epc' = "killed"
                PROVE  late \/ UNCHANGED helper
    OBVIOUS
  <2>. USE DEF IInv, EndInv, GateInv, OutcomeInv
  <2>1. CASE Finish \/ DeadlinePasses \/ HelperDies
    BY <2>1 DEF Finish, HelperWatchdog, HelperStops, HelperReaps, KillGroup,
       DeadlinePasses, HelperDies
  <2>2. CASE Admission
    BY <2>2 DEF Admission, HelperValidate, HelperSnapshot, HelperProof,
       HelperSpawn, Refuse, Admit
  <2>3. CASE UNCHANGED helper \/ UNCHANGED engine
    BY <2>3
  <2>4. QED
    BY <2>1, <2>2, <2>3, Frames DEF Next
<1>2. QED
  BY <1>1, Inductive, PTL DEF Spec, KilledOnlyByTimer
=============================================================================
