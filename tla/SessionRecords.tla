--------------------------- MODULE SessionRecords ---------------------------
(***************************************************************************)
(* The record of one session (linux/ro_installer_records.py, Recorder) and *)
(* the engine's observations that feed it over the session socket          *)
(* (lib/services/install_observation.dart).  A recorder operation is a     *)
(* list of file-system steps: each may fail, and the supervisor may be     *)
(* killed between any two.                                                 *)
(***************************************************************************)
EXTENDS Naturals, Sequences, SequencesExt

CONSTANTS
    NStages,       \* the stages of an installation (nine in the code)
    MaxEvents,     \* LIMITS['events']
    JournalBytes,  \* LIMITS['sessionBytes'], in units of the shortest event
    MaxStack,      \* the operation stack's limit (16 in the code)
    MaxNotes       \* bound: command.end events of the supervisor

ASSUME LimitsAssumption ==
    /\ NStages \in Nat \ {0} /\ MaxEvents \in Nat /\ JournalBytes \in Nat
    /\ MaxStack \in Nat /\ MaxNotes \in Nat

VARIABLES
    script,     \* engine: what it still has to say
    willing,    \* engine: InstallObservation.available
    waiting,    \* engine: awaits the reply to its last request
    wins,       \* engine: this run installs, and cleans up after itself
    exit,       \* engine: "unborn", "alive", "ok" or "bad"
    inbox,      \* requests sent and not yet served
    report,     \* Recorder.report
    stack,      \* Recorder.operation_stack
    work,       \* file-system steps the current operation still has to take
    phase,      \* supervisor: "run", "finish", "done" or "killed"
    result,     \* supervisor: the session's exit status (0 or 9)
    notes,      \* supervisor: command.end events recorded
    journal,    \* events.jsonl: its whole lines
    torn,       \* events.jsonl ends in a line that was cut short
    temp,       \* the .summary-* file: [state, report]
    summary,    \* summary.json: likewise, "none", "partial" or "whole"
    seen        \* history: every event the recorder was given, in order

fileVars == <<journal, torn, temp, summary>>
vars == <<script, willing, waiting, wins, exit, inbox, report, stack, work, phase,
          result, notes, journal, torn, temp, summary, seen>>

Stage(i) == <<"stage", i>>
Span(x) == <<"span", x>>
Items == {Stage(i) : i \in 1..NStages} \cup {Span("copy.main"), Span("engine")}

Event(kind, item, status) == [kind |-> kind, item |-> item, status |-> status]
Note == Event("note", <<"none">>, "success")
SessionEnd(status) ==
    Event("session.end", <<"none">>, IF status = 0 THEN "success" ELSE "failed")
Size(event) == IF event.kind = "end" THEN 2 ELSE 1
Bytes(events) == FoldLeft(LAMBDA n, event : n + Size(event), 0, events)

-----------------------------------------------------------------------------
(* What the engine says: an installation that stops in stage `last`, well  *)
(* or not, and whose cleanup succeeds or not.                              *)

Start(item) == Event("start", item, "running")
Stop(item, ok) == Event("end", item, IF ok THEN "success" ELSE "failed")

\* The k-th thing it says: the first stage has the copy inside it, each later one
\* its start and its end.
Message(k, last, ok) ==
    LET i == (k - 1) \div 2  well == i < last \/ ok
    IN  IF k = 1 THEN Start(Stage(1))
        ELSE IF k = 2 THEN Start(Span("copy.main"))
        ELSE IF k = 3 THEN Stop(Span("copy.main"), well)
        ELSE IF k = 2 * i + 1 THEN Start(Stage(i)) ELSE Stop(Stage(i), well)

Outcome(last, ok, clean) ==
    [kind |-> "outcome", terminal |-> IF ok /\ clean THEN "success" ELSE "failed",
     failed |-> IF ok THEN 0 ELSE last, last |-> IF ok THEN last ELSE last - 1,
     cleanup |-> IF clean THEN "success" ELSE "failed"]

Script(last, ok, clean) ==
    [k \in 1..(2 * last + 4) |->
        IF k <= 2 * last + 2 THEN Message(k, last, ok)
        ELSE IF k = 2 * last + 3 THEN Stop(Span("engine"), ok /\ clean)
        ELSE Outcome(last, ok, clean)]

-----------------------------------------------------------------------------
Fresh == [terminal |-> "running", failed |-> 0, last |-> 0, cleanup |-> "notRun",
          log |-> "recording", status |-> [item \in Items |-> "notStarted"]]
Step(name) == [step |-> name]
Observe(event) == [step |-> "observe", event |-> event]
File(state, r) == [state |-> state, report |-> r]
NoFile == File("none", Fresh)
Checkpoint == <<Step("create"), Step("fill"), Step("rename")>>

Init ==
    /\ \E last \in 1..NStages, ok \in BOOLEAN, clean \in BOOLEAN :
          /\ ok => last = NStages
          /\ script = Script(last, ok, clean)
          /\ wins = (ok /\ clean)
    /\ willing = TRUE /\ waiting = FALSE /\ exit = "unborn" /\ inbox = <<>>
    /\ report \in {Fresh, [Fresh EXCEPT !.log = "unavailable"]}
    /\ stack = <<>> /\ phase = "run" /\ result = 9 /\ notes = 0
    /\ work = Checkpoint \o <<Observe(Note)>>
    /\ journal = <<>> /\ torn = FALSE /\ temp = NoFile /\ summary = NoFile
    /\ seen = <<>>

-----------------------------------------------------------------------------
(* The engine: one request at a time, a reply within half a second or      *)
(* silence for the rest of the run.                                        *)

StartEngine ==
    /\ phase = "run" /\ exit = "unborn" /\ work = <<>>
    /\ exit' = "alive"
    /\ work' = <<Observe(Start(Span("engine")))>>
    /\ UNCHANGED <<script, willing, waiting, wins, inbox, report, stack, phase,
                   result, notes, fileVars, seen>>

Say ==
    /\ exit = "alive" /\ ~waiting /\ script # <<>>
    /\ script' = Tail(script)
    /\ inbox' = IF willing THEN Append(inbox, Head(script)) ELSE inbox
    /\ waiting' = willing
    /\ UNCHANGED <<willing, wins, exit, report, stack, work, phase, result, notes,
                   fileVars, seen>>

Reply ==
    /\ exit = "alive" /\ waiting /\ inbox = <<>> /\ work = <<>>
    /\ waiting' = FALSE
    /\ UNCHANGED <<script, willing, wins, exit, inbox, report, stack, work, phase,
                   result, notes, fileVars, seen>>

\* Mutant: a request that failed does not end the observation.
KeepsTalking ==
    /\ exit = "alive" /\ waiting
    /\ waiting' = FALSE
    /\ inbox' \in {inbox, <<>>}
    /\ UNCHANGED <<script, willing, wins, exit, report, stack, work, phase, result,
                   notes, fileVars, seen>>

\* The reply is late (the request may still be served) or the connection was
\* closed unserved.
GiveUp ==
    /\ exit = "alive" /\ waiting
    /\ waiting' = FALSE /\ willing' = FALSE
    /\ inbox' \in {inbox, <<>>}
    /\ UNCHANGED <<script, wins, exit, report, stack, work, phase, result, notes,
                   fileVars, seen>>

\* The engine ends, at its own last word or before it; 0 is its status for an
\* installation that succeeded and was said to.
EngineExit ==
    /\ exit = "alive"
    /\ exit' \in IF wins /\ script = <<>> /\ ~waiting THEN {"ok", "bad"} ELSE {"bad"}
    /\ UNCHANGED <<script, willing, waiting, wins, inbox, report, stack, work, phase,
                   result, notes, fileVars, seen>>

-----------------------------------------------------------------------------
(* The recorder.                                                           *)

Failure(log) == IF log \in {"unavailable", "failed"} THEN log ELSE "failed"

\* The report after an event, whether or not the event can be written down.
Applied(r, event) ==
    IF event.kind \notin {"start", "end"} THEN r
    ELSE LET stage == event.item[1] = "stage"  ended == stage /\ event.kind = "end"
         IN  [r EXCEPT
                !.status[event.item] = event.status,
                !.last = IF ended /\ event.status = "success" THEN event.item[2] ELSE @,
                !.failed = IF ended /\ event.status # "success" /\ @ = 0
                           THEN event.item[2] ELSE @]

OverLimit(event) ==
    \/ Len(journal) >= MaxEvents
    \/ Bytes(journal) + Size(event) > JournalBytes

IsSpan(event) == event.kind \in {"start", "end"} /\ event.item[1] = "span"
Overflow(event) == IsSpan(event) /\ event.kind = "start" /\ Len(stack) >= MaxStack
Stacked(event) ==
    CASE ~IsSpan(event) -> stack
      [] event.kind = "start" -> Append(stack, event.item)
      [] OTHER -> IF stack # <<>> /\ Last(stack) = event.item THEN Front(stack) ELSE stack

\* Mutant: after a line did not fit, a shorter one is written.
ObserveWhatFits ==
    /\ work # <<>> /\ Head(work).step = "observe"
    /\ LET event == Head(work).event
       IN  /\ seen' = Append(seen, event)
           /\ stack' = Stacked(event)
           /\ report' = LET r == Applied(report, event)
                        IN  IF OverLimit(event) /\ r.log = "recording"
                            THEN [r EXCEPT !.log = "truncated"] ELSE r
           /\ work' = (IF OverLimit(event) \/ report.log \in {"unavailable", "failed"}
                       THEN <<>> ELSE <<[step |-> "append", event |-> event]>>) \o Tail(work)
    /\ UNCHANGED <<script, willing, waiting, wins, exit, inbox, phase, result, notes,
                   fileVars>>

ObserveStep ==
    /\ work # <<>> /\ Head(work).step = "observe"
    /\ LET event == Head(work).event
           r == Applied(report, event)
       IN  /\ seen' = Append(seen, event)
           /\ IF Overflow(event)
              THEN /\ report' = [report EXCEPT !.log = Failure(@)]
                   /\ work' = Tail(work) /\ stack' = stack
              ELSE /\ stack' = Stacked(event)
                   /\ report' = IF OverLimit(event) /\ r.log = "recording"
                                THEN [r EXCEPT !.log = "truncated"] ELSE r
                   /\ work' = (IF OverLimit(event) \/ r.log # "recording" THEN <<>>
                               ELSE <<[step |-> "append", event |-> event]>>) \o Tail(work)
    /\ UNCHANGED <<script, willing, waiting, wins, exit, inbox, phase, result, notes,
                   fileVars>>

Ends(event) ==
    \/ event.kind = "session.end"
    \/ event.kind = "end" /\ event.item[1] = "stage"

AppendStep ==
    /\ work # <<>> /\ Head(work).step = "append"
    /\ \/ /\ journal' = Append(journal, Head(work).event)
          /\ work' = (IF Ends(Head(work).event) THEN Checkpoint ELSE <<>>) \o Tail(work)
          /\ UNCHANGED <<report, torn>>
       \/ /\ report' = [report EXCEPT !.log = Failure(@)]
          /\ torn' \in BOOLEAN
          /\ work' = Tail(work)
          /\ UNCHANGED journal
    /\ UNCHANGED <<script, willing, waiting, wins, exit, inbox, stack, phase, result,
                   notes, temp, summary, seen>>

\* A checkpoint step fails: the rest of the checkpoint is dropped, the temporary
\* file unlinked if that succeeds.
Abandon(steps) ==
    /\ report' = [report EXCEPT !.log = Failure(@)]
    /\ temp' \in {NoFile, temp}
    /\ work' = SubSeq(work, steps + 1, Len(work))
    /\ UNCHANGED summary

CreateStep ==
    /\ work # <<>> /\ Head(work).step = "create"
    /\ \/ /\ report.log \in {"unavailable", "failed"}
          /\ work' = SubSeq(work, 4, Len(work))
          /\ UNCHANGED <<report, temp, summary>>
       \/ /\ report.log \notin {"unavailable", "failed"}
          /\ temp' = File("partial", Fresh) /\ work' = Tail(work)
          /\ UNCHANGED <<report, summary>>
       \/ report.log \notin {"unavailable", "failed"} /\ Abandon(3)
    /\ UNCHANGED <<script, willing, waiting, wins, exit, inbox, stack, phase, result,
                   notes, journal, torn, seen>>

FillStep ==
    /\ work # <<>> /\ Head(work).step = "fill"
    /\ \/ temp' = File("whole", report) /\ work' = Tail(work) /\ UNCHANGED <<report, summary>>
       \/ Abandon(2)
    /\ UNCHANGED <<script, willing, waiting, wins, exit, inbox, stack, phase, result,
                   notes, journal, torn, seen>>

\* The unlink behind the rename finds no file, as it should, or fails otherwise.
RenameStep ==
    /\ work # <<>> /\ Head(work).step = "rename"
    /\ \/ /\ summary' = temp /\ temp' = NoFile
          /\ work' = Tail(work)
          /\ report' \in {report, [report EXCEPT !.log = Failure(@)]}
       \/ Abandon(1)
    /\ UNCHANGED <<script, willing, waiting, wins, exit, inbox, stack, phase, result,
                   notes, journal, torn, seen>>

-----------------------------------------------------------------------------
(* The supervisor: the socket's observe and outcome requests, its own      *)
(* command.end events, and finish().                                       *)

Serve ==
    /\ phase = "run" /\ work = <<>> /\ inbox # <<>>
    /\ inbox' = Tail(inbox)
    /\ LET message == Head(inbox)
       IN  IF message.kind = "outcome"
           THEN /\ report' = [report EXCEPT !.terminal = message.terminal,
                                 !.failed = message.failed, !.last = message.last,
                                 !.cleanup = message.cleanup]
                /\ work' = Checkpoint
           ELSE work' = <<Observe(message)>> /\ UNCHANGED report
    /\ UNCHANGED <<script, willing, waiting, wins, exit, stack, phase, result, notes,
                   fileVars, seen>>

CommandEnds ==
    /\ phase = "run" /\ work = <<>> /\ exit # "unborn" /\ notes < MaxNotes
    /\ notes' = notes + 1
    /\ work' = <<Observe(Note)>>
    /\ UNCHANGED <<script, willing, waiting, wins, exit, inbox, report, stack, phase,
                   result, fileVars, seen>>

Running == {item \in Items : report.status[item] = "running"}

\* finish(): what the session's status makes of an outcome, or of none.
Concluded(status, namespaceFailed) ==
    IF report.terminal = "running" /\ status = 0
    THEN [report EXCEPT !.terminal = "unknown", !.cleanup = "unknown",
                        !.log = IF @ = "recording" THEN "incomplete" ELSE @]
    ELSE IF report.terminal = "running"
    THEN [report EXCEPT !.terminal = IF namespaceFailed THEN "failed" ELSE "incomplete",
                        !.cleanup = IF namespaceFailed THEN "notRun" ELSE "unknown"]
    ELSE IF report.terminal = "success" /\ status # 0
    THEN [report EXCEPT !.terminal = "failed"]
    ELSE report

\* Either the engine was never started, or it has ended; requests nobody has
\* read by then are dropped with the socket.
Finish ==
    /\ phase = "run" /\ work = <<>>
    /\ exit \in {"unborn", "ok", "bad"}
    /\ phase' = "finish"
    /\ inbox' = <<>>
    /\ result' \in IF exit = "ok" THEN {0, 9} ELSE {9}
    /\ \E namespaceFailed \in BOOLEAN :
          /\ namespaceFailed => exit = "unborn"
          /\ report' = Concluded(result', namespaceFailed)
    /\ work' = SetToSeq({Observe(Event("end", item, "interrupted")) : item \in Running})
                 \o <<Observe(SessionEnd(result')), Step("complete")>>
                 \o Checkpoint \o <<Step("terminal")>>
    /\ UNCHANGED <<script, willing, waiting, wins, exit, stack, notes, fileVars, seen>>

CompleteStep ==
    /\ work # <<>> /\ Head(work).step = "complete"
    /\ report' = [report EXCEPT !.log = IF @ = "recording" THEN "complete" ELSE @]
    /\ work' = Tail(work)
    /\ UNCHANGED <<script, willing, waiting, wins, exit, inbox, stack, phase, result,
                   notes, fileVars, seen>>

TerminalStep ==
    /\ work # <<>> /\ Head(work).step = "terminal"
    /\ phase' = "done" /\ work' = <<>>
    /\ UNCHANGED <<script, willing, waiting, wins, exit, inbox, report, stack, result,
                   notes, fileVars, seen>>

\* The helper kills the session's process group, the engine with it.
Killed ==
    /\ phase \in {"run", "finish"}
    /\ phase' = "killed" /\ work' = <<>> /\ inbox' = <<>>
    /\ exit' = IF exit \in {"unborn", "alive"} THEN "bad" ELSE exit
    /\ torn' \in IF work # <<>> /\ Head(work).step = "append" THEN BOOLEAN ELSE {torn}
    /\ UNCHANGED <<script, willing, waiting, wins, report, stack, result, notes,
                   journal, temp, summary, seen>>

Next ==
    \/ StartEngine \/ Say \/ Reply \/ GiveUp \/ EngineExit
    \/ Serve \/ CommandEnds \/ Finish \/ Killed
    \/ ObserveStep \/ AppendStep \/ CreateStep \/ FillStep \/ RenameStep
    \/ CompleteStep \/ TerminalStep

Spec == Init /\ [][Next]_vars

-----------------------------------------------------------------------------
(* Properties.                                                             *)

Journalled(stage) == Event("end", Stage(stage), "success") \in ToSet(journal)

\* The files never say more than happened: the journal is the beginning of what
\* the recorder was given and nothing follows a torn line; summary.json is a
\* whole report whenever the supervisor is killed; a log called complete misses
\* nothing and ends with session.end; a summary of a log still recording credits
\* no stage whose end the journal lacks.
RecordsAgree ==
    /\ IsPrefix(journal, seen)
    /\ torn => report.log = "failed" \/ phase = "killed"
    /\ summary.state # "partial"
    /\ report.log = "complete" =>
          journal = seen /\ ~torn /\ Last(journal).kind = "session.end"
    /\ summary.report.log \in {"recording", "complete"} =>
          \A i \in 1..NStages : summary.report.status[Stage(i)] = "success" => Journalled(i)

\* records.valid_report: without it publish_report and the helper drop the report.
ValidReport(r) ==
    r.terminal = "success" =>
        /\ r.failed = 0 /\ r.cleanup = "success" /\ r.last = NStages
        /\ \A i \in 1..NStages : r.status[Stage(i)] = "success"

\* Lost and late observations never cost the user the report nor improve it: what
\* finish() returns is publishable, says success only of a session that ended with
\* 0, and of such a session says success or that it does not know, and the latter
\* only after the engine stopped observing.
ReportHonest ==
    phase = "done" =>
        /\ ValidReport(report)
        /\ report.terminal = "success" => wins /\ result = 0
        /\ result = 0 => report.terminal \in {"success", "unknown"}
        /\ report.terminal = "unknown" => ~willing
=============================================================================
