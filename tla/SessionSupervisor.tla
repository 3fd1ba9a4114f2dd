------------------------- MODULE SessionSupervisor -------------------------
(***************************************************************************)
(* The root session supervisor, linux/ro-installer-session: the parent of  *)
(* the engine, and the only process that starts commands and the NTFS      *)
(* storage worker.  Its threads:                                           *)
(*                                                                         *)
(*   run      waits for the engine, then closes and drains the session     *)
(*   serve    accepts connections, one client thread per request           *)
(*   client   one request: a command, an NTFS transaction or "idle"        *)
(*                                                                         *)
(* The engine (SessionCommandRunner) has at most one request open, but it  *)
(* may abandon one whose stream it can no longer use and go on, and it may *)
(* die at any time.  Children are processes: a command or worker may leave *)
(* descendants, which the supervisor, a subreaper, inherits.               *)
(***************************************************************************)
EXTENDS Naturals, Sequences, FiniteSets

CONSTANTS
    Requests,       \* bound: requests the engine may make, each at most once
    Commands,       \* those that run a command
    Timed,          \* the commands with a time limit (timeoutMs)
    Transactions,   \* those that ask for the NTFS transaction
    MaxThreads      \* serve's limit on live client threads (32 in the code)

Idles == Requests \ (Commands \cup Transactions)

ASSUME KindsAssumption ==
    /\ Commands \subseteq Requests /\ Transactions \subseteq Requests
    /\ Commands \cap Transactions = {} /\ Timed \subseteq Commands
ASSUME ThreadsAssumption == MaxThreads \in Nat \ {0}

None == "none"
ASSUME NoneAssumption == None \notin Requests

VARIABLES
    engine,     \* "alive" or "ended"
    exit,       \* its exit status
    current,    \* the request it is waiting for
    quiet,      \* its last answer was idle = true, nothing asked since
    abandoned,  \* requests whose connection it gave up
    told,       \* requests whose result reached it
    srv,        \* the accept loop: "check" stop, "accept", "stopped"
    backlog,    \* connections not accepted yet
    pc,         \* client thread of each request
    serial,     \* holder of the lock of the same name
    child,      \* direct child of each request's thread
    stray,      \* descendants that outlive it
    settled,    \* normalized outcome of each transaction
    accepting,  \* storage_accepting
    stop,       \* stop is set
    attempted,  \* ntfs_attempted
    active,     \* storage_active
    failed,     \* storage_failed
    mpc,        \* where run stands
    leaked,     \* run's flag of the same name
    result      \* what run returned

engineVars  == <<engine, exit, current, quiet, abandoned, told>>
serverVars  == <<srv, backlog>>
threadVars  == <<pc, serial, settled>>
processVars == <<child, stray>>
storageVars == <<accepting, stop, attempted, active, failed>>
mainVars    == <<mpc, leaked, result>>
vars == <<engineVars, serverVars, threadVars, processVars, storageVars,
          mainVars>>

Holding == {"spawn", "run", "sweep", "reply", "admit", "launch", "work",
            "clear", "conclude", "answer", "probe"}
Threads == {r \in Requests : pc[r] \in {"reading", "queued"} \cup Holding}

FlagType ==
    /\ quiet \in BOOLEAN /\ accepting \in BOOLEAN /\ stop \in BOOLEAN
    /\ attempted \in BOOLEAN /\ active \in BOOLEAN /\ failed \in BOOLEAN
    /\ leaked \in BOOLEAN

PlaceType ==
    /\ engine \in {"alive", "ended"} /\ exit \in {"none", "zero", "bad"}
    /\ current \in Requests \cup {None}
    /\ abandoned \subseteq Requests /\ told \subseteq Requests
    /\ srv \in {"check", "accept", "stopped"} /\ backlog \in Seq(Requests)
    /\ pc \in [Requests -> {"unissued", "backlog", "reading", "queued",
                            "done"} \cup Holding]
    /\ serial \in Requests \cup {None}
    /\ child \in [Requests -> {"none", "alive", "killed", "exited"}]
    /\ stray \in [Requests -> {"none", "alive", "zombie"}]
    /\ settled \in [Requests -> {"none", "success", "bad"}]
    /\ mpc \in {"wait", "extended", "storage", "descendants", "close",
                "server", "drain", "kill", "join", "reap", "returned"}
    /\ result \in {"none", "zero", "nine", "bad"}

TypeOK == FlagType /\ PlaceType

Init ==
    /\ engine = "alive" /\ exit = "none" /\ current = None /\ quiet = FALSE
    /\ abandoned = {} /\ told = {}
    /\ srv = "check" /\ backlog = <<>>
    /\ pc = [r \in Requests |-> "unissued"] /\ serial = None
    /\ child = [r \in Requests |-> "none"]
    /\ stray = [r \in Requests |-> "none"]
    /\ settled = [r \in Requests |-> "none"]
    /\ accepting = TRUE /\ stop = FALSE /\ attempted = FALSE
    /\ active = FALSE /\ failed = FALSE
    /\ mpc = "wait" /\ leaked = FALSE /\ result = "none"

-----------------------------------------------------------------------------
(* Engine.                                                                 *)

EngineIssues(r) ==
    /\ engine = "alive" /\ current = None /\ pc[r] = "unissued"
    /\ current' = r /\ quiet' = FALSE
    /\ pc' = [pc EXCEPT ![r] = "backlog"]
    /\ backlog' = Append(backlog, r)
    /\ UNCHANGED <<engine, exit, abandoned, told, srv, serial, settled,
                   processVars, storageVars, mainVars>>

\* An event it cannot parse, or a log callback that throws, while the request
\* is being served: the socket is destroyed and the caller sees a failure.
EngineAbandons(r) ==
    /\ engine = "alive" /\ current = r /\ pc[r] \in {"run", "work"}
    /\ abandoned' = abandoned \cup {r} /\ current' = None
    /\ UNCHANGED <<engine, exit, quiet, told, serverVars, threadVars,
                   processVars, storageVars, mainVars>>

\* The engine returns 0 only with every answer in; it can crash at any time.
EngineEnds ==
    /\ engine = "alive" /\ engine' = "ended"
    /\ \/ exit' = "zero" /\ current = None
       \/ exit' = "bad"
    /\ current' = None /\ quiet' = FALSE
    /\ UNCHANGED <<abandoned, told, serverVars, threadVars, processVars,
                   storageVars, mainVars>>

Lost(r) == engine = "ended" \/ r \in abandoned

\* What the engine learns when the thread of r writes its last line, or closes
\* the connection without one.
Answer(r, isIdle) ==
    IF Lost(r)
    THEN UNCHANGED engineVars
    ELSE /\ current' = None /\ quiet' = isIdle /\ told' = told \cup {r}
         /\ UNCHANGED <<engine, exit, abandoned>>

-----------------------------------------------------------------------------
(* Accept loop and client threads.                                         *)

ServerChecks ==
    /\ srv = "check"
    /\ srv' = IF stop THEN "stopped" ELSE "accept"
    /\ UNCHANGED <<engineVars, backlog, threadVars, processVars, storageVars,
                   mainVars>>

SocketOpen == mpc \in {"wait", "extended", "storage", "descendants", "close"}

\* A connection over the limit is closed at once.
ServerAccepts ==
    /\ srv = "accept" /\ SocketOpen /\ backlog # <<>>
    /\ srv' = "check" /\ backlog' = Tail(backlog)
    /\ LET r == Head(backlog) IN
       \/ /\ Cardinality(Threads) < MaxThreads
          /\ pc' = [pc EXCEPT ![r] = "reading"]
          /\ UNCHANGED engineVars
       \/ /\ Cardinality(Threads) >= MaxThreads
          /\ pc' = [pc EXCEPT ![r] = "done"]
          /\ Answer(r, FALSE)
    /\ UNCHANGED <<serial, settled, processVars, storageVars, mainVars>>

\* accept's 0.2 s timeout, or its error once run has closed the socket.
ServerTimesOut ==
    /\ srv = "accept"
    /\ srv' = "check"
    /\ UNCHANGED <<engineVars, backlog, threadVars, processVars, storageVars,
                   mainVars>>

\* Peer credentials, one whole frame, an unchanged private namespace; or
\* SESSION_ERROR.
ThreadReads(r) ==
    /\ pc[r] = "reading"
    /\ \/ pc' = [pc EXCEPT ![r] = "queued"] /\ UNCHANGED engineVars
       \/ pc' = [pc EXCEPT ![r] = "done"] /\ Answer(r, FALSE)
    /\ UNCHANGED <<serverVars, serial, settled, processVars, storageVars,
                   mainVars>>

Entry(r) == IF r \in Commands THEN "spawn"
            ELSE IF r \in Transactions THEN "admit" ELSE "probe"

\* Mutated form: the serial lock is not waited for.
ThreadEntersUnlocked(r) ==
    /\ pc[r] = "queued"
    /\ serial' = r
    /\ pc' = [pc EXCEPT ![r] = Entry(r)]
    /\ UNCHANGED <<engineVars, serverVars, settled, processVars, storageVars,
                   mainVars>>

ThreadEnters(r) ==
    /\ pc[r] = "queued" /\ serial = None
    /\ serial' = r
    /\ pc' = [pc EXCEPT ![r] = Entry(r)]
    /\ UNCHANGED <<engineVars, serverVars, settled, processVars, storageVars,
                   mainVars>>

Move(r, next) ==
    /\ pc' = [pc EXCEPT ![r] = next]
    /\ UNCHANGED <<serverVars, serial, settled, storageVars, mainVars>>

Leave(r) ==
    /\ pc' = [pc EXCEPT ![r] = "done"] /\ serial' = None
    /\ UNCHANGED <<serverVars, settled, mainVars>>

-----------------------------------------------------------------------------
(* Processes.                                                              *)

Descendants == {r \in Requests : child[r] # "none" \/ stray[r] # "none"}

Forking == {r \in Requests : child[r] = "alive" \/ stray[r] = "alive"}

\* SIGKILL for every descendant but the engine that one walk through /proc
\* finds: what a process forks behind the walk is missed.  A process that is
\* killed or has exited stays a descendant until its parent waits for it; for
\* strays that is run's last loop.
KillOwned ==
    /\ child' = [r \in Requests |->
                    IF child[r] = "alive" THEN "killed" ELSE child[r]]
    /\ \E missed \in SUBSET Forking :
          stray' = [r \in Requests |->
                       IF r \in missed THEN "alive"
                       ELSE IF stray[r] = "alive" THEN "zombie" ELSE stray[r]]

ChildExits(r) ==
    /\ child[r] = "alive"
    /\ child' = [child EXCEPT ![r] = "exited"]
    /\ stray' \in {stray, [stray EXCEPT ![r] = "alive"]}
    /\ UNCHANGED <<engineVars, serverVars, threadVars, storageVars, mainVars>>

StrayExits(r) ==
    /\ stray[r] = "alive"
    /\ stray' = [stray EXCEPT ![r] = "zombie"]
    /\ UNCHANGED <<engineVars, serverVars, threadVars, child, storageVars,
                   mainVars>>

-----------------------------------------------------------------------------
(* command(): spawn, wait, kill what it left, reply.                       *)

CommandSpawns(r) ==
    /\ pc[r] = "spawn"
    /\ \/ /\ child' = [child EXCEPT ![r] = "alive"] /\ Move(r, "run")
          /\ UNCHANGED <<engineVars, stray>>
       \/ /\ Leave(r) /\ Answer(r, FALSE)     \* started: false
          /\ UNCHANGED <<processVars, storageVars>>

\* The command is killed and waited for, what it forked stays.
CutShort(r) ==
    /\ pc[r] = "run" /\ child[r] = "alive"
    /\ child' = [child EXCEPT ![r] = "none"]
    /\ stray' \in {stray, [stray EXCEPT ![r] = "alive"]}
    /\ Move(r, "sweep") /\ UNCHANGED engineVars

\* process.wait(timeout) expired, status -124; timeoutMs may be null, and then
\* wait has no limit.
CommandTimesOut(r) == r \in Timed /\ CutShort(r)

\* Its input cannot be written: the finally clause kills it.
CommandLosesInput(r) == r \in Commands /\ CutShort(r)

\* A pump cannot forward output any more and kills the process.
CommandLosesPeer(r) ==
    /\ pc[r] = "run" /\ child[r] = "alive" /\ Lost(r)
    /\ child' = [child EXCEPT ![r] = "killed"]
    /\ stray' \in {stray, [stray EXCEPT ![r] = "alive"]}
    /\ UNCHANGED <<engineVars, serverVars, threadVars, storageVars, mainVars>>

CommandReaped(r) ==
    /\ pc[r] = "run" /\ child[r] \in {"exited", "killed"}
    /\ child' = [child EXCEPT ![r] = "none"]
    /\ Move(r, "sweep") /\ UNCHANGED <<engineVars, stray>>

\* kill_owned_children(exclude engine): status -125 if there was anything.
CommandSweeps(r) ==
    /\ pc[r] = "sweep" /\ KillOwned
    /\ Move(r, "reply") /\ UNCHANGED engineVars

\* The reply, then the finally clause: kill again, leave the serial section.
CommandReplies(r) ==
    /\ pc[r] = "reply" /\ Answer(r, FALSE) /\ KillOwned
    /\ Leave(r) /\ UNCHANGED storageVars

\* Mutated form: only direct children are looked at.
IdleRepliesShallow(r) ==
    /\ pc[r] = "probe" /\ Answer(r, \A s \in Requests : child[s] = "none")
    /\ Leave(r) /\ UNCHANGED <<processVars, storageVars>>

IdleReplies(r) ==
    /\ pc[r] = "probe" /\ Answer(r, Descendants = {})
    /\ Leave(r) /\ UNCHANGED <<processVars, storageVars>>

-----------------------------------------------------------------------------
(* ntfs_transaction(): one attempt, drained whatever happens to the peer.  *)

StorageMayStart == ~stop /\ accepting /\ ~attempted /\ ~failed

TransactionAdmitted(r) ==
    /\ pc[r] = "admit" /\ StorageMayStart
    /\ attempted' = TRUE /\ active' = TRUE
    /\ pc' = [pc EXCEPT ![r] = "launch"]
    /\ UNCHANGED <<engineVars, serverVars, serial, settled, processVars,
                   accepting, stop, failed, mainVars>>

TransactionRefused(r) ==
    /\ pc[r] = "admit" /\ ~StorageMayStart
    /\ failed' = TRUE
    /\ Leave(r) /\ Answer(r, FALSE)
    /\ UNCHANGED <<processVars, accepting, stop, attempted, active>>

\* Approval and target are checked again; a refusal has no process.
WorkerLaunched(r) ==
    /\ pc[r] = "launch"
    /\ \/ /\ child' = [child EXCEPT ![r] = "alive"] /\ Move(r, "work")
          /\ UNCHANGED <<engineVars, stray>>
       \/ /\ pc' = [pc EXCEPT ![r] = "conclude"]
          /\ settled' = [settled EXCEPT ![r] = "bad"]
          /\ UNCHANGED <<engineVars, serverVars, serial, processVars,
                         storageVars, mainVars>>

\* Its own deadline is the only thing that kills the worker.
WorkerTimesOut(r) ==
    /\ pc[r] = "work" /\ child[r] = "alive"
    /\ child' = [child EXCEPT ![r] = "none"]
    /\ stray' \in {stray, [stray EXCEPT ![r] = "alive"]}
    /\ pc' = [pc EXCEPT ![r] = "clear"]
    /\ settled' = [settled EXCEPT ![r] = "bad"]
    /\ UNCHANGED <<engineVars, serverVars, serial, storageVars, mainVars>>

WorkerReaped(r) ==
    /\ pc[r] = "work" /\ child[r] \in {"exited", "killed"}
    /\ child' = [child EXCEPT ![r] = "none"]
    /\ Move(r, "clear") /\ UNCHANGED <<engineVars, stray>>

\* Leftovers are killed and count as an error; otherwise the worker's line and
\* exit status decide (normalize_ntfs_outcome).
WorkerCleared(r) ==
    /\ pc[r] = "clear" /\ KillOwned
    /\ pc' = [pc EXCEPT ![r] = "conclude"]
    /\ settled' \in {[settled EXCEPT ![r] = o] :
            o \in IF settled[r] = "bad" \/ Descendants # {}
                  THEN {"bad"} ELSE {"success", "bad"}}
    /\ UNCHANGED <<engineVars, serverVars, serial, storageVars, mainVars>>

\* Mutated form: storage_active is cleared for a failure only.
TransactionConcludesActive(r) ==
    /\ pc[r] = "conclude"
    /\ failed' = (failed \/ settled[r] # "success")
    /\ active' = (settled[r] = "success")
    /\ pc' = [pc EXCEPT ![r] = "answer"]
    /\ UNCHANGED <<engineVars, serverVars, serial, settled, processVars,
                   accepting, stop, attempted, mainVars>>

TransactionConcludes(r) ==
    /\ pc[r] = "conclude"
    /\ failed' = (failed \/ settled[r] # "success") /\ active' = FALSE
    /\ pc' = [pc EXCEPT ![r] = "answer"]
    /\ UNCHANGED <<engineVars, serverVars, serial, settled, processVars,
                   accepting, stop, attempted, mainVars>>

\* Mutated form: an undelivered result is forgotten.
TransactionAnswersBlindly(r) ==
    /\ pc[r] = "answer" /\ Answer(r, FALSE)
    /\ Leave(r)
    /\ UNCHANGED <<processVars, accepting, stop, attempted, active, failed>>

\* A result that cannot be delivered fails the session.
TransactionAnswers(r) ==
    /\ pc[r] = "answer" /\ Answer(r, FALSE)
    /\ failed' = (failed \/ Lost(r))
    /\ Leave(r)
    /\ UNCHANGED <<processVars, accepting, stop, attempted, active>>

-----------------------------------------------------------------------------
(* run(): wait for the engine, then close, drain, kill, join, reap.        *)

Main(from, to) ==
    /\ mpc = from /\ mpc' = to
    /\ UNCHANGED <<engineVars, serverVars, threadVars>>

MainSeesExit ==
    /\ engine = "ended"
    /\ Main("wait", "storage") \/ Main("extended", "storage")
    /\ UNCHANGED <<processVars, storageVars, leaked, result>>

KillEngine ==
    /\ engine' = "ended" /\ exit' = "bad" /\ current' = None /\ quiet' = FALSE
    /\ UNCHANGED <<abandoned, told, serverVars, threadVars, processVars>>

\* BACKEND_TIMEOUT: an attempted transaction buys the engine the longer
\* NTFS_SESSION_TIMEOUT; otherwise storage is shut and the engine killed.
MainTimesOut ==
    /\ mpc = "wait" /\ engine = "alive"
    /\ \/ /\ attempted /\ mpc' = "extended"
          /\ UNCHANGED <<engineVars, serverVars, threadVars, processVars,
                         storageVars>>
       \/ /\ ~attempted /\ mpc' = "storage"
          /\ accepting' = FALSE /\ stop' = TRUE
          /\ KillEngine /\ UNCHANGED <<attempted, active, failed>>
    /\ UNCHANGED <<leaked, result>>

MainExtendedTimesOut ==
    /\ mpc = "extended" /\ engine = "alive" /\ mpc' = "storage"
    /\ KillEngine /\ UNCHANGED <<storageVars, leaked, result>>

MainChecksStorage ==
    /\ Main("storage", "descendants") /\ leaked' = active
    /\ UNCHANGED <<processVars, storageVars, result>>

MainChecksDescendants ==
    /\ Main("descendants", "close")
    /\ leaked' = (leaked \/ Descendants # {})
    /\ UNCHANGED <<processVars, storageVars, result>>

MainCloses ==
    /\ Main("close", "server") /\ accepting' = FALSE /\ stop' = TRUE
    /\ UNCHANGED <<processVars, attempted, active, failed, leaked, result>>

MainJoinsServer ==
    /\ srv = "stopped" /\ Main("server", "drain")
    /\ UNCHANGED <<processVars, storageVars, leaked, result>>

\* Mutated form: the transaction that runs is not waited for.
MainSkipsStorage ==
    /\ Main("drain", "kill")
    /\ UNCHANGED <<processVars, storageVars, leaked, result>>

MainDrainsStorage ==
    /\ ~active /\ Main("drain", "kill")
    /\ UNCHANGED <<processVars, storageVars, leaked, result>>

MainKills ==
    /\ Main("kill", "join") /\ KillOwned
    /\ UNCHANGED <<storageVars, leaked, result>>

\* Mutated form: client threads are not joined.
MainSkipsThreads ==
    /\ Main("join", "reap")
    /\ UNCHANGED <<processVars, storageVars, leaked, result>>

MainJoins ==
    /\ Threads = {} /\ Main("join", "reap")
    /\ UNCHANGED <<processVars, storageVars, leaked, result>>

\* waitpid(-1) until there is no child left.
MainReaps ==
    /\ \A r \in Requests : stray[r] # "alive"
    /\ Main("reap", "returned")
    /\ stray' = [r \in Requests |-> "none"]
    /\ result' = IF leaked \/ failed THEN "nine" ELSE exit
    /\ UNCHANGED <<child, storageVars, leaked>>

-----------------------------------------------------------------------------
EngineNext == EngineEnds \/ \E r \in Requests : EngineIssues(r)
                                             \/ EngineAbandons(r)
ServerNext == ServerChecks \/ ServerAccepts \/ ServerTimesOut
CommandNext(r) == \/ CommandSpawns(r) \/ CommandTimesOut(r)
                  \/ CommandReaped(r) \/ CommandSweeps(r) \/ CommandReplies(r)
StorageNext(r) == \/ TransactionAdmitted(r) \/ TransactionRefused(r)
                  \/ WorkerLaunched(r) \/ WorkerTimesOut(r) \/ WorkerReaped(r)
                  \/ WorkerCleared(r) \/ TransactionConcludes(r)
                  \/ TransactionAnswers(r)
ThreadNext(r) == \/ ThreadReads(r) \/ ThreadEnters(r) \/ IdleReplies(r)
                 \/ CommandNext(r) \/ StorageNext(r)
ProcessNext(r) == \/ ChildExits(r) \/ StrayExits(r)
                  \/ CommandLosesPeer(r) \/ CommandLosesInput(r)
MainNext == \/ MainSeesExit \/ MainTimesOut \/ MainExtendedTimesOut
            \/ MainChecksStorage \/ MainChecksDescendants \/ MainCloses
            \/ MainJoinsServer \/ MainDrainsStorage \/ MainKills \/ MainJoins
            \/ MainReaps

\* run has returned, and the process goes on to its report and exit.
Returned == mpc = "returned" /\ UNCHANGED vars

Next == \/ EngineNext \/ ServerNext \/ MainNext \/ Returned
        \/ \E r \in Requests : ThreadNext(r) \/ ProcessNext(r)

Spec == Init /\ [][Next]_vars

\* The thread waits for its output or its worker's (thread.join) while a process
\* that escaped the kill before may still hold the pipe.
PipeHeld(r) == pc[r] \in {"reply", "conclude"} /\ stray[r] = "alive"

\* Threads run and waits with a deadline expire.  Of processes nothing is
\* assumed, neither of the engine nor that a command or its descendant ends.
Fairness ==
    /\ WF_vars(ServerChecks) /\ WF_vars(ServerAccepts)
    /\ WF_vars(stop /\ ServerTimesOut) /\ WF_vars(MainNext)
    /\ \A r \in Requests : WF_vars(~PipeHeld(r) /\ ThreadNext(r))

FairSpec == Spec /\ Fairness

-----------------------------------------------------------------------------
(* What a place in the code tells about the rest: the inductive invariant  *)
(* of SessionSupervisorProofs.                                             *)

Running == {"run", "work"}
Attempting == {"launch", "work", "clear", "conclude", "answer"}
Serving == {"spawn", "run", "sweep", "reply"}

\* A thread is in its serial section exactly while it holds the lock, and only
\* there, between spawn and wait, does it have a child.
LockInv ==
    \A r \in Requests :
        /\ pc[r] \in Holding <=> serial = r
        /\ child[r] # "none" => pc[r] \in Running
        /\ pc[r] \in Serving => r \in Commands
        /\ pc[r] \in Attempting \cup {"admit"} => r \in Transactions

\* One transaction at most is ever begun; while it has a worker to come, running
\* or to be cleared, storage is active; what became of it is kept.
Tried(r) == pc[r] \in Attempting \/ settled[r] # "none"
StorageInv ==
    /\ \A r \in Requests :
        /\ Tried(r) => attempted
        /\ pc[r] \in Attempting \ {"answer"} => active
        /\ settled[r] # "none" =>
              /\ pc[r] \in {"clear", "conclude", "answer", "done"}
              /\ \/ pc[r] \in {"clear", "conclude"} \/ failed
                 \/ settled[r] = "success" /\ (pc[r] = "answer" \/ r \in told)
    /\ \A r, s \in Requests : Tried(r) /\ Tried(s) => r = s

\* The engine waits for one request at a time; another that is under way was
\* abandoned in its serial section.
EngineInv ==
    /\ current # None => engine = "alive"
    /\ engine = "alive" => \A r \in Requests :
          \/ pc[r] \in {"unissued", "done"} \/ r = current
          \/ r \in abandoned /\ pc[r] \in Holding

BacklogInv ==
    /\ Len(backlog) <= 1
    /\ Len(backlog) = 1 => pc[backlog[1]] = "backlog"

QuietInv ==
    quiet => /\ engine = "alive" /\ current = None
             /\ \A r \in Requests : /\ pc[r] \in {"unissued", "done"}
                                    /\ child[r] = "none" /\ stray[r] = "none"

\* What each step of the shutdown may rely on.
MainInv ==
    /\ mpc \notin {"wait", "extended"} => engine = "ended"
    /\ mpc \in {"server", "drain", "kill", "join", "reap", "returned"} => stop /\ ~accepting
    /\ mpc \in {"drain", "kill", "join", "reap", "returned"} => srv = "stopped"
    /\ mpc \in {"kill", "join", "reap", "returned"} => ~active
    /\ mpc \in {"reap", "returned"} => Threads = {}
    /\ mpc = "returned" => \A r \in Requests : stray[r] = "none"
    /\ result = "zero" => mpc = "returned" /\ exit = "zero" /\ ~leaked /\ ~failed

IInv ==
    /\ TypeOK /\ LockInv /\ StorageInv /\ EngineInv /\ BacklogInv /\ QuietInv /\ MainInv

-----------------------------------------------------------------------------
(* What the supervisor promises.                                           *)

\* run returns, and with it the namespace, the power inhibitor and the lease
\* are given up, only when no command, worker or descendant of one is left,
\* even one whose request was still queued when the engine died.
NothingOutlivesRun ==
    mpc = "returned" =>
        \A r \in Requests : child[r] = "none" /\ stray[r] = "none"
                            /\ pc[r] \in {"unissued", "backlog", "done"}

\* Two requests never have a process at the same time, also when the engine
\* gave one of them up (Supervisor.serial).
OneAtATime ==
    \A r, s \in Requests :
        r # s => child[r] = "none" \/ child[s] = "none"

\* A storage worker is never killed by a command's cleanup, by the engine's
\* death or timeout, or by the session's end: only by its own deadline.
WorkerNeverCancelled ==
    [][\A r \in Transactions :
        child[r] = "alive" => child'[r] # "killed"]_vars

\* The session starts the storage worker at most once (ntfs_attempted).
SingleAttempt ==
    \A r, s \in Transactions :
        r # s => pc[r] \notin {"launch", "work", "clear", "conclude", "answer"}
                 \/ settled[s] = "none"

\* Exit status 0 means the engine succeeded, nothing ran on behind it when it
\* ended, and every transaction that was begun succeeded and was heard of.
HonestStatus ==
    result = "zero" =>
        /\ exit = "zero" /\ ~leaked
        /\ \A r \in Transactions :
              settled[r] # "none" => settled[r] = "success" /\ r \in told

\* What the session's status says of its storage: one attempt, and its outcome.
StatusAccounts == SingleAttempt /\ HonestStatus

\* Cleanup relies on the answer idle = true: until the engine asks for
\* something else, no process of the session touches the target.
IdleMeansQuiet ==
    quiet => Descendants = {}

\* Once the storage session has been shut, no worker is started any more:
\* drain in run cannot be overtaken by a late request.
NoLateWorker ==
    [][\A r \in Transactions :
        mpc \in {"kill", "join", "reap", "returned"} =>
            ~(child[r] = "none" /\ child'[r] = "alive")]_vars

\* A storage worker that runs is left alone, and none starts behind the drain.
WorkerSpared == WorkerNeverCancelled /\ NoLateWorker

\* A process that nothing in the session ends any more holds it up: one that
\* escaped the last kill, at the pipes or at waitpid, or a command without a time
\* limit whose thread got the lock only behind that kill.
HeldUp ==
    \/ mpc \in {"drain", "join"} /\ \E r \in Requests : PipeHeld(r)
    \/ mpc = "join" /\ \E r \in Commands \ Timed : child[r] = "alive"
    \/ mpc = "reap" /\ \E r \in Requests : stray[r] = "alive"

\* Whatever the engine and the processes do, the session ends, or one of these
\* three waits keeps it for ever (process.wait, thread.join and waitpid have no
\* deadline there; only a helper's kills the group then).
SessionReturns == <>(mpc = "returned") \/ <>[]HeldUp
=============================================================================
