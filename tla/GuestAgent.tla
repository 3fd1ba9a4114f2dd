----------------------------- MODULE GuestAgent -----------------------------
(***************************************************************************)
(* The guest-agent client of the QEMU tests (linux/qga_client.py).  One    *)
(* serial channel outlives every client: a client that gave up leaves its  *)
(* questions, and answers to them, for the next, which must find its own.  *)
(***************************************************************************)
EXTENDS Naturals, SequencesExt

CONSTANT MaxClients    \* bound: clients one after another

ASSUME ClientsAssumption == MaxClients \in Nat \ {0}

VARIABLES
    client,     \* which client this is; its number is its token
    purpose,    \* "ready", "exec" or "submit"
    status,     \* "closed", "syncing", "idle", "asked", "done" or "failed"
    asked,      \* the call that waits for its answer
    pid,        \* the process it started, 0 for none
    delimited,  \* a delimiter has been seen
    buffer,     \* received, not yet read
    toAgent,    \* questions on their way
    toClient,   \* answers on their way, in pieces
    procs,      \* guest processes: [by, state]
    rebooted    \* since this client connected

agent == <<client, purpose, status, asked, pid, delimited, buffer, toAgent, toClient,
           procs, rebooted>>

-----------------------------------------------------------------------------
\* The bytes of an answer: a line in two pieces, with a delimiter before it when
\* it answers guest-sync-delimited.
Mark == [piece |-> "mark", of |-> <<>>]
Line(answer) == <<[piece |-> "head", of |-> answer], [piece |-> "tail", of |-> answer]>>
Sent(answer) == IF answer[1] = "sync" THEN <<Mark>> \o Line(answer) ELSE Line(answer)

Marks(s) == {i \in DOMAIN s : s[i] = Mark}
LineEnds(s) == {i \in DOMAIN s : s[i].piece = "tail"}
First(s) == CHOOSE i \in LineEnds(s) : \A j \in LineEnds(s) : i <= j
LineOf(s) == SubSeq(s, 1, First(s))
Rest(s) == SubSeq(s, First(s) + 1, Len(s))
IsAnswer(line) == Len(line) = 2 /\ line[1].piece = "head" /\ line[1].of = line[2].of

AgentInit ==
    /\ client = 0 /\ purpose = "ready" /\ status = "closed" /\ asked = "none" /\ pid = 0
    /\ delimited = FALSE /\ buffer = <<>> /\ toAgent = <<>> /\ toClient = <<>>
    /\ procs = <<>> /\ rebooted = FALSE

-----------------------------------------------------------------------------
\* Client.__init__: a fresh token.  Of what older clients left, any beginning may
\* have been lost with their connections.
Connect ==
    /\ status \in {"closed", "done", "failed"} /\ client < MaxClients
    /\ client' = client + 1 /\ status' = "syncing"
    /\ purpose' \in {"ready", "exec", "submit"}
    /\ \E lost \in 0..Len(toClient) : toClient' = SubSeq(toClient, lost + 1, Len(toClient))
    /\ toAgent' = Append(toAgent, <<"sync", client'>>)
    /\ asked' = "none" /\ pid' = 0 /\ delimited' = FALSE /\ buffer' = <<>>
    /\ rebooted' = FALSE
    /\ UNCHANGED procs

\* _synchronize: only what follows the last delimiter counts.
FindMark ==
    /\ status = "syncing" /\ Marks(buffer) # {}
    /\ \E i \in Marks(buffer) : /\ \A j \in Marks(buffer) : j <= i
                                /\ buffer' = SubSeq(buffer, i + 1, Len(buffer))
    /\ delimited' = TRUE
    /\ UNCHANGED <<client, purpose, status, asked, pid, toAgent, toClient, procs, rebooted>>

\* Mutant: any answer after a delimiter is taken for its own.
MineIsAny(line) == IsAnswer(line) /\ line[1].of[1] = "sync"
Mine(line) == IsAnswer(line) /\ line[1].of = <<"sync", client>>

ReadSyncLine ==
    /\ status = "syncing" /\ Marks(buffer) = {} /\ delimited /\ LineEnds(buffer) # {}
    /\ IF Mine(LineOf(buffer)) THEN status' = "idle" /\ UNCHANGED delimited
                               ELSE delimited' = FALSE /\ UNCHANGED status
    /\ buffer' = Rest(buffer)
    /\ UNCHANGED <<client, purpose, asked, pid, toAgent, toClient, procs, rebooted>>

Receive(kept) ==
    \E n \in 1..Len(toClient) :
        /\ buffer' = kept \o SubSeq(toClient, 1, n)
        /\ toClient' = SubSeq(toClient, n + 1, Len(toClient))

\* Mutant: what has been received is dropped whenever more is needed.
ReceiveSyncDropping ==
    /\ status = "syncing" /\ Marks(buffer) = {} /\ ~(delimited /\ LineEnds(buffer) # {})
    /\ Receive(<<>>)
    /\ UNCHANGED <<client, purpose, status, asked, pid, delimited, toAgent, procs, rebooted>>

ReceiveSync ==
    /\ status = "syncing" /\ Marks(buffer) = {} /\ ~(delimited /\ LineEnds(buffer) # {})
    /\ Receive(IF delimited THEN buffer ELSE <<>>)
    /\ UNCHANGED <<client, purpose, status, asked, pid, delimited, toAgent, procs, rebooted>>

\* call: guest-ping for "ready", guest-exec otherwise, then guest-exec-status until
\* the process has exited.
Call ==
    /\ status = "idle" /\ status' = "asked"
    /\ asked' = IF purpose = "ready" THEN "ping" ELSE IF pid = 0 THEN "exec" ELSE "status"
    /\ toAgent' = Append(toAgent, <<asked', IF asked' = "status" THEN pid ELSE client>>)
    /\ UNCHANGED <<client, purpose, pid, delimited, buffer, toClient, procs, rebooted>>

ReceiveReply ==
    /\ status = "asked" /\ LineEnds(buffer) = {}
    /\ Receive(buffer)
    /\ UNCHANGED <<client, purpose, status, asked, pid, delimited, toAgent, procs, rebooted>>

\* _reply, execute, wait: what an answer means is told from its shape alone.
Meaning(answer) ==
    IF answer[1] # asked THEN "failed"
    ELSE IF asked = "status"
         THEN IF answer[2] = "running" THEN "idle"
              ELSE IF answer[2] = "ok" THEN "done" ELSE "failed"
         ELSE IF asked = "exec" /\ purpose # "submit" THEN "idle" ELSE "done"

ReadReply ==
    /\ status = "asked" /\ LineEnds(buffer) # {}
    /\ LET line == LineOf(buffer)
       IN  /\ status' = IF IsAnswer(line) THEN Meaning(line[1].of) ELSE "failed"
           /\ pid' = IF IsAnswer(line) /\ asked = "exec" /\ line[1].of[1] = "exec"
                     THEN line[1].of[2] ELSE pid
    /\ buffer' = Rest(buffer)
    /\ UNCHANGED <<client, purpose, asked, delimited, toAgent, toClient, procs, rebooted>>

\* The deadline, or the socket's end: the client closes with its question open.
Close ==
    /\ status \in {"syncing", "idle", "asked"}
    /\ status' = "closed"
    /\ UNCHANGED <<client, purpose, asked, pid, delimited, buffer, toAgent, toClient, procs,
                   rebooted>>

-----------------------------------------------------------------------------
\* The agent answers in order; the guest's processes end, and the guest may reboot.
Answer ==
    /\ toAgent # <<>> /\ toAgent' = Tail(toAgent)
    /\ LET ask == Head(toAgent)
       IN  \/ /\ ask[1] = "exec"
              /\ procs' = Append(procs, [by |-> ask[2], state |-> "running"])
              /\ toClient' = toClient \o Sent(<<"exec", Len(procs')>>)
           \/ /\ ask[1] = "status"
              /\ toClient' = toClient \o Sent(<<"status", procs[ask[2]].state>>)
              /\ UNCHANGED procs
           \/ /\ ask[1] \in {"sync", "ping"}
              /\ toClient' = toClient \o Sent(ask)
              /\ UNCHANGED procs
    /\ UNCHANGED <<client, purpose, status, asked, pid, delimited, buffer, rebooted>>

ProcessEnds ==
    /\ \E p \in DOMAIN procs, state \in {"ok", "bad"} :
          /\ procs[p].state = "running"
          /\ procs' = [procs EXCEPT ![p].state = state]
    /\ UNCHANGED <<client, purpose, status, asked, pid, delimited, buffer, toAgent, toClient,
                   rebooted>>

Reboot ==
    /\ ~rebooted /\ rebooted' = TRUE
    /\ toAgent' = <<>>
    /\ procs' = [p \in DOMAIN procs |->
                   IF procs[p].state = "running"
                   THEN [procs[p] EXCEPT !.state = "bad"] ELSE procs[p]]
    /\ UNCHANGED <<client, purpose, status, asked, pid, delimited, buffer, toClient>>

AgentNext ==
    \/ Connect \/ FindMark \/ ReadSyncLine \/ ReceiveSync \/ Call \/ ReceiveReply
    \/ ReadReply \/ Close \/ Answer \/ ProcessEnds \/ Reboot

AgentSpec == AgentInit /\ [][AgentNext]_agent

-----------------------------------------------------------------------------
\* A client reports what its own process did, never what an older client's did:
\* success of exec is the exit with zero of the process this client started.
ReportsItsOwn ==
    /\ pid # 0 => procs[pid].by = client
    /\ status = "done" /\ purpose = "exec" => procs[pid].state = "ok"

\* The answer is in the stream, whole, right after a delimiter.
Ahead(answer) ==
    LET s == (IF delimited THEN <<Mark>> ELSE <<>>) \o buffer \o toClient
    IN  \E i \in 1..(Len(s) - 2) : SubSeq(s, i, i + 2) = <<Mark>> \o Line(answer)

\* However the bytes are cut into pieces, a client that synchronises never throws
\* its own answer away: until it is read, it is still to come, whole.
AnswerStillComes ==
    status = "syncing" /\ ~rebooted =>
        \/ Contains(toAgent, <<"sync", client>>)
        \/ Ahead(<<"sync", client>>)
=============================================================================
