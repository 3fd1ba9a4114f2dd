------------------------ MODULE MCSessionSupervisor ------------------------
(* Model-checking instance of SessionSupervisor: a command with a time     *)
(* limit, one without, two NTFS transactions and one idle query, in every  *)
(* order.                                                                  *)
EXTENDS SessionSupervisor

CONSTANTS c1, c2, n1, n2, i1

MCCommands == {c1, c2}
MCTimed == {c1}
MCTransactions == {n1, n2}
MCRequests == {c1, c2, n1, n2, i1}

\* The transactions are interchangeable: a behaviour that issues them in the
\* other order is a renaming of one that issues them in this.  The commands are
\* not; the bound here is that the one with a time limit is issued first.
InOrder ==
    /\ pc[c2] # "unissued" => pc[c1] # "unissued"
    /\ pc[n2] # "unissued" => pc[n1] # "unissued"

\* Bound: one process at a time outlives the command or worker that forked it.
OneEscapee ==
    \A r, s \in Requests : stray[r] = "alive" /\ stray[s] = "alive" => r = s

\* The accept loop looks at stop when there is something to see: a behaviour in
\* which it looks earlier, or accept times out with nothing to stop, reaches the
\* same states without that round.
Prompt ==
    /\ srv = "check" /\ ~stop => ServerChecks
    /\ ServerTimesOut => stop

MCSpec == Init /\ [][Next /\ InOrder' /\ OneEscapee' /\ Prompt]_vars /\ Fairness
=============================================================================
