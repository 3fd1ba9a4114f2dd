--------------------------- MODULE MCMutationGate ---------------------------
(* Model-checking instance of MutationGate. *)
EXTENDS MutationGate

CONSTANTS t1, t2

MCTables == {t1, t2}

\* Tables are only compared for equality: a behaviour that begins with t2 is a
\* renaming of one that begins with t1.  One that begins with the last medium is
\* the tail of one in which it replaced another.
MCInit == Init /\ disk = 1 /\ table = t1

MCSpec == MCInit /\ [][Next]_vars /\ Fairness
=============================================================================
