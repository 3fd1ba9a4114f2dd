---------------------------- MODULE StorageCommit ----------------------------
(***************************************************************************)
(* What a shrink promises, whatever its steps do: the table is touched     *)
(* only around a file system that has its new size, neither goes back, and *)
(* the one verdict tells a success, a disk that was never touched and a    *)
(* table that was never touched from everything else.                      *)
(***************************************************************************)

VARIABLES
    volume,     \* the source file system: "old", "mixed" or "new"
    table,      \* the two GPT copies together: "old", "mixed" or "new"
    said        \* "none", or the verdict

vars == <<volume, table, said>>

Verdicts == {"success", "unchanged", "resized", "partial", "unknown"}

Init == volume = "old" /\ table = "old" /\ said = "none"

BeginResize ==
    /\ said = "none" /\ volume = "old"
    /\ volume' = "mixed" /\ UNCHANGED <<table, said>>

\* What was written may reach the medium after the verdict.
EndResize ==
    /\ volume = "mixed"
    /\ volume' = "new" /\ UNCHANGED <<table, said>>

BeginTable ==
    /\ said = "none" /\ volume = "new" /\ table = "old"
    /\ table' = "mixed" /\ UNCHANGED <<volume, said>>

EndTable ==
    /\ said = "none" /\ table = "mixed"
    /\ table' = "new" /\ UNCHANGED <<volume, said>>

Say ==
    /\ said = "none" /\ said' \in Verdicts
    /\ said' = "success" => table = "new"
    /\ said' = "unchanged" => volume = "old"
    /\ said' = "resized" => table = "old"
    /\ UNCHANGED <<volume, table>>

Next == BeginResize \/ EndResize \/ BeginTable \/ EndTable \/ Say

Spec == Init /\ [][Next]_vars
=============================================================================
