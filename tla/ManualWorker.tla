---------------------------- MODULE ManualWorker ----------------------------
(***************************************************************************)
(* The process of linux/ro_installer_manual.py: its arguments choose one   *)
(* job, the probe of the partitions a manual plan reuses, or the budget of *)
(* an ESP.                                                                 *)
(***************************************************************************)
EXTENDS EfiBudget

CONSTANT MaxChanges    \* bound of ManualProbe: what other programs do

VARIABLES task, ask, disk, kernel, twin, mounted, todo, at, snapshot, fd, found, truth, changes

Probe == INSTANCE ManualProbe

probeVars == <<ask, disk, kernel, twin, mounted, todo, at, snapshot, fd, found, truth, changes>>
workerVars == <<task, vars, probeVars>>

Choose ==
    /\ task \in {"layout", "budget"} /\ Init /\ Probe!Init
    /\ task = "budget" =>      \* no partition is looked into
         /\ ask = [roles |-> {}, keeps |-> FALSE, admission |-> FALSE] /\ ~twin
         /\ \A r \in {"esp", "root"} : disk.content[r]["a"] = "fat"

Layout == task = "layout" /\ Probe!Next /\ UNCHANGED <<task, vars>>
Budget == task = "budget" /\ Next /\ UNCHANGED <<task, probeVars>>

Worker == Choose /\ [][Layout \/ Budget]_workerVars

-----------------------------------------------------------------------------
\* What ManualProbe promises of the partitions of a manual plan.
EligibleIsThePlans == Probe!EligibleIsThePlans
=============================================================================
