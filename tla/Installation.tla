---------------------------- MODULE Installation ----------------------------
(***************************************************************************)
(* What one installation promises its caller, whatever its stages do: the  *)
(* disk is touched only after the helper allowed it, a verdict is spoken   *)
(* once and last, success is said only of a written disk whose nine stages *)
(* are all behind it and below which nothing is mounted any more, and a    *)
(* cleanup reported clean left nothing mounted.                            *)
(***************************************************************************)

VARIABLES
    allowed,    \* the helper has let the first mutation through
    disk,       \* "untouched" or "written"
    held,       \* something of this installation is mounted
    complete,   \* all stages are behind it
    verdict     \* "none", or how it ended

vars == <<allowed, disk, held, complete, verdict>>

Init ==
    /\ allowed = FALSE /\ disk = "untouched" /\ held = FALSE
    /\ complete = FALSE /\ verdict = "none"

Allow ==
    /\ verdict = "none" /\ disk = "untouched"
    /\ allowed' = TRUE
    /\ UNCHANGED <<disk, held, complete, verdict>>

Write ==
    /\ verdict = "none" /\ allowed /\ ~complete
    /\ disk' = "written"
    /\ UNCHANGED <<allowed, held, complete, verdict>>

Hold ==
    /\ verdict = "none" /\ ~complete
    /\ held' \in BOOLEAN
    /\ UNCHANGED <<allowed, disk, complete, verdict>>

Complete ==
    /\ verdict = "none" /\ disk = "written"
    /\ held' = FALSE /\ complete' = TRUE
    /\ UNCHANGED <<allowed, disk, verdict>>

Succeed ==
    /\ verdict = "none" /\ complete /\ ~held
    /\ verdict' = "success"
    /\ UNCHANGED <<allowed, disk, held, complete>>

\* A failure says whether the mounts are gone.
Fail ==
    /\ verdict = "none"
    /\ held' \in {held, FALSE}
    /\ verdict' \in {"failed", "leaking"}
    /\ verdict' = "failed" => ~held'
    /\ UNCHANGED <<allowed, disk, complete>>

\* Killed: nothing is said, and the mounts go with their namespace.
Die ==
    /\ verdict = "none"
    /\ verdict' = "killed" /\ held' = FALSE
    /\ UNCHANGED <<allowed, disk, complete>>

Next == Allow \/ Write \/ Hold \/ Complete \/ Succeed \/ Fail \/ Die

Spec == Init /\ [][Next]_vars
=============================================================================
