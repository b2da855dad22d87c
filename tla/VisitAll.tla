------------------------------ MODULE VisitAll ------------------------------
(***************************************************************************)
(* What a reconciliation expects of executeConcurrent                      *)
(* (edgeworkload_controller.go, edgeconfig_controller.go): every device of *)
(* the list is handled once, in any order, and an answer without errors    *)
(* means that all of them were.  The number of goroutines, the chunks they *)
(* work on and the order within a chunk are no part of it.                 *)
(*                                                                         *)
(* Placement and Playbooks rest on this: they let the devices of one list  *)
(* be visited in any order.  FanOut is shown to implement it.              *)
(***************************************************************************)
CONSTANTS Devices

VARIABLES
    todo,     \* the devices not handled yet
    failed,   \* some call failed, or the context was cancelled
    answer    \* what the reconciliation gets: "none" yet, "ok" or "errors"

vars == <<todo, failed, answer>>

Init ==
    /\ todo \in SUBSET Devices
    /\ failed = FALSE
    /\ answer = "none"

\* f handles one device and reports whether a call failed.
Visit(d) ==
    /\ answer = "none"
    /\ d \in todo
    /\ todo' = todo \ {d}
    /\ failed' \in {failed, TRUE}
    /\ UNCHANGED answer

\* f stops because the context is cancelled: that too is an error.
GiveUp ==
    /\ answer = "none"
    /\ failed' = TRUE
    /\ UNCHANGED <<todo, answer>>

\* The caller only learns that there were no errors when nothing is left.
Return ==
    /\ answer = "none"
    /\ todo = {} \/ failed
    /\ answer' = IF failed THEN "errors" ELSE "ok"
    /\ UNCHANGED <<todo, failed>>

Next == (\E d \in Devices : Visit(d)) \/ GiveUp \/ Return

Spec == Init /\ [][Next]_vars
=============================================================================
