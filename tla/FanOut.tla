------------------------------- MODULE FanOut -------------------------------
(***************************************************************************)
(* One call of executeConcurrent: the list of devices is put together      *)
(* (merge), cut into at most Concurrency slices (splitEdgeDevices), one    *)
(* goroutine per slice calls f, and the errors of all of them are joined   *)
(* (ExecuteConcurrent, edgeworkload_controller.go; the EdgeConfig          *)
(* controller is given the same function).                                 *)
(*                                                                         *)
(* Slices are Go's: [from |-> a, to |-> b] stands for the devices at the   *)
(* positions a+1 .. b of the list.                                         *)
(***************************************************************************)
EXTENDS Integers, Sequences, FiniteSets

CONSTANTS
    Devices,         \* names of devices
    MatchingLists,   \* what getMatchingEdgeDevices may return
    LabelledLists,   \* what getLabelledEdgeDevices may return
    Concurrencies    \* values of EDGEWORKLOAD_CONCURRENCY

\* A listing names a device once.
Distinct(list) == \A i, j \in 1..Len(list) : list[i] = list[j] => i = j

ASSUME ListsAssumption ==
    /\ MatchingLists \subseteq Seq(Devices) /\ \A list \in MatchingLists : Distinct(list)
    /\ LabelledLists \subseteq Seq(Devices) /\ \A list \in LabelledLists : Distinct(list)

\* cmd/manager exits when the variable is 0.
ASSUME ConcurrencyAssumption == Concurrencies \subseteq Nat \ {0}

VARIABLES
    call,        \* the arguments: [op, matching, labelled, concurrency]
    pc,          \* "merge", "split", "slice", "run" or "done"
    edgeDevices, \* the list that is cut
    merged,      \* how many labelled devices merge has looked at
    usedLen, residueLen, inputs,   \* the locals of splitEdgeDevices
    next,        \* next[i]: how far goroutine i is, as a position in the list
    errs,        \* goroutines with a non-empty list of errors
    returned,    \* goroutines that called wg.Done
    visited,     \* how often f was applied to each device
    cancelled,   \* the context of the reconciliation was cancelled
    answer       \* "none" yet, "ok" or "errors"

vars == <<call, pc, edgeDevices, merged, usedLen, residueLen, inputs, next, errs,
          returned, visited, cancelled, answer>>

split == <<usedLen, residueLen, inputs>>
run   == <<next, errs, returned, visited>>

Elems(list) == {list[i] : i \in 1..Len(list)}
sLen        == Len(edgeDevices)
splitLen    == sLen \div call.concurrency
\* The devices the operation is about.
Targets == CASE call.op = "add"   -> Elems(call.matching)
             [] call.op = "prune" -> Elems(call.labelled)
             [] OTHER             -> Elems(call.matching) \cup Elems(call.labelled)

\* addWorkloadsToDevices and removeWorkloadFromNonMatchingDevices get one of
\* the two lists; finalizeRemoval gets merge of both.
Init ==
    /\ call \in [op : {"add", "prune", "finalize"}, matching : MatchingLists,
                 labelled : LabelledLists, concurrency : Concurrencies]
    /\ edgeDevices = IF call.op = "prune" THEN call.labelled ELSE call.matching
    /\ pc = IF call.op = "finalize" THEN "merge" ELSE "split"
    /\ merged = 0
    /\ usedLen = 0 /\ residueLen = 0 /\ inputs = <<>>
    /\ next = <<>> /\ errs = {} /\ returned = {}
    /\ visited = [d \in Devices |-> 0]
    /\ cancelled = FALSE
    /\ answer = "none"

-----------------------------------------------------------------------------
(* merge: the labelled devices that do not match are appended.             *)

FreshAlways(d) == TRUE

Fresh(d) == d \notin Elems(call.matching)

Merge ==
    /\ pc = "merge" /\ merged < Len(call.labelled)
    /\ merged' = merged + 1
    /\ LET d == call.labelled[merged + 1]
       IN edgeDevices' = IF Fresh(d) THEN Append(edgeDevices, d) ELSE edgeDevices
    /\ UNCHANGED <<call, pc, split, run, cancelled, answer>>

Merged ==
    /\ pc = "merge" /\ merged = Len(call.labelled)
    /\ pc' = "split"
    /\ UNCHANGED <<call, edgeDevices, merged, split, run, cancelled, answer>>

-----------------------------------------------------------------------------
(* executeConcurrent and splitEdgeDevices.                                 *)

Spawn(slices) ==
    /\ pc' = "run"
    /\ inputs' = slices
    /\ next' = [i \in 1..Len(slices) |-> slices[i].from]
    /\ UNCHANGED <<call, edgeDevices, merged, errs, returned, visited, cancelled, answer>>

\* With a concurrency of 1, f gets the whole list.
CallDirectly ==
    /\ pc = "split" /\ call.concurrency = 1
    /\ Spawn(<<[from |-> 0, to |-> sLen]>>)
    /\ UNCHANGED <<usedLen, residueLen>>

\* ExecuteConcurrent has nothing to do for an empty list.
NoDevices ==
    /\ pc = "split" /\ call.concurrency # 1 /\ sLen = 0
    /\ pc' = "done" /\ answer' = "ok"
    /\ UNCHANGED <<call, edgeDevices, merged, split, run, cancelled>>

ResidueOfLen == sLen - splitLen

\* What splitEdgeDevices has left over after equal slices.
Residue == sLen - splitLen * call.concurrency

StartSplit ==
    /\ pc = "split" /\ call.concurrency # 1 /\ sLen # 0
    /\ pc' = "slice"
    /\ residueLen' = Residue
    /\ UNCHANGED <<call, edgeDevices, merged, usedLen, inputs, run, cancelled, answer>>

ResidueAlways == 1

ResidueExtra == IF residueLen > 0 THEN 1 ELSE 0

\* One pass of the loop: the next slice, one longer while there is a residue.
Slice ==
    /\ pc = "slice" /\ usedLen < sLen
    /\ usedLen' = usedLen + splitLen + ResidueExtra
    /\ residueLen' = residueLen - ResidueExtra
    /\ inputs' = Append(inputs, [from |-> usedLen, to |-> usedLen'])
    /\ UNCHANGED <<call, pc, edgeDevices, merged, run, cancelled, answer>>

StartWorkers ==
    /\ pc = "slice" /\ usedLen >= sLen
    /\ Spawn(inputs)
    /\ UNCHANGED <<usedLen, residueLen>>

-----------------------------------------------------------------------------
(* The goroutines: f over one slice each.                                  *)

\* removeWorkloadFromDevices does not look at the context.
Cancellable == call.op # "finalize"

Working(i) == pc = "run" /\ i \in (1..Len(inputs)) \ returned

\* f handles the next device of its slice; one that still matches is left
\* alone by removeWorkloadFromNonMatchingDevices, on others a call may fail.
Handle(i) ==
    /\ Working(i) /\ next[i] < inputs[i].to
    /\ ~(cancelled /\ Cancellable)
    /\ LET d == edgeDevices[next[i] + 1]
       IN /\ visited' = [visited EXCEPT ![d] = @ + 1]
          /\ errs' \in {errs} \cup
                (IF call.op = "prune" /\ ~Fresh(d) THEN {} ELSE {errs \cup {i}})
    /\ next' = [next EXCEPT ![i] = @ + 1]
    /\ UNCHANGED <<call, pc, edgeDevices, merged, split, returned, cancelled, answer>>

StopSilently(i) ==
    /\ Working(i) /\ next[i] < inputs[i].to
    /\ cancelled /\ Cancellable
    /\ returned' = returned \cup {i}
    /\ UNCHANGED <<call, pc, edgeDevices, merged, split, next, errs, visited, cancelled, answer>>

StopNotDone(i) ==
    /\ Working(i) /\ next[i] < inputs[i].to
    /\ cancelled /\ Cancellable
    /\ errs' = errs \cup {i}
    /\ UNCHANGED <<call, pc, edgeDevices, merged, split, next, returned, visited, cancelled, answer>>

\* The rest of the slice is given up with one error.
StopOnCancel(i) ==
    /\ Working(i) /\ next[i] < inputs[i].to
    /\ cancelled /\ Cancellable
    /\ errs' = errs \cup {i}
    /\ returned' = returned \cup {i}
    /\ UNCHANGED <<call, pc, edgeDevices, merged, split, next, visited, cancelled, answer>>

Finish(i) ==
    /\ Working(i) /\ next[i] >= inputs[i].to
    /\ returned' = returned \cup {i}
    /\ UNCHANGED <<call, pc, edgeDevices, merged, split, next, errs, visited, cancelled, answer>>

\* wg.Wait, then the lists of errors are joined.
Collect ==
    /\ pc = "run" /\ returned = 1..Len(inputs)
    /\ pc' = "done"
    /\ answer' = IF errs = {} THEN "ok" ELSE "errors"
    /\ UNCHANGED <<call, edgeDevices, merged, split, run, cancelled>>

\* The manager is shut down: the context is cancelled.
Cancel ==
    /\ pc = "run" /\ ~cancelled
    /\ cancelled' = TRUE
    /\ UNCHANGED <<call, pc, edgeDevices, merged, split, run, answer>>

Worker(i) == Handle(i) \/ StopOnCancel(i) \/ Finish(i)

Caller == \/ Merge \/ Merged \/ CallDirectly \/ NoDevices \/ StartSplit
          \/ Slice \/ StartWorkers \/ Collect

Next == Caller \/ Cancel \/ \E i \in 1..Len(inputs) : Worker(i)

Spec == Init /\ [][Next]_vars

\* The Go scheduler runs every goroutine that can take a step.
FairSpec == Spec /\ WF_vars(Caller) /\ \A i \in 1..(Cardinality(Devices) + 1) : WF_vars(Worker(i))

-----------------------------------------------------------------------------
(* Properties.                                                             *)

TypeOK ==
    /\ call \in [op : {"add", "prune", "finalize"}, matching : MatchingLists,
                 labelled : LabelledLists, concurrency : Concurrencies]
    /\ pc \in {"merge", "split", "slice", "run", "done"}
    /\ edgeDevices \in Seq(Devices)
    /\ merged \in 0..Len(call.labelled)
    /\ usedLen \in Nat /\ residueLen \in Nat
    /\ inputs \in Seq([from : Nat, to : Nat])
    /\ next \in Seq(Nat)
    /\ errs \subseteq 1..Len(inputs) /\ returned \subseteq 1..Len(inputs)
    /\ visited \in [Devices -> Nat]
    /\ cancelled \in BOOLEAN
    /\ answer \in {"none", "ok", "errors"}

\* GoodSlices: no slice reaches past the list (Go would panic), there are at
\* most Concurrency of them, and their lengths differ by one at most.
GoodSlices ==
    /\ Len(inputs) <= call.concurrency
    /\ \A i \in 1..Len(inputs) :
         /\ inputs[i].from <= inputs[i].to /\ inputs[i].to <= sLen
         /\ inputs[i].to - inputs[i].from \in splitLen .. splitLen + 1

\* VisitedOnce: no device is handled twice in one call, so no two goroutines
\* write the same device.
VisitedOnce == \A d \in Devices : visited[d] <= 1

\* The mapping onto VisitAll: what is left, whether there was an error, and
\* the answer.
todo   == {d \in Targets : visited[d] = 0}
failed == errs # {}

Abstract == INSTANCE VisitAll WITH todo <- todo, failed <- failed, answer <- answer

\* ImplementsVisitAll: the call does what the reconciliation expects of it: an
\* answer without errors means that every device was handled, whatever the
\* slices, the interleaving and the moment of a cancellation.
ImplementsVisitAll == Abstract!Spec

\* Terminates: the call returns: the loop of splitEdgeDevices ends and the
\* WaitGroup is never left waiting.
Terminates == <>(answer # "none")
=============================================================================
