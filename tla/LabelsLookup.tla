---------------------------- MODULE LabelsLookup ----------------------------
(***************************************************************************)
(* EdgeDeviceLabelsReconciler.updateWorkloads, the lookup: for every index *)
(* key of the device the workloads filed under it are listed, and each one *)
(* not met before is matched against the device.  The keys come from a Go  *)
(* map, so their order is arbitrary; an invalid selector ends the loop     *)
(* with an error.  The question is whether the workloads the loop selects  *)
(* are those the EdgeWorkload controller places on the device, which finds *)
(* them the other way round (from the workload to its devices).            *)
(***************************************************************************)
EXTENDS SelectorIndex

CONSTANTS
    Workloads,    \* names of EdgeWorkloads
    Specs         \* the specs the workloads may have

ASSUME SpecsAssumption == Specs \subseteq WorkloadSpecs

VARIABLES
    specOf,     \* spec of every workload
    device,     \* name of the device being reconciled
    labels,     \* its labels
    todo,       \* index keys not looked up yet
    selected,   \* selectedWorkloads: the workloads met so far, TRUE if matching
    failed      \* the loop returned an error

vars == <<specOf, device, labels, todo, selected, failed>>
inputs == <<specOf, device, labels>>

Init ==
    /\ specOf \in [Workloads -> Specs]
    /\ device \in Devices
    /\ labels \in LabelMaps
    /\ todo = createSelectorLabelsMap(device, labels)
    /\ selected = [w \in {} |-> FALSE]
    /\ failed = FALSE

\* ListByLabel: the workloads indexed under key k, their labels up to date.
ListByLabel(k) == {w \in Workloads : k \in UpdateSelectorLabels(specOf[w])}

\* isWorkloadMatchDevice only parses the selector of a workload that does
\* not name this very device.
MatchFails(w) == specOf[w].device # device /\ ~ValidSelector(specOf[w])

\* Mutant: the map keeps the device a workload names, not whether it matches.
LookUpNaming(k) ==
    /\ ~failed
    /\ k \in todo
    /\ todo' = todo \ {k}
    /\ selected' = [w \in DOMAIN selected \cup ListByLabel(k) |-> specOf[w].device]
    /\ UNCHANGED <<inputs, failed>>

\* One turn of the outer loop.
LookUp(k) ==
    LET unseen == ListByLabel(k) \ DOMAIN selected
    IN  /\ ~failed
        /\ k \in todo
        /\ IF \E w \in unseen : MatchFails(w)
           THEN failed' = TRUE /\ UNCHANGED <<todo, selected>>
           ELSE /\ todo' = todo \ {k}
                /\ selected' = [w \in DOMAIN selected \cup unseen |->
                                  IF w \in unseen
                                  THEN isWorkloadMatchDevice(specOf[w], device, labels)
                                  ELSE selected[w]]
                /\ UNCHANGED failed
        /\ UNCHANGED inputs

Next == \E k \in todo : LookUp(k)

Spec == Init /\ [][Next]_vars

-----------------------------------------------------------------------------
Done == todo = {} /\ ~failed

TypeOK ==
    /\ specOf \in [Workloads -> Specs]
    /\ device \in Devices
    /\ labels \in LabelMaps
    /\ todo \subseteq createSelectorLabelsMap(device, labels)
    /\ DOMAIN selected \subseteq Workloads
    /\ \A w \in DOMAIN selected : selected[w] \in BOOLEAN
    /\ failed \in BOOLEAN

\* What edgeworkload_controller.go does: the device a workload names, else
\* those of its selector; an invalid selector is an error and places nothing.
Places(spec) ==
    /\ getMatchingEdgeDevices(spec, device, labels)
    /\ spec.device # NoDevice \/ ValidSelector(spec)

\* The blind spot of the index: nothing but NotIn requirements on labels the
\* device does not have, which it meets, but under whose keys it does not
\* look.  The empty selector, which selects every device, is one of these.
Missed(spec) ==
    /\ spec.device = NoDevice /\ spec.selector # NilSelector
    /\ \A r \in spec.selector :
         r.op = "NotIn" /\ r.key \notin createSelectorLabelsMap(device, labels)

\* A workload for another device whose name is also a label of this one: it
\* is looked up, and its selector, which the EdgeWorkload controller does not
\* read, decides.
Mistaken(spec) ==
    /\ spec.device \notin {NoDevice, device}
    /\ spec.device \in createSelectorLabelsMap(device, labels)
    /\ SelectorMatches(spec, labels)

\* LookupIsExact: when the lookup of edgedevicelabels_controller.go ends, the
\* workloads it selects are those that edgeworkload_controller.go places on
\* the device, in whatever order the keys come and whatever the specs are,
\* but for two kinds.  Missed are selectors with nothing but NotIn on labels
\* the device lacks, the empty selector among them; Mistaken are specs with a
\* device and a selector.  Any further difference would make the controllers
\* undo each other's placements.
LookupIsExact ==
    Done => \A w \in Workloads :
              LET spec == specOf[w]
              IN  (w \in DOMAIN selected /\ selected[w])
                      <=> (Places(spec) /\ ~Missed(spec)) \/ Mistaken(spec)
=============================================================================
