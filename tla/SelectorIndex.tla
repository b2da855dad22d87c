--------------------------- MODULE SelectorIndex ---------------------------
(***************************************************************************)
(* Which devices an EdgeWorkload selects, and the index under which the    *)
(* labels controller looks workloads up.                                   *)
(*                                                                         *)
(* A workload's spec names one device or carries a label selector          *)
(* (api/v1alpha1, EdgeWorkloadSpec).  Two controllers decide placement     *)
(* from it: the EdgeWorkload controller asks the API server for the        *)
(* devices of the selector, the EdgeDeviceLabels controller asks an index  *)
(* for the workloads of a device and matches each of them.  A matchLabels  *)
(* entry k: v is the requirement "k In {v}": the two match alike and leave *)
(* the same selector label.                                                *)
(***************************************************************************)
CONSTANTS
    Devices,      \* names of EdgeDevices
    Keys,         \* keys of device labels, the workload/* labels left out
    Vals,         \* values of device labels
    Absent,       \* "this device has no label of this key"
    NoDevice,     \* spec.device is the empty string
    NilSelector   \* spec.deviceSelector is nil

ASSUME SelectorAssumption ==
    /\ Absent \notin Vals
    /\ NoDevice \notin Devices

LabelMaps == [Keys -> Vals \cup {Absent}]

Operators == {"In", "NotIn", "Exists", "DoesNotExist"}

Requirements == [key : Keys, op : Operators, vals : SUBSET Vals]

WorkloadSpecs ==
    [device   : Devices \cup {NoDevice},
     selector : (SUBSET Requirements) \cup {NilSelector}]

DoesNotExistLabel == "doesnotexist"

\* metav1.LabelSelectorAsSelector refuses In and NotIn without values, and
\* Exists and DoesNotExist with values.
ValidRequirement(r) == (r.vals = {}) <=> (r.op \in {"Exists", "DoesNotExist"})

ValidSelector(spec) ==
    spec.selector # NilSelector => \A r \in spec.selector : ValidRequirement(r)

\* NotIn also holds of a device that has no label of that key.
RequirementHolds(r, lab) ==
    \/ r.op = "In"           /\ lab[r.key] \in r.vals
    \/ r.op = "NotIn"        /\ lab[r.key] \notin r.vals
    \/ r.op = "Exists"       /\ lab[r.key] # Absent
    \/ r.op = "DoesNotExist" /\ lab[r.key] = Absent

SelectorMatches(spec, lab) ==
    /\ spec.selector # NilSelector
    /\ \A r \in spec.selector : RequirementHolds(r, lab)

\* The EdgeWorkload controller's view: the named device, else the selector's.
getMatchingEdgeDevices(spec, d, lab) ==
    IF spec.device # NoDevice THEN spec.device = d ELSE SelectorMatches(spec, lab)

\* The EdgeDeviceLabels controller's view.
isWorkloadMatchDevice(spec, d, lab) == spec.device = d \/ SelectorMatches(spec, lab)

\* Mutant: a DoesNotExist requirement is filed under its own key.
UpdateSelectorLabelsByKey(spec) ==
    IF spec.device # NoDevice THEN {spec.device}
    ELSE IF spec.selector = NilSelector THEN {}
    ELSE {r.key : r \in spec.selector}

\* The selector/* labels of a workload, as index keys: selector/devicename
\* is indexed under its value, any other label under its suffix.
UpdateSelectorLabels(spec) ==
    IF spec.device # NoDevice THEN {spec.device}
    ELSE IF spec.selector = NilSelector THEN {}
    ELSE {IF r.op = "DoesNotExist" THEN DoesNotExistLabel ELSE r.key : r \in spec.selector}

\* The index keys under which the labels controller looks a device up.
createSelectorLabelsMap(d, lab) ==
    {d, DoesNotExistLabel} \cup {k \in Keys : lab[k] # Absent}

=============================================================================
