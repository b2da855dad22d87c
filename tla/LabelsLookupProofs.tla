------------------------ MODULE LabelsLookupProofs ------------------------
(***************************************************************************)
(* LookupIsExact for every set of devices, labels, workloads and specs.    *)
(*                                                                         *)
(* The invariant says what the loop of updateWorkloads has done so far:    *)
(* the workloads of every key that was looked up are known, and a known    *)
(* workload is marked with whether it matches.  At the end of the loop     *)
(* that leaves facts about the index: a workload that selects the device   *)
(* is filed under at least one key of the device unless it is Missed, and  *)
(* then under none.                                                        *)
(***************************************************************************)
EXTENDS LabelsLookup, TLAPS

\* A workload with this spec has an index key in common with the device.
Filed(spec) == UpdateSelectorLabels(spec) \cap createSelectorLabelsMap(device, labels) # {}

\* Known workloads carry the answer of isWorkloadMatchDevice, they were
\* parsed, and they are filed under a key of the device.
KnownIsMatched ==
    \A w \in DOMAIN selected :
        /\ selected[w] = isWorkloadMatchDevice(specOf[w], device, labels)
        /\ ~MatchFails(w)
        /\ Filed(specOf[w])

\* The workloads filed under a key that was looked up are known.
LookedUpIsKnown ==
    \A w \in Workloads :
        \A k \in createSelectorLabelsMap(device, labels) \ todo :
            k \in UpdateSelectorLabels(specOf[w]) => w \in DOMAIN selected

IInv == TypeOK /\ KnownIsMatched /\ LookedUpIsKnown

\* What UpdateSelectorLabels and createSelectorLabelsMap have in common for a
\* workload without a device: it is filed under a key of the device it
\* selects exactly if it is not Missed.
LEMMA SelectedIsFiled ==
    ASSUME NEW spec \in WorkloadSpecs, labels \in LabelMaps,
           spec.device = NoDevice, SelectorMatches(spec, labels)
    PROVE  Filed(spec) <=> ~Missed(spec)
<1> DEFINE keys == createSelectorLabelsMap(device, labels)
<1>1. spec.selector # NilSelector /\ \A r \in spec.selector : RequirementHolds(r, labels)
  BY DEF SelectorMatches
<1>2. spec.selector \subseteq Requirements
  BY <1>1 DEF WorkloadSpecs
<1>3. UpdateSelectorLabels(spec) =
        {IF q.op = "DoesNotExist" THEN DoesNotExistLabel ELSE q.key : q \in spec.selector}
  BY <1>1 DEF UpdateSelectorLabels
<1>4. DoesNotExistLabel \in keys
  BY DEF createSelectorLabelsMap
<1>5. ASSUME NEW r \in spec.selector, r.op \in {"In", "Exists"}
      PROVE  r.key \in keys
  <2>1. r.key \in Keys /\ r.vals \subseteq Vals
    BY <1>2, <1>5 DEF Requirements
  <2>2. labels[r.key] # Absent
    BY <1>1, <1>5, <2>1, SelectorAssumption DEF RequirementHolds
  <2> QED BY <2>1, <2>2 DEF createSelectorLabelsMap
<1>6. ASSUME Missed(spec) PROVE ~Filed(spec)
  <2>1. \A r \in spec.selector : r.op = "NotIn" /\ r.key \notin keys
    BY <1>6 DEF Missed
  <2> QED BY <1>3, <2>1 DEF Filed
<1>7. ASSUME ~Missed(spec) PROVE Filed(spec)
  <2>1. PICK r \in spec.selector : r.op # "NotIn" \/ r.key \in keys
    BY <1>1, <1>7 DEF Missed
  <2>2. r.op \in Operators
    BY <1>2, <2>1 DEF Requirements
  <2>3. CASE r.op = "DoesNotExist"
    BY <1>3, <1>4, <2>1, <2>3 DEF Filed
  <2>4. CASE r.op # "DoesNotExist"
    <3>1. r.key \in keys
      BY <1>5, <2>1, <2>2, <2>4 DEF Operators
    <3>2. r.key \in UpdateSelectorLabels(spec)
      BY <1>3, <2>1, <2>4
    <3> QED BY <3>1, <3>2 DEF Filed
  <2> QED BY <2>3, <2>4
<1> QED BY <1>6, <1>7

\* A workload that names a device is filed under that name alone, so the
\* lookup finds it for the device it names, or by mistake.
LEMMA NamedIsFiled ==
    ASSUME NEW spec, spec.device # NoDevice
    PROVE  Filed(spec) <=> spec.device \in createSelectorLabelsMap(device, labels)
BY DEF Filed, UpdateSelectorLabels

LEMMA InitEstablishes == Init => IInv
BY DEF Init, IInv, TypeOK, KnownIsMatched, LookedUpIsKnown

\* What is said of a known workload depends on the inputs of the loop alone.
LEMMA InputsDecide ==
    ASSUME UNCHANGED <<specOf, device, labels>>, NEW w
    PROVE  /\ isWorkloadMatchDevice(specOf[w], device, labels)'
                <=> isWorkloadMatchDevice(specOf[w], device, labels)
           /\ MatchFails(w)' <=> MatchFails(w)
           /\ Filed(specOf[w])' <=> Filed(specOf[w])
BY DEF isWorkloadMatchDevice, SelectorMatches, RequirementHolds, MatchFails, ValidSelector,
       ValidRequirement, Filed, UpdateSelectorLabels, createSelectorLabelsMap

\* A turn of the loop keeps the invariant, whichever key it takes.
LEMMA LookUpPreserves ==
    ASSUME IInv, NEW k \in todo, LookUp(k)
    PROVE  IInv'
<1> DEFINE unseen == ListByLabel(k) \ DOMAIN selected
<1>1. UNCHANGED <<specOf, device, labels>>
  BY DEF LookUp, inputs
<1>2. CASE \E w \in unseen : MatchFails(w)
  <2>1. UNCHANGED <<todo, selected>> /\ failed' = TRUE
    BY <1>2 DEF LookUp
  <2>2. KnownIsMatched'
    BY <1>1, <2>1, InputsDecide DEF IInv, KnownIsMatched, isWorkloadMatchDevice
  <2> QED
    BY <1>1, <2>1, <2>2 DEF IInv, TypeOK, LookedUpIsKnown, createSelectorLabelsMap,
                            UpdateSelectorLabels
<1>3. CASE ~ \E w \in unseen : MatchFails(w)
  <2>1. /\ todo' = todo \ {k}
        /\ selected' = [w \in DOMAIN selected \cup unseen |->
                          IF w \in unseen
                          THEN isWorkloadMatchDevice(specOf[w], device, labels)
                          ELSE selected[w]]
        /\ failed' = failed
    BY <1>3 DEF LookUp
  <2>2. DOMAIN selected' = DOMAIN selected \cup ListByLabel(k)
    BY <2>1
  <2>3. \A w \in DOMAIN selected' : selected'[w] = isWorkloadMatchDevice(specOf[w], device, labels)
    BY <2>1, <2>2 DEF IInv, KnownIsMatched
  <2>4. \A w \in DOMAIN selected' : selected'[w] \in BOOLEAN
    BY <2>3 DEF isWorkloadMatchDevice
  <2>5. TypeOK'
    BY <1>1, <2>1, <2>2, <2>4 DEF IInv, TypeOK, ListByLabel, createSelectorLabelsMap
  <2>6. KnownIsMatched'
    <3>1. \A w \in ListByLabel(k) : Filed(specOf[w])
      BY DEF ListByLabel, Filed, IInv, TypeOK
    <3>2. \A w \in DOMAIN selected' : ~MatchFails(w) /\ Filed(specOf[w])
      BY <1>3, <2>2, <3>1 DEF IInv, KnownIsMatched
    <3> QED BY <1>1, <2>3, <3>2, InputsDecide DEF KnownIsMatched, isWorkloadMatchDevice
  <2>7. \A w \in Workloads :
           \A x \in createSelectorLabelsMap(device, labels) \ todo' :
               x \in UpdateSelectorLabels(specOf[w]) => w \in DOMAIN selected'
    BY <2>1, <2>2 DEF IInv, LookedUpIsKnown, ListByLabel
  <2>8. LookedUpIsKnown'
    BY <1>1, <2>7 DEF LookedUpIsKnown, createSelectorLabelsMap, UpdateSelectorLabels
  <2> QED BY <2>5, <2>6, <2>8 DEF IInv
<1> QED BY <1>2, <1>3

\* The invariant is about the variables of the lookup only.
LEMMA StutterPreserves == IInv /\ UNCHANGED vars => IInv'
<1> SUFFICES ASSUME IInv, UNCHANGED vars PROVE IInv'
  OBVIOUS
<1>1. KnownIsMatched'
  BY InputsDecide DEF IInv, vars, KnownIsMatched, isWorkloadMatchDevice
<1> QED
  BY <1>1 DEF IInv, vars, TypeOK, LookedUpIsKnown, createSelectorLabelsMap, UpdateSelectorLabels

\* When all keys have been looked up, the known workloads are the filed ones.
LEMMA InvImpliesExact == IInv => LookupIsExact
<1> SUFFICES ASSUME IInv, Done, NEW w \in Workloads
             PROVE  (w \in DOMAIN selected /\ selected[w])
                        <=> (Places(specOf[w]) /\ ~Missed(specOf[w])) \/ Mistaken(specOf[w])
  BY DEF LookupIsExact
<1> DEFINE spec == specOf[w]
           chosen == w \in DOMAIN selected /\ selected[w]
<1>1. spec \in WorkloadSpecs /\ device \in Devices /\ labels \in LabelMaps
  BY SpecsAssumption DEF IInv, TypeOK
<1>2. device \in createSelectorLabelsMap(device, labels)
  BY DEF createSelectorLabelsMap
<1>3. w \in DOMAIN selected <=> Filed(spec)
  BY DEF IInv, KnownIsMatched, LookedUpIsKnown, Done, Filed
<1>4. w \in DOMAIN selected =>
        /\ selected[w] <=> spec.device = device \/ SelectorMatches(spec, labels)
        /\ spec.device = device \/ ValidSelector(spec)
  BY DEF IInv, KnownIsMatched, MatchFails, isWorkloadMatchDevice
<1>5. CASE spec.device = NoDevice
  <2>1. spec.device # device
    BY <1>1, <1>5, SelectorAssumption
  <2>2. Places(spec) <=> SelectorMatches(spec, labels) /\ ValidSelector(spec)
    BY <1>5 DEF Places, getMatchingEdgeDevices
  <2>3. ~Mistaken(spec)
    BY <1>5 DEF Mistaken
  <2>4. chosen <=> Filed(spec) /\ SelectorMatches(spec, labels) /\ ValidSelector(spec)
    BY <1>3, <1>4, <1>5, <2>1
  <2>5. SelectorMatches(spec, labels) => (Filed(spec) <=> ~Missed(spec))
    BY <1>1, <1>5, SelectedIsFiled
  <2> QED BY <2>2, <2>3, <2>4, <2>5
<1>6. CASE spec.device # NoDevice
  <2>1. Filed(spec) <=> spec.device \in createSelectorLabelsMap(device, labels)
    BY <1>6, NamedIsFiled
  <2>2. Places(spec) <=> spec.device = device
    BY <1>6 DEF Places, getMatchingEdgeDevices
  <2>3. ~Missed(spec)
    BY <1>6 DEF Missed
  <2>4. Mistaken(spec) <=> Filed(spec) /\ spec.device # device /\ SelectorMatches(spec, labels)
    BY <1>6, <2>1 DEF Mistaken
  <2> QED BY <1>2, <1>3, <1>4, <2>1, <2>2, <2>3, <2>4
<1> QED BY <1>5, <1>6

LEMMA InvariantHolds == Spec => []IInv
<1>1. IInv /\ [Next]_vars => IInv'
  BY LookUpPreserves, StutterPreserves DEF Next
<1> QED BY InitEstablishes, <1>1, PTL DEF Spec

\* Type correctness of the lookup loop of updateWorkloads.
THEOREM LookupTypeCorrect == Spec => []TypeOK
<1>1. IInv => TypeOK
  BY DEF IInv
<1> QED BY InvariantHolds, <1>1, PTL

\* LookupIsExact for every number of workloads, labels and requirements, every
\* spec the API admits and every order of the keys: the lookup selects what the
\* EdgeWorkload controller places, but for Missed and Mistaken specs.
THEOREM LookupExact == Spec => []LookupIsExact
BY InvariantHolds, InvImpliesExact, PTL
=============================================================================
