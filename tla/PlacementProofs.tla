-------------------------- MODULE PlacementProofs --------------------------
(***************************************************************************)
(* Type correctness of Placement, its safety invariants and the order of a *)
(* removal, for any number of devices, workloads, specs, heartbeats,       *)
(* failures and restarts.                                                  *)
(***************************************************************************)
EXTENDS Placement, TLAPS

\* An object that exists has a spec, and one that its users gave it; so has
\* its copy in the cache.  Without it the index keys have no type.
SpecsKnown ==
    \A w \in Workloads :
        /\ wl[w].state # "absent" => wl[w].spec \in specHist[w]
        /\ cwl[w].state # "absent" => cwl[w].spec \in specHist[w]

LEMMA IdleTypes ==
    /\ Gone \in WorkloadObjects
    /\ Blank \in Snapshots
    /\ Idle \in Reconciliations
    /\ LabelsIdle \in LabelsWork
    /\ NoBeat \in Beats
<1>1. Gone \in WorkloadObjects
  BY DEF Gone, WorkloadObjects
<1>2. Blank \in Snapshots
  BY DEF Blank, Snapshots
<1>3. Idle \in Reconciliations
  BY <1>2 DEF Idle, Reconciliations, Steps
<1>4. LabelsIdle \in LabelsWork
  BY <1>2 DEF LabelsIdle, LabelsWork
<1>5. NoBeat \in Beats
  BY DEF NoBeat, Beats
<1> QED BY <1>1, <1>2, <1>3, <1>4, <1>5

\* The initial state has the right types.
LEMMA InitTypeOK == Init => TypeOK /\ SpecsKnown
<1> SUFFICES ASSUME Init PROVE TypeOK /\ SpecsKnown
  OBVIOUS
<1>1. wl \in [Workloads -> WorkloadObjects] /\ cwl \in [Workloads -> WorkloadObjects]
  BY IdleTypes DEF Init
<1>2. dev \in [Devices -> DeviceObjects] /\ cdev \in [Devices -> DeviceObjects]
  BY PlacementAssumption DEF Init, DeviceObjects
<1>3. /\ rec \in [Workloads -> Reconciliations]
      /\ lc \in [Devices -> LabelsWork]
      /\ hb \in [Devices -> Beats]
  BY IdleTypes DEF Init
<1>4. left \in Budgets /\ news \in Events
  BY PlacementAssumption DEF Init, Budgets, Events
<1>5. /\ specHist \in [Workloads -> SUBSET Specs]
      /\ labHist \in [Devices -> SUBSET UserLabels]
      /\ purged \in [Workloads -> SUBSET Devices]
      /\ wq = {} /\ lq = {}
  BY PlacementAssumption DEF Init
<1>6. SpecsKnown
  BY DEF Init, SpecsKnown, Gone
<1> QED BY <1>1, <1>2, <1>3, <1>4, <1>5, <1>6 DEF TypeOK

-----------------------------------------------------------------------------
(* What the helpers write has the right type.                               *)

LEMMA WriteWorkloadType ==
    ASSUME TypeOK, NEW w \in Workloads, NEW o \in WorkloadObjects, WriteWorkload(w, o)
    PROVE  wl' \in [Workloads -> WorkloadObjects] /\ news' \in Events
BY DEF WriteWorkload, TypeOK, Events

LEMMA WriteDeviceType ==
    ASSUME TypeOK, NEW d \in Devices, NEW o \in DeviceObjects, NEW mine \in LabelsWork,
           WriteDevice(d, o, mine)
    PROVE  /\ dev' \in [Devices -> DeviceObjects]
           /\ news' \in Events
           /\ lc' \in [Devices -> LabelsWork]
<1>1. dev' \in [Devices -> DeviceObjects] /\ lc' \in [Devices -> LabelsWork]
  BY DEF WriteDevice, TypeOK
<1>2. news' \in Events
  BY DEF WriteDevice, TypeOK, Events
<1> QED BY <1>1, <1>2

LEMMA OvertakenType ==
    ASSUME TypeOK, NEW d \in Devices, NEW o
    PROVE  Overtaken(d, o) \in LabelsWork
<1>1. lc[d] \in LabelsWork
  BY DEF TypeOK
<1> QED BY <1>1 DEF Overtaken, LabelsWork

LEMMA BudgetTypes ==
    ASSUME TypeOK, NEW call
    PROVE  Fault(call) \/ UserOp => left' \in Budgets
BY DEF Fault, UserOp, TypeOK, Budgets

\* The edits of a device.
LEMMA DeviceEdits ==
    ASSUME NEW o \in DeviceObjects, NEW s \in SUBSET Workloads, NEW l \in UserLabels
    PROVE  /\ [o EXCEPT !.st = s] \in DeviceObjects
           /\ [o EXCEPT !.wlab = s] \in DeviceObjects
           /\ [o EXCEPT !.lab = l] \in DeviceObjects
           /\ Snap(o) \in Snapshots
BY DEF DeviceObjects, Snapshots, Snap

LEMMA AdvanceType ==
    ASSUME TypeOK, NEW w \in Workloads, NEW d \in Devices, NEW s \in Steps,
           NEW snap \in Snapshots, Advance(w, d, s, snap)
    PROVE  rec' \in [Workloads -> Reconciliations]
<1>1. rec[w] \in Reconciliations
  BY DEF TypeOK
<1>2. [rec[w] EXCEPT !.step[d] = s] \in Reconciliations
  BY <1>1 DEF Reconciliations
<1>3. [rec[w] EXCEPT !.step[d] = s, !.snap[d] = snap] \in Reconciliations
  BY <1>1 DEF Reconciliations
<1>4. rec' = [rec EXCEPT ![w] = [rec[w] EXCEPT !.step[d] = s, !.snap[d] = snap]]
  BY DEF Advance, TypeOK
<1> QED BY <1>3, <1>4 DEF TypeOK

\* The index keys of a spec are index keys.
LEMMA SelectorLabelsType ==
    ASSUME NEW s \in Specs
    PROVE  UpdateSelectorLabels(s) \subseteq IndexKeys
<1>1. s \in WorkloadSpecs
  BY PlacementAssumption
<1>2. CASE s.device # NoDevice
  BY <1>1, <1>2 DEF UpdateSelectorLabels, IndexKeys, WorkloadSpecs
<1>3. CASE s.device = NoDevice /\ s.selector = NilSelector
  BY <1>3 DEF UpdateSelectorLabels
<1>4. CASE s.device = NoDevice /\ s.selector # NilSelector
  <2>1. \A r \in s.selector : r.key \in Keys
    BY <1>1, <1>4 DEF WorkloadSpecs, Requirements
  <2> QED BY <1>4, <2>1 DEF UpdateSelectorLabels, IndexKeys
<1> QED BY <1>2, <1>3, <1>4

LEMMA SnapType ==
    ASSUME TypeOK, NEW w \in Workloads, NEW d \in Devices
    PROVE  /\ rec[w].snap[d] \in Snapshots
           /\ dev[d] \in DeviceObjects
           /\ dev[d].wlab \subseteq Workloads /\ dev[d].st \subseteq Workloads
           /\ rec[w].snap[d].wlab \subseteq Workloads /\ rec[w].snap[d].st \subseteq Workloads
BY DEF TypeOK, Reconciliations, Snapshots, DeviceObjects

\* Every step keeps the types.
LEMMA StepTypeOK ==
    ASSUME TypeOK, SpecsKnown, [Next]_vars
    PROVE  TypeOK'
<1>1. ASSUME NEW w \in Workloads, NEW s \in Specs, CreateWorkload(w, s) PROVE TypeOK'
  <2>1. [state |-> "live", fin |-> FALSE, spec |-> s, keys |-> {}] \in WorkloadObjects
    BY DEF WorkloadObjects
  <2>2. wl' \in [Workloads -> WorkloadObjects] /\ news' \in Events
    BY <1>1, <2>1, WriteWorkloadType DEF CreateWorkload
  <2>3. left' \in Budgets
    BY <1>1, BudgetTypes DEF CreateWorkload
  <2>4. specHist' \in [Workloads -> SUBSET Specs]
    BY <1>1 DEF CreateWorkload, TypeOK
  <2>5. UNCHANGED <<dev, cwl, cdev, wq, lq, rec, lc, hb, labHist, purged>>
    BY <1>1 DEF CreateWorkload
  <2> QED BY ONLY TypeOK, <2>2, <2>3, <2>4, <2>5 DEF TypeOK
<1>2. ASSUME NEW w \in Workloads, NEW s \in Specs, EditSpec(w, s) PROVE TypeOK'
  <2>1. [wl[w] EXCEPT !.spec = s] \in WorkloadObjects
    <3>1. wl[w] \in WorkloadObjects
      BY DEF TypeOK
    <3> QED BY ONLY <3>1, s \in Specs DEF WorkloadObjects
  <2>2. wl' \in [Workloads -> WorkloadObjects] /\ news' \in Events
    BY <1>2, <2>1, WriteWorkloadType DEF EditSpec
  <2>3. left' \in Budgets
    BY <1>2, BudgetTypes DEF EditSpec
  <2>4. specHist' \in [Workloads -> SUBSET Specs]
    BY <1>2 DEF EditSpec, TypeOK
  <2> QED BY <1>2, <2>1, <2>2, <2>3, <2>4 DEF TypeOK, EditSpec, api, cache, history
<1>3. ASSUME NEW w \in Workloads, DeleteWorkload(w) PROVE TypeOK'
  <2>1. wl[w] \in WorkloadObjects
    BY DEF TypeOK
  <2>2. (IF wl[w].fin THEN [wl[w] EXCEPT !.state = "deleting"] ELSE Gone) \in WorkloadObjects
    BY <2>1, IdleTypes DEF WorkloadObjects
  <2>3. wl' \in [Workloads -> WorkloadObjects] /\ news' \in Events
    BY <1>3, <2>2, WriteWorkloadType DEF DeleteWorkload
  <2>4. left' \in Budgets
    BY <1>3, BudgetTypes DEF DeleteWorkload
  <2>5. purged' \in [Workloads -> SUBSET Devices]
    BY <1>3 DEF DeleteWorkload, TypeOK
  <2> QED BY <1>3, <2>1, <2>2, <2>3, <2>4, <2>5 DEF TypeOK, DeleteWorkload, api, cache, history
<1>4. ASSUME NEW d \in Devices, NEW l \in UserLabels, SetLabels(d, l) PROVE TypeOK'
  <2>1. [dev[d] EXCEPT !.lab = l] \in DeviceObjects
    BY DeviceEdits DEF TypeOK
  <2>2. /\ dev' \in [Devices -> DeviceObjects]
        /\ news' \in Events
        /\ lc' \in [Devices -> LabelsWork]
    BY <1>4, <2>1, OvertakenType, WriteDeviceType DEF SetLabels
  <2>3. left' \in Budgets
    BY <1>4, BudgetTypes DEF SetLabels
  <2>4. labHist' \in [Devices -> SUBSET UserLabels]
    BY <1>4 DEF SetLabels, TypeOK
  <2> QED BY <1>4, <2>1, <2>2, <2>3, <2>4 DEF TypeOK, SetLabels, api, cache, history
<1>5. ASSUME NEW w \in Workloads, SyncWorkload(w) PROVE TypeOK'
  <2>1. news' \in Events
    BY <1>5 DEF SyncWorkload, TypeOK, Events
  <2>2. cwl' \in [Workloads -> WorkloadObjects] /\ wq' \subseteq Workloads
    BY <1>5 DEF SyncWorkload, TypeOK
  <2> QED BY <1>5, <2>1, <2>2 DEF TypeOK, SyncWorkload, api, cache, history
<1>6. ASSUME NEW d \in Devices, SyncDevice(d) PROVE TypeOK'
  <2>1. news' \in Events
    BY <1>6 DEF SyncDevice, TypeOK, Events
  <2>2. cdev' \in [Devices -> DeviceObjects] /\ lq' \subseteq Devices
    BY <1>6 DEF SyncDevice, TypeOK
  <2> QED BY <1>6, <2>1, <2>2 DEF TypeOK, SyncDevice, api, cache, history
<1>7. ASSUME NEW w \in Workloads, Resync(w) PROVE TypeOK'
  BY <1>7 DEF TypeOK, Resync, api, cache, history
<1>8. ASSUME NEW w \in Workloads, ReconcileNothing(w) PROVE TypeOK'
  BY <1>8 DEF TypeOK, ReconcileNothing, api, cache, history
<1>9. ASSUME NEW w \in Workloads, AddFinalizer(w) PROVE TypeOK'
  <2>1. [wl[w] EXCEPT !.fin = TRUE] \in WorkloadObjects
    <3>1. wl[w] \in WorkloadObjects
      BY DEF TypeOK
    <3> QED BY <3>1 DEF WorkloadObjects
  <2>2. wl' \in [Workloads -> WorkloadObjects] /\ news' \in Events /\ left' \in Budgets
    BY <1>9, <2>1, WriteWorkloadType, BudgetTypes DEF AddFinalizer, TypeOK
  <2> QED BY <1>9, <2>1, <2>2 DEF TypeOK, AddFinalizer, api, cache, history
<1>10. ASSUME NEW w \in Workloads, PatchSelectorLabels(w) PROVE TypeOK'
  <2> DEFINE old == cwl[w].keys
             new == UpdateSelectorLabels(cwl[w].spec)
             o == [wl[w] EXCEPT !.keys = (@ \cup (new \ old)) \ (old \ new)]
  <2>1. cwl[w].spec \in Specs
    BY <1>10 DEF PatchSelectorLabels, SpecsKnown, TypeOK
  <2>2. new \subseteq IndexKeys
    BY <2>1, SelectorLabelsType
  <2>3. wl[w] \in WorkloadObjects /\ wl[w].keys \subseteq IndexKeys
    BY DEF TypeOK, WorkloadObjects
  <2>4. o \in WorkloadObjects
    BY <2>2, <2>3 DEF WorkloadObjects
  <2>5. wq' \subseteq Workloads
    BY <1>10 DEF PatchSelectorLabels, TypeOK
  <2>6. (WriteWorkload(w, o) /\ UNCHANGED left) \/ (Fault("workload") /\ UNCHANGED <<wl, news>>)
    BY <1>10 DEF PatchSelectorLabels
  <2> HIDE DEF o
  <2>7. wl' \in [Workloads -> WorkloadObjects] /\ news' \in Events /\ left' \in Budgets
    BY <2>4, <2>6, WriteWorkloadType, BudgetTypes DEF TypeOK
  <2> QED BY <1>10, <2>5, <2>7 DEF TypeOK, PatchSelectorLabels, api, cache, history
<1>11. ASSUME NEW w \in Workloads, StartReconcile(w) PROVE TypeOK'
  <2>1. \A d \in Devices : Snap(cdev[d]) \in Snapshots
    BY DEF TypeOK, DeviceObjects, Snapshots, Snap
  <2>2. rec'[w] \in Reconciliations
    <3> DEFINE visited == IF cwl[w].state = "deleting"
                          THEN ListMatching(w) \cup ListForWorkload(w) ELSE ListMatching(w)
               prune == IF cwl[w].state = "deleting" THEN {}
                        ELSE ListForWorkload(w) \ ListMatching(w)
               phase == IF cwl[w].state = "deleting" THEN "finalize" ELSE "add"
               step == [d \in Devices |-> IF d \in visited THEN "status" ELSE "none"]
               snap == [d \in Devices |-> IF d \in visited \cup prune
                                           THEN Snap(cdev[d]) ELSE Blank]
    <3>1. rec'[w] = [phase |-> phase, step |-> step, snap |-> snap, prune |-> prune]
      BY <1>11 DEF StartReconcile, TypeOK
    <3>2. phase \in {"idle", "add", "prune", "finalize"} /\ step \in [Devices -> Steps]
      BY DEF Steps
    <3>3. snap \in [Devices -> Snapshots]
      BY <2>1, IdleTypes
    <3>4. prune \in SUBSET Devices
      BY DEF ListForWorkload
    <3> HIDE DEF phase, step, snap, prune
    <3> QED BY <3>1, <3>2, <3>3, <3>4 DEF Reconciliations
  <2>3. rec' \in [Workloads -> Reconciliations]
    BY <1>11, <2>2 DEF StartReconcile, TypeOK
  <2> QED BY <1>11, <2>3 DEF TypeOK, StartReconcile, api, cache, history
<1>12. ASSUME NEW w \in Workloads, NEW d \in Devices, DeviceCallFails(w, d) PROVE TypeOK'
  <2>1. rec' \in [Workloads -> Reconciliations]
    BY <1>12, AdvanceType, IdleTypes DEF DeviceCallFails, Steps
  <2>2. left' \in Budgets
    BY <1>12, BudgetTypes DEF DeviceCallFails
  <2> QED BY <1>12, <2>1, <2>2 DEF TypeOK, DeviceCallFails, api, cache, history
<1>13. ASSUME NEW w \in Workloads, NEW d \in Devices, AddToStatus(w, d) PROVE TypeOK'
  <2> DEFINE snap == rec[w].snap[d]
             o == [dev[d] EXCEPT !.st = WithWorkload(snap.st, w)]
  <2>1. [snap EXCEPT !.st = {}] \in Snapshots
        /\ [wlab |-> snap.wlab \cup dev[d].wlab, st |-> {}] \in Snapshots
    BY SnapType DEF Snapshots
  <2>2. o \in DeviceObjects
    BY SnapType, DeviceEdits, PlacementAssumption DEF WithWorkload
  <2>3. rec' \in [Workloads -> Reconciliations]
    BY <1>13, <2>1, AdvanceType DEF AddToStatus, Steps
  <2>4. UNCHANGED <<dev, news, lc>> \/ WriteDevice(d, o, Overtaken(d, o))
    BY <1>13 DEF AddToStatus
  <2> HIDE DEF o
  <2>5. dev' \in [Devices -> DeviceObjects] /\ news' \in Events /\ lc' \in [Devices -> LabelsWork]
    BY <2>2, <2>4, OvertakenType, WriteDeviceType DEF TypeOK
  <2> QED BY <1>13, <2>3, <2>5 DEF TypeOK, AddToStatus, history
<1>14. ASSUME NEW w \in Workloads, NEW d \in Devices, AddLabel(w, d) PROVE TypeOK'
  <2> DEFINE o == IF w \in rec[w].snap[d].wlab THEN dev[d]
                  ELSE [dev[d] EXCEPT !.wlab = @ \cup {w}]
  <2>1. o \in DeviceObjects
    BY SnapType, DeviceEdits, PlacementAssumption
  <2>2. rec' \in [Workloads -> Reconciliations]
    BY <1>14, IdleTypes, AdvanceType DEF AddLabel, Steps
  <2>3. WriteDevice(d, o, Overtaken(d, o))
    BY <1>14 DEF AddLabel
  <2> HIDE DEF o
  <2>4. dev' \in [Devices -> DeviceObjects] /\ news' \in Events /\ lc' \in [Devices -> LabelsWork]
    BY <2>1, <2>3, OvertakenType, WriteDeviceType
  <2> QED BY <1>14, <2>2, <2>4 DEF TypeOK, AddLabel, history
<1>15. ASSUME NEW w \in Workloads, NEW d \in Devices, RemoveFromStatus(w, d) PROVE TypeOK'
  <2> DEFINE snap == rec[w].snap[d]
             o == IF w \in snap.st THEN [dev[d] EXCEPT !.st = snap.st \ {w}] ELSE dev[d]
  <2>1. [wlab |-> snap.wlab \cup dev[d].wlab, st |-> {}] \in Snapshots
    BY SnapType DEF Snapshots
  <2>2. o \in DeviceObjects
    BY SnapType, DeviceEdits, PlacementAssumption
  <2>3. rec' \in [Workloads -> Reconciliations]
    BY <1>15, <2>1, AdvanceType DEF RemoveFromStatus, Steps
  <2>4. WriteDevice(d, o, Overtaken(d, o))
    BY <1>15 DEF RemoveFromStatus
  <2> HIDE DEF o
  <2>5. dev' \in [Devices -> DeviceObjects] /\ news' \in Events /\ lc' \in [Devices -> LabelsWork]
    BY <2>2, <2>4, OvertakenType, WriteDeviceType
  <2> QED BY <1>15, <2>3, <2>5 DEF TypeOK, RemoveFromStatus, history
<1>16. ASSUME NEW w \in Workloads, NEW d \in Devices, RemoveLabel(w, d) PROVE TypeOK'
  <2> DEFINE o == IF w \in rec[w].snap[d].wlab THEN [dev[d] EXCEPT !.wlab = @ \ {w}] ELSE dev[d]
  <2>1. o \in DeviceObjects
    BY SnapType, DeviceEdits, PlacementAssumption
  <2>2. rec' \in [Workloads -> Reconciliations]
    BY <1>16, IdleTypes, AdvanceType DEF RemoveLabel, Steps
  <2>3. WriteDevice(d, o, Overtaken(d, o))
    BY <1>16 DEF RemoveLabel
  <2> HIDE DEF o
  <2>4. dev' \in [Devices -> DeviceObjects] /\ news' \in Events /\ lc' \in [Devices -> LabelsWork]
    BY <2>1, <2>3, OvertakenType, WriteDeviceType
  <2>5. purged' \in [Workloads -> SUBSET Devices]
    BY <1>16 DEF RemoveLabel, TypeOK
  <2> QED BY <1>16, <2>2, <2>4, <2>5 DEF TypeOK, RemoveLabel
<1>17. ASSUME NEW w \in Workloads, ReconcileFails(w) PROVE TypeOK'
  <2>1. rec' \in [Workloads -> Reconciliations]
    BY <1>17, IdleTypes DEF ReconcileFails, TypeOK
  <2> QED BY <1>17, <2>1 DEF TypeOK, ReconcileFails, api, cache, history
<1>18. ASSUME NEW w \in Workloads, StartPrune(w) PROVE TypeOK'
  <2> DEFINE step == [d \in Devices |-> IF d \in rec[w].prune THEN "status" ELSE "none"]
  <2>1. rec[w] \in Reconciliations /\ step \in [Devices -> Steps]
    BY DEF TypeOK, Steps
  <2>2. [rec[w] EXCEPT !.phase = "prune", !.prune = {}, !.step = step] \in Reconciliations
    BY <2>1 DEF Reconciliations
  <2>3. rec' = [rec EXCEPT ![w] = [rec[w] EXCEPT !.phase = "prune", !.prune = {}, !.step = step]]
    BY <1>18 DEF StartPrune, TypeOK
  <2>4. rec' \in [Workloads -> Reconciliations]
    BY <2>2, <2>3 DEF TypeOK
  <2> QED BY <1>18, <2>4 DEF TypeOK, StartPrune, api, cache, history
<1>19. ASSUME NEW w \in Workloads, ReconcileDone(w) PROVE TypeOK'
  <2>1. rec' \in [Workloads -> Reconciliations]
    BY <1>19, IdleTypes DEF ReconcileDone, TypeOK
  <2> QED BY <1>19, <2>1 DEF TypeOK, ReconcileDone, api, cache, history
<1>20. ASSUME NEW w \in Workloads, RemoveFinalizer(w) PROVE TypeOK'
  <2>1. wl[w] \in WorkloadObjects
    BY DEF TypeOK
  <2>2. (IF wl[w].state = "live" THEN [wl[w] EXCEPT !.fin = FALSE] ELSE Gone) \in WorkloadObjects
    BY <2>1, IdleTypes DEF WorkloadObjects
  <2>3. wl' \in [Workloads -> WorkloadObjects] /\ news' \in Events /\ left' \in Budgets
    BY <1>20, <2>2, WriteWorkloadType, BudgetTypes DEF RemoveFinalizer, TypeOK
  <2>4. rec' \in [Workloads -> Reconciliations]
    BY <1>20, IdleTypes DEF RemoveFinalizer, TypeOK
  <2> QED BY <1>20, <2>1, <2>2, <2>3, <2>4 DEF TypeOK, RemoveFinalizer, api, cache, history
<1>21. ASSUME NEW d \in Devices, StartLabels(d) PROVE TypeOK'
  <2> DEFINE old == Snap(cdev[d])
             sel == selectedWorkloads(d)
             new == [wlab |-> (old.wlab \ (old.st \ sel)) \cup (sel \ old.st), st |-> sel]
  <2>1. old \in Snapshots
    BY DEF TypeOK, DeviceObjects, Snapshots, Snap
  <2>2. sel \subseteq Workloads
    BY DEF selectedWorkloads, ListByLabel
  <2>3. new \in Snapshots
    BY <2>1, <2>2 DEF Snapshots
  <2>4. lc' = lc \/ lc' = [lc EXCEPT ![d] =
                             [phase |-> "status", base |-> old, new |-> new, fresh |-> FALSE]]
    BY <1>21 DEF StartLabels
  <2> HIDE DEF old, new
  <2>5. [phase |-> "status", base |-> old, new |-> new, fresh |-> FALSE] \in LabelsWork
    BY <2>1, <2>3 DEF LabelsWork
  <2>6. lc' \in [Devices -> LabelsWork]
    BY <2>4, <2>5 DEF TypeOK
  <2> QED BY <1>21, <2>6 DEF TypeOK, StartLabels, api, cache, history
<1>22. ASSUME NEW d \in Devices, PatchLabelsStatus(d) PROVE TypeOK'
  <2>1. lc[d] \in LabelsWork /\ lc[d].new \in Snapshots /\ dev[d] \in DeviceObjects
    BY DEF TypeOK, LabelsWork
  <2>2. lc[d].new.st \subseteq Workloads /\ lc[d].new.wlab \cup dev[d].wlab \subseteq Workloads
    BY <2>1 DEF Snapshots, DeviceObjects
  <2>3. [dev[d] EXCEPT !.st = lc[d].new.st] \in DeviceObjects
    BY <2>1, <2>2 DEF DeviceObjects
  <2>4. [lc[d].new EXCEPT !.wlab = @ \cup dev[d].wlab] \in Snapshots
    BY <2>1, <2>2 DEF Snapshots
  <2>5. [lc[d] EXCEPT !.phase = "label", !.fresh = TRUE, !.new.wlab = @ \cup dev[d].wlab]
           \in LabelsWork
    BY <2>1, <2>4 DEF LabelsWork
  <2>6. dev' \in [Devices -> DeviceObjects] /\ news' \in Events /\ lc' \in [Devices -> LabelsWork]
    BY <1>22, <2>3, <2>5, WriteDeviceType DEF PatchLabelsStatus
  <2> QED BY <1>22, <2>6 DEF TypeOK, PatchLabelsStatus, history
<1>23. ASSUME NEW d \in Devices, PatchLabels(d) PROVE TypeOK'
  <2> DEFINE base == lc[d].base.wlab
             new == lc[d].new.wlab
  <2>1. dev[d] \in DeviceObjects /\ dev[d].wlab \subseteq Workloads /\ new \subseteq Workloads
    BY DEF TypeOK, LabelsWork, Snapshots, DeviceObjects
  <2>2. [dev[d] EXCEPT !.wlab = (@ \cup (new \ base)) \ (base \ new)] \in DeviceObjects
    BY <2>1 DEF DeviceObjects
  <2>3. dev' \in [Devices -> DeviceObjects] /\ news' \in Events /\ lc' \in [Devices -> LabelsWork]
    BY <1>23, <2>2, IdleTypes, WriteDeviceType DEF PatchLabels
  <2> QED BY <1>23, <2>3 DEF TypeOK, PatchLabels, history
<1>24. ASSUME NEW d \in Devices, LabelsFail(d) PROVE TypeOK'
  <2>1. lc' \in [Devices -> LabelsWork] /\ lq' \subseteq Devices
    BY <1>24, IdleTypes DEF LabelsFail, TypeOK
  <2>2. left' \in Budgets
    BY <1>24, BudgetTypes DEF LabelsFail, TypeOK
  <2> QED BY <1>24, <2>1, <2>2 DEF TypeOK, LabelsFail, api, cache, history
<1>25. ASSUME NEW d \in Devices, ReadHeartbeat(d) PROVE TypeOK'
  <2>1. left' \in Budgets
    BY <1>25 DEF ReadHeartbeat, TypeOK, Budgets
  <2>2. hb' \in [Devices -> Beats]
    BY <1>25 DEF ReadHeartbeat, TypeOK, Beats, DeviceObjects
  <2> QED BY <1>25, <2>1, <2>2 DEF TypeOK, ReadHeartbeat, api, cache, history
<1>26. ASSUME NEW d \in Devices, UpdateStatus(d) PROVE TypeOK'
  <2>1. PICK changed \in BOOLEAN :
           LET o == IF changed /\ hb[d].st # {} THEN [dev[d] EXCEPT !.st = hb[d].st] ELSE dev[d]
           IN  WriteDevice(d, o, Overtaken(d, o))
    BY <1>26 DEF UpdateStatus
  <2> DEFINE o == IF changed /\ hb[d].st # {} THEN [dev[d] EXCEPT !.st = hb[d].st] ELSE dev[d]
  <2>2. dev[d] \in DeviceObjects /\ hb[d].st \subseteq Workloads
    BY DEF TypeOK, Beats
  <2>3. o \in DeviceObjects
    BY <2>2 DEF DeviceObjects
  <2>4. WriteDevice(d, o, Overtaken(d, o))
    BY <2>1
  <2>5. hb' \in [Devices -> Beats]
    BY <1>26, IdleTypes DEF UpdateStatus, TypeOK
  <2> HIDE DEF o
  <2>6. dev' \in [Devices -> DeviceObjects] /\ news' \in Events /\ lc' \in [Devices -> LabelsWork]
    BY <2>3, <2>4, OvertakenType, WriteDeviceType
  <2> QED BY <1>26, <2>5, <2>6 DEF TypeOK, UpdateStatus, history
<1>27. ASSUME Restart PROVE TypeOK'
  <2>1. left' \in Budgets
    BY <1>27 DEF Restart, TypeOK, Budgets
  <2>2. news' \in Events
    BY <1>27 DEF Restart, Events
  <2>3. rec' \in [Workloads -> Reconciliations] /\ lc' \in [Devices -> LabelsWork]
    BY <1>27, IdleTypes DEF Restart
  <2>4. wq' \subseteq Workloads /\ lq' \subseteq Devices
    BY <1>27 DEF Restart
  <2> QED BY <1>27, <2>1, <2>2, <2>3, <2>4 DEF TypeOK, Restart, api, cache, history
<1>28. CASE UNCHANGED vars
  BY <1>28 DEF vars, TypeOK
<1> QED
  BY <1>1, <1>2, <1>3, <1>4, <1>5, <1>6, <1>7, <1>8, <1>9, <1>10, <1>11, <1>12, <1>13,
     <1>14, <1>15, <1>16, <1>17, <1>18, <1>19, <1>20, <1>21, <1>22, <1>23, <1>24, <1>25, <1>26, <1>27, <1>28
     DEF Next, User, Reconcile, Visit, Labels

-----------------------------------------------------------------------------
(* Specs known to their users.                                              *)

LEMMA WriteWorkloadKnown ==
    ASSUME TypeOK, SpecsKnown, NEW w \in Workloads, NEW o, WriteWorkload(w, o),
           o.state # "absent" => o.spec \in specHist'[w],
           \A x \in Workloads : specHist[x] \subseteq specHist'[x],
           cwl' = cwl
    PROVE  SpecsKnown'
<1>1. wl' = [wl EXCEPT ![w] = o]
  BY DEF WriteWorkload
<1>2. \A x \in Workloads : wl'[x].state # "absent" => wl'[x].spec \in specHist'[x]
  BY <1>1 DEF TypeOK, SpecsKnown
<1>3. \A x \in Workloads : cwl'[x].state # "absent" => cwl'[x].spec \in specHist'[x]
  BY DEF SpecsKnown
<1> QED BY <1>2, <1>3 DEF SpecsKnown

\* Every step keeps SpecsKnown.
LEMMA StepSpecsKnown ==
    ASSUME TypeOK, SpecsKnown, [Next]_vars
    PROVE  SpecsKnown'
<1> USE DEF api, cache, history
<1>1. ASSUME NEW w \in Workloads, NEW s \in Specs, CreateWorkload(w, s) \/ EditSpec(w, s)
      PROVE  SpecsKnown'
  <2>1. specHist' = [specHist EXCEPT ![w] = @ \cup {s}] /\ cwl' = cwl
    BY <1>1 DEF CreateWorkload, EditSpec
  <2>2. s \in specHist'[w] /\ \A x \in Workloads : specHist[x] \subseteq specHist'[x]
    BY <2>1 DEF TypeOK
  <2>3. wl[w] \in WorkloadObjects
    BY DEF TypeOK
  <2>4. [wl[w] EXCEPT !.spec = s].spec = s
    BY <2>3 DEF WorkloadObjects
  <2>5. CASE CreateWorkload(w, s)
    BY <2>1, <2>2, <2>5, WriteWorkloadKnown DEF CreateWorkload
  <2>6. CASE EditSpec(w, s)
    BY <2>1, <2>2, <2>4, <2>6, WriteWorkloadKnown DEF EditSpec
  <2> QED BY <1>1, <2>5, <2>6
<1>2. ASSUME NEW w \in Workloads,
             DeleteWorkload(w) \/ AddFinalizer(w) \/ PatchSelectorLabels(w) \/ RemoveFinalizer(w)
      PROVE  SpecsKnown'
  <2>1. specHist' = specHist /\ cwl' = cwl
    BY <1>2 DEF DeleteWorkload, AddFinalizer, PatchSelectorLabels, RemoveFinalizer
  <2>2. wl[w] \in WorkloadObjects
    BY DEF TypeOK
  <2>3. wl[w].state # "absent" => wl[w].spec \in specHist[w]
    BY DEF SpecsKnown
  <2>4. UNCHANGED wl \/ \E o : WriteWorkload(w, o) /\ (o.state # "absent" => o.spec \in specHist[w])
    <3>1. CASE DeleteWorkload(w)
      <4>1. [wl[w] EXCEPT !.state = "deleting"].spec = wl[w].spec /\ Gone.state = "absent"
        BY <2>2 DEF WorkloadObjects, Gone
      <4> QED BY <2>3, <3>1, <4>1 DEF DeleteWorkload
    <3>2. CASE AddFinalizer(w)
      <4>1. [wl[w] EXCEPT !.fin = TRUE].spec = wl[w].spec
        BY <2>2 DEF WorkloadObjects
      <4> QED BY <2>3, <3>2, <4>1 DEF AddFinalizer
    <3>3. CASE PatchSelectorLabels(w)
      <4> DEFINE old == cwl[w].keys
                 new == UpdateSelectorLabels(cwl[w].spec)
                 o == [wl[w] EXCEPT !.keys = (@ \cup (new \ old)) \ (old \ new)]
      <4>1. o.spec = wl[w].spec
        BY <2>2 DEF WorkloadObjects
      <4>2. UNCHANGED wl \/ (wl[w].state # "absent" /\ WriteWorkload(w, o))
        BY <3>3 DEF PatchSelectorLabels
      <4> HIDE DEF o
      <4> QED BY <2>3, <4>1, <4>2
    <3>4. CASE RemoveFinalizer(w)
      <4>1. [wl[w] EXCEPT !.fin = FALSE].spec = wl[w].spec /\ Gone.state = "absent"
        BY <2>2 DEF WorkloadObjects, Gone
      <4> QED BY <2>3, <3>4, <4>1 DEF RemoveFinalizer
    <3> QED BY <1>2, <3>1, <3>2, <3>3, <3>4
  <2>5. CASE UNCHANGED wl
    BY <2>1, <2>5 DEF SpecsKnown
  <2>6. CASE \E o : WriteWorkload(w, o) /\ (o.state # "absent" => o.spec \in specHist[w])
    BY <2>1, <2>6, WriteWorkloadKnown
  <2> QED BY <2>4, <2>5, <2>6
<1>3. ASSUME NEW w \in Workloads, SyncWorkload(w)
      PROVE  SpecsKnown'
  BY <1>3 DEF SyncWorkload, TypeOK, SpecsKnown
<1>4. CASE Restart
  BY <1>4 DEF Restart, SpecsKnown
<1>5. CASE UNCHANGED <<wl, cwl, specHist>>
  BY <1>5 DEF SpecsKnown
<1>6. ASSUME NEW w \in Workloads,
             Resync(w) \/ ReconcileNothing(w) \/ StartReconcile(w) \/ ReconcileFails(w)
               \/ StartPrune(w) \/ ReconcileDone(w)
      PROVE  UNCHANGED <<wl, cwl, specHist>>
  BY <1>6 DEF Resync, ReconcileNothing, StartReconcile, ReconcileFails, StartPrune, ReconcileDone
<1>7. ASSUME NEW w \in Workloads, NEW d \in Devices, Visit(w, d)
      PROVE  UNCHANGED <<wl, cwl, specHist>>
  BY <1>7 DEF Visit, AddToStatus, AddLabel, RemoveFromStatus, RemoveLabel, DeviceCallFails
<1>8. ASSUME NEW d \in Devices,
             SyncDevice(d) \/ Labels(d) \/ ReadHeartbeat(d) \/ UpdateStatus(d)
               \/ \E l \in UserLabels : SetLabels(d, l)
      PROVE  UNCHANGED <<wl, cwl, specHist>>
  BY <1>8 DEF SyncDevice, Labels, StartLabels, PatchLabelsStatus, PatchLabels, LabelsFail,
              ReadHeartbeat, UpdateStatus, SetLabels
<1>9. CASE UNCHANGED vars
  BY <1>9, <1>5 DEF vars
<1> QED BY <1>1, <1>2, <1>3, <1>4, <1>5, <1>6, <1>7, <1>8, <1>9 DEF Next, User, Reconcile

\* Type correctness: every write of the controllers, the heartbeat handler,
\* the users and the caches leaves objects of the expected shape.
THEOREM PlacementTypeCorrect == Spec => []TypeOK
<1>1. Init => TypeOK /\ SpecsKnown
  BY InitTypeOK
<1>2. TypeOK /\ SpecsKnown /\ [Next]_vars => (TypeOK /\ SpecsKnown)'
  BY StepTypeOK, StepSpecsKnown
<1> QED BY <1>1, <1>2, PTL DEF Spec

-----------------------------------------------------------------------------
(* PlacementJustified.  It is not inductive: the list of a device is copied *)
(* into caches, snapshots, half-done reconciliations and heartbeats, and    *)
(* written back from there.  So every copy must be justified, and so must   *)
(* an addition that is decided but not written yet.                         *)

DevicesJust ==
    \A d \in Devices : dev[d].lab \in labHist[d] /\ \A w \in dev[d].st : Justified(w, d)

CacheJust ==
    \A d \in Devices : cdev[d].lab \in labHist[d] /\ \A w \in cdev[d].st : Justified(w, d)

BeatsJust == \A d \in Devices : \A w \in hb[d].st : Justified(w, d)

LabelsJust == \A d \in Devices : \A w \in lc[d].new.st : Justified(w, d)

SnapsJust == \A x \in Workloads, d \in Devices : \A w \in rec[x].snap[d].st : Justified(w, d)

AddsJust ==
    \A w \in Workloads, d \in Devices :
        rec[w].phase = "add" /\ rec[w].step[d] = "status" => Justified(w, d)

JustInv == DevicesJust /\ CacheJust /\ BeatsJust /\ LabelsJust /\ SnapsJust /\ AddsJust

LEMMA InitJust == Init => JustInv
<1> SUFFICES ASSUME Init PROVE JustInv
  OBVIOUS
<1>1. DevicesJust /\ CacheJust
  BY DEF Init, DevicesJust, CacheJust
<1>2. BeatsJust /\ LabelsJust
  BY DEF Init, BeatsJust, LabelsJust, NoBeat, LabelsIdle, Blank
<1>3. SnapsJust /\ AddsJust
  BY DEF Init, SnapsJust, AddsJust, Idle, Blank
<1> QED BY <1>1, <1>2, <1>3 DEF JustInv

\* The histories only grow.
LEMMA HistoriesGrow ==
    ASSUME TypeOK, [Next]_vars
    PROVE  /\ \A w \in Workloads : specHist[w] \subseteq specHist'[w]
           /\ \A d \in Devices : labHist[d] \subseteq labHist'[d]
<1> USE DEF history
<1>1. ASSUME NEW w \in Workloads, NEW s \in Specs, CreateWorkload(w, s) \/ EditSpec(w, s)
      PROVE  specHist' = [specHist EXCEPT ![w] = @ \cup {s}] /\ labHist' = labHist
  BY <1>1 DEF CreateWorkload, EditSpec
<1>2. ASSUME NEW d \in Devices, NEW l \in UserLabels, SetLabels(d, l)
      PROVE  labHist' = [labHist EXCEPT ![d] = @ \cup {l}] /\ specHist' = specHist
  BY <1>2 DEF SetLabels
<1>3. ASSUME NEW w \in Workloads, DeleteWorkload(w) \/ SyncWorkload(w) \/ Resync(w) \/ Reconcile(w)
      PROVE  UNCHANGED <<specHist, labHist>>
  BY <1>3 DEF DeleteWorkload, SyncWorkload, Resync, Reconcile, ReconcileNothing, AddFinalizer,
              PatchSelectorLabels, StartReconcile, ReconcileFails, StartPrune, ReconcileDone,
              RemoveFinalizer
<1>4. ASSUME NEW w \in Workloads, NEW d \in Devices, Visit(w, d)
      PROVE  UNCHANGED <<specHist, labHist>>
  BY <1>4 DEF Visit, AddToStatus, AddLabel, RemoveFromStatus, RemoveLabel, DeviceCallFails
<1>5. ASSUME NEW d \in Devices,
             SyncDevice(d) \/ Labels(d) \/ ReadHeartbeat(d) \/ UpdateStatus(d)
      PROVE  UNCHANGED <<specHist, labHist>>
  BY <1>5 DEF SyncDevice, Labels, StartLabels, PatchLabelsStatus, PatchLabels, LabelsFail,
              ReadHeartbeat, UpdateStatus
<1>6. Restart \/ UNCHANGED vars => UNCHANGED <<specHist, labHist>>
  BY DEF Restart, vars
<1>7. ASSUME NEW w \in Workloads, NEW s \in Specs, specHist' = [specHist EXCEPT ![w] = @ \cup {s}]
      PROVE  \A x \in Workloads : specHist[x] \subseteq specHist'[x]
  BY <1>7 DEF TypeOK
<1>8. ASSUME NEW d \in Devices, NEW l \in UserLabels, labHist' = [labHist EXCEPT ![d] = @ \cup {l}]
      PROVE  \A x \in Devices : labHist[x] \subseteq labHist'[x]
  BY <1>8 DEF TypeOK
<1> QED BY <1>1, <1>2, <1>3, <1>4, <1>5, <1>6, <1>7, <1>8 DEF Next, User

\* So what is justified stays justified.
LEMMA StaysJustified ==
    ASSUME TypeOK, [Next]_vars, NEW w, NEW d \in Devices, Justified(w, d), w \in Workloads
    PROVE  Justified(w, d)'
BY HistoriesGrow DEF Justified

\* Both ways of matching a device justify the placement.
LEMMA MatchJustifies ==
    ASSUME NEW w \in Workloads, NEW d \in Devices,
           NEW s \in specHist[w], NEW l \in labHist[d],
           getMatchingEdgeDevices(s, d, l) \/ isWorkloadMatchDevice(s, d, l)
    PROVE  Justified(w, d)
<1>1. isWorkloadMatchDevice(s, d, l)
  BY DEF getMatchingEdgeDevices, isWorkloadMatchDevice
<1> QED BY <1>1 DEF Justified

\* A write of a justified list, by an actor that leaves the rest alone.
LEMMA WriteDeviceJust ==
    ASSUME TypeOK, JustInv, [Next]_vars,
           NEW d \in Devices, NEW o \in DeviceObjects, NEW mine \in LabelsWork,
           WriteDevice(d, o, mine), o.lab \in labHist'[d],
           \A w \in o.st \cup mine.new.st : Justified(w, d)
    PROVE  DevicesJust' /\ LabelsJust'
<1>1. dev' = [dev EXCEPT ![d] = o] /\ lc' = [lc EXCEPT ![d] = mine]
  BY DEF WriteDevice
<1>2. \A x \in Devices : dev'[x] \in DeviceObjects /\ lc'[x] \in LabelsWork
  BY <1>1 DEF TypeOK
<1>3. \A x \in Devices : dev'[x].st \subseteq Workloads /\ lc'[x].new.st \subseteq Workloads
  BY <1>2 DEF DeviceObjects, LabelsWork, Snapshots
<1>4. \A x \in Devices : \A w \in dev'[x].st \cup lc'[x].new.st : Justified(w, x)
  BY <1>1 DEF TypeOK, JustInv, DevicesJust, LabelsJust
<1>5. \A x \in Devices : \A w \in dev'[x].st \cup lc'[x].new.st : Justified(w, x)'
  BY <1>3, <1>4, StaysJustified
<1>6. \A x \in Devices : dev'[x].lab \in labHist'[x]
  BY <1>1, HistoriesGrow DEF TypeOK, JustInv, DevicesJust
<1> QED BY <1>5, <1>6 DEF DevicesJust, LabelsJust

\* Somebody else's write leaves the labels reconciliation's list as it is.
LEMMA OvertakenNew ==
    ASSUME TypeOK, NEW d \in Devices, NEW o
    PROVE  Overtaken(d, o).new = lc[d].new
<1>1. lc[d] \in LabelsWork
  BY DEF TypeOK
<1> QED BY <1>1 DEF Overtaken, LabelsWork

\* Parts of the invariant whose variables a step leaves alone.
LEMMA UntouchedJust ==
    ASSUME TypeOK, JustInv, [Next]_vars
    PROVE  /\ UNCHANGED dev => DevicesJust'
           /\ UNCHANGED cdev => CacheJust'
           /\ UNCHANGED hb => BeatsJust'
           /\ UNCHANGED lc => LabelsJust'
           /\ UNCHANGED rec => SnapsJust' /\ AddsJust'
<1>1. \A d \in Devices : /\ dev[d].st \subseteq Workloads /\ cdev[d].st \subseteq Workloads
                         /\ hb[d].st \subseteq Workloads /\ lc[d].new.st \subseteq Workloads
                         /\ \A x \in Workloads : rec[x].snap[d].st \subseteq Workloads
  BY DEF TypeOK, DeviceObjects, Beats, LabelsWork, Snapshots, Reconciliations
<1>2. UNCHANGED dev => DevicesJust'
  BY <1>1, HistoriesGrow, StaysJustified DEF JustInv, DevicesJust
<1>3. UNCHANGED cdev => CacheJust'
  BY <1>1, HistoriesGrow, StaysJustified DEF JustInv, CacheJust
<1>4. UNCHANGED hb => BeatsJust'
  BY <1>1, StaysJustified DEF JustInv, BeatsJust
<1>5. UNCHANGED lc => LabelsJust'
  BY <1>1, StaysJustified DEF JustInv, LabelsJust
<1>6. UNCHANGED rec => SnapsJust' /\ AddsJust'
  BY <1>1, StaysJustified DEF JustInv, SnapsJust, AddsJust
<1> QED BY <1>2, <1>3, <1>4, <1>5, <1>6

\* A reconciliation r takes the place of rec[w].
LEMMA RecordJust ==
    ASSUME TypeOK, JustInv, [Next]_vars, NEW w \in Workloads, NEW r \in Reconciliations,
           rec' = [rec EXCEPT ![w] = r],
           \A d \in Devices : \A x \in r.snap[d].st : Justified(x, d),
           \A d \in Devices : r.phase = "add" /\ r.step[d] = "status" => Justified(w, d)
    PROVE  SnapsJust' /\ AddsJust'
<1>1. \A x \in Workloads : rec'[x] = IF x = w THEN r ELSE rec[x]
  BY DEF TypeOK
<1>2. \A x \in Workloads, d \in Devices : rec'[x].snap[d].st \subseteq Workloads
  BY <1>1 DEF TypeOK, Reconciliations, Snapshots
<1>3. \A x \in Workloads, d \in Devices : \A y \in rec'[x].snap[d].st : Justified(y, d)
  BY <1>1 DEF JustInv, SnapsJust
<1>4. \A x \in Workloads, d \in Devices :
         rec'[x].phase = "add" /\ rec'[x].step[d] = "status" => Justified(x, d)
  BY <1>1 DEF JustInv, AddsJust
<1>5. SnapsJust'
  BY <1>2, <1>3, StaysJustified DEF SnapsJust
<1>6. AddsJust'
  BY <1>4, StaysJustified DEF AddsJust
<1> QED BY <1>5, <1>6

LEMMA IdleJust ==
    ASSUME TypeOK, JustInv, [Next]_vars, NEW w \in Workloads, rec' = [rec EXCEPT ![w] = Idle]
    PROVE  SnapsJust' /\ AddsJust'
<1>1. /\ \A d \in Devices : Idle.snap[d].st = {}
      /\ Idle.phase # "add"
  BY DEF Idle, Blank
<1> QED BY <1>1, IdleTypes, RecordJust

\* A goroutine moves on to another step, keeping no list of the device.
LEMMA AdvanceJust ==
    ASSUME TypeOK, JustInv, [Next]_vars, NEW w \in Workloads, NEW d \in Devices,
           NEW s \in Steps \ {"status"}, NEW snap \in Snapshots, snap.st = {},
           Advance(w, d, s, snap)
    PROVE  SnapsJust' /\ AddsJust'
<1> DEFINE r == [rec[w] EXCEPT !.step[d] = s, !.snap[d] = snap]
<1>1. rec[w] \in Reconciliations
  BY DEF TypeOK
<1>2. r \in Reconciliations
  BY <1>1 DEF Reconciliations
<1>3. rec' = [rec EXCEPT ![w] = r]
  <2>1. rec \in [Workloads -> Reconciliations]
    BY DEF TypeOK
  <2> QED BY ONLY <2>1, Advance(w, d, s, snap) DEF Advance
<1>4. /\ \A e \in Devices : r.snap[e] = IF e = d THEN snap ELSE rec[w].snap[e]
      /\ \A e \in Devices : r.step[e] = IF e = d THEN s ELSE rec[w].step[e]
      /\ r.phase = rec[w].phase
  BY <1>1 DEF Reconciliations
<1>5. \A e \in Devices : \A x \in r.snap[e].st : Justified(x, e)
  BY <1>4 DEF JustInv, SnapsJust
<1>6. \A e \in Devices : r.phase = "add" /\ r.step[e] = "status" => Justified(w, e)
  BY <1>4 DEF JustInv, AddsJust
<1> HIDE DEF r
<1> QED BY <1>2, <1>3, <1>5, <1>6, RecordJust

\* Every step keeps JustInv.
LEMMA StepJust ==
    ASSUME TypeOK, SpecsKnown, JustInv, [Next]_vars
    PROVE  JustInv'
<1> USE DEF api, cache, history
<1>1. ASSUME NEW w \in Workloads,
             \/ \E s \in Specs : CreateWorkload(w, s) \/ EditSpec(w, s)
             \/ DeleteWorkload(w) \/ SyncWorkload(w) \/ Resync(w) \/ ReconcileNothing(w)
             \/ AddFinalizer(w) \/ PatchSelectorLabels(w)
      PROVE  JustInv'
  <2>1. UNCHANGED <<dev, cdev, hb, lc, rec>>
    BY <1>1 DEF CreateWorkload, EditSpec, DeleteWorkload, SyncWorkload, Resync, ReconcileNothing,
                AddFinalizer, PatchSelectorLabels
  <2> QED BY <2>1, UntouchedJust DEF JustInv
<1>2. ASSUME NEW d \in Devices, NEW l \in UserLabels, SetLabels(d, l) PROVE JustInv'
  <2> DEFINE o == [dev[d] EXCEPT !.lab = l]
  <2>1. dev[d] \in DeviceObjects
    BY DEF TypeOK
  <2>2. o \in DeviceObjects /\ o.lab = l /\ o.st = dev[d].st
    BY <2>1 DEF DeviceObjects
  <2>3. l \in labHist'[d] /\ WriteDevice(d, o, Overtaken(d, o)) /\ UNCHANGED <<cdev, hb, rec>>
    BY <1>2 DEF SetLabels, TypeOK
  <2> HIDE DEF o
  <2>4. \A w \in o.st \cup Overtaken(d, o).new.st : Justified(w, d)
    BY <2>2, OvertakenNew DEF JustInv, DevicesJust, LabelsJust
  <2>5. DevicesJust' /\ LabelsJust'
    BY <2>2, <2>3, <2>4, OvertakenType, WriteDeviceJust
  <2> QED BY <2>3, <2>5, UntouchedJust DEF JustInv
<1>3. ASSUME NEW d \in Devices, SyncDevice(d) PROVE JustInv'
  <2>1. UNCHANGED <<dev, hb, lc, rec, labHist>> /\ cdev' = [cdev EXCEPT ![d] = dev[d]]
    BY <1>3 DEF SyncDevice
  <2>2. \A x \in Devices : cdev'[x] = dev[x] \/ cdev'[x] = cdev[x]
    BY <2>1 DEF TypeOK
  <2>3. \A x \in Devices : dev[x].st \subseteq Workloads /\ cdev[x].st \subseteq Workloads
    BY DEF TypeOK, DeviceObjects
  <2>4. \A x \in Devices : cdev'[x].lab \in labHist'[x]
    BY <2>1, <2>2 DEF JustInv, DevicesJust, CacheJust
  <2>5. \A x \in Devices : \A w \in cdev'[x].st : w \in Workloads /\ Justified(w, x)
    BY <2>2, <2>3 DEF JustInv, DevicesJust, CacheJust
  <2>6. CacheJust'
    BY <2>4, <2>5, StaysJustified DEF CacheJust
  <2> QED BY <2>1, <2>6, UntouchedJust DEF JustInv
<1>4. ASSUME NEW w \in Workloads, StartReconcile(w) PROVE JustInv'
  <2>1. UNCHANGED <<dev, cdev, hb, lc, labHist, specHist>>
    BY <1>4 DEF StartReconcile
  <2> DEFINE visited == IF cwl[w].state = "deleting"
                        THEN ListMatching(w) \cup ListForWorkload(w) ELSE ListMatching(w)
             prune == IF cwl[w].state = "deleting" THEN {}
                      ELSE ListForWorkload(w) \ ListMatching(w)
             phase == IF cwl[w].state = "deleting" THEN "finalize" ELSE "add"
             step == [d \in Devices |-> IF d \in visited THEN "status" ELSE "none"]
             snap == [d \in Devices |-> IF d \in visited \cup prune
                                         THEN Snap(cdev[d]) ELSE Blank]
             r == [phase |-> phase, step |-> step, snap |-> snap, prune |-> prune]
  <2>2. rec' = [rec EXCEPT ![w] = r]
    BY <1>4 DEF StartReconcile
  <2>3. TypeOK'
    BY StepTypeOK
  <2>4. rec'[w] = r
    BY <2>2 DEF TypeOK
  <2>5. r \in Reconciliations
    <3> HIDE DEF r
    <3> QED BY <2>3, <2>4 DEF TypeOK
  <2>6. \A d \in Devices : \A x \in r.snap[d].st : Justified(x, d)
    BY DEF JustInv, CacheJust, Snap, Blank
  <2>7. ASSUME NEW d \in Devices, r.phase = "add", r.step[d] = "status"
        PROVE  Justified(w, d)
    <3>1. cwl[w].state # "deleting" /\ d \in ListMatching(w)
      BY <2>7
    <3>2. cwl[w].spec \in specHist[w]
      BY <1>4, <3>1 DEF StartReconcile, SpecsKnown
    <3>3. cdev[d].lab \in labHist[d]
      BY DEF JustInv, CacheJust
    <3>4. getMatchingEdgeDevices(cwl[w].spec, d, cdev[d].lab)
      BY <3>1 DEF ListMatching
    <3> QED BY <3>2, <3>3, <3>4, MatchJustifies
  <2> HIDE DEF r
  <2>8. SnapsJust' /\ AddsJust'
    BY <2>2, <2>5, <2>6, <2>7, RecordJust
  <2> QED BY <2>1, <2>8, UntouchedJust DEF JustInv
<1>5. ASSUME NEW w \in Workloads, NEW d \in Devices, DeviceCallFails(w, d) PROVE JustInv'
  <2>1. UNCHANGED <<dev, cdev, hb, lc>> /\ Advance(w, d, "err", Blank)
    BY <1>5 DEF DeviceCallFails
  <2>2. SnapsJust' /\ AddsJust'
    BY <2>1, IdleTypes, AdvanceJust DEF Blank, Steps
  <2> QED BY <2>1, <2>2, UntouchedJust DEF JustInv
<1>6. ASSUME NEW w \in Workloads, NEW d \in Devices, AddToStatus(w, d) PROVE JustInv'
  <2> DEFINE snap == rec[w].snap[d]
             o == [dev[d] EXCEPT !.st = WithWorkload(snap.st, w)]
             kept == [snap EXCEPT !.st = {}]
             answer == [wlab |-> snap.wlab \cup dev[d].wlab, st |-> {}]
  <2>1. kept \in Snapshots /\ answer \in Snapshots /\ kept.st = {} /\ answer.st = {}
    BY SnapType DEF Snapshots
  <2>2. o \in DeviceObjects
    BY SnapType, DeviceEdits, PlacementAssumption DEF WithWorkload
  <2>3. o.lab = dev[d].lab /\ o.st = snap.st \cup {w}
    BY SnapType DEF DeviceObjects, WithWorkload
  <2>4. \A x \in o.st \cup Overtaken(d, o).new.st : Justified(x, d)
    <3>1. Justified(w, d)
      BY <1>6 DEF AddToStatus, JustInv, AddsJust
    <3>2. \A x \in snap.st : Justified(x, d)
      BY DEF JustInv, SnapsJust
    <3> QED BY <2>3, <3>1, <3>2, OvertakenNew DEF JustInv, LabelsJust
  <2>5. UNCHANGED <<cdev, hb, labHist>>
    BY <1>6 DEF AddToStatus
  <2>6. \/ UNCHANGED <<dev, lc>> /\ Advance(w, d, "label", kept)
        \/ WriteDevice(d, o, Overtaken(d, o)) /\ Advance(w, d, "label", answer)
    BY <1>6 DEF AddToStatus
  <2>7. dev[d].lab \in labHist'[d]
    BY <2>5 DEF JustInv, DevicesJust
  <2> HIDE DEF o, kept, answer
  <2>8. SnapsJust' /\ AddsJust'
    BY <2>1, <2>6, AdvanceJust DEF Steps
  <2>9. DevicesJust' /\ LabelsJust'
    BY <2>2, <2>3, <2>4, <2>6, <2>7, OvertakenType, WriteDeviceJust, UntouchedJust
  <2> QED BY <2>5, <2>8, <2>9, UntouchedJust DEF JustInv
<1>7. ASSUME NEW w \in Workloads, NEW d \in Devices, AddLabel(w, d) \/ RemoveLabel(w, d)
      PROVE  JustInv'
  <2>1. UNCHANGED <<cdev, hb, labHist>> /\ Advance(w, d, "ok", Blank)
    BY <1>7 DEF AddLabel, RemoveLabel
  <2>2. PICK s \in SUBSET Workloads :
           LET o == [dev[d] EXCEPT !.wlab = s] IN WriteDevice(d, o, Overtaken(d, o))
    <3>1. [dev[d] EXCEPT !.wlab = @] = dev[d]
      BY SnapType DEF DeviceObjects
    <3>2. CASE AddLabel(w, d)
      BY <3>1, <3>2, SnapType DEF AddLabel
    <3>3. CASE RemoveLabel(w, d)
      BY <3>1, <3>3, SnapType DEF RemoveLabel
    <3> QED BY <1>7, <3>2, <3>3
  <2> DEFINE o == [dev[d] EXCEPT !.wlab = s]
  <2>3. o \in DeviceObjects /\ o.st = dev[d].st /\ o.lab = dev[d].lab
    BY SnapType DEF DeviceObjects
  <2>4. o.lab \in labHist'[d] /\ WriteDevice(d, o, Overtaken(d, o))
    BY <2>1, <2>2, <2>3 DEF JustInv, DevicesJust
  <2>5. \A x \in o.st \cup Overtaken(d, o).new.st : Justified(x, d)
    BY <2>3, OvertakenNew DEF JustInv, DevicesJust, LabelsJust
  <2> HIDE DEF o
  <2>6. DevicesJust' /\ LabelsJust'
    BY <2>3, <2>4, <2>5, OvertakenType, WriteDeviceJust
  <2>7. SnapsJust' /\ AddsJust'
    BY <2>1, IdleTypes, AdvanceJust DEF Blank, Steps
  <2> QED BY <2>1, <2>6, <2>7, UntouchedJust DEF JustInv
<1>8. ASSUME NEW w \in Workloads, NEW d \in Devices, RemoveFromStatus(w, d) PROVE JustInv'
  <2> DEFINE snap == rec[w].snap[d]
             o == IF w \in snap.st THEN [dev[d] EXCEPT !.st = snap.st \ {w}] ELSE dev[d]
             answer == [wlab |-> snap.wlab \cup dev[d].wlab, st |-> {}]
  <2>1. answer \in Snapshots /\ answer.st = {}
    BY SnapType DEF Snapshots
  <2>2. o \in DeviceObjects
    BY SnapType, DeviceEdits, PlacementAssumption
  <2>3. o.lab = dev[d].lab /\ o.st \subseteq snap.st \cup dev[d].st
    BY SnapType DEF DeviceObjects
  <2>4. \A x \in o.st \cup Overtaken(d, o).new.st : Justified(x, d)
    BY <2>3, OvertakenNew DEF JustInv, DevicesJust, LabelsJust, SnapsJust
  <2>5. UNCHANGED <<cdev, hb, labHist>> /\ WriteDevice(d, o, Overtaken(d, o))
           /\ Advance(w, d, "label", answer)
    BY <1>8 DEF RemoveFromStatus
  <2>6. dev[d].lab \in labHist'[d]
    BY <2>5 DEF JustInv, DevicesJust
  <2> HIDE DEF o, answer
  <2>7. SnapsJust' /\ AddsJust'
    BY <2>1, <2>5, AdvanceJust DEF Steps
  <2>8. DevicesJust' /\ LabelsJust'
    BY <2>2, <2>3, <2>4, <2>5, <2>6, OvertakenType, WriteDeviceJust
  <2> QED BY <2>5, <2>7, <2>8, UntouchedJust DEF JustInv
<1>9. ASSUME NEW w \in Workloads, ReconcileFails(w) \/ ReconcileDone(w) \/ RemoveFinalizer(w)
      PROVE  JustInv'
  <2>1. UNCHANGED <<dev, cdev, hb, lc>> /\ rec' = [rec EXCEPT ![w] = Idle]
    BY <1>9 DEF ReconcileFails, ReconcileDone, RemoveFinalizer
  <2> QED BY <2>1, IdleJust, UntouchedJust DEF JustInv
<1>10. ASSUME NEW w \in Workloads, StartPrune(w) PROVE JustInv'
  <2> DEFINE step == [d \in Devices |-> IF d \in rec[w].prune THEN "status" ELSE "none"]
             r == [rec[w] EXCEPT !.phase = "prune", !.prune = {}, !.step = step]
  <2>1. rec[w] \in Reconciliations /\ step \in [Devices -> Steps]
    BY DEF TypeOK, Steps
  <2>2. r \in Reconciliations /\ r.phase = "prune" /\ r.snap = rec[w].snap
    BY <2>1 DEF Reconciliations
  <2>3. rec' = [rec EXCEPT ![w] = r] /\ UNCHANGED <<dev, cdev, hb, lc>>
    BY <1>10 DEF StartPrune, TypeOK
  <2>4. \A d \in Devices : \A x \in r.snap[d].st : Justified(x, d)
    BY <2>2 DEF JustInv, SnapsJust
  <2> HIDE DEF r
  <2>5. SnapsJust' /\ AddsJust'
    BY <2>2, <2>3, <2>4, RecordJust
  <2> QED BY <2>3, <2>5, UntouchedJust DEF JustInv
<1>11. ASSUME NEW d \in Devices, StartLabels(d) PROVE JustInv'
  <2>1. UNCHANGED <<dev, cdev, hb, rec>>
    BY <1>11 DEF StartLabels
  <2>2. \A w \in selectedWorkloads(d) : w \in Workloads /\ Justified(w, d)
    <3> SUFFICES ASSUME NEW w \in selectedWorkloads(d) PROVE w \in Workloads /\ Justified(w, d)
      OBVIOUS
    <3>1. /\ w \in Workloads /\ cwl[w].state = "live"
          /\ isWorkloadMatchDevice(cwl[w].spec, d, cdev[d].lab)
      BY DEF selectedWorkloads, ListByLabel, Indexed
    <3>2. cwl[w].spec \in specHist[w]
      BY <3>1 DEF SpecsKnown
    <3>3. cdev[d].lab \in labHist[d]
      BY DEF JustInv, CacheJust
    <3> QED BY <3>1, <3>2, <3>3, MatchJustifies
  <2>3. \A x \in Devices : lc'[x].new.st = lc[x].new.st \/ (x = d /\ lc'[x].new.st = selectedWorkloads(d))
    BY <1>11 DEF StartLabels, TypeOK
  <2>4. \A x \in Devices : lc[x].new.st \subseteq Workloads
    BY DEF TypeOK, LabelsWork, Snapshots
  <2>5. \A x \in Devices : \A w \in lc'[x].new.st : w \in Workloads /\ Justified(w, x)
    BY <2>2, <2>3, <2>4 DEF JustInv, LabelsJust
  <2>6. LabelsJust'
    BY <2>5, StaysJustified DEF LabelsJust
  <2> QED BY <2>1, <2>6, UntouchedJust DEF JustInv
<1>12. ASSUME NEW d \in Devices, PatchLabelsStatus(d) PROVE JustInv'
  <2> DEFINE o == [dev[d] EXCEPT !.st = lc[d].new.st]
             mine == [lc[d] EXCEPT !.phase = "label", !.fresh = TRUE, !.new.wlab = @ \cup dev[d].wlab]
  <2>1. lc[d] \in LabelsWork /\ lc[d].new \in Snapshots /\ dev[d] \in DeviceObjects
    BY DEF TypeOK, LabelsWork
  <2>2. lc[d].new.st \subseteq Workloads /\ dev[d].wlab \subseteq Workloads
    BY <2>1 DEF Snapshots, DeviceObjects
  <2>3. o \in DeviceObjects /\ o.lab = dev[d].lab /\ o.st = lc[d].new.st
    BY <2>1, <2>2 DEF DeviceObjects
  <2>4. [lc[d].new EXCEPT !.wlab = @ \cup dev[d].wlab] \in Snapshots
    BY <2>1, <2>2 DEF Snapshots
  <2>5. mine \in LabelsWork
    BY <2>1, <2>4 DEF LabelsWork
  <2>6. mine.new.st = lc[d].new.st
    BY <2>1 DEF LabelsWork, Snapshots
  <2>7. UNCHANGED <<cdev, hb, rec, labHist>> /\ WriteDevice(d, o, mine)
    BY <1>12 DEF PatchLabelsStatus
  <2>8. o.lab \in labHist'[d] /\ \A w \in o.st \cup mine.new.st : Justified(w, d)
    BY <2>3, <2>6, <2>7 DEF JustInv, DevicesJust, LabelsJust
  <2> HIDE DEF o, mine
  <2>9. DevicesJust' /\ LabelsJust'
    BY <2>3, <2>5, <2>7, <2>8, WriteDeviceJust
  <2> QED BY <2>7, <2>9, UntouchedJust DEF JustInv
<1>13. ASSUME NEW d \in Devices, PatchLabels(d) PROVE JustInv'
  <2> DEFINE base == lc[d].base.wlab
             new == lc[d].new.wlab
             o == [dev[d] EXCEPT !.wlab = (@ \cup (new \ base)) \ (base \ new)]
  <2>1. dev[d] \in DeviceObjects /\ dev[d].wlab \subseteq Workloads /\ new \subseteq Workloads
    BY DEF TypeOK, LabelsWork, Snapshots, DeviceObjects
  <2>2. o \in DeviceObjects /\ o.st = dev[d].st /\ o.lab = dev[d].lab
    BY <2>1 DEF DeviceObjects
  <2>3. UNCHANGED <<cdev, hb, rec, labHist>> /\ WriteDevice(d, o, LabelsIdle)
    BY <1>13 DEF PatchLabels
  <2>4. o.lab \in labHist'[d] /\ \A w \in o.st \cup LabelsIdle.new.st : Justified(w, d)
    BY <2>2, <2>3 DEF JustInv, DevicesJust, LabelsIdle, Blank
  <2> HIDE DEF o
  <2>5. DevicesJust' /\ LabelsJust'
    BY <2>2, <2>3, <2>4, IdleTypes, WriteDeviceJust
  <2> QED BY <2>3, <2>5, UntouchedJust DEF JustInv
<1>14. ASSUME NEW d \in Devices, LabelsFail(d) PROVE JustInv'
  <2>1. UNCHANGED <<dev, cdev, hb, rec>> /\ lc' = [lc EXCEPT ![d] = LabelsIdle]
    BY <1>14 DEF LabelsFail
  <2>2. \A x \in Devices : lc'[x].new.st \subseteq lc[x].new.st /\ lc[x].new.st \subseteq Workloads
    BY <2>1 DEF TypeOK, LabelsIdle, Blank, LabelsWork, Snapshots
  <2>3. LabelsJust'
    BY <2>2, StaysJustified DEF JustInv, LabelsJust
  <2> QED BY <2>1, <2>3, UntouchedJust DEF JustInv
<1>15. ASSUME NEW d \in Devices, ReadHeartbeat(d) PROVE JustInv'
  <2>1. UNCHANGED <<dev, cdev, lc, rec>>
           /\ hb' = [hb EXCEPT ![d] = [busy |-> TRUE, st |-> dev[d].st]]
    BY <1>15 DEF ReadHeartbeat
  <2>2. \A x \in Devices : hb'[x].st = dev[x].st \/ hb'[x].st = hb[x].st
    BY <2>1 DEF TypeOK
  <2>3. \A x \in Devices : dev[x].st \subseteq Workloads /\ hb[x].st \subseteq Workloads
    BY DEF TypeOK, DeviceObjects, Beats
  <2>4. BeatsJust'
    BY <2>2, <2>3, StaysJustified DEF JustInv, DevicesJust, BeatsJust
  <2> QED BY <2>1, <2>4, UntouchedJust DEF JustInv
<1>16. ASSUME NEW d \in Devices, UpdateStatus(d) PROVE JustInv'
  <2>1. PICK changed \in BOOLEAN :
           LET o == IF changed /\ hb[d].st # {} THEN [dev[d] EXCEPT !.st = hb[d].st] ELSE dev[d]
           IN  WriteDevice(d, o, Overtaken(d, o))
    BY <1>16 DEF UpdateStatus
  <2> DEFINE o == IF changed /\ hb[d].st # {} THEN [dev[d] EXCEPT !.st = hb[d].st] ELSE dev[d]
  <2>2. dev[d] \in DeviceObjects /\ hb[d].st \subseteq Workloads
    BY DEF TypeOK, Beats
  <2>3. o \in DeviceObjects /\ o.lab = dev[d].lab /\ (o.st = hb[d].st \/ o.st = dev[d].st)
    BY <2>2 DEF DeviceObjects
  <2>4. /\ UNCHANGED <<cdev, rec, labHist>> /\ hb' = [hb EXCEPT ![d] = NoBeat]
        /\ WriteDevice(d, o, Overtaken(d, o))
    BY <1>16, <2>1 DEF UpdateStatus
  <2>5. o.lab \in labHist'[d]
    BY <2>3, <2>4 DEF JustInv, DevicesJust
  <2> HIDE DEF o
  <2>6. \A w \in o.st \cup Overtaken(d, o).new.st : Justified(w, d)
    BY <2>3, OvertakenNew DEF JustInv, DevicesJust, BeatsJust, LabelsJust
  <2>7. DevicesJust' /\ LabelsJust'
    BY <2>3, <2>4, <2>5, <2>6, OvertakenType, WriteDeviceJust
  <2>8. \A x \in Devices : hb'[x].st \subseteq hb[x].st /\ hb[x].st \subseteq Workloads
    BY <2>4 DEF TypeOK, Beats, NoBeat
  <2>9. BeatsJust'
    BY <2>8, StaysJustified DEF JustInv, BeatsJust
  <2> QED BY <2>4, <2>7, <2>9, UntouchedJust DEF JustInv
<1>17. CASE Restart
  <2>1. UNCHANGED <<dev, hb, labHist>> /\ cdev' = dev
    BY <1>17 DEF Restart
  <2>2. \A d \in Devices : dev[d].st \subseteq Workloads
    BY DEF TypeOK, DeviceObjects
  <2>3. CacheJust'
    BY <2>1, <2>2, StaysJustified DEF JustInv, DevicesJust, CacheJust
  <2>4. LabelsJust'
    BY <1>17 DEF Restart, LabelsJust, LabelsIdle, Blank
  <2>5. SnapsJust' /\ AddsJust'
    BY <1>17 DEF Restart, SnapsJust, AddsJust, Idle, Blank
  <2> QED BY <2>1, <2>3, <2>4, <2>5, UntouchedJust DEF JustInv
<1>18. CASE UNCHANGED vars
  BY <1>18, UntouchedJust DEF vars, JustInv
<1> QED
  BY <1>1, <1>2, <1>3, <1>4, <1>5, <1>6, <1>7, <1>8, <1>9, <1>10, <1>11, <1>12, <1>13,
     <1>14, <1>15, <1>16, <1>17, <1>18
     DEF Next, User, Reconcile, Visit, Labels

\* PlacementJustified: whatever the two controllers and the heartbeat handler
\* write from stale copies, a device only ever lists workloads that have
\* selected it.
THEOREM PlacementIsJustified == Spec => []PlacementJustified
<1>1. Init => TypeOK /\ SpecsKnown /\ JustInv
  BY InitTypeOK, InitJust
<1>2. TypeOK /\ SpecsKnown /\ JustInv /\ [Next]_vars => (TypeOK /\ SpecsKnown /\ JustInv)'
  BY StepTypeOK, StepSpecsKnown, StepJust
<1>3. JustInv => PlacementJustified
  BY DEF JustInv, DevicesJust, PlacementJustified
<1> QED BY <1>1, <1>2, <1>3, PTL DEF Spec

-----------------------------------------------------------------------------
(* What the parts of Next do to workloads, their events and their           *)
(* reconciliations.                                                         *)

\* Users who relabel, the device events, the labels controller and heartbeats
\* touch none of these.
LEMMA QuietStep ==
    ASSUME TypeOK, NEW d \in Devices,
           \/ \E l \in UserLabels : SetLabels(d, l)
           \/ SyncDevice(d) \/ Labels(d) \/ ReadHeartbeat(d) \/ UpdateStatus(d)
    PROVE  UNCHANGED <<wl, cwl, wq, rec, purged>> /\ news'.wl = news.wl
<1> USE DEF api, cache, history
<1>0. news \in Events
  BY DEF TypeOK
<1>1. ASSUME NEW o, NEW mine, WriteDevice(d, o, mine) PROVE news'.wl = news.wl
  BY <1>0, <1>1 DEF WriteDevice, Events
<1>2. CASE \E l \in UserLabels : SetLabels(d, l)
  BY <1>1, <1>2 DEF SetLabels
<1>3. CASE SyncDevice(d)
  BY <1>0, <1>3 DEF SyncDevice, Events
<1>4. CASE Labels(d)
  <2>1. UNCHANGED <<wl, cwl, wq, rec, purged>>
    BY <1>4 DEF Labels, StartLabels, PatchLabelsStatus, PatchLabels, LabelsFail
  <2>2. UNCHANGED news \/ \E o, mine : WriteDevice(d, o, mine)
    BY <1>4 DEF Labels, StartLabels, PatchLabelsStatus, PatchLabels, LabelsFail
  <2> QED BY <1>1, <2>1, <2>2
<1>5. CASE ReadHeartbeat(d)
  BY <1>5 DEF ReadHeartbeat
<1>6. CASE UpdateStatus(d)
  BY <1>1, <1>6 DEF UpdateStatus
<1> QED BY <1>2, <1>3, <1>4, <1>5, <1>6

\* A goroutine moves on with one device; a device that finalizeRemoval is
\* done with has been purged.
LEMMA AdvanceStep ==
    ASSUME TypeOK, NEW w \in Workloads, NEW d \in Devices, NEW s, NEW snap, Advance(w, d, s, snap)
    PROVE  /\ \A x \in Workloads : rec'[x].phase = rec[x].phase
           /\ \A x \in Workloads, e \in Devices :
                 rec'[x].step[e] = IF x = w /\ e = d THEN s ELSE rec[x].step[e]
<1>1. rec \in [Workloads -> Reconciliations]
  BY DEF TypeOK
<1>2. rec' = [rec EXCEPT ![w] = [rec[w] EXCEPT !.step[d] = s, !.snap[d] = snap]]
  BY ONLY <1>1, Advance(w, d, s, snap) DEF Advance
<1> QED BY ONLY <1>1, <1>2 DEF Reconciliations

LEMMA VisitStep ==
    ASSUME TypeOK, NEW w \in Workloads, NEW d \in Devices, Visit(w, d)
    PROVE  /\ UNCHANGED <<wl, cwl, wq>> /\ news'.wl = news.wl
           /\ \A x \in Workloads : rec'[x].phase = rec[x].phase /\ purged[x] \subseteq purged'[x]
           /\ \A x \in Workloads, e \in Devices :
                 \/ rec'[x].step[e] = rec[x].step[e]
                 \/ /\ rec'[x].step[e] # "none"
                    /\ rec'[x].step[e] = "ok" /\ rec[x].phase = "finalize" => e \in purged'[x]
<1> USE DEF api, cache, history
<1>0. news \in Events /\ purged \in [Workloads -> SUBSET Devices]
  BY DEF TypeOK
<1>1. ASSUME NEW o, NEW mine, WriteDevice(d, o, mine) PROVE news'.wl = news.wl
  BY <1>0, <1>1 DEF WriteDevice, Events
<1>2. CASE AddToStatus(w, d)
  <2>1. rec[w].phase = "add" /\ UNCHANGED <<wl, cwl, wq, purged>> /\ \E snap : Advance(w, d, "label", snap)
    BY <1>2 DEF AddToStatus
  <2>2. news'.wl = news.wl
    BY <1>1, <1>2 DEF AddToStatus
  <2> QED BY <2>1, <2>2, AdvanceStep
<1>3. CASE AddLabel(w, d)
  <2>1. rec[w].phase = "add" /\ UNCHANGED <<wl, cwl, wq, purged>> /\ Advance(w, d, "ok", Blank)
    BY <1>3 DEF AddLabel
  <2>2. news'.wl = news.wl
    BY <1>1, <1>3 DEF AddLabel
  <2> QED BY <2>1, <2>2, AdvanceStep
<1>4. CASE RemoveFromStatus(w, d)
  <2>1. UNCHANGED <<wl, cwl, wq, purged>> /\ \E snap : Advance(w, d, "label", snap)
    BY <1>4 DEF RemoveFromStatus
  <2>2. news'.wl = news.wl
    BY <1>1, <1>4 DEF RemoveFromStatus
  <2> QED BY <2>1, <2>2, AdvanceStep
<1>5. CASE RemoveLabel(w, d)
  <2>1. UNCHANGED <<wl, cwl, wq>> /\ Advance(w, d, "ok", Blank)
    BY <1>5 DEF RemoveLabel
  <2>2. news'.wl = news.wl
    BY <1>1, <1>5 DEF RemoveLabel
  <2>3. purged' = IF rec[w].phase = "finalize" THEN [purged EXCEPT ![w] = @ \cup {d}] ELSE purged
    BY <1>5 DEF RemoveLabel
  <2>4. /\ \A x \in Workloads : purged[x] \subseteq purged'[x]
        /\ rec[w].phase = "finalize" => d \in purged'[w]
    BY <1>0, <2>3
  <2> QED BY <2>1, <2>2, <2>4, AdvanceStep
<1>6. CASE DeviceCallFails(w, d)
  <2>1. UNCHANGED <<wl, cwl, wq, purged, news>> /\ Advance(w, d, "err", Blank)
    BY <1>6 DEF DeviceCallFails
  <2> QED BY <2>1, AdvanceStep
<1> QED BY <1>2, <1>3, <1>4, <1>5, <1>6 DEF Visit, AddToStatus, AddLabel

\* A write of a workload is an event, unless it changes nothing.
LEMMA WriteWorkloadStep ==
    ASSUME TypeOK, NEW w \in Workloads, NEW o, WriteWorkload(w, o)
    PROVE  /\ \A x \in Workloads : wl'[x] = IF x = w THEN o ELSE wl[x]
           /\ news'.wl = IF o = wl[w] THEN news.wl ELSE news.wl \cup {w}
<1>1. news \in Events /\ wl \in [Workloads -> WorkloadObjects]
  BY DEF TypeOK
<1>2. \A x \in Workloads : wl'[x] = IF x = w THEN o ELSE wl[x]
  BY <1>1 DEF WriteWorkload
<1>3. news'.wl = IF o = wl[w] THEN news.wl ELSE news.wl \cup {w}
  BY <1>1 DEF WriteWorkload, Events
<1> QED BY <1>2, <1>3

\* What is left of AlwaysSelected only shrinks.
LEMMA SelectedBefore ==
    ASSUME TypeOK, [Next]_vars, NEW w \in Workloads, NEW d \in Devices, AlwaysSelected(w, d)'
    PROVE  AlwaysSelected(w, d)
<1>1. specHist[w] \subseteq specHist'[w] /\ labHist[d] \subseteq labHist'[d]
  BY HistoriesGrow
<1> QED BY <1>1 DEF AlwaysSelected

\* The end of a reconciliation.
LEMMA IdleStep ==
    ASSUME TypeOK, NEW w \in Workloads, rec' = [rec EXCEPT ![w] = Idle]
    PROVE  rec'[w].phase = "idle" /\ \A x \in Workloads : x # w => rec'[x] = rec[x]
BY DEF TypeOK, Idle

\* The edits of a workload touch the field they are about.
LEMMA WorkloadEdits ==
    ASSUME TypeOK, NEW w \in Workloads, NEW b, NEW s, NEW k
    PROVE  /\ [wl[w] EXCEPT !.spec = s].state = wl[w].state
           /\ [wl[w] EXCEPT !.spec = s].fin = wl[w].fin
           /\ [wl[w] EXCEPT !.spec = s].spec = s
           /\ [wl[w] EXCEPT !.fin = b].state = wl[w].state
           /\ [wl[w] EXCEPT !.fin = b].fin = b
           /\ [wl[w] EXCEPT !.keys = k].state = wl[w].state
           /\ [wl[w] EXCEPT !.keys = k].fin = wl[w].fin
           /\ [wl[w] EXCEPT !.keys = k].keys = k
           /\ [wl[w] EXCEPT !.state = "deleting"].state = "deleting"
           /\ [wl[w] EXCEPT !.state = "deleting"].fin = wl[w].fin
           /\ Gone.state = "absent"
<1>1. wl[w] \in WorkloadObjects
  BY DEF TypeOK
<1> QED BY ONLY <1>1 DEF WorkloadObjects, Gone

-----------------------------------------------------------------------------
(* What is pending, and CleanupBeforeGone.                                  *)
(*                                                                          *)
(* CacheCurrent: a workload without an event on its way is in the cache as  *)
(* it is on the server; so a worker that takes it from the queue sees what  *)
(* there is to do.  FinInv: a finalizer is added by a reconciliation that   *)
(* saw the workload alive, so no reconciliation of an earlier incarnation   *)
(* is left that could take this finalizer away.  CleanInv: finalizeRemoval  *)
(* visits what the workload has always selected, and purges what it is done *)
(* with.                                                                    *)

CacheCurrent == \A w \in Workloads : w \notin news.wl => cwl[w] = wl[w]

FinInv ==
    \A w \in Workloads :
        /\ wl[w].state = "deleting" => wl[w].fin
        /\ wl[w].state = "live" /\ wl[w].fin =>
              cwl[w].state # "deleting" /\ rec[w].phase # "finalize"

CleanInv ==
    \A w \in Workloads, d \in Devices :
        wl[w].state = "deleting" /\ rec[w].phase = "finalize" /\ AlwaysSelected(w, d) =>
            /\ rec[w].step[d] # "none"
            /\ rec[w].step[d] = "ok" => d \in purged[w]

\* Every step keeps CacheCurrent.
LEMMA StepCurrent ==
    ASSUME TypeOK, CacheCurrent, [Next]_vars
    PROVE  CacheCurrent'
<1> USE DEF api, cache, history
<1>1. ASSUME NEW w \in Workloads, NEW o, WriteWorkload(w, o), cwl' = cwl PROVE CacheCurrent'
  BY <1>1, WriteWorkloadStep DEF CacheCurrent
<1>2. ASSUME UNCHANGED <<wl, cwl>>, news'.wl = news.wl PROVE CacheCurrent'
  BY <1>2 DEF CacheCurrent
<1>3. ASSUME NEW w \in Workloads, NEW s \in Specs, CreateWorkload(w, s) \/ EditSpec(w, s)
      PROVE  CacheCurrent'
  <2>1. cwl' = cwl /\ \E o : WriteWorkload(w, o)
    BY <1>3 DEF CreateWorkload, EditSpec
  <2> QED BY <1>1, <2>1
<1>4. ASSUME NEW w \in Workloads,
             DeleteWorkload(w) \/ AddFinalizer(w) \/ PatchSelectorLabels(w) \/ RemoveFinalizer(w)
      PROVE  CacheCurrent'
  <2>1. cwl' = cwl /\ (UNCHANGED <<wl, news>> \/ \E o : WriteWorkload(w, o))
    BY <1>4 DEF DeleteWorkload, AddFinalizer, PatchSelectorLabels, RemoveFinalizer
  <2> QED BY <1>1, <1>2, <2>1
<1>5. ASSUME NEW w \in Workloads, SyncWorkload(w) PROVE CacheCurrent'
  <2>1. cwl' = [cwl EXCEPT ![w] = wl[w]] /\ wl' = wl /\ news' = [news EXCEPT !.wl = @ \ {w}]
    BY <1>5 DEF SyncWorkload
  <2>2. news'.wl = news.wl \ {w}
    BY <2>1 DEF TypeOK, Events
  <2> QED BY <2>1, <2>2 DEF CacheCurrent, TypeOK
<1>6. CASE Restart
  BY <1>6 DEF Restart, CacheCurrent
<1>7. ASSUME NEW w \in Workloads,
             Resync(w) \/ ReconcileNothing(w) \/ StartReconcile(w) \/ ReconcileFails(w)
               \/ StartPrune(w) \/ ReconcileDone(w)
      PROVE  UNCHANGED <<wl, cwl, news>>
  BY <1>7 DEF Resync, ReconcileNothing, StartReconcile, ReconcileFails, StartPrune, ReconcileDone
<1>8. ASSUME NEW w \in Workloads, NEW d \in Devices, Visit(w, d) PROVE CacheCurrent'
  BY <1>2, <1>8, VisitStep
<1>9. ASSUME NEW d \in Devices,
             \/ \E l \in UserLabels : SetLabels(d, l)
             \/ SyncDevice(d) \/ Labels(d) \/ ReadHeartbeat(d) \/ UpdateStatus(d)
      PROVE  CacheCurrent'
  BY <1>2, <1>9, QuietStep
<1>10. CASE UNCHANGED vars
  BY <1>2, <1>10 DEF vars
<1> QED BY <1>2, <1>3, <1>4, <1>5, <1>6, <1>7, <1>8, <1>9, <1>10 DEF Next, User, Reconcile

\* Every step keeps FinInv.
LEMMA StepFin ==
    ASSUME TypeOK, FinInv, [Next]_vars
    PROVE  FinInv'
<1> USE DEF api, cache, history
<1>1. ASSUME NEW w \in Workloads, NEW o, WriteWorkload(w, o), UNCHANGED <<cwl, rec>>,
             o.state = "deleting" => o.fin,
             o.state = "live" /\ o.fin => cwl[w].state # "deleting" /\ rec[w].phase # "finalize"
      PROVE  FinInv'
  <2>1. wl'[w] = o /\ \A x \in Workloads : x # w => wl'[x] = wl[x]
    BY <1>1, WriteWorkloadStep
  <2>2. ASSUME NEW x \in Workloads, x # w
        PROVE  /\ wl'[x].state = "deleting" => wl'[x].fin
               /\ wl'[x].state = "live" /\ wl'[x].fin =>
                     cwl'[x].state # "deleting" /\ rec'[x].phase # "finalize"
    BY <1>1, <2>1, <2>2 DEF FinInv
  <2>3. /\ wl'[w].state = "deleting" => wl'[w].fin
        /\ wl'[w].state = "live" /\ wl'[w].fin =>
              cwl'[w].state # "deleting" /\ rec'[w].phase # "finalize"
    BY ONLY <1>1, <2>1
  <2> QED BY <2>2, <2>3 DEF FinInv
<1>2. ASSUME UNCHANGED <<wl, cwl>>,
             \A w \in Workloads : rec'[w].phase = "finalize" =>
                                     rec[w].phase = "finalize" \/ cwl[w].state = "deleting"
      PROVE  FinInv'
  BY <1>2 DEF FinInv
<1>3. ASSUME NEW w \in Workloads, NEW s \in Specs, CreateWorkload(w, s) PROVE FinInv'
  BY <1>1, <1>3 DEF CreateWorkload
<1>4. ASSUME NEW w \in Workloads, NEW s \in Specs, EditSpec(w, s) PROVE FinInv'
  <2>1. WriteWorkload(w, [wl[w] EXCEPT !.spec = s]) /\ UNCHANGED <<cwl, rec>>
    BY <1>4 DEF EditSpec
  <2> DEFINE o == [wl[w] EXCEPT !.spec = s]
  <2>2. o.state = wl[w].state /\ o.fin = wl[w].fin
    BY WorkloadEdits
  <2>3. WriteWorkload(w, o)
    BY <2>1
  <2> HIDE DEF o
  <2>4. /\ o.state = "deleting" => o.fin
        /\ o.state = "live" /\ o.fin => cwl[w].state # "deleting" /\ rec[w].phase # "finalize"
    BY <2>2 DEF FinInv
  <2> QED BY <1>1, <2>1, <2>3, <2>4
<1>5. ASSUME NEW w \in Workloads, DeleteWorkload(w) PROVE FinInv'
  <2>1. /\ UNCHANGED <<cwl, rec>>
        /\ WriteWorkload(w, IF wl[w].fin THEN [wl[w] EXCEPT !.state = "deleting"] ELSE Gone)
    BY <1>5 DEF DeleteWorkload
  <2> DEFINE o == IF wl[w].fin THEN [wl[w] EXCEPT !.state = "deleting"] ELSE Gone
  <2>2. o.state # "live" /\ (o.state = "deleting" => o.fin)
    BY WorkloadEdits
  <2>3. WriteWorkload(w, o)
    BY <2>1
  <2> HIDE DEF o
  <2> QED BY <1>1, <2>1, <2>2, <2>3
<1>6. ASSUME NEW w \in Workloads, AddFinalizer(w) PROVE FinInv'
  <2>1. rec[w].phase = "idle" /\ cwl[w].state = "live" /\ UNCHANGED <<cwl, rec>>
    BY <1>6 DEF AddFinalizer, Ready
  <2>2. UNCHANGED wl \/ WriteWorkload(w, [wl[w] EXCEPT !.fin = TRUE])
    BY <1>6 DEF AddFinalizer
  <2>3. CASE UNCHANGED wl
    BY <1>2, <2>1, <2>3
  <2>4. CASE WriteWorkload(w, [wl[w] EXCEPT !.fin = TRUE])
    <3> DEFINE o == [wl[w] EXCEPT !.fin = TRUE]
    <3>1. o.fin = TRUE /\ WriteWorkload(w, o)
      BY <2>4, WorkloadEdits
    <3> HIDE DEF o
    <3> QED BY <1>1, <2>1, <3>1
  <2> QED BY <2>2, <2>3, <2>4
<1>7. ASSUME NEW w \in Workloads, PatchSelectorLabels(w) PROVE FinInv'
  <2>1. UNCHANGED <<cwl, rec>> /\ (UNCHANGED wl \/ \E k : WriteWorkload(w, [wl[w] EXCEPT !.keys = k]))
    BY <1>7 DEF PatchSelectorLabels
  <2>2. CASE UNCHANGED wl
    BY <1>2, <2>1, <2>2
  <2>3. ASSUME NEW k, WriteWorkload(w, [wl[w] EXCEPT !.keys = k]) PROVE FinInv'
    <3> DEFINE o == [wl[w] EXCEPT !.keys = k]
    <3>1. o.state = wl[w].state /\ o.fin = wl[w].fin
      BY WorkloadEdits
    <3>2. WriteWorkload(w, o)
      BY <2>3
    <3> HIDE DEF o
    <3>3. /\ o.state = "deleting" => o.fin
          /\ o.state = "live" /\ o.fin => cwl[w].state # "deleting" /\ rec[w].phase # "finalize"
      BY <3>1 DEF FinInv
    <3> QED BY <1>1, <2>1, <3>2, <3>3
  <2> QED BY <2>1, <2>2, <2>3
<1>8. ASSUME NEW w \in Workloads, RemoveFinalizer(w) PROVE FinInv'
  <2>1. cwl' = cwl /\ rec'[w].phase = "idle" /\ \A x \in Workloads : x # w => rec'[x] = rec[x]
    BY <1>8, IdleStep DEF RemoveFinalizer
  <2>2. \/ UNCHANGED wl
        \/ WriteWorkload(w, IF wl[w].state = "live" THEN [wl[w] EXCEPT !.fin = FALSE] ELSE Gone)
    BY <1>8 DEF RemoveFinalizer
  <2>3. CASE UNCHANGED wl
    BY <2>1, <2>3 DEF FinInv
  <2>4. CASE WriteWorkload(w, IF wl[w].state = "live" THEN [wl[w] EXCEPT !.fin = FALSE] ELSE Gone)
    <3>1. /\ \A x \in Workloads : x # w => wl'[x] = wl[x]
          /\ wl'[w] = IF wl[w].state = "live" THEN [wl[w] EXCEPT !.fin = FALSE] ELSE Gone
      BY <2>4, WriteWorkloadStep
    <3>2. wl'[w].state # "deleting" /\ rec'[w].phase # "finalize"
          /\ (wl'[w].state = "live" => wl'[w].fin = FALSE)
      BY <2>1, <3>1, WorkloadEdits
    <3>3. ASSUME NEW x \in Workloads, x # w
          PROVE  /\ wl'[x].state = "deleting" => wl'[x].fin
                 /\ wl'[x].state = "live" /\ wl'[x].fin =>
                       cwl'[x].state # "deleting" /\ rec'[x].phase # "finalize"
      BY <2>1, <3>1, <3>3 DEF FinInv
    <3> QED BY <3>2, <3>3 DEF FinInv
  <2> QED BY <2>2, <2>3, <2>4
<1>9. ASSUME NEW w \in Workloads, SyncWorkload(w) PROVE FinInv'
  <2>1. cwl' = [cwl EXCEPT ![w] = wl[w]] /\ UNCHANGED <<wl, rec>>
    BY <1>9 DEF SyncWorkload
  <2> QED BY <2>1 DEF FinInv, TypeOK
<1>10. ASSUME NEW w \in Workloads, StartReconcile(w) PROVE FinInv'
  <2>1. /\ UNCHANGED <<wl, cwl>>
        /\ rec'[w].phase = IF cwl[w].state = "deleting" THEN "finalize" ELSE "add"
        /\ \A x \in Workloads : x # w => rec'[x] = rec[x]
    BY <1>10 DEF StartReconcile, TypeOK
  <2> QED BY <1>2, <2>1
<1>11. ASSUME NEW w \in Workloads, ReconcileFails(w) \/ ReconcileDone(w) PROVE FinInv'
  <2>1. rec' = [rec EXCEPT ![w] = Idle] /\ UNCHANGED <<wl, cwl>>
    BY <1>11 DEF ReconcileFails, ReconcileDone
  <2> QED BY <1>2, <2>1, IdleStep
<1>12. ASSUME NEW w \in Workloads, StartPrune(w) PROVE FinInv'
  <2>1. /\ UNCHANGED <<wl, cwl>> /\ rec'[w].phase = "prune"
        /\ \A x \in Workloads : x # w => rec'[x] = rec[x]
    BY <1>12 DEF StartPrune, TypeOK, Reconciliations
  <2> QED BY <1>2, <2>1
<1>13. ASSUME NEW w \in Workloads, Resync(w) \/ ReconcileNothing(w) PROVE FinInv'
  BY <1>2, <1>13 DEF Resync, ReconcileNothing
<1>14. CASE Restart
  <2>1. cwl' = wl /\ wl' = wl /\ \A w \in Workloads : rec'[w].phase = "idle"
    BY <1>14 DEF Restart, Idle
  <2> QED BY <2>1 DEF FinInv
<1>15. ASSUME NEW w \in Workloads, NEW d \in Devices, Visit(w, d) PROVE FinInv'
  BY <1>2, <1>15, VisitStep
<1>16. ASSUME NEW d \in Devices,
             \/ \E l \in UserLabels : SetLabels(d, l)
             \/ SyncDevice(d) \/ Labels(d) \/ ReadHeartbeat(d) \/ UpdateStatus(d)
      PROVE  FinInv'
  BY <1>2, <1>16, QuietStep
<1>17. CASE UNCHANGED vars
  BY <1>2, <1>17 DEF vars
<1> QED BY <1>3, <1>4, <1>5, <1>6, <1>7, <1>8, <1>9, <1>10, <1>11, <1>12, <1>13, <1>14, <1>15, <1>16, <1>17
        DEF Next, User, Reconcile

\* Every change of a workload is an event.
LEMMA ChangeIsEvent ==
    ASSUME TypeOK, [Next]_vars, NEW w \in Workloads, wl'[w] # wl[w]
    PROVE  w \in news'.wl
<1> USE DEF api, cache, history
<1>1. ASSUME NEW x \in Workloads, NEW o, WriteWorkload(x, o) PROVE w \in news'.wl
  BY <1>1, WriteWorkloadStep
<1>2. ASSUME NEW x \in Workloads, NEW s \in Specs, CreateWorkload(x, s) \/ EditSpec(x, s)
      PROVE  w \in news'.wl
  BY <1>1, <1>2 DEF CreateWorkload, EditSpec
<1>3. ASSUME NEW x \in Workloads,
             DeleteWorkload(x) \/ AddFinalizer(x) \/ PatchSelectorLabels(x) \/ RemoveFinalizer(x)
      PROVE  w \in news'.wl
  <2>1. wl' = wl \/ \E o : WriteWorkload(x, o)
    BY <1>3 DEF DeleteWorkload, AddFinalizer, PatchSelectorLabels, RemoveFinalizer
  <2> QED BY <1>1, <2>1
<1>4. ASSUME NEW x \in Workloads,
             \/ SyncWorkload(x) \/ Resync(x) \/ ReconcileNothing(x) \/ StartReconcile(x)
             \/ ReconcileFails(x) \/ StartPrune(x) \/ ReconcileDone(x)
      PROVE  wl' = wl
  BY <1>4 DEF SyncWorkload, Resync, ReconcileNothing, StartReconcile, ReconcileFails, StartPrune,
              ReconcileDone
<1>5. ASSUME NEW x \in Workloads, NEW d \in Devices, Visit(x, d) PROVE wl' = wl
  BY <1>5, VisitStep
<1>6. ASSUME NEW d \in Devices,
             \/ \E l \in UserLabels : SetLabels(d, l)
             \/ SyncDevice(d) \/ Labels(d) \/ ReadHeartbeat(d) \/ UpdateStatus(d)
      PROVE  wl' = wl
  BY <1>6, QuietStep
<1>7. Restart \/ UNCHANGED vars => wl' = wl
  BY DEF Restart, vars
<1> QED BY <1>2, <1>3, <1>4, <1>5, <1>6, <1>7 DEF Next, User, Reconcile

\* Only users mark a workload for deletion, and it has its finalizer then;
\* only RemoveFinalizer ends its deletion.
LEMMA DeletionStep ==
    ASSUME TypeOK, [Next]_vars, NEW w \in Workloads
    PROVE  /\ wl'[w].state = "deleting" /\ wl[w].state # "deleting" =>
                 DeleteWorkload(w) /\ wl[w].fin
           /\ wl[w].state = "deleting" /\ wl'[w].state # "deleting" => RemoveFinalizer(w)
<1> USE DEF api, cache, history
<1>1. ASSUME NEW x \in Workloads, NEW o, WriteWorkload(x, o)
      PROVE  wl'[x] = o /\ (x # w => wl'[w] = wl[w])
  BY <1>1, WriteWorkloadStep
<1>2. ASSUME NEW x \in Workloads, NEW s \in Specs, CreateWorkload(x, s)
      PROVE  x = w => wl[w].state = "absent" /\ wl'[w].state = "live"
  BY <1>1, <1>2 DEF CreateWorkload
<1>3. ASSUME NEW x \in Workloads, NEW s \in Specs, CreateWorkload(x, s) \/ EditSpec(x, s)
      PROVE  x # w => wl'[w] = wl[w]
  BY <1>1, <1>3 DEF CreateWorkload, EditSpec
<1>4. ASSUME NEW x \in Workloads, NEW s \in Specs, EditSpec(x, s)
      PROVE  x = w => wl'[w].state = wl[w].state
  <2>1. wl'[x] = [wl[x] EXCEPT !.spec = s]
    BY <1>1, <1>4 DEF EditSpec
  <2>2. wl'[x].state = wl[x].state
    BY <2>1, WorkloadEdits
  <2> QED BY <2>2
<1>5. ASSUME NEW x \in Workloads, DeleteWorkload(x)
      PROVE  /\ x # w => wl'[w] = wl[w]
             /\ x = w => wl[w].state = "live" /\ (wl'[w].state = "deleting" => wl[w].fin)
  <2>1. wl[x].state = "live"
        /\ WriteWorkload(x, IF wl[x].fin THEN [wl[x] EXCEPT !.state = "deleting"] ELSE Gone)
    BY <1>5 DEF DeleteWorkload
  <2>2. wl'[x] = IF wl[x].fin THEN [wl[x] EXCEPT !.state = "deleting"] ELSE Gone
    BY <1>1, <2>1
  <2>3. ~wl[x].fin => wl'[x].state = "absent"
    BY <2>2, WorkloadEdits
  <2> QED BY <1>1, <2>1, <2>3
<1>6. ASSUME NEW x \in Workloads, AddFinalizer(x) PROVE wl'[w].state = wl[w].state
  <2>1. wl' = wl \/ WriteWorkload(x, [wl[x] EXCEPT !.fin = TRUE])
    BY <1>6 DEF AddFinalizer
  <2>2. CASE WriteWorkload(x, [wl[x] EXCEPT !.fin = TRUE])
    <3>1. wl'[x] = [wl[x] EXCEPT !.fin = TRUE] /\ (x # w => wl'[w] = wl[w])
      BY <1>1, <2>2
    <3>2. wl'[x].state = wl[x].state
      BY <3>1, WorkloadEdits
    <3> QED BY <3>1, <3>2
  <2> QED BY <2>1, <2>2
<1>7. ASSUME NEW x \in Workloads, PatchSelectorLabels(x) PROVE wl'[w].state = wl[w].state
  <2>1. wl' = wl \/ \E k : WriteWorkload(x, [wl[x] EXCEPT !.keys = k])
    BY <1>7 DEF PatchSelectorLabels
  <2>2. ASSUME NEW k, WriteWorkload(x, [wl[x] EXCEPT !.keys = k]) PROVE wl'[w].state = wl[w].state
    <3>1. wl'[x] = [wl[x] EXCEPT !.keys = k] /\ (x # w => wl'[w] = wl[w])
      BY <1>1, <2>2
    <3>2. wl'[x].state = wl[x].state
      BY <3>1, WorkloadEdits
    <3> QED BY <3>1, <3>2
  <2> QED BY <2>1, <2>2
<1>8. ASSUME NEW x \in Workloads, RemoveFinalizer(x)
      PROVE  /\ x # w => wl'[w] = wl[w]
             /\ wl'[w].state = "deleting" => wl[w].state = "deleting"
  <2>1. \/ wl' = wl
        \/ WriteWorkload(x, IF wl[x].state = "live" THEN [wl[x] EXCEPT !.fin = FALSE] ELSE Gone)
    BY <1>8 DEF RemoveFinalizer
  <2>2. CASE WriteWorkload(x, IF wl[x].state = "live" THEN [wl[x] EXCEPT !.fin = FALSE] ELSE Gone)
    <3>1. /\ wl'[x] = IF wl[x].state = "live" THEN [wl[x] EXCEPT !.fin = FALSE] ELSE Gone
          /\ x # w => wl'[w] = wl[w]
      BY <1>1, <2>2
    <3>2. wl'[x].state # "deleting"
      BY <3>1, WorkloadEdits
    <3> QED BY <3>1, <3>2
  <2> QED BY <2>1, <2>2
<1>9. ASSUME NEW x \in Workloads,
             \/ SyncWorkload(x) \/ Resync(x) \/ ReconcileNothing(x) \/ StartReconcile(x)
             \/ ReconcileFails(x) \/ StartPrune(x) \/ ReconcileDone(x)
      PROVE  wl' = wl
  BY <1>9 DEF SyncWorkload, Resync, ReconcileNothing, StartReconcile, ReconcileFails, StartPrune,
              ReconcileDone
<1>10. ASSUME NEW x \in Workloads, NEW d \in Devices, Visit(x, d) PROVE wl' = wl
  BY <1>10, VisitStep
<1>11. ASSUME NEW d \in Devices,
             \/ \E l \in UserLabels : SetLabels(d, l)
             \/ SyncDevice(d) \/ Labels(d) \/ ReadHeartbeat(d) \/ UpdateStatus(d)
      PROVE  wl' = wl
  BY <1>11, QuietStep
<1>12. Restart \/ UNCHANGED vars => wl' = wl
  BY DEF Restart, vars
<1>13. ASSUME NEW x \in Workloads, NEW s \in Specs, CreateWorkload(x, s) \/ EditSpec(x, s)
       PROVE  (wl'[w].state = "deleting") = (wl[w].state = "deleting")
  BY <1>2, <1>3, <1>4, <1>13
<1> QED BY <1>5, <1>6, <1>7, <1>8, <1>9, <1>10, <1>11, <1>12, <1>13 DEF Next, User, Reconcile

\* A queued workload stays queued, or has an event on its way, until a worker
\* has seen it as it is on the server.
LEMMA PendingStep ==
    ASSUME TypeOK, CacheCurrent, [Next]_vars, NEW w \in Workloads,
           w \in news.wl \cup wq, wl[w].state # "absent"
    PROVE  \/ w \in news'.wl \cup wq'
           \/ cwl[w] = wl[w] /\ (ReconcileNothing(w) \/ StartReconcile(w))
<1> USE DEF api, cache, history
<1>1. ASSUME NEW x \in Workloads, NEW o, WriteWorkload(x, o) PROVE news.wl \subseteq news'.wl
  BY <1>1, WriteWorkloadStep
<1>2. ASSUME NEW x \in Workloads, NEW s \in Specs, CreateWorkload(x, s) \/ EditSpec(x, s)
      PROVE  w \in news'.wl \cup wq'
  <2>1. wq' = wq /\ \E o : WriteWorkload(x, o)
    BY <1>2 DEF CreateWorkload, EditSpec
  <2> QED BY <1>1, <2>1
<1>3. ASSUME NEW x \in Workloads, DeleteWorkload(x) \/ AddFinalizer(x) \/ RemoveFinalizer(x)
      PROVE  w \in news'.wl \cup wq'
  <2>1. wq' = wq /\ (news' = news \/ \E o : WriteWorkload(x, o))
    BY <1>3 DEF DeleteWorkload, AddFinalizer, RemoveFinalizer
  <2> QED BY <1>1, <2>1
<1>4. ASSUME NEW x \in Workloads, PatchSelectorLabels(x) PROVE w \in news'.wl \cup wq'
  <2> DEFINE old == cwl[x].keys
             new == UpdateSelectorLabels(cwl[x].spec)
             k   == (wl[x].keys \cup (new \ old)) \ (old \ new)
             o   == [wl[x] EXCEPT !.keys = k]
  <2>1. old # new
    BY <1>4 DEF PatchSelectorLabels
  <2>2. (news' = news /\ wq' = wq) \/ (WriteWorkload(x, o) /\ wq' = wq \ {x})
    BY <1>4 DEF PatchSelectorLabels, WriteWorkload
  <2>3. CASE WriteWorkload(x, o) /\ wq' = wq \ {x}
    <3>1. CASE x # w \/ w \in news.wl
      BY <1>1, <2>3, <3>1
    <3>2. CASE x = w /\ w \notin news.wl
      <4>1. cwl[x].keys = wl[x].keys
        BY <3>2 DEF CacheCurrent
      <4>2. o.keys = k
        BY WorkloadEdits
      <4>3. k # wl[x].keys
        BY <2>1, <4>1
      <4>4. o # wl[x]
        BY <4>2, <4>3
      <4> HIDE DEF o
      <4> QED BY <2>3, <3>2, <4>4, WriteWorkloadStep
    <3> QED BY <3>1, <3>2
  <2> HIDE DEF o
  <2> QED BY <2>2, <2>3
<1>5. ASSUME NEW x \in Workloads, SyncWorkload(x) PROVE w \in news'.wl \cup wq'
  <2>1. wq' = wq \cup {x} /\ news' = [news EXCEPT !.wl = @ \ {x}]
    BY <1>5 DEF SyncWorkload
  <2>2. news'.wl = news.wl \ {x}
    BY <2>1 DEF TypeOK, Events
  <2> QED BY <2>1, <2>2
<1>6. ASSUME NEW x \in Workloads, Resync(x) \/ ReconcileFails(x) \/ StartPrune(x) \/ ReconcileDone(x)
      PROVE  w \in news'.wl \cup wq'
  <2>1. news' = news /\ (wq' = wq \/ wq' = wq \cup {x})
    BY <1>6 DEF Resync, ReconcileFails, StartPrune, ReconcileDone
  <2> QED BY <2>1
<1>7. ASSUME NEW x \in Workloads, ReconcileNothing(x) \/ StartReconcile(x)
      PROVE  w \in news'.wl \cup wq' \/ (x = w /\ cwl[w] = wl[w])
  <2>1. news' = news /\ wq' = wq \ {x}
    BY <1>7 DEF ReconcileNothing, StartReconcile
  <2>2. w \notin news.wl => cwl[w] = wl[w]
    BY DEF CacheCurrent
  <2>3. CASE x = w
    BY <2>1, <2>2, <2>3
  <2>4. CASE x # w
    BY <2>1, <2>4
  <2> QED BY <2>3, <2>4
<1>8. ASSUME NEW x \in Workloads, NEW d \in Devices, Visit(x, d) PROVE w \in news'.wl \cup wq'
  BY <1>8, VisitStep
<1>9. ASSUME NEW d \in Devices,
             \/ \E l \in UserLabels : SetLabels(d, l)
             \/ SyncDevice(d) \/ Labels(d) \/ ReadHeartbeat(d) \/ UpdateStatus(d)
      PROVE  w \in news'.wl \cup wq'
  BY <1>9, QuietStep
<1>10. CASE Restart
  <2>1. wq' = {x \in Workloads : wl[x].state # "absent"}
    BY <1>10 DEF Restart
  <2> QED BY <2>1
<1>11. CASE UNCHANGED vars
  BY <1>11 DEF vars
<1> QED BY <1>2, <1>3, <1>4, <1>5, <1>6, <1>7, <1>8, <1>9, <1>10, <1>11 DEF Next, User, Reconcile

\* A finalizeRemoval starts in StartReconcile and ends with an error, with
\* RemoveFinalizer or with the manager; in between it moves from device to
\* device, and only a new deletion forgets what was purged.
LEMMA FinalizeStep ==
    ASSUME TypeOK, [Next]_vars, NEW w \in Workloads
    PROVE  /\ rec[w].phase = "finalize" =>
                 \/ rec'[w].phase = "finalize"
                 \/ ReconcileFails(w) \/ RemoveFinalizer(w) \/ Restart
           /\ rec'[w].phase = "finalize" =>
                 \/ StartReconcile(w)
                 \/ /\ rec[w].phase = "finalize"
                    /\ purged[w] \subseteq purged'[w] \/ DeleteWorkload(w)
                    /\ \A d \in Devices :
                          \/ rec'[w].step[d] = rec[w].step[d]
                          \/ /\ rec'[w].step[d] # "none"
                             /\ rec'[w].step[d] = "ok" => d \in purged'[w]
<1> USE DEF api, cache, history
<1>1. ASSUME NEW x \in Workloads, NEW s \in Specs, CreateWorkload(x, s) \/ EditSpec(x, s)
      PROVE  rec' = rec /\ purged' = purged
  BY <1>1 DEF CreateWorkload, EditSpec
<1>2. ASSUME NEW x \in Workloads, DeleteWorkload(x)
      PROVE  rec' = rec /\ (purged[w] \subseteq purged'[w] \/ x = w)
  BY <1>2 DEF DeleteWorkload, TypeOK
<1>3. ASSUME NEW x \in Workloads,
             \/ SyncWorkload(x) \/ Resync(x) \/ ReconcileNothing(x) \/ AddFinalizer(x)
             \/ PatchSelectorLabels(x)
      PROVE  rec' = rec /\ purged' = purged
  BY <1>3 DEF SyncWorkload, Resync, ReconcileNothing, AddFinalizer, PatchSelectorLabels
<1>4. ASSUME NEW x \in Workloads, StartReconcile(x)
      PROVE  /\ x # w => rec'[w] = rec[w]
             /\ rec[x].phase = "idle" /\ purged' = purged
  BY <1>4 DEF StartReconcile, Ready, TypeOK
<1>5. ASSUME NEW x \in Workloads, ReconcileFails(x) \/ ReconcileDone(x) \/ RemoveFinalizer(x)
      PROVE  /\ x # w => rec'[w] = rec[w]
             /\ rec'[x].phase = "idle" /\ purged' = purged
  <2>1. rec' = [rec EXCEPT ![x] = Idle] /\ purged' = purged
    BY <1>5 DEF ReconcileFails, ReconcileDone, RemoveFinalizer
  <2> QED BY <2>1, IdleStep
<1>6. ASSUME NEW x \in Workloads, ReconcileDone(x) PROVE rec[x].phase # "finalize"
  BY <1>6 DEF ReconcileDone
<1>7. ASSUME NEW x \in Workloads, StartPrune(x)
      PROVE  /\ x # w => rec'[w] = rec[w]
             /\ rec[x].phase = "add" /\ rec'[x].phase = "prune" /\ purged' = purged
  BY <1>7 DEF StartPrune, TypeOK, Reconciliations
<1>8. ASSUME NEW x \in Workloads, NEW d \in Devices, Visit(x, d)
      PROVE  /\ rec'[w].phase = rec[w].phase /\ purged[w] \subseteq purged'[w]
             /\ rec[w].phase = "finalize" => \A e \in Devices :
                  \/ rec'[w].step[e] = rec[w].step[e]
                  \/ /\ rec'[w].step[e] # "none"
                     /\ rec'[w].step[e] = "ok" => e \in purged'[w]
  BY <1>8, VisitStep
<1>9. ASSUME NEW d \in Devices,
             \/ \E l \in UserLabels : SetLabels(d, l)
             \/ SyncDevice(d) \/ Labels(d) \/ ReadHeartbeat(d) \/ UpdateStatus(d)
      PROVE  rec' = rec /\ purged' = purged
  BY <1>9, QuietStep
<1>10. CASE Restart
  BY <1>10 DEF Restart, Idle
<1>11. CASE UNCHANGED vars
  BY <1>11 DEF vars
<1>12. CASE rec'[w] = rec[w] /\ purged' = purged
  BY <1>12
<1> QED BY <1>1, <1>2, <1>3, <1>4, <1>5, <1>6, <1>7, <1>8, <1>9, <1>10, <1>11, <1>12
        DEF Next, User, Reconcile

\* Every step keeps CleanInv: finalizeRemoval lists every device that the
\* workload has always selected, whatever spec and labels the cache shows.
LEMMA StepClean ==
    ASSUME TypeOK, SpecsKnown, JustInv, FinInv, CleanInv, [Next]_vars
    PROVE  CleanInv'
<1> USE DEF api, cache, history
<1> SUFFICES ASSUME NEW w \in Workloads, NEW d \in Devices,
                    wl'[w].state = "deleting", rec'[w].phase = "finalize", AlwaysSelected(w, d)'
             PROVE  rec'[w].step[d] # "none" /\ (rec'[w].step[d] = "ok" => d \in purged'[w])
  BY DEF CleanInv
<1>1. AlwaysSelected(w, d)
  BY SelectedBefore
<1>2. CASE StartReconcile(w)
  <2> DEFINE visited == IF cwl[w].state = "deleting" THEN ListMatching(w) \cup ListForWorkload(w)
                                                     ELSE ListMatching(w)
  <2>1. /\ rec'[w].phase = IF cwl[w].state = "deleting" THEN "finalize" ELSE "add"
        /\ rec'[w].step = [e \in Devices |-> IF e \in visited THEN "status" ELSE "none"]
    BY <1>2 DEF StartReconcile, TypeOK
  <2>2. cwl[w].state = "deleting" /\ cwl[w].spec \in specHist[w] /\ cdev[d].lab \in labHist[d]
    BY <2>1 DEF SpecsKnown, JustInv, CacheJust
  <2>3. d \in ListMatching(w)
    BY <1>1, <2>2 DEF AlwaysSelected, ListMatching
  <2>4. rec'[w].step[d] = "status"
    BY <2>1, <2>2, <2>3
  <2> QED BY <2>4
<1>3. CASE ~StartReconcile(w)
  <2>1. /\ rec[w].phase = "finalize"
        /\ purged[w] \subseteq purged'[w] \/ DeleteWorkload(w)
        /\ \/ rec'[w].step[d] = rec[w].step[d]
           \/ rec'[w].step[d] # "none" /\ (rec'[w].step[d] = "ok" => d \in purged'[w])
    BY <1>3, FinalizeStep
  <2>2. wl[w].state = "deleting"
    <3>1. ~(DeleteWorkload(w) /\ wl[w].fin)
      BY <2>1 DEF FinInv, DeleteWorkload
    <3> QED BY <3>1, DeletionStep
  <2>3. ~DeleteWorkload(w)
    BY <2>2 DEF DeleteWorkload
  <2>4. rec[w].step[d] # "none" /\ (rec[w].step[d] = "ok" => d \in purged[w])
    BY <1>1, <2>1, <2>2 DEF CleanInv
  <2> QED BY <2>1, <2>3, <2>4
<1> QED BY <1>2, <1>3

\* Every step keeps IndexIsPending.
LEMMA StepIndex ==
    ASSUME TypeOK, CacheCurrent, IndexIsPending, [Next]_vars
    PROVE  IndexIsPending'
<1> SUFFICES ASSUME NEW w \in Workloads, wl'[w].state = "live",
                    wl'[w].fin => wl'[w].keys # UpdateSelectorLabels(wl'[w].spec)
             PROVE  w \in news'.wl \cup wq'
  BY DEF IndexIsPending
<1>1. CASE wl'[w] # wl[w]
  BY <1>1, ChangeIsEvent
<1>2. CASE wl'[w] = wl[w]
  <2>1. wl[w].state = "live" /\ (wl[w].fin => wl[w].keys # UpdateSelectorLabels(wl[w].spec))
    BY <1>2
  <2>2. w \in news.wl \cup wq
    BY <2>1 DEF IndexIsPending
  <2>3. ASSUME cwl[w] = wl[w] PROVE ~ReconcileNothing(w) /\ ~StartReconcile(w)
    BY <2>1, <2>3 DEF ReconcileNothing, StartReconcile
  <2> QED BY <2>1, <2>2, <2>3, PendingStep
<1> QED BY <1>1, <1>2

\* Every step keeps DeletionIsPending, as long as the patch of RemoveFinalizer
\* does not fail.
LEMMA StepDeletion ==
    ASSUME "finalizer" \notin FailAt,
           TypeOK, CacheCurrent, DeletionIsPending, [Next]_vars
    PROVE  DeletionIsPending'
<1> SUFFICES ASSUME NEW w \in Workloads, wl'[w].state = "deleting"
             PROVE  w \in news'.wl \cup wq' \/ rec'[w].phase = "finalize"
  BY DEF DeletionIsPending
<1>1. CASE wl'[w] # wl[w]
  BY <1>1, ChangeIsEvent
<1>2. CASE wl'[w] = wl[w]
  <2>1. wl[w].state = "deleting"
    BY <1>2
  <2>2. w \in news.wl \cup wq \/ rec[w].phase = "finalize"
    BY <2>1 DEF DeletionIsPending
  <2>3. CASE w \in news.wl \cup wq
    <3>1. ASSUME cwl[w] = wl[w], StartReconcile(w) PROVE rec'[w].phase = "finalize"
      BY <2>1, <3>1 DEF StartReconcile, TypeOK
    <3>2. ASSUME cwl[w] = wl[w] PROVE ~ReconcileNothing(w)
      BY <2>1, <3>2 DEF ReconcileNothing
    <3> QED BY <2>1, <2>3, <3>1, <3>2, PendingStep
  <2>4. CASE rec[w].phase = "finalize"
    <3>1. ReconcileFails(w) => w \in wq'
      BY DEF ReconcileFails
    <3>2. ~RemoveFinalizer(w)
      <4>1. ASSUME RemoveFinalizer(w)
            PROVE  WriteWorkload(w, IF wl[w].state = "live"
                                    THEN [wl[w] EXCEPT !.fin = FALSE] ELSE Gone)
        BY <4>1 DEF RemoveFinalizer, Fault
      <4>2. ASSUME RemoveFinalizer(w) PROVE wl'[w] = Gone
        BY <2>1, <4>1, <4>2, WriteWorkloadStep
      <4> QED BY <1>2, <2>1, <4>2 DEF Gone
    <3>3. Restart => w \in wq'
      BY <2>1 DEF Restart
    <3> QED BY <2>4, <3>1, <3>2, <3>3, FinalizeStep
  <2> QED BY <2>2, <2>3, <2>4
<1> QED BY <1>1, <1>2

LEMMA InitPending ==
    Init => CacheCurrent /\ FinInv /\ CleanInv /\ IndexIsPending /\ DeletionIsPending
BY DEF Init, Gone, CacheCurrent, FinInv, CleanInv, IndexIsPending, DeletionIsPending

\* IndexIsPending: a workload whose finalizer or selector/* labels are not yet
\* what its spec asks for has a reconciliation on its way, for any number of
\* workloads, edits, failures, restarts and any lag of the cache.
THEOREM PlacementIndexPending == Spec => []IndexIsPending
<1>1. Init => TypeOK /\ SpecsKnown /\ CacheCurrent /\ IndexIsPending
  BY InitTypeOK, InitPending
<1>2. TypeOK /\ SpecsKnown /\ CacheCurrent /\ IndexIsPending /\ [Next]_vars
        => (TypeOK /\ SpecsKnown /\ CacheCurrent /\ IndexIsPending)'
  BY StepTypeOK, StepSpecsKnown, StepCurrent, StepIndex
<1> QED BY <1>1, <1>2, PTL DEF Spec

\* DeletionIsPending: a workload marked for deletion is never forgotten, unless
\* the patch whose error EdgeWorkloadRepository.RemoveFinalizer drops fails.
THEOREM PlacementDeletionPending ==
    ASSUME "finalizer" \notin FailAt
    PROVE  Spec => []DeletionIsPending
<1>1. Init => TypeOK /\ SpecsKnown /\ CacheCurrent /\ DeletionIsPending
  BY InitTypeOK, InitPending
<1>2. TypeOK /\ SpecsKnown /\ CacheCurrent /\ DeletionIsPending /\ [Next]_vars
        => (TypeOK /\ SpecsKnown /\ CacheCurrent /\ DeletionIsPending)'
  BY StepTypeOK, StepSpecsKnown, StepCurrent, StepDeletion
<1> QED BY <1>1, <1>2, PTL DEF Spec

\* CleanupBeforeGone: the finalizer of a workload goes only after
\* finalizeRemoval has patched every device the workload has always selected,
\* whichever devices failed in between and whatever the caches showed.
THEOREM PlacementCleansUp == Spec => CleanupBeforeGone
<1> DEFINE IInv == TypeOK /\ SpecsKnown /\ JustInv /\ FinInv /\ CleanInv
           Cleaned == \A w \in Workloads :
                         wl[w].state = "deleting" /\ wl'[w].state = "absent" =>
                             \A d \in Devices : AlwaysSelected(w, d) => d \in purged[w]
<1>1. Init => IInv
  BY InitTypeOK, InitJust, InitPending
<1>2. IInv /\ [Next]_vars => IInv'
  BY StepTypeOK, StepSpecsKnown, StepJust, StepFin, StepClean
<1>3. IInv /\ [Next]_vars => [Cleaned]_vars
  <2> SUFFICES ASSUME IInv, [Next]_vars, NEW w \in Workloads, NEW d \in Devices,
                      wl[w].state = "deleting", wl'[w].state = "absent", AlwaysSelected(w, d)
               PROVE  d \in purged[w]
    OBVIOUS
  <2>1. RemoveFinalizer(w)
    BY DeletionStep
  <2>2. rec[w].phase = "finalize" /\ rec[w].step[d] \in {"none", "ok"}
    BY <2>1 DEF RemoveFinalizer, Visited, Errs
  <2> QED BY <2>2 DEF CleanInv
<1>4. Spec => []IInv
  BY <1>1, <1>2, PTL DEF Spec
<1> QED BY <1>3, <1>4, PTL DEF Spec, CleanupBeforeGone
=============================================================================
