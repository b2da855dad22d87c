----------------------------- MODULE Placement -----------------------------
(***************************************************************************)
(* How EdgeWorkloads reach the status of EdgeDevices.                      *)
(*                                                                         *)
(* Three writers share a device object: the EdgeWorkload controller, the   *)
(* EdgeDeviceLabels controller (both in the manager process) and the       *)
(* heartbeat handler of the edge API.  Each reads the device, computes a   *)
(* new list of workloads and sends a JSON merge patch.  Such a patch holds *)
(* the fields in which the computed object differs from the one read;      *)
(* labels are patched key by key, the list status.workloads as a whole,    *)
(* and nothing stops a patch computed from an object that has changed      *)
(* since.  The answer is decoded into the caller's object: a label the     *)
(* server has is there again even if the caller had deleted it.            *)
(*                                                                         *)
(* The controllers read from an informer cache that lags behind the API    *)
(* server by any amount.  An action that starts with such reads performs   *)
(* the first write in the same step: the time between the two is already   *)
(* there as lag of the cache.                                              *)
(***************************************************************************)
EXTENDS SelectorIndex, Naturals

CONSTANTS
    Workloads,    \* names of EdgeWorkloads
    Specs,        \* the specs users give them
    UserLabels,   \* the label maps users give devices
    FirstLabels,  \* the labels every device starts with
    NoSpec,       \* the spec of a workload that does not exist
    Lag,          \* may a reconciliation start on a cache that is behind?
    Resyncs,      \* is the periodic resync part of the run?
    UserMay,      \* what users do beside creating: "edit", "delete", "recreate"
    FailAt,       \* calls that may fail: "finalizer", "workload", "device"
    MaxOps, MaxBeats, MaxFaults, MaxCrashes   \* bounds on the environment

ASSUME PlacementAssumption ==
    /\ Specs \subseteq WorkloadSpecs
    /\ UserLabels \subseteq LabelMaps
    /\ FirstLabels \in UserLabels
    /\ NoSpec \notin Specs
    /\ {Lag, Resyncs} \subseteq BOOLEAN
    /\ UserMay \subseteq {"edit", "delete", "recreate"}
    /\ FailAt \subseteq {"finalizer", "workload", "device"}
    /\ {MaxOps, MaxBeats, MaxFaults, MaxCrashes} \subseteq Nat

VARIABLES
    wl, dev,       \* EdgeWorkloads and EdgeDevices on the API server
    cwl, cdev,     \* the same in the manager's informer cache
    news,          \* watch events not delivered to the cache yet
    wq, lq,        \* work queues of the EdgeWorkload and the labels controller
    rec,           \* EdgeWorkload reconciliations, one per workload
    lc,            \* EdgeDeviceLabels reconciliations, one per device
    hb,            \* heartbeats being processed, one per device
    left,          \* what is left of the environment's bounds
    specHist,      \* history: the specs each workload has had
    labHist,       \* history: the labels each device has had
    purged         \* history: devices cleaned since the workload's deletion

api == <<wl, dev>>
cache == <<cwl, cdev, news>>
history == <<specHist, labHist, purged>>
vars == <<wl, dev, cwl, cdev, news, wq, lq, rec, lc, hb, left, specHist, labHist, purged>>

-----------------------------------------------------------------------------
(* Objects.  Of a workload: its life, the controller's finalizer, its spec  *)
(* and its selector/* labels as index keys.  Of a device: the users'        *)
(* labels, its workload/* labels and the names in status.workloads.         *)

IndexKeys == Devices \cup Keys \cup {DoesNotExistLabel}

WorkloadObjects ==
    [state : {"absent", "live", "deleting"}, fin : BOOLEAN,
     spec : Specs \cup {NoSpec}, keys : SUBSET IndexKeys]

DeviceObjects == [lab : UserLabels, wlab : SUBSET Workloads, st : SUBSET Workloads]

Gone == [state |-> "absent", fin |-> FALSE, spec |-> NoSpec, keys |-> {}]

\* What a reconciliation keeps of the device it has read.
Snapshots == [wlab : SUBSET Workloads, st : SUBSET Workloads]
Blank == [wlab |-> {}, st |-> {}]
Snap(o) == [wlab |-> o.wlab, st |-> o.st]

Idle ==
    [phase |-> "idle", step |-> [d \in Devices |-> "none"],
     snap |-> [d \in Devices |-> Blank], prune |-> {}]

LabelsIdle == [phase |-> "idle", base |-> Blank, new |-> Blank, fresh |-> FALSE]

NoBeat == [busy |-> FALSE, st |-> {}]

Init ==
    /\ wl = [w \in Workloads |-> Gone]
    /\ dev = [d \in Devices |-> [lab |-> FirstLabels, wlab |-> {}, st |-> {}]]
    /\ cwl = wl
    /\ cdev = dev
    /\ news = [wl |-> {}, dev |-> {}, lab |-> {}]
    /\ wq = {}
    /\ lq = {}
    /\ rec = [w \in Workloads |-> Idle]
    /\ lc = [d \in Devices |-> LabelsIdle]
    /\ hb = [d \in Devices |-> NoBeat]
    /\ left = [ops |-> MaxOps, beats |-> MaxBeats, faults |-> MaxFaults, crashes |-> MaxCrashes]
    /\ specHist = [w \in Workloads |-> {}]
    /\ labHist = [d \in Devices |-> {FirstLabels}]
    /\ purged = [w \in Workloads |-> {}]

-----------------------------------------------------------------------------
(* The API server.  A write that changes an object is a watch event and     *)
(* gives the object a new resourceVersion: a labels reconciliation that     *)
(* holds the previous one is no longer fresh.                               *)

WriteWorkload(w, o) ==
    /\ wl' = [wl EXCEPT ![w] = o]
    /\ news' = IF o = wl[w] THEN news ELSE [news EXCEPT !.wl = @ \cup {w}]

\* The device write, with mine as the state of the labels reconciliation.
WriteDevice(d, o, mine) ==
    /\ dev' = [dev EXCEPT ![d] = o]
    /\ news' = [news EXCEPT
                  !.dev = IF o = dev[d] THEN @ ELSE @ \cup {d},
                  !.lab = IF o.lab = dev[d].lab /\ o.wlab = dev[d].wlab THEN @ ELSE @ \cup {d}]
    /\ lc' = [lc EXCEPT ![d] = mine]

\* The labels reconciliation of d after somebody else's write of o.
Overtaken(d, o) ==
    IF o = dev[d] THEN lc[d] ELSE [lc[d] EXCEPT !.fresh = FALSE]

\* A call may fail; the environment has a bounded number of failures.
Fault(call) ==
    /\ call \in FailAt
    /\ left.faults > 0
    /\ left' = [left EXCEPT !.faults = @ - 1]

-----------------------------------------------------------------------------
(* Users.                                                                   *)

UserOp == left.ops > 0 /\ left' = [left EXCEPT !.ops = @ - 1]

CreateWorkload(w, s) ==
    /\ UserOp
    /\ wl[w].state = "absent"
    /\ specHist[w] = {} \/ "recreate" \in UserMay
    /\ WriteWorkload(w, [state |-> "live", fin |-> FALSE, spec |-> s, keys |-> {}])
    /\ specHist' = [specHist EXCEPT ![w] = @ \cup {s}]
    /\ UNCHANGED <<dev, cwl, cdev, wq, lq, rec, lc, hb, labHist, purged>>

EditSpec(w, s) ==
    /\ "edit" \in UserMay
    /\ UserOp
    /\ wl[w].state = "live"
    /\ s # wl[w].spec
    /\ WriteWorkload(w, [wl[w] EXCEPT !.spec = s])
    /\ specHist' = [specHist EXCEPT ![w] = @ \cup {s}]
    /\ UNCHANGED <<dev, cwl, cdev, wq, lq, rec, lc, hb, labHist, purged>>

\* An object with a finalizer is only marked for deletion.
DeleteWorkload(w) ==
    /\ "delete" \in UserMay
    /\ UserOp
    /\ wl[w].state = "live"
    /\ WriteWorkload(w, IF wl[w].fin THEN [wl[w] EXCEPT !.state = "deleting"] ELSE Gone)
    /\ purged' = [purged EXCEPT ![w] = {}]
    /\ UNCHANGED <<dev, cwl, cdev, wq, lq, rec, lc, hb, specHist, labHist>>

SetLabels(d, l) ==
    LET o == [dev[d] EXCEPT !.lab = l]
    IN  /\ UserOp
        /\ l # dev[d].lab
        /\ WriteDevice(d, o, Overtaken(d, o))
        /\ labHist' = [labHist EXCEPT ![d] = @ \cup {l}]
        /\ UNCHANGED <<wl, cwl, cdev, wq, lq, rec, hb, specHist, purged>>

-----------------------------------------------------------------------------
(* The informer cache.  The EdgeWorkload controller is told of every change *)
(* of a workload, the labels controller of every change of a device's       *)
(* labels (LabelChangedPredicate).                                          *)

SyncWorkload(w) ==
    /\ w \in news.wl
    /\ cwl' = [cwl EXCEPT ![w] = wl[w]]
    /\ news' = [news EXCEPT !.wl = @ \ {w}]
    /\ wq' = wq \cup {w}
    /\ UNCHANGED <<api, cdev, lq, rec, lc, hb, left, history>>

SyncDevice(d) ==
    /\ d \in news.dev
    /\ cdev' = [cdev EXCEPT ![d] = dev[d]]
    /\ news' = [news EXCEPT !.dev = @ \ {d}, !.lab = @ \ {d}]
    /\ lq' = IF d \in news.lab THEN lq \cup {d} ELSE lq
    /\ UNCHANGED <<api, cwl, wq, rec, lc, hb, left, history>>

\* The informers' periodic resync, ten hours by default: the EdgeWorkload
\* controller is handed every workload again.  The labels controller is not,
\* its predicate drops an update that changes no label.
Resync(w) ==
    /\ Resyncs
    /\ cwl[w].state # "absent"
    /\ wq' = wq \cup {w}
    /\ UNCHANGED <<api, cache, lq, rec, lc, hb, left, history>>

\* Without Lag, reconciliations start only once all events have arrived.
CacheReady == Lag \/ (news.wl = {} /\ news.dev = {})

-----------------------------------------------------------------------------
(* EdgeWorkloadReconciler.Reconcile.  The work queue hands a name to one    *)
(* worker at a time.                                                        *)

Ready(w) == w \in wq /\ rec[w].phase = "idle" /\ CacheReady

\* The workload is gone: nothing to do.
ReconcileNothing(w) ==
    /\ Ready(w)
    /\ cwl[w].state = "absent"
    /\ wq' = wq \ {w}
    /\ UNCHANGED <<api, cache, lq, rec, lc, hb, left, history>>

\* First the finalizer; requeued whether the patch succeeds or not.
AddFinalizer(w) ==
    /\ Ready(w)
    /\ cwl[w].state = "live" /\ ~cwl[w].fin
    /\ \/ /\ wl[w].state # "absent"
          /\ WriteWorkload(w, [wl[w] EXCEPT !.fin = TRUE])
          /\ UNCHANGED left
       \/ Fault("workload") /\ UNCHANGED <<wl, news>>
    /\ UNCHANGED <<dev, cwl, cdev, wq, lq, rec, lc, hb, history>>

\* Mutant: a failed patch of the selector/* labels is not tried again.
PatchSelectorForgets(w) ==
    LET old == cwl[w].keys
        new == UpdateSelectorLabels(cwl[w].spec)
    IN  /\ Ready(w)
        /\ cwl[w].state = "live" /\ cwl[w].fin
        /\ old # new
        /\ wq' = wq \ {w}
        /\ \/ /\ wl[w].state # "absent"
              /\ WriteWorkload(w, [wl[w] EXCEPT !.keys = (@ \cup (new \ old)) \ (old \ new)])
              /\ UNCHANGED left
           \/ Fault("workload") /\ UNCHANGED <<wl, news>>
        /\ UNCHANGED <<dev, cwl, cdev, lq, rec, lc, hb, history>>

\* Then the selector/* labels; if they changed, the update event starts the
\* next reconciliation.
PatchSelectorLabels(w) ==
    LET old == cwl[w].keys
        new == UpdateSelectorLabels(cwl[w].spec)
    IN  /\ Ready(w)
        /\ cwl[w].state = "live" /\ cwl[w].fin
        /\ old # new
        /\ \/ /\ wl[w].state # "absent"
              /\ WriteWorkload(w, [wl[w] EXCEPT !.keys = (@ \cup (new \ old)) \ (old \ new)])
              /\ wq' = wq \ {w}
              /\ UNCHANGED left
           \/ Fault("workload") /\ UNCHANGED <<wl, news, wq>>
        /\ UNCHANGED <<dev, cwl, cdev, lq, rec, lc, hb, history>>

DeviceByWorkloadIndexKey == "device-by-workload"

\* EdgeDeviceRepository.ListForWorkload: the devices with the label
\* device-by-workload=<name>, and not those with the label workload/<name>.
ListForWorkload(w) ==
    {d \in Devices : DeviceByWorkloadIndexKey \in Keys
                        /\ cdev[d].lab[DeviceByWorkloadIndexKey] = w}

ListMatching(w) == {d \in Devices : getMatchingEdgeDevices(cwl[w].spec, d, cdev[d].lab)}

\* Then the devices: listed, and handed to the goroutines of
\* executeConcurrent.  A chunk of devices is worked through in order, chunks
\* run in parallel; here every device has a goroutine of its own, which
\* allows every order that the chunks allow.  A selector that cannot be
\* parsed fails the listing, and the workload stays in the queue.
StartReconcile(w) ==
    LET matching == ListMatching(w)
        labelled == ListForWorkload(w)
        visited  == IF cwl[w].state = "deleting" THEN matching \cup labelled ELSE matching
        prune    == IF cwl[w].state = "deleting" THEN {} ELSE labelled \ matching
    IN  /\ Ready(w)
        /\ \/ cwl[w].state = "deleting"
           \/ cwl[w].state = "live" /\ cwl[w].fin /\ cwl[w].keys = UpdateSelectorLabels(cwl[w].spec)
        /\ cwl[w].spec.device = NoDevice => ValidSelector(cwl[w].spec)
        /\ wq' = wq \ {w}
        /\ rec' = [rec EXCEPT ![w] =
                     [phase |-> IF cwl[w].state = "deleting" THEN "finalize" ELSE "add",
                      step  |-> [d \in Devices |-> IF d \in visited THEN "status" ELSE "none"],
                      snap  |-> [d \in Devices |-> IF d \in visited \cup prune
                                                   THEN Snap(cdev[d]) ELSE Blank],
                      prune |-> prune]]
        /\ UNCHANGED <<api, cache, lq, lc, hb, left, history>>

Advance(w, d, s, snap) == rec' = [rec EXCEPT ![w].step[d] = s, ![w].snap[d] = snap]

\* Mutant: a label of the workload is taken to mean that it is in the list.
hasLabelInstead(snap, w) == w \in snap.wlab

hasWorkload(snap, w) == w \in snap.st

\* A call for device d fails: the goroutine notes the error and goes on with
\* the next device.
DeviceCallFails(w, d) ==
    /\ rec[w].step[d] \in {"status", "label"}
    /\ rec[w].phase = "add" =>
          IF rec[w].step[d] = "status" THEN ~hasWorkload(rec[w].snap[d], w)
                                       ELSE w \notin rec[w].snap[d].wlab
    /\ Fault("device")
    /\ Advance(w, d, "err", Blank)
    /\ UNCHANGED <<api, cache, wq, lq, lc, hb, history>>

\* Mutant: the object is appended where its name belongs.
WithObject(st, w) == st \cup {cwl[w]}

WithWorkload(st, w) == st \cup {w}

\* addWorkloadsToDevices, status part: the name is appended to the list that
\* was read, unless it is there already.
AddToStatus(w, d) ==
    LET snap == rec[w].snap[d]
        o    == [dev[d] EXCEPT !.st = WithWorkload(snap.st, w)]
    IN  /\ rec[w].phase = "add" /\ rec[w].step[d] = "status"
        /\ IF hasWorkload(snap, w)
           THEN /\ Advance(w, d, "label", [snap EXCEPT !.st = {}])
                /\ UNCHANGED <<dev, news, lc>>
           ELSE /\ WriteDevice(d, o, Overtaken(d, o))
                /\ Advance(w, d, "label", [wlab |-> snap.wlab \cup dev[d].wlab, st |-> {}])
        /\ UNCHANGED <<wl, cwl, cdev, wq, lq, hb, left, history>>

\* addWorkloadsToDevices, label part.
AddLabel(w, d) ==
    LET o == IF w \in rec[w].snap[d].wlab THEN dev[d] ELSE [dev[d] EXCEPT !.wlab = @ \cup {w}]
    IN  /\ rec[w].phase = "add" /\ rec[w].step[d] = "label"
        /\ WriteDevice(d, o, Overtaken(d, o))
        /\ Advance(w, d, "ok", Blank)
        /\ UNCHANGED <<wl, cwl, cdev, wq, lq, hb, left, history>>

\* removeWorkloadFromDevice, status part.  The patch holds the list only if
\* the list that was read had the name in it.
RemoveFromStatus(w, d) ==
    LET snap == rec[w].snap[d]
        o    == IF w \in snap.st THEN [dev[d] EXCEPT !.st = snap.st \ {w}] ELSE dev[d]
    IN  /\ rec[w].phase \in {"prune", "finalize"} /\ rec[w].step[d] = "status"
        /\ WriteDevice(d, o, Overtaken(d, o))
        /\ Advance(w, d, "label", [wlab |-> snap.wlab \cup dev[d].wlab, st |-> {}])
        /\ UNCHANGED <<wl, cwl, cdev, wq, lq, hb, left, history>>

\* removeWorkloadFromDevice, label part.
RemoveLabel(w, d) ==
    LET o == IF w \in rec[w].snap[d].wlab THEN [dev[d] EXCEPT !.wlab = @ \ {w}] ELSE dev[d]
    IN  /\ rec[w].phase \in {"prune", "finalize"} /\ rec[w].step[d] = "label"
        /\ WriteDevice(d, o, Overtaken(d, o))
        /\ Advance(w, d, "ok", Blank)
        /\ purged' = IF rec[w].phase = "finalize"
                     THEN [purged EXCEPT ![w] = @ \cup {d}] ELSE purged
        /\ UNCHANGED <<wl, cwl, cdev, wq, lq, hb, left, specHist, labHist>>

Visited(w) == rec[w].phase # "idle" /\ \A d \in Devices : rec[w].step[d] \in {"none", "ok", "err"}

\* Mutant: the errors of the goroutines are lost.
NoErrs(w) == {}

\* The errors executeConcurrent collects.
Errs(w) == {d \in Devices : rec[w].step[d] = "err"}

\* Mutant: the error is reported without a requeue.
ReconcileForgets(w) ==
    /\ Visited(w)
    /\ Errs(w) # {}
    /\ rec' = [rec EXCEPT ![w] = Idle]
    /\ UNCHANGED <<api, cache, wq, lq, lc, hb, left, history>>

\* Some device failed: the reconciliation returns the error.
ReconcileFails(w) ==
    /\ Visited(w)
    /\ Errs(w) # {}
    /\ rec' = [rec EXCEPT ![w] = Idle]
    /\ wq' = wq \cup {w}
    /\ UNCHANGED <<api, cache, lq, lc, hb, left, history>>

\* All matching devices have it: go on with the labelled ones that do not match.
StartPrune(w) ==
    /\ Visited(w)
    /\ Errs(w) = {}
    /\ rec[w].phase = "add" /\ rec[w].prune # {}
    /\ rec' = [rec EXCEPT ![w].phase = "prune", ![w].prune = {},
                          ![w].step = [d \in Devices |-> IF d \in rec[w].prune
                                                         THEN "status" ELSE "none"]]
    /\ UNCHANGED <<api, cache, wq, lq, lc, hb, left, history>>

ReconcileDone(w) ==
    /\ Visited(w)
    /\ Errs(w) = {}
    /\ rec[w].phase \in {"add", "prune"} /\ rec[w].prune = {}
    /\ rec' = [rec EXCEPT ![w] = Idle]
    /\ UNCHANGED <<api, cache, wq, lq, lc, hb, left, history>>

\* EdgeWorkloadRepository.RemoveFinalizer.  The patch names the workload by
\* its name alone, and its error is dropped: the reconciliation ends the same
\* way whether the finalizer is gone or not.
RemoveFinalizer(w) ==
    /\ Visited(w)
    /\ Errs(w) = {}
    /\ rec[w].phase = "finalize"
    /\ \/ /\ WriteWorkload(w, IF wl[w].state = "live" THEN [wl[w] EXCEPT !.fin = FALSE] ELSE Gone)
          /\ UNCHANGED left
       \/ Fault("finalizer") /\ UNCHANGED <<wl, news>>
    /\ rec' = [rec EXCEPT ![w] = Idle]
    /\ UNCHANGED <<dev, cwl, cdev, wq, lq, lc, hb, history>>

-----------------------------------------------------------------------------
(* EdgeDeviceLabelsReconciler.Reconcile.                                    *)

\* Mutant: the index also holds workloads that are being deleted.
IndexedWhileDeleting(w) == cwl[w].state # "absent"

\* WorkloadByDeviceIndexFunc leaves out workloads that are being deleted.
Indexed(w) == cwl[w].state = "live"

ListByLabel(d) ==
    {w \in Workloads : Indexed(w) /\ cwl[w].keys \cap createSelectorLabelsMap(d, cdev[d].lab) # {}}

\* Mutant: the listed workloads are taken without matching them.
selectedUnmatched(d) == ListByLabel(d)

selectedWorkloads(d) ==
    {w \in ListByLabel(d) : isWorkloadMatchDevice(cwl[w].spec, d, cdev[d].lab)}

\* The lookup, and createUpdatedDevice: the list becomes the selected
\* workloads, a dropped workload loses its label and a new one gets one.
\* One workload with a selector that cannot be parsed fails the lookup.
StartLabels(d) ==
    LET old == Snap(cdev[d])
        sel == selectedWorkloads(d)
        new == [wlab |-> (old.wlab \ (old.st \ sel)) \cup (sel \ old.st), st |-> sel]
    IN  /\ d \in lq
        /\ lc[d].phase = "idle"
        /\ CacheReady
        /\ \A w \in ListByLabel(d) : cwl[w].spec.device = d \/ ValidSelector(cwl[w].spec)
        /\ lq' = lq \ {d}
        /\ lc' = IF old.st = sel THEN lc
                 ELSE [lc EXCEPT ![d] =
                         [phase |-> "status", base |-> old, new |-> new, fresh |-> FALSE]]
        /\ UNCHANGED <<api, cache, wq, rec, hb, left, history>>

\* PatchStatus.  The answer is decoded into updatedDevice.
PatchLabelsStatus(d) ==
    /\ lc[d].phase = "status"
    /\ WriteDevice(d, [dev[d] EXCEPT !.st = lc[d].new.st],
                   [lc[d] EXCEPT !.phase = "label", !.fresh = TRUE,
                                 !.new.wlab = @ \cup dev[d].wlab])
    /\ UNCHANGED <<wl, cwl, cdev, wq, lq, rec, hb, left, history>>

\* Patch of the labels, against the device as it was read.  The two objects
\* differ in resourceVersion, so this patch is refused if the device has
\* changed since the answer.
PatchLabels(d) ==
    LET base == lc[d].base.wlab
        new  == lc[d].new.wlab
    IN  /\ lc[d].phase = "label"
        /\ lc[d].fresh
        /\ WriteDevice(d, [dev[d] EXCEPT !.wlab = (@ \cup (new \ base)) \ (base \ new)], LabelsIdle)
        /\ UNCHANGED <<wl, cwl, cdev, wq, lq, rec, hb, left, history>>

\* Either patch fails, the second one also by conflict: requeued.
LabelsFail(d) ==
    /\ lc[d].phase # "idle"
    /\ \/ lc[d].phase = "label" /\ ~lc[d].fresh /\ UNCHANGED left
       \/ Fault("device")
    /\ lc' = [lc EXCEPT ![d] = LabelsIdle]
    /\ lq' = lq \cup {d}
    /\ UNCHANGED <<api, cache, wq, rec, hb, history>>

-----------------------------------------------------------------------------
(* The heartbeat handler's updateStatus: it reads the device, refreshes the *)
(* entries of the workloads the device reports, and writes the list back if *)
(* an entry changed.  A read from the edge API's own cache is a read that   *)
(* happened earlier.                                                        *)

ReadHeartbeat(d) ==
    /\ left.beats > 0
    /\ ~hb[d].busy
    /\ left' = [left EXCEPT !.beats = @ - 1]
    /\ hb' = [hb EXCEPT ![d] = [busy |-> TRUE, st |-> dev[d].st]]
    /\ UNCHANGED <<api, cache, wq, lq, rec, lc, history>>

UpdateStatus(d) ==
    /\ hb[d].busy
    /\ hb' = [hb EXCEPT ![d] = NoBeat]
    /\ \E changed \in BOOLEAN :
          LET o == IF changed /\ hb[d].st # {} THEN [dev[d] EXCEPT !.st = hb[d].st] ELSE dev[d]
          IN  WriteDevice(d, o, Overtaken(d, o))
    /\ UNCHANGED <<wl, cwl, cdev, wq, lq, rec, left, history>>

-----------------------------------------------------------------------------
\* The manager restarts: its cache is filled anew and every object is queued.
Restart ==
    /\ left.crashes > 0
    /\ left' = [left EXCEPT !.crashes = @ - 1]
    /\ rec' = [w \in Workloads |-> Idle]
    /\ lc' = [d \in Devices |-> LabelsIdle]
    /\ cwl' = wl
    /\ cdev' = dev
    /\ news' = [wl |-> {}, dev |-> {}, lab |-> {}]
    /\ wq' = {w \in Workloads : wl[w].state # "absent"}
    /\ lq' = Devices
    /\ UNCHANGED <<api, hb, history>>

User ==
    \/ \E w \in Workloads, s \in Specs : CreateWorkload(w, s) \/ EditSpec(w, s)
    \/ \E w \in Workloads : DeleteWorkload(w)
    \/ \E d \in Devices, l \in UserLabels : SetLabels(d, l)

Reconcile(w) ==
    \/ ReconcileNothing(w) \/ AddFinalizer(w) \/ PatchSelectorLabels(w) \/ StartReconcile(w)
    \/ ReconcileFails(w) \/ StartPrune(w) \/ ReconcileDone(w) \/ RemoveFinalizer(w)

Visit(w, d) ==
    \/ AddToStatus(w, d) \/ AddLabel(w, d) \/ RemoveFromStatus(w, d) \/ RemoveLabel(w, d)
    \/ DeviceCallFails(w, d)

Labels(d) == StartLabels(d) \/ PatchLabelsStatus(d) \/ PatchLabels(d) \/ LabelsFail(d)

Next ==
    \/ User
    \/ \E w \in Workloads : SyncWorkload(w) \/ Resync(w) \/ Reconcile(w)
    \/ \E w \in Workloads, d \in Devices : Visit(w, d)
    \/ \E d \in Devices : SyncDevice(d) \/ Labels(d) \/ ReadHeartbeat(d) \/ UpdateStatus(d)
    \/ Restart

\* Watch events arrive and workers keep working; users, heartbeats, failures
\* and restarts happen or not.
Fairness ==
    /\ \A w \in Workloads : WF_vars(SyncWorkload(w)) /\ WF_vars(Reconcile(w))
    /\ \A w \in Workloads, d \in Devices : WF_vars(Visit(w, d))
    /\ \A d \in Devices : WF_vars(SyncDevice(d)) /\ WF_vars(Labels(d)) /\ WF_vars(UpdateStatus(d))

Spec == Init /\ [][Next]_vars

FairSpec == Spec /\ Fairness

ResyncSpec == FairSpec /\ \A w \in Workloads : WF_vars(Resync(w))

-----------------------------------------------------------------------------
Events == [wl : SUBSET Workloads, dev : SUBSET Devices, lab : SUBSET Devices]

Steps == {"none", "status", "label", "ok", "err"}

Reconciliations ==
    [phase : {"idle", "add", "prune", "finalize"}, step : [Devices -> Steps],
     snap : [Devices -> Snapshots], prune : SUBSET Devices]

LabelsWork ==
    [phase : {"idle", "status", "label"}, base : Snapshots, new : Snapshots, fresh : BOOLEAN]

Beats == [busy : BOOLEAN, st : SUBSET Workloads]

Budgets == [ops : Nat, beats : Nat, faults : Nat, crashes : Nat]

TypeOK ==
    /\ wl \in [Workloads -> WorkloadObjects] /\ cwl \in [Workloads -> WorkloadObjects]
    /\ dev \in [Devices -> DeviceObjects] /\ cdev \in [Devices -> DeviceObjects]
    /\ news \in Events
    /\ wq \subseteq Workloads /\ lq \subseteq Devices
    /\ rec \in [Workloads -> Reconciliations]
    /\ lc \in [Devices -> LabelsWork]
    /\ hb \in [Devices -> Beats]
    /\ left \in Budgets
    /\ specHist \in [Workloads -> SUBSET Specs]
    /\ labHist \in [Devices -> SUBSET UserLabels]
    /\ purged \in [Workloads -> SUBSET Devices]

\* Some spec the workload has had selects the device with some labels it has had.
Justified(w, d) ==
    \E s \in specHist[w], l \in labHist[d] : isWorkloadMatchDevice(s, d, l)

\* PlacementJustified: no interleaving of the two controllers, stale caches,
\* heartbeats that write back an old list, re-created workloads and restarts
\* puts a workload on a device that it has never selected.
PlacementJustified == \A d \in Devices : \A w \in dev[d].st : Justified(w, d)

\* CleanupBeforeGone: a workload that is being deleted disappears only after
\* finalizeRemoval has patched, since its deletion, every device that all its
\* specs have always selected; a failed device keeps it in place.
AlwaysSelected(w, d) ==
    \A s \in specHist[w], l \in labHist[d] : getMatchingEdgeDevices(s, d, l)

CleanupBeforeGone ==
    [][\A w \in Workloads :
         wl[w].state = "deleting" /\ wl'[w].state = "absent" =>
             \A d \in Devices : AlwaysSelected(w, d) => d \in purged[w]]_vars

\* DeletionIsPending: a workload marked for deletion is never forgotten.  An
\* event about it is on its way, it is queued, or finalizeRemoval is at work,
\* whatever the cache showed when a worker took it from the queue and whichever
\* device failed.  Only RemoveFinalizer, which drops the error of its patch,
\* can lose it: the property is stated for patches that do not fail.
DeletionIsPending ==
    \A w \in Workloads :
        wl[w].state = "deleting" => w \in news.wl \cup wq \/ rec[w].phase = "finalize"

\* IndexIsPending: as long as a workload is without its finalizer, or is filed
\* under selector/* labels that its spec has outgrown (the labels controller
\* does not find it then), its next reconciliation is on its way, whatever
\* fails and whichever incarnation a stale cache shows.
IndexIsPending ==
    \A w \in Workloads :
        /\ wl[w].state = "live"
        /\ wl[w].fin => wl[w].keys # UpdateSelectorLabels(wl[w].spec)
        => w \in news.wl \cup wq

Selects(w, d) ==
    wl[w].state = "live" /\ getMatchingEdgeDevices(wl[w].spec, d, dev[d].lab)

\* SelectedIsPlaced: a workload that from some time on selects a device is
\* from some time on in that device's status (addWorkloadsToDevices and
\* updateWorkloads together, over lagging caches, errors and restarts).
SelectedIsPlaced ==
    \A w \in Workloads, d \in Devices :
        <>[]Selects(w, d) => <>[](w \in dev[d].st)

\* DeletedIsCleared: a workload that is gone for good does not stay in the
\* status of a device that it has selected all the time, whatever the labels
\* controller was about to write (finalizeRemoval visits matching devices).
DeletedIsCleared ==
    \A w \in Workloads, d \in Devices :
        <>[](wl[w].state = "absent" /\ AlwaysSelected(w, d)) => <>[](w \notin dev[d].st)

\* DeletionCompletes: a workload marked for deletion disappears; errors on
\* the way are retried (the test "Failed to remove workload label").
DeletionCompletes ==
    \A w \in Workloads : wl[w].state = "deleting" ~> wl[w].state # "deleting"

\* UnselectedIsRemoved: a workload that no longer selects a device leaves its
\* status (the test "Remove workload from non matching devices").
UnselectedIsRemoved ==
    \A w \in Workloads, d \in Devices :
        <>[](wl[w].state = "live" /\ ~Selects(w, d)) => <>[](w \notin dev[d].st)
=============================================================================
