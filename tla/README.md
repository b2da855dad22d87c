# flotta-operator in TLA+

A verification project kept beside the source of flotta-operator: TLA+ modules
for the parts whose correctness depends on the order of steps, TLC runs on small
instances, and theorems checked by TLAPS. Paths are relative to the repository.

## 1. The system

Flotta manages edge devices from Kubernetes. Two processes share the API server
and nothing else:

* the **manager** (`cmd/manager/main.go`): controller-runtime reconcilers that
  read from an informer cache and write with JSON merge patches. A work queue
  hands one name to one worker at a time; three workers by default;
* the **edge API** (`cmd/httpapi/main.go`): an mTLS HTTP server the device agents
  talk to, with an informer cache of its own, plus an MQTT goroutine.

| component | state it keeps | operations | what makes it correct |
|---|---|---|---|
| EdgeWorkload controller (`controllers/edgeworkload_controller.go`) | finalizer and `selector/*` labels of a workload; `status.workloads` and `workload/*` labels of devices | `Reconcile`: finalizer, selector labels, listing, concurrent fan-out, pruning, `finalizeRemoval` | a selected workload arrives; a deleted one leaves every device before it disappears; one failing device stops neither the others nor the retry |
| EdgeDeviceLabels controller (`controllers/edgedevicelabels_controller.go`) | the same fields of one device | `updateWorkloads`, `updatePlaybookExecutions` | it selects what the EdgeWorkload controller would place |
| selector labels and index (`internal/common/{labels,indexer}`) | none | computing index keys | every workload is filed under a key of each device it selects |
| EdgeDeviceSignedRequest controller | approval and conditions of a request; creates the device | `Reconcile` | no device without approval; an approved request gets its device |
| EdgeDevice controller | finalizer, bucket claim and its reference | `Reconcile`, `removeRelatedEDSR`, `createOrGetObc` | the request goes before the device; a bucket is claimed once and recorded |
| edge API backend (`internal/edgeapi/backend/k8s/backend.go`) | creates requests, removes the first-registration label, writes the hardware | `Enrol`, `GetTargetNamespace`, `Register` | a device that refuses the registration certificate has one of its own |
| heartbeat (`.../heartbeat-handler.go`, `heartbeat-updater.go`) | device status, labels, events | `Process`, retried up to four times | it disturbs no list a controller has changed; events at most once |
| EdgeConfig and playbooks (`controllers/edgeconfig_controller.go`) | PlaybookExecutions and their entries in the device status | `Reconcile`, delivery, condition updates | a labelled device gets its execution; an entry has its execution; a finished config loses its label |
| fan-out (`executeConcurrent`, `ExecuteConcurrent`, `splitEdgeDevices`, `merge`) | none beyond one call | cut a list of devices into slices, a goroutine each, join the errors | every device is handled once; no error means all of them were; the call returns |
| configuration assembler (`.../configuration-assembler.go`, `internal/edgeapi/configmaps`, `internal/common/{utils,storage}`) | none: reads up to a dozen objects, one after the other | `GetDeviceConfiguration` | what is sent is complete and holds nothing of another workload; only what is mandatory refuses a request |
| CA provider (`pkg/mtls`) | the secrets of the CA, of the host and for registration; the CA each replica remembers | `InitCertificates`, `CreateRegistrationClientCerts`, `SignCSR`, `VerifyRequest` | all replicas use one CA, whoever starts first, and all of them get to serve |
| metrics, ConfigMap watcher, MQTT bridge, webhooks, remote backend, generated code | counters, none, wireless entries, none, none, none | - | see `PROJECT.json` |

How they interact. The first two controllers and the heartbeat handler write
**the same list** of a device, each from a copy it read earlier. A merge patch
carries no precondition, and replaces a list as a whole but labels key by key.
The enrolment path is a chain: agent -> request -> approval -> device ->
registration -> certificate, taken apart in the opposite order by the deletion
of a device, while the agent may call at any time.

What is hard: lost updates between the three writers; reconciliations on a cache
that lags by any amount; the answer of one patch being decoded into the object
from which the next patch is computed; one of several devices or calls failing;
errors that are dropped; a restart between two patches; objects deleted and
created again under one name; a configuration whose objects are edited between
its reads; replicas that create the same secrets at the same time. `PROJECT.json` lists each at its line ("hazards").

## 2. Modules

| module | models | extends |
|---|---|---|
| `SelectorIndex` | label selectors, `UpdateSelectorLabels`, `createSelectorLabelsMap`, the matching both controllers do | |
| `LabelsLookup` | the loop of `updateWorkloads` that looks workloads up, key by key | `SelectorIndex` |
| `Placement` | the EdgeWorkload controller, the EdgeDeviceLabels controller and the heartbeat's status write on shared devices | `SelectorIndex` |
| `DeviceLife` | abstract: what users and agents may rely on for the devices of one name | |
| `Enrolment` | the life of one device name: enrolment, approval, registration, bucket, removal; implements `DeviceLife` | instance of `DeviceLife` |
| `Playbooks` | the EdgeConfig controller, the playbook part of the EdgeDeviceLabels controller, delivery, and heartbeats with their retries | |
| `VisitAll` | abstract: what a reconciliation expects of `executeConcurrent` | |
| `FanOut` | one call of `executeConcurrent`, down to the slices and the WaitGroup; implements `VisitAll` | instance of `VisitAll` |
| `Certificates` | the replicas of the edge API on their way to one CA, signing and verifying | |
| `Configuration` | one request for a device's configuration after the other, read by read, while users edit | |
| `MC...` (one per module above but `SelectorIndex`, `VisitAll`, `DeviceLife`) | the sets and specs of the runs | that module |
| `...Proofs` (the same) | theorems | that module and `TLAPS` |

`PROJECT.json` "map" gives the source lines of every definition.

### SelectorIndex and LabelsLookup

A workload names a device or has a label selector: a set of requirements (key,
operator, values). `matchLabels` is the same as `In` with one value. Index keys
stand for the label names: `selector/<key>`, the device name's label, and
`doesnotexist`. `LabelsLookup` starts with any labels of the device and any specs
of the workloads, walks the device's keys in any order (the code iterates a Go
map), and ends with the selected workloads, or with the error of a selector that
cannot be parsed. A spec may hold anything the API admits: every operator, the empty
selector, a device together with a selector. `Places` is what the EdgeWorkload controller
does with it; `Missed` and `Mistaken` are the two kinds of specs for which the lookup does
something else, see section 3.

### Placement

Objects are on the API server (`wl`, `dev`) and in the manager's cache (`cwl`,
`cdev`); `news` holds the events on their way. `wq`, `lq` are the work queues,
`rec[w]` is the reconciliation of a workload with one goroutine per device,
`lc[d]` that of a device's labels, `hb[d]` a heartbeat. One action is one patch
with what precedes it; a read from the cache and the first patch are one step,
since the lag of the cache already separates them. Each call that can fail has
an alternative that takes one of `MaxFaults` failures.

Taken from the code, and easy to get wrong:

* a patch holds the difference of two local objects: no difference, no effect,
  whatever the server holds by now (`RemoveFromStatus`, `AddLabel`);
* the answer of a patch overwrites the caller's object, and map entries it had
  deleted come back (`PatchLabelsStatus`);
* the label patch of the labels controller contains the resourceVersion, because
  its two objects have different ones: it is refused on conflict (`fresh`);
* `ListForWorkload` lists by the label `device-by-workload=<name>`, which no code
  writes. The run `placement_fanout` lets users write it, so that pruning happens;
* the EdgeDeviceLabels controller sees changes of labels only, the EdgeWorkload
  controller changes of workloads only.

Abstractions: a goroutine per device instead of chunks (every order the chunks
allow is one of these, and the errors tell what `VisitAll` says: see `FanOut`); the
list as a set of names; devices are not deleted; the label
update of a heartbeat is `SetLabels`.

### DeviceLife and Enrolment

One device name in several namespaces: the request `edsr`, the devices `dev[n]`,
the bucket claims, their cached copies, the two reconciliations `sr` and `dr[n]`,
one enrolment `enr`, several registrations `reg[c]`, and `certs`, the namespaces
the agent holds a certificate for. `uid` tells a request from an earlier one of
the same name. `backend.Enrol` treats a failing read like a missing object, so
`Enrol` has that alternative. `GetTargetNamespace` lets a call through with a certificate
of this name, with the registration certificate, and with that of another device: of the
initial namespace like the registration certificate, of any other one without a look at
the request. `Register` reads, removes the label and writes the
status in three steps. A panic after a failed read ends the call without a change. The
status patch may fail (`"status"`), the answer may not arrive (`"answer"`), and the edge API
may stop (`StopEdgeAPI`), which ends its calls where they are; the manager restarts on its own
(`Restart`). Three histories serve the properties: `lost`, the devices for which a call was cut
off between its label patch and its answer since they were created; `behind`, the devices whose
current removal began on a cache that did not have the device or the request as they were;
`deleted`, the namespaces where users have deleted a device.

`DeviceLife` keeps the state of each device (absent, live, being deleted), the namespaces
approved so far and the certificates. The mapping forgets the rest: requests, caches, queues,
reconciliations and calls. It says that a device is created only where a request was
approved, that a deletion is never taken back, and that a certificate is given only while the
device is there, which is not obvious of writes that name a device read earlier.

### Playbooks

`cfg` and `ccfg` are the configs on the server and in the cache, `dev[d]` the
config label of a device and the list in its status, `pe[d][c]` which playbook the
execution `<device>-<config>` holds. `rec[c].work[d]` is the loop of a goroutine
over the playbooks of one device (`at`: before the creation or before the status
patch, `i`: the playbook). `hb[d]` is a heartbeat on its way through `Process`:
which attempt, what the agent reported, the list that was read, how often its
events were recorded. The list is a function from configs to the last condition;
both completed states of the code are `"Completed"`.

Taken from the code:

* the entry is appended to the local list before `Create`, which may fail, while
  the patch after a later playbook's creation writes the list with it;
* all playbooks of a config get the same name, so only one of them is ever created;
  the others are refused, and the merged error is no AlreadyExists error any more,
  so the config is queued again;
* `updateStatus` returns right after the status patch: only a heartbeat that
  changes nothing goes on to the label. `multierror.Append` is called on a nil
  pointer and its result dropped, so the second half never fails;
* `UpdateLabels` adds and changes labels, it removes none;
* the list is written in the order of a Go map, so a heartbeat may write it back
  although no entry changed (`Reordered`).

Abstractions: a config is neither edited nor deleted: the controller runs again on an edit
and does nothing on a deletion. The cluster does: the config owns its executions
(`edgeconfig_controller.go:123`), so they are collected with it, while the entries in the
device status stay. `ExecutionFirst` is not claimed for deleted configs, and a config created
again under the name of a deleted one finds the old entries and creates nothing for
their devices. One heartbeat of a device at a time, as
the agent sends them; the retries inside `UpdateLabels` are one call.

### VisitAll and FanOut

`VisitAll` is what `Placement` and `Playbooks` rely on: the devices of a list are
handled in any order, each once, and the caller is told "no errors" only if all of
them were. `FanOut` is the code: `merge` appends the labelled devices that do not
match (`edgeDevices`), `splitEdgeDevices` cuts the list (`usedLen`, `residueLen`,
`inputs`; a slice is a pair of positions), goroutine `i` is at position `next[i]`,
`errs` and `returned` are what it leaves behind, and `Collect` is the end of
`wg.Wait`. `call` holds the arguments: which of the three callers, both lists, the
concurrency. The context may be cancelled at any moment; `finalizeRemoval` is the
caller that does not look at it. The manager gives the EdgeConfig controller the same
function; its own copy, `ExecuteEdgeConfigConcurrent`, is not used.

The mapping: `todo` is the devices of the operation not handled yet, `failed`
whether some goroutine has errors, `answer` is the same. What `f` does to one
device is one step here and the subject of `Placement` and `Playbooks`. A listing
is assumed to name a device once, which the API server guarantees.

### Certificates

`ca` and `host` are the two secrets, each by the identity of the CA that made it;
`view[r]` is the cache of replica `r`, `pc[r]` where its `main` is, `caller[r]` who
called `GetCACertificate` (it is called from three places), `made[r]` a key pair that
is not stored yet, `latestCA[r]` what it signs with, `chain[r]` what it checks clients
against, `server[r]` the issuer of its own certificate. A `Create` that is refused
ends the process, as in `main`; the cluster starts it again with an empty cache, and the first
read fills it and waits for that (`WaitForCacheSync` in `getClient` has no informer to wait for
yet). `issued` is every client certificate ever made;
a signature is its issuer. `VerifyRequest` is the check of both kinds of endpoints.
Users may delete the host secret, not the CA secret: see the hazard at
`caprovider_secret.go:78`.

### Configuration

`device`, `workloads`, `store` (secrets and config maps by the set of their keys) and
`deviceSet` are what the caches of the edge API hold; `Users` changes any of them
between any two reads. The request is a program counter and its locals: the device it
read, the list of workloads with their config maps, `map` (the `secretMap` or `cmMap` of
the code: unseen, nil for "only optional", or a set of keys), the names `left` to read
(Go iterates the map in any order), the secrets, the settings in use. `blame`
remembers why the request was refused.

Taken from the code, and easy to get wrong:

* an optional reference never weakens a mandatory one, whichever comes first; a nil
  key set means optional, an empty one does not;
* config maps have one map per workload, secrets one for all workloads;
* every error is wrapped with `%s`, which hides that it is NotFound, except that of the
  auth file secret: the device is answered 404 for it;
* an error of the device set read means the device's own settings, an error of a
  storage read means no storage section; both only show in the log;
* `ExtractInfoFromEnv` calls its callback before it checks `ValueFrom`, and the callback
  for config maps reads through it: a plain environment variable panics, and the
  server closes the connection.

Abstractions: the contents of an object are its keys; the sections of the settings are
the objects they need (heartbeat, OS and mounts need none); a parse error is a failing
read.

## 3. Runs

All runs are bounded by what the environment does (`MaxOps` user operations,
`MaxRelabels` relabellings, `MaxBeats` heartbeats, `MaxEnrols`, `MaxRegs` calls, `MaxFaults` failures,
`MaxCrashes` restarts, `MaxEdits` edits, `MaxDeletes`, `MaxSigned`); the controllers themselves are not bounded. Runs stop
when users do, so deadlock is not checked. Two of a kind (devices, workloads,
namespaces, calls) is what an interference between two needs; the theorems
remove the bound for the safety properties.

| run | bounds | shows |
|---|---|---|
| `labels_lookup` | 2 devices, 2 label keys, one of them also the name of a device, 2 workloads, selectors with up to two requirements of all operators, the empty selector, specs with a device and a selector | `LookupIsExact`: the lookup ends with exactly the workloads the EdgeWorkload controller places on the device, less the `Missed` and with the `Mistaken` ones |
| `placement_fanout` | 2 devices, 1 workload, lag, relabelling, edits, deletion, re-creation, failures of device and finalizer patches | `PlacementJustified`: nothing stale puts a workload on a device that it never selected (with heartbeats and more workloads: the theorem). `CleanupBeforeGone`: a workload disappears only after all devices it always selected were patched |
| `placement_events` | 1 device, 5 user operations, failures, a restart, no lag | `SelectedIsPlaced`, `DeletedIsCleared`, `DeletionCompletes` from events alone. `DeletionIsPending`, `IndexIsPending`: what they rest on, at every moment: a workload that is being deleted, or whose selector labels are outdated, is on its way to a worker |
| `placement_resync` | 2 workloads, 1 device, heartbeat, lag, resync | `SelectedIsPlaced` after lost updates |
| `enrolment_safety` | 2 namespaces, 2 calls (symmetric), 2 enrolments, 2 registrations, manual approval, withdrawal and deletion, lag, one failure: of a call, of an answer or of the edge API | `ImplementsDeviceLife` (the refinement), `ApprovedFirst`. `LockedOutOnlyByLoss`: only a call cut off after its label patch locks a device out. `RequestGoneFirst`: a removal begun on a current cache takes the request first. `RemovalIsPending`, `ApprovalIsPending`: neither a deleted device nor an approved request is forgotten |
| `enrolment_converges` | 1 namespace, 2 enrolments, automatic approval, deletions of devices and requests by users, lag, 2 failures (the finalizer patch too), a restart | `ApprovedIsHonoured`, `BucketIsReferenced`, `DeletionCompletes` (if there is a resync), and at every moment `BucketIsPending` |
| `enrolment_lockout` | 1 namespace, 1 call, a failing status patch | violation of `NotLockedOut`, see below |
| `playbooks` | 1 device, 1 config with 2 playbooks, 2 relabellings, a heartbeat, 4 failures (enough to use up its attempts), lag, resync | `ExecutionFirst`: an entry has its execution. `EventsOnce`. `LabelledIsCreated`: a reconciliation that has listed a device comes back until it has its execution; with the resync every device that keeps the label gets it |
| `fan_out` | 5 devices, lists of 0 to 5 and of 0 to 3 that overlap, concurrency 1, 2, 3 and 7 (even, uneven and more slices than devices), all three callers, cancellation | `GoodSlices`, `VisitedOnce`, `ImplementsVisitAll` (the refinement), `Terminates` |
| `certificates` | 2 replicas, 3 key pairs (one more than can be in use), lag, a crash, a failing call, a deleted host secret, 2 signatures | `EveryoneAccepts`: whatever a replica issued, before or after a restart, every serving replica accepts. `HostIsTrusted`. `EveryoneServes`: nobody is left out after a refused `Create` |
| `configuration` | 2 workloads, 2 names for secrets and config maps, 2 keys, 4 pod specs in which optional and mandatory references meet in both orders, member of a set or with a bucket claim, 2 edits, a failing read | `CompleteAnswer`, `NothingExtra`, `FailureHasReason`, `Delivered` |

### Fairness

Watch events are delivered, and a queued name is eventually worked on
(`Fairness`): the informers and the workers of controller-runtime run as long as
the process does, failures and restarts are finitely many. Nothing is assumed of
users, agents or heartbeats (a heartbeat that has been read is finished).
The informers' periodic resync, which controller-runtime has by default, reaches the
EdgeWorkload, EdgeDevice and EdgeConfig controllers, not those whose predicates drop an
update without a change. It is assumed only where a property needs it, so that it does not
hide a requeue that is missing: `ResyncSpec` of `Placement` adds it for the runs
`placement_resync` and `placement_unselected`; in `Enrolment` it is the hypothesis of `DeletionCompletes`, and in
`Playbooks` that of the second half of `LabelledIsCreated`, as a device labelled after its
config was reconciled is found by nothing else.

In `FanOut` the Go scheduler runs every goroutine that can go on. In `Certificates` the
cluster restarts a pod that has exited and a running `main` goes on; the caches may lag
for ever, since a restart waits for a fresh one. In `Configuration` a device asks again
and again, as the agent polls, and a request that was begun goes on.

### What needs a condition

The models also show where the properties stop holding. These are facts about
the code; the runs state the conditions.

* **Lag without resync.** `SelectedIsPlaced` and `DeletedIsCleared` fail if caches
  lag and nothing is resynced: an overwritten entry is noticed by no event, as no
  controller watches `status.workloads`. For a deleted workload not even the
  resync helps: nobody is handed a workload that is gone.
* **Relabelled devices.** `DeletedIsCleared` is stated for devices the workload
  always selected. If a device loses its label while the workload is being added,
  the entry can be written after the labels controller looked, and
  `finalizeRemoval` does not visit a device that no longer matches.
* **Lag and removal.** On a cache that is behind, the EdgeDevice
  controller may conclude that there is no request, or take a device that is
  gone for one that is still to be removed, and then take the finalizer of its successor.
  So `RequestGoneFirst` is stated for the removals that began with the device and the request
  as they were at that moment (`behind`); caches may lag before, and what changes afterwards
  does not matter. Run and theorem allow any lag.
* **Returning devices.** `ApprovedIsHonoured` fails if a new request comes while the
  old device is still being deleted (a user deletes the request, or the read of
  `Enrol` fails): that device counts as created, and the request keeps the
  condition Approved without a device. `ApprovedIsHonoured` and `ApprovalIsPending` are
  stated for namespaces in which users have deleted no device yet (`deleted`).
* **Dropped errors.** `RemoveFinalizer` of both repositories returns nil whatever
  its patch did, so the object stays until the resync. The test "Failed to remove
  finalizer label" expects a requeue, but mocks the repository. `DeletionIsPending` and
  `RemovalIsPending` are stated, and proved, for finalizer patches that do not fail.
* **Edits and relabelling.** With both at once `SelectedIsPlaced` needs the resync: the
  labels controller looks a workload up by selector labels that the edit has
  outdated, and the workload's own reconciliation may have listed the devices before.
* **Leftover entries.** What `DeletedIsCleared` does not cover stays on the device
  until one of its labels changes or the manager restarts.
* **Leftover labels.** The labels controller drops a workload from a device but not
  its label: the answer of the status patch brings the label back into the object
  from which the label patch is computed (`edgedevicelabels_controller.go:117`).
* **Lost entries.** If the status patch after the creation of an execution fails, or a
  writer with an older copy overwrites the entry, it never comes back: the next
  reconciliation is refused with AlreadyExists and skips the patch. The execution is
  delivered all the same, but its state is recorded nowhere.
* **Execution status.** Conditions of a PlaybookExecution never reach the API server:
  they are a status subresource, and `Create` and `Patch` do not write it.
* **Plain variables.** `Delivered` is stated for workloads without a plain environment
  variable; with one, no device that runs the workload gets any configuration.
* **Concurrency 0.** The manager refuses `EDGEWORKLOAD_CONCURRENCY=0` but not
  `EDGECONFIG_CONCURRENCY=0`, with which `ExecuteConcurrent` does nothing and reports
  no error; `ConcurrencyAssumption` excludes it.
* **The CA secret.** If it is deleted by hand, a replica that starts afterwards and the
  ones that run do not accept each other's certificates.
* **Conditions.** The request controller writes the status `true`/`false`, the API
  type documents `True`/`False`; `IsPending` compares with `True`, so a pending
  request gets another condition at every reconciliation.

### Where the code does not do what a comment or a test says

Two runs end in a violation:

* `placement_unselected`: `UnselectedIsRemoved` states what the test
  "Remove workload from non matching devices" says, but devices that carry a workload and
  stopped matching are not found, see `ListForWorkload` above;
* `enrolment_lockout`: `NotLockedOut` states what the comment at `backend.go:141` says: "the
  first time that tries to register should be able to use register certificate." The label of
  the first registration goes before the status patch (`backend.go:168`); if that patch fails
  there is no certificate, and the next call with the registration certificate is refused. A
  lost answer and a stop of the edge API at this point do the same. `LockedOutOnlyByLoss` says
  that there is no other way: neither two registrations at once, nor a failure before the label
  patch, nor a call begun for an earlier device of that name locks a device out.

Three more were met while modelling, and the models contain the behaviour:

* a selector with nothing but `NotIn` is filed under its keys, under which a device without
  those labels, which it selects, does not look (`edgeworkload_controller.go:441`; the test "new
  device - test all selector options" tries every operator but this one). The empty selector
  selects every device and is filed under no key at all. Such a workload reaches a device from
  its own reconciliation, and the next change of the device's labels takes it away again.
  `LookupIsExact` describes these specs by `Missed`;
* a workload with both a device and a selector is placed on the device alone by the EdgeWorkload
  controller; the labels controller, which finds it if another device has a label of that
  name, goes by the selector (`Mistaken`);
* the label of a finished config is deleted from the map that is also the base of the
  patch, so the patch is empty and the label stays (`heartbeat-updater.go:84`; the
  comment at line 81: "final state reached: remove label from dge device"). The playbook
  can be delivered again.

## 4. Theorems

All are proved for every value of the constants that satisfies the modules'
assumptions (sets contain what they should, marks such as `Absent` are no values, bounds are
natural numbers, a listing names a device once, the concurrency is not 0).

* `LookupTypeCorrect`, `LookupExact` (`LabelsLookupProofs`). Invariant: the keys
  already visited have contributed exactly their matching workloads. At the end
  all keys are visited; `SelectedIsFiled` shows that a workload whose selector matches is
  filed under one of them exactly if it is not `Missed`, `NamedIsFiled` the same for a
  workload that names a device. The theorem holds for all specs.
* `PlacementTypeCorrect`, `PlacementIsJustified`, `PlacementIndexPending`,
  `PlacementDeletionPending`, `PlacementCleansUp` (`PlacementProofs`).
  `PlacementJustified` is not inductive: a stale copy may hold anything. `JustInv`
  says the same of every place a list is kept: devices, cache, copies of the
  goroutines, lists the labels controller is about to write, heartbeats; and that
  a goroutine that adds a workload visits only devices it is justified on.
  `SpecsKnown` ties cached specs and labels to the histories. Histories only
  grow, so each part is kept by every action.
  The other three rest on `CacheCurrent`: a workload without an event on its way is in the
  cache as it is on the server. So a worker that takes it from the queue sees what is
  left to do, or the event will queue it again; with that `IndexIsPending` is inductive,
  and `DeletionIsPending` too if the finalizer patch does not fail
  (`"finalizer" \notin FailAt`, see "Dropped errors"). For `CleanupBeforeGone`, `FinInv` says that
  no reconciliation of an earlier incarnation is left that could take the finalizer of a live
  workload away, and `CleanInv` that `finalizeRemoval` visits every device the workload has
  always selected and is done with one only after its patch. Neither needs the caches to keep up.
* `EnrolmentTypeCorrect`, `ApprovalComesFirst`, `LossAloneLocksOut`, `EnrolmentRemovalPending`,
  `EnrolmentBucketPending`, `EnrolmentRequestGoneFirst`, `EnrolmentApprovalPending`,
  `EnrolmentImplementsDeviceLife` (`EnrolmentProofs`). The first invariant follows the approval through the
  cache, the running reconciliation and the registration calls into devices and
  certificates. `LockedOutOnlyByLoss` is inductive with the types: whatever ends a call in its last
  step either gives the certificate or is remembered in `lost`. `DevicesCurrent` is `CacheCurrent` for devices; it carries
  `RemovalIsPending` (if the finalizer patch does not fail) and `BucketIsPending`.
  `RequestGoneFirst` needs that the uid of a request is larger than that of all
  requests devices were created from (`UidInv`), so that a new request is never the origin of an
  old device, and `RemovalInv`: a reconciliation that removes a device, and began on a current
  cache, does it to one marked for deletion, and reaches the finalizer only after its request.
  `ApprovalIsPending` needs `NoneDeleted` (a device in the cache
  exists) and `GenerationCurrent`: the predicate drops status changes, so the cache may lag
  without an event that counts, but then only in the conditions, which decide nothing about
  an approved request. The refinement maps every step to one of `DeviceLife` or a stutter:
  only five actions write devices, only `UpdateDeviceStatus` gives certificates, and
  `CreateDevice` is allowed by the trail of the approval.

* `PlaybooksTypeCorrect`, `ExecutionComesFirst`, `EventsAreRecordedOnce`
  (`PlaybooksProofs`). `ExecInv` says `ExecutionFirst` of the devices, the cache, the
  copies of heartbeats and the lists of reconciliations, where a config's own entry
  may be ahead of its execution until it is about to be recorded. `OnceInv` adds
  that before the first attempt no event is recorded.

* `SlicesAreGood`, `NoDeviceTwice`, `FanOutImplementsVisitAll` (`FanOutProofs`).
  Invariant of the loop: the list is as long as what is cut, plus the residue, plus
  `splitLen` for each slice still to come, and the residue fits into those; so the
  loop ends exactly at the end of the list. `CutInv`: the slices are in order and
  cover what is cut. `RunInv`: a device is handled exactly if the goroutine of its slice
  has passed it, and a goroutine that returned without an error has passed all. From
  these each step is one of `VisitAll` or a stutter, and `Collect` finds `todo` empty
  or an error.
* `AcceptedByAll`, `HostTrusted` (`CertificatesProofs`). `EveryoneAccepts` says nothing of a
  replica that is starting. `OneCA`: every CA that a secret, a cache, a replica or a
  certificate refers to is that of the secret; only `made` may differ, and a refused
  `Create` drops it. `Progress`: what `main` has obtained when it gets somewhere.
* `AnswerIsComplete`, `AnswerHasNothingExtra`, `FailureIsJustified`
  (`ConfigurationProofs`). `Agrees` says what extraction computes without its order; the
  lemma `NoteAgrees` shows that one reference more keeps it, for the mandatory after the
  optional and the other way round. `MapInv` says it of the references noted so far,
  `ReadInv` that what has been read meets them, `FreshInv` that nothing of an earlier
  request is left. Edits change none of these: they speak of what the request read.

Every invariant, action property and refinement of the passing runs is stated by one of these
theorems. Only model-checked are the liveness properties (`SelectedIsPlaced`,
`DeletedIsCleared`, `DeletionCompletes`, `ApprovedIsHonoured`, `BucketIsReferenced`,
`LabelledIsCreated`, `Terminates`, `EveryoneServes`, `Delivered`): liveness under fairness is out
of this prover's reach. The `...IsPending` theorems are the safety half of five of them: as long
as the goal is not reached, something that the fairness keeps going is at work on it.

## 5. Not modelled, and the plan

Left out for good:

* generated code (go-swagger models, client and server, deep copies, the clientset
  and informers) and the tables of the API specification: more than two thirds of the lines of
  the repository. They copy or validate single records, so no model of the steps of
  this system covers them, and the share of all lines that the map covers stays small;
* webhooks, hardware mapping, PEM and X.509 helpers: functions of one record;
  metrics: counters nobody reads;
* the MQTT bridge: it writes two lists of a device that no other code reads, once per
  message and without a retry, so there is no promise to check. What it does to the
  process (it exits or panics) is `Crash` of `Certificates`. The hazards list names
  what it is exposed to;
* the ConfigMap watcher: it ends the process on a changed log level; the restart is
  in `Placement` and `Enrolment`;
* the remote backend, a client of a service outside the repository, and the
  PlaybookExecution controller, which `cmd/manager` never registers.

Order of the work, most important behaviour first:

1. done: `SelectorIndex`, `LabelsLookup`, `Placement`, `Enrolment`, `Playbooks`;
2. done: `FanOut` with its abstract specification `VisitAll`, `Certificates`,
   `Configuration`, and their theorems;
3. done: theorems for `CleanupBeforeGone` and `RequestGoneFirst`, the `...IsPending` invariants,
   the abstract specification `DeviceLife` and the proof that `Enrolment` implements it;
4. an abstract specification of a device's workload list (selected, placed, removed)
   that `Placement` implements while caches keep up;
5. `Placement` with devices that are deleted, and edits and deletions of an EdgeConfig in
   `Playbooks`.
