----------------------------- MODULE Playbooks -----------------------------
(***************************************************************************)
(* How the playbooks of an EdgeConfig reach devices and how their state    *)
(* comes back.                                                             *)
(*                                                                         *)
(* A device is given a config by its label config/device-by-config.  The   *)
(* EdgeConfig controller creates one PlaybookExecution <device>-<config>   *)
(* and then records it in the device's status.playbookExecutions; the edge *)
(* API delivers the execution the label names; the agent reports its state *)
(* in heartbeats, which update the entry in the status.  A heartbeat is    *)
(* tried up to four times.                                                 *)
(*                                                                         *)
(* The list in the status is a function from configs to the last condition *)
(* of the entry of that name, "none" where there is no entry: two entries  *)
(* of one name have the same conditions, and every reader takes them for   *)
(* one.  The PlaybookExecution has a status subresource, which neither     *)
(* Create nor the heartbeat's Patch writes, so it has no conditions here.  *)
(***************************************************************************)
EXTENDS Naturals

CONSTANTS
    Devices, Configs,
    NoConfig,     \* a device without the config label
    Count,        \* playbooks in the spec of a config
    Lag,          \* may a reconciliation start on a cache that is behind?
    FailAt,       \* calls that may fail, see Failures
    MaxRelabels, MaxBeats, MaxFaults   \* bounds on the environment

Failures == {"create", "record", "read", "status", "label"}

ASSUME PlaybooksAssumption ==
    /\ NoConfig \notin Configs
    /\ Count \in Nat
    /\ Lag \in BOOLEAN
    /\ FailAt \subseteq Failures
    /\ {MaxRelabels, MaxBeats, MaxFaults} \subseteq Nat

VARIABLES
    cfg,        \* EdgeConfigs on the API server
    dev,        \* EdgeDevices: their config label and their list
    pe,         \* PlaybookExecutions: the playbook each holds, 0 if there is none
    ccfg, cdev, \* configs and devices in the manager's cache
    cq, lq,     \* work queues of the EdgeConfig and the labels controller
    rec,        \* EdgeConfig reconciliations, one per config
    agent,      \* what the agent of each device knows of each execution
    hb,         \* heartbeats being processed, one per device
    left        \* what is left of the environment's bounds

manager == <<ccfg, cdev, cq, lq, rec>>
vars == <<cfg, dev, pe, ccfg, cdev, cq, lq, rec, agent, hb, left>>

-----------------------------------------------------------------------------
Statuses == {"none", "Deploying", "Running", "Completed"}

Lists == [Configs -> Statuses]

NoList == [c \in Configs |-> "none"]

Labels == Configs \cup {NoConfig}

DeviceObjects == [label : Labels, list : Lists]

\* One device of a reconciliation: the playbook it is at, the list it has
\* read or computed, and whether a call has failed.
Resting == [at |-> "none", i |-> 1, list |-> NoList, err |-> FALSE]

Idle == [busy |-> FALSE, work |-> [d \in Devices |-> Resting]]

NoBeat == [at |-> "idle", try |-> 1, report |-> NoList, copy |-> NoList, events |-> 0]

Init ==
    /\ cfg = {}
    /\ dev = [d \in Devices |-> [label |-> NoConfig, list |-> NoList]]
    /\ pe = [d \in Devices |-> [c \in Configs |-> 0]]
    /\ ccfg = {}
    /\ cdev = dev
    /\ cq = {}
    /\ lq = {}
    /\ rec = [c \in Configs |-> Idle]
    /\ agent = [d \in Devices |-> NoList]
    /\ hb = [d \in Devices |-> NoBeat]
    /\ left = [relabels |-> MaxRelabels, beats |-> MaxBeats, faults |-> MaxFaults]

Fault(call) ==
    /\ call \in FailAt
    /\ left.faults > 0
    /\ left' = [left EXCEPT !.faults = @ - 1]

-----------------------------------------------------------------------------
(* Users create configs and label devices.                                  *)

CreateConfig(c) ==
    /\ c \notin cfg
    /\ cfg' = cfg \cup {c}
    /\ UNCHANGED <<dev, pe, manager, agent, hb, left>>

LabelDevice(d, c) ==
    /\ left.relabels > 0
    /\ dev[d].label # c
    /\ left' = [left EXCEPT !.relabels = @ - 1]
    /\ dev' = [dev EXCEPT ![d].label = c]
    /\ UNCHANGED <<cfg, pe, manager, agent, hb>>

-----------------------------------------------------------------------------
(* The manager's cache.  The EdgeConfig controller is told of its configs,  *)
(* and by the resync again and again, but not of devices.                   *)

SyncConfig(c) ==
    /\ c \in cfg \ ccfg
    /\ ccfg' = ccfg \cup {c}
    /\ cq' = cq \cup {c}
    /\ UNCHANGED <<cfg, dev, pe, cdev, lq, rec, agent, hb, left>>

SyncDevice(d) ==
    /\ cdev[d] # dev[d]
    /\ cdev' = [cdev EXCEPT ![d] = dev[d]]
    /\ lq' = IF cdev[d].label # dev[d].label THEN lq \cup {d} ELSE lq
    /\ UNCHANGED <<cfg, dev, pe, ccfg, cq, rec, agent, hb, left>>

Resync(c) ==
    /\ c \in ccfg
    /\ cq' = cq \cup {c}
    /\ UNCHANGED <<cfg, dev, pe, ccfg, cdev, lq, rec, agent, hb, left>>

CacheReady == Lag \/ (ccfg = cfg /\ cdev = dev)

-----------------------------------------------------------------------------
(* EdgeConfigReconciler.Reconcile.                                          *)

\* Mutant: the devices are asked for by the bare index key, a label nobody has.
ListForIndexKey(c) == {}

ListForEdgeConfig(c) == {d \in Devices : cdev[d].label = c}

hasPlaybookExecution(list, c) == list[c] # "none"

StartReconcile(c) ==
    /\ c \in cq
    /\ ~rec[c].busy
    /\ CacheReady
    /\ cq' = cq \ {c}
    /\ rec' = [rec EXCEPT ![c] =
                 [busy |-> TRUE,
                  work |-> [d \in Devices |->
                     IF d \in ListForEdgeConfig(c) /\ ~hasPlaybookExecution(cdev[d].list, c)
                     THEN [Resting EXCEPT !.at = "create", !.list = cdev[d].list]
                     ELSE Resting]]]
    /\ UNCHANGED <<cfg, dev, pe, ccfg, cdev, lq, agent, hb, left>>

\* The loop over the playbooks goes on with the next one, after an error too.
NextPlaybook(w, failed) ==
    [w EXCEPT !.i = @ + 1, !.err = @ \/ failed, !.at = "create"]

\* Mutant: the execution is recorded although it could not be created.
CreateUnchecked(c, d) ==
    LET w == rec[c].work[d]
        appended == [w EXCEPT !.list[c] = "Deploying"]
    IN  /\ w.at = "create" /\ w.i <= Count
        /\ \/ /\ pe[d][c] = 0
              /\ pe' = [pe EXCEPT ![d][c] = w.i]
              /\ UNCHANGED left
           \/ Fault("create") /\ UNCHANGED pe
           \/ pe[d][c] # 0 /\ UNCHANGED <<left, pe>>
        /\ rec' = [rec EXCEPT ![c].work[d] = [appended EXCEPT !.at = "record"]]
        /\ UNCHANGED <<cfg, dev, ccfg, cdev, cq, lq, agent, hb>>

\* The entry is appended to the local list, then the execution is created.
\* All playbooks of a config have one name: the second is refused.  The config
\* owns its executions; configs are not deleted here, so none is collected.
CreateExecution(c, d) ==
    LET w == rec[c].work[d]
        appended == [w EXCEPT !.list[c] = "Deploying"]
    IN  /\ w.at = "create" /\ w.i <= Count
        /\ \/ /\ pe[d][c] = 0
              /\ pe' = [pe EXCEPT ![d][c] = w.i]
              /\ rec' = [rec EXCEPT ![c].work[d] = [appended EXCEPT !.at = "record"]]
              /\ UNCHANGED left
           \/ /\ \/ pe[d][c] # 0 /\ UNCHANGED left
                 \/ Fault("create")
              /\ rec' = [rec EXCEPT ![c].work[d] = NextPlaybook(appended, TRUE)]
              /\ UNCHANGED pe
        /\ UNCHANGED <<cfg, dev, ccfg, cdev, cq, lq, agent, hb>>

\* PatchStatus: the list as a whole, computed from the device that was read.
RecordExecution(c, d) ==
    LET w == rec[c].work[d]
    IN  /\ w.at = "record"
        /\ \/ /\ dev' = [dev EXCEPT ![d].list = w.list]
              /\ rec' = [rec EXCEPT ![c].work[d] = NextPlaybook(w, FALSE)]
              /\ UNCHANGED left
           \/ /\ Fault("record")
              /\ rec' = [rec EXCEPT ![c].work[d] = NextPlaybook(w, TRUE)]
              /\ UNCHANGED dev
        /\ UNCHANGED <<cfg, pe, ccfg, cdev, cq, lq, agent, hb>>

\* Mutant: an AlreadyExists error, or any other, ends the reconciliation for good.
EndForgets(c) ==
    /\ rec[c].busy
    /\ \A d \in Devices : LET w == rec[c].work[d]
                          IN  w.at = "none" \/ (w.at = "create" /\ w.i > Count)
    /\ rec' = [rec EXCEPT ![c] = Idle]
    /\ UNCHANGED <<cfg, dev, pe, ccfg, cdev, cq, lq, agent, hb, left>>

\* The errors are merged into one message, which is an AlreadyExists error no
\* more: any of them brings the config back into the queue.
EndReconcile(c) ==
    /\ rec[c].busy
    /\ \A d \in Devices : LET w == rec[c].work[d]
                          IN  w.at = "none" \/ (w.at = "create" /\ w.i > Count)
    /\ cq' = IF \E d \in Devices : rec[c].work[d].err THEN cq \cup {c} ELSE cq
    /\ rec' = [rec EXCEPT ![c] = Idle]
    /\ UNCHANGED <<cfg, dev, pe, ccfg, cdev, lq, agent, hb, left>>

-----------------------------------------------------------------------------
(* Labels.                                                                  *)

\* CRRepository.updateLabels: what the config label of a device with label
\* server becomes, if the caller's device has the label local and asks for
\* wanted.  The wanted labels are laid over the local ones, and the patch
\* holds the difference to the local ones: no label is ever taken away.
UpdateLabels(server, local, wanted) ==
    LET merged == IF wanted # NoConfig THEN wanted ELSE local
    IN  IF merged = local THEN server ELSE merged

\* updatePlaybookExecutions of the labels controller: the label of a finished
\* config is deleted from the device's own map, which is then also what is
\* asked for.
UpdatePlaybookExecutions(d) ==
    LET l == cdev[d].label
        final == l # NoConfig /\ cdev[d].list[l] = "Completed"
    IN  /\ d \in lq
        /\ CacheReady
        /\ lq' = lq \ {d}
        /\ dev' = IF final
                  THEN [dev EXCEPT ![d].label = UpdateLabels(@, NoConfig, NoConfig)]
                  ELSE dev
        /\ UNCHANGED <<cfg, pe, ccfg, cdev, cq, rec, agent, hb, left>>

-----------------------------------------------------------------------------
(* The agent and the edge API.                                              *)

\* backend.GetPlaybookExecutions, answering the directive "ansible": the
\* execution the label names.  Without the label or the execution the answer
\* is an error.
GetPlaybookExecutions(d) ==
    LET c == dev[d].label
    IN  /\ c # NoConfig
        /\ pe[d][c] # 0
        /\ agent[d][c] # "Running"
        /\ agent' = [agent EXCEPT ![d][c] = "Running"]
        /\ UNCHANGED <<cfg, dev, pe, manager, hb, left>>

AgentFinishes(d, c) ==
    /\ agent[d][c] = "Running"
    /\ agent' = [agent EXCEPT ![d][c] = "Completed"]
    /\ UNCHANGED <<cfg, dev, pe, manager, hb, left>>

SendHeartbeat(d) ==
    /\ left.beats > 0
    /\ hb[d].at = "idle"
    /\ left' = [left EXCEPT !.beats = @ - 1]
    /\ hb' = [hb EXCEPT ![d] = [NoBeat EXCEPT !.at = "read", !.report = agent[d]]]
    /\ UNCHANGED <<cfg, dev, pe, manager, agent>>

\* Mutant: the bound on the attempts is gone.
NextTryUnbounded(h) == [h EXCEPT !.at = "read", !.try = @ + 1]

\* RetryingDelegatingHandler.Process: four attempts in all.
NextTry(h) == IF h.try < 4 THEN [h EXCEPT !.at = "read", !.try = @ + 1] ELSE NoBeat

\* Mutant: every attempt records the events.
ProcessEventsAlways(h) == [h EXCEPT !.events = @ + 1]

\* Only an attempt that is no retry records the events of the heartbeat.
ProcessEvents(h) == IF h.try = 1 THEN [h EXCEPT !.events = @ + 1] ELSE h

ReadDevice(d) ==
    /\ hb[d].at = "read"
    /\ \/ /\ hb' = [hb EXCEPT ![d] = [ProcessEvents(@) EXCEPT !.at = "status",
                                                              !.copy = dev[d].list]]
          /\ UNCHANGED left
       \/ Fault("read") /\ hb' = [hb EXCEPT ![d] = NextTry(@)]
    /\ UNCHANGED <<cfg, dev, pe, manager, agent>>

\* Only entries that are in the list are updated.
updatePlaybookExecutionStatuses(list, report) ==
    [c \in Configs |-> IF list[c] # "none" /\ report[c] # "none" THEN report[c] ELSE list[c]]

\* The list may be written although its entries are the same: it gets the
\* order of a Go map, and of two entries of one name only one is left.
Reordered(list) ==
    \E a, b \in Configs : list[a] # "none" /\ list[b] # "none" /\ (a # b \/ Count > 1)

\* Updater.updateStatus, with something to write, in the list or in other
\* fields of the status.
PatchDeviceStatus(d) ==
    LET new == updatePlaybookExecutionStatuses(hb[d].copy, hb[d].report)
    IN  /\ hb[d].at = "status"
        /\ \/ /\ \/ /\ new # hb[d].copy \/ Reordered(new)
                    /\ dev' = [dev EXCEPT ![d].list = new]
                 \/ new = hb[d].copy /\ UNCHANGED dev
              /\ hb' = [hb EXCEPT ![d].at = "labels"]
              /\ UNCHANGED left
           \/ Fault("status") /\ hb' = [hb EXCEPT ![d] = NextTry(@)] /\ UNCHANGED dev
        /\ UNCHANGED <<cfg, pe, manager, agent>>

\* Updater.updateStatus, with nothing to write: the label of a finished
\* config is deleted from the device's own map, which is then also what
\* UpdateEdgeDeviceLabels is asked for.
StatusUnchanged(d) ==
    LET new == updatePlaybookExecutionStatuses(hb[d].copy, hb[d].report)
        final == \E c \in Configs : hb[d].report[c] = "Completed" /\ pe[d][c] # 0
    IN  /\ hb[d].at = "status"
        /\ new = hb[d].copy
        /\ dev' = IF final
                  THEN [dev EXCEPT ![d].label = UpdateLabels(@, NoConfig, NoConfig)]
                  ELSE dev
        /\ hb' = [hb EXCEPT ![d].at = "labels"]
        /\ UNCHANGED <<cfg, pe, manager, agent, left>>

\* Updater.updateLabels writes the labels of the hardware.
UpdateHardwareLabels(d) ==
    /\ hb[d].at = "labels"
    /\ \/ hb' = [hb EXCEPT ![d] = NoBeat] /\ UNCHANGED left
       \/ Fault("label") /\ hb' = [hb EXCEPT ![d] = NextTry(@)]
    /\ UNCHANGED <<cfg, dev, pe, manager, agent>>

-----------------------------------------------------------------------------
User ==
    \/ \E c \in Configs : CreateConfig(c)
    \/ \E d \in Devices, c \in Labels : LabelDevice(d, c)

Reconcile(c) == StartReconcile(c) \/ EndReconcile(c)

Visit(c, d) == CreateExecution(c, d) \/ RecordExecution(c, d)

Process(d) ==
    ReadDevice(d) \/ PatchDeviceStatus(d) \/ StatusUnchanged(d) \/ UpdateHardwareLabels(d)

Agent(d) ==
    \/ GetPlaybookExecutions(d) \/ SendHeartbeat(d)
    \/ \E c \in Configs : AgentFinishes(d, c)

Next ==
    \/ User
    \/ \E c \in Configs : SyncConfig(c) \/ Resync(c) \/ Reconcile(c)
    \/ \E c \in Configs, d \in Devices : Visit(c, d)
    \/ \E d \in Devices : SyncDevice(d) \/ UpdatePlaybookExecutions(d) \/ Agent(d) \/ Process(d)

\* Watch events come, workers and handlers keep working; users, agents,
\* resyncs and failures act or not.
Fairness ==
    /\ \A c \in Configs : WF_vars(SyncConfig(c)) /\ WF_vars(Reconcile(c))
    /\ \A c \in Configs, d \in Devices : WF_vars(Visit(c, d))
    /\ \A d \in Devices : WF_vars(SyncDevice(d)) /\ WF_vars(UpdatePlaybookExecutions(d))
                              /\ WF_vars(Process(d))

Spec == Init /\ [][Next]_vars

FairSpec == Spec /\ Fairness

-----------------------------------------------------------------------------
Works == [at : {"none", "create", "record"}, i : Nat \ {0}, list : Lists, err : BOOLEAN]

Reconciliations == [busy : BOOLEAN, work : [Devices -> Works]]

Budgets == [relabels : Nat, beats : Nat, faults : Nat]

Beats ==
    [at : {"idle", "read", "status", "labels"}, try : 1..4, report : Lists, copy : Lists, events : Nat]

TypeOK ==
    /\ cfg \subseteq Configs /\ ccfg \subseteq Configs
    /\ dev \in [Devices -> DeviceObjects] /\ cdev \in [Devices -> DeviceObjects]
    /\ pe \in [Devices -> [Configs -> Nat]]
    /\ cq \subseteq Configs /\ lq \subseteq Devices
    /\ rec \in [Configs -> Reconciliations]
    /\ agent \in [Devices -> Lists]
    /\ hb \in [Devices -> Beats]
    /\ left \in Budgets

\* ExecutionFirst: an entry in the status of a device has its
\* PlaybookExecution, although the list is written from stale copies by the
\* EdgeConfig controller and by heartbeats; a hasPlaybookExecution that holds
\* is never the reason for a playbook that is missing.
ExecutionFirst ==
    \A d \in Devices, c \in Configs : dev[d].list[c] # "none" => pe[d][c] # 0

\* EventsOnce: however often a heartbeat is tried, its events are recorded at
\* most once.
EventsOnce == \A d \in Devices : hb[d].events <= 1

Labelled(d, c) == c \in cfg /\ dev[d].label = c

\* LabelledIsCreated: a device that keeps the label of a config gets its
\* PlaybookExecution, over lagging caches, failing calls and heartbeats that
\* write back an old list.  A reconciliation that has listed the device sees
\* to that by itself, coming back after every error; for a device that was
\* labelled after the config was reconciled it takes a resync of the config.
LabelledIsCreated ==
    \A d \in Devices, c \in Configs :
        /\ rec[c].work[d].at # "none" /\ [](Labelled(d, c) /\ cdev[d].label = c)
               ~> pe[d][c] # 0
        /\ WF_vars(Resync(c)) => (<>[]Labelled(d, c) => <>(pe[d][c] # 0))
=============================================================================
