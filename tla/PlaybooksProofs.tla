-------------------------- MODULE PlaybooksProofs --------------------------
(***************************************************************************)
(* Type correctness of Playbooks, and its two safety invariants for any    *)
(* number of devices, configs, playbooks, heartbeats and failures.         *)
(***************************************************************************)
EXTENDS Playbooks, TLAPS

LEMMA InitialTypes ==
    /\ NoList \in Lists
    /\ Resting \in Works
    /\ Idle \in Reconciliations
    /\ NoBeat \in Beats
<1>1. NoList \in Lists
  BY DEF NoList, Lists, Statuses
<1>2. Resting \in Works
  BY <1>1 DEF Resting, Works
<1>3. Idle \in Reconciliations
  BY <1>2 DEF Idle, Reconciliations
<1>4. NoBeat \in Beats
  BY <1>1 DEF NoBeat, Beats
<1> QED BY <1>1, <1>2, <1>3, <1>4

LEMMA InitTypeOK == Init => TypeOK
<1> SUFFICES ASSUME Init PROVE TypeOK
  OBVIOUS
<1>1. dev \in [Devices -> DeviceObjects] /\ cdev \in [Devices -> DeviceObjects]
  BY InitialTypes DEF Init, DeviceObjects, Labels
<1>2. left \in Budgets
  BY PlaybooksAssumption DEF Init, Budgets
<1>3. rec \in [Configs -> Reconciliations] /\ hb \in [Devices -> Beats]
  BY InitialTypes DEF Init
<1> QED BY <1>1, <1>2, <1>3, InitialTypes DEF Init, TypeOK

\* A failing call takes one of the failures that are left.
LEMMA FaultType == ASSUME TypeOK, NEW call, Fault(call) PROVE left' \in Budgets
BY DEF TypeOK, Fault, Budgets

\* Work on one device is written back into its reconciliation.
LEMMA WorkType ==
    ASSUME TypeOK, NEW c \in Configs, NEW d \in Devices, NEW w \in Works,
           rec' = [rec EXCEPT ![c].work[d] = w]
    PROVE  rec' \in [Configs -> Reconciliations]
<1>1. rec[c] \in Reconciliations
  BY DEF TypeOK
<1>2. [rec[c].work EXCEPT ![d] = w] \in [Devices -> Works]
  BY <1>1 DEF Reconciliations
<1>3. [rec[c] EXCEPT !.work = [rec[c].work EXCEPT ![d] = w]] \in Reconciliations
  BY <1>1, <1>2 DEF Reconciliations
<1> QED BY <1>3 DEF TypeOK

LEMMA WorkOfDevice ==
    ASSUME TypeOK, NEW c \in Configs, NEW d \in Devices
    PROVE  rec[c].work[d] \in Works
BY DEF TypeOK, Reconciliations

\* The entry is appended, and the loop goes on.
LEMMA AppendedType ==
    ASSUME NEW w \in Works, NEW c \in Configs
    PROVE  [w EXCEPT !.list[c] = "Deploying"] \in Works
<1>1. w.list \in Lists
  BY DEF Works
<1>2. [w.list EXCEPT ![c] = "Deploying"] \in Lists
  BY <1>1 DEF Lists, Statuses
<1> QED BY <1>2 DEF Works

LEMMA NextPlaybookType ==
    ASSUME NEW w \in Works, NEW failed \in BOOLEAN
    PROVE  NextPlaybook(w, failed) \in Works
<1>1. w.i + 1 \in Nat \ {0}
  BY DEF Works
<1>2. (w.err \/ failed) \in BOOLEAN
  OBVIOUS
<1>3. [w EXCEPT !.i = w.i + 1, !.err = w.err \/ failed, !.at = "create"] \in Works
  BY <1>1, <1>2 DEF Works
<1> QED BY <1>3, Zenon DEF NextPlaybook

LEMMA BeatTypes ==
    ASSUME NEW b \in Beats
    PROVE  NextTry(b) \in Beats /\ ProcessEvents(b) \in Beats
<1>1. NextTry(b) \in Beats
  <2>1. CASE b.try < 4
    <3>1. b.try + 1 \in 1..4
      BY <2>1 DEF Beats
    <3>2. [b EXCEPT !.at = "read", !.try = b.try + 1] \in Beats
      BY <3>1 DEF Beats
    <3> QED BY <2>1, <3>2 DEF NextTry
  <2>2. CASE ~(b.try < 4)
    BY <2>2, InitialTypes DEF NextTry
  <2> QED BY <2>1, <2>2
<1>2. ProcessEvents(b) \in Beats
  BY DEF ProcessEvents, Beats
<1> QED BY <1>1, <1>2

LEMMA UpdatedListType ==
    ASSUME NEW list \in Lists, NEW report \in Lists
    PROVE  updatePlaybookExecutionStatuses(list, report) \in Lists
BY DEF Lists, updatePlaybookExecutionStatuses

\* A whole list is written into the status of a device.
LEMMA RelistedType ==
    ASSUME TypeOK, NEW d \in Devices, NEW list \in Lists,
           dev' = [dev EXCEPT ![d].list = list]
    PROVE  dev' \in [Devices -> DeviceObjects]
<1>1. dev[d] \in DeviceObjects
  BY DEF TypeOK
<1>2. [dev[d] EXCEPT !.list = list] \in DeviceObjects
  BY <1>1 DEF DeviceObjects
<1> QED BY <1>2 DEF TypeOK

\* Asking for labels a device's own map already is changes nothing.
LEMMA RelabelledSame ==
    ASSUME TypeOK, NEW d \in Devices,
           dev' = [dev EXCEPT ![d].label = UpdateLabels(@, NoConfig, NoConfig)]
    PROVE  dev' = dev
<1>1. dev[d] \in DeviceObjects
  BY DEF TypeOK
<1>2. UpdateLabels(dev[d].label, NoConfig, NoConfig) = dev[d].label
  BY DEF UpdateLabels
<1>3. [dev[d] EXCEPT !.label = dev[d].label] = dev[d]
  BY <1>1 DEF DeviceObjects
<1> QED BY <1>2, <1>3 DEF TypeOK

\* Every step keeps the types.
LEMMA StepTypeOK == TypeOK /\ [Next]_vars => TypeOK'
<1> SUFFICES ASSUME TypeOK, [Next]_vars PROVE TypeOK'
  OBVIOUS
<1>1. ASSUME NEW c \in Configs, CreateConfig(c) PROVE TypeOK'
  BY <1>1 DEF CreateConfig, manager, TypeOK
<1>2. ASSUME NEW d \in Devices, NEW c \in Labels, LabelDevice(d, c) PROVE TypeOK'
  <2>1. dev' \in [Devices -> DeviceObjects]
    BY <1>2 DEF LabelDevice, TypeOK, DeviceObjects
  <2>2. left' \in Budgets
    BY <1>2 DEF LabelDevice, TypeOK, Budgets
  <2> QED BY <1>2, <2>1, <2>2 DEF LabelDevice, manager, TypeOK
<1>3. ASSUME NEW c \in Configs, SyncConfig(c) PROVE TypeOK'
  BY <1>3 DEF SyncConfig, TypeOK
<1>4. ASSUME NEW c \in Configs, Resync(c) PROVE TypeOK'
  BY <1>4 DEF Resync, TypeOK
<1>5. ASSUME NEW c \in Configs, StartReconcile(c) PROVE TypeOK'
  <2> DEFINE work == [d \in Devices |->
                        IF d \in ListForEdgeConfig(c) /\ ~hasPlaybookExecution(cdev[d].list, c)
                        THEN [Resting EXCEPT !.at = "create", !.list = cdev[d].list]
                        ELSE Resting]
  <2>1. ASSUME NEW d \in Devices
        PROVE  [Resting EXCEPT !.at = "create", !.list = cdev[d].list] \in Works
    BY InitialTypes DEF TypeOK, DeviceObjects, Works
  <2>2. work \in [Devices -> Works]
    BY <2>1, InitialTypes
  <2>3. [busy |-> TRUE, work |-> work] \in Reconciliations
    BY <2>2 DEF Reconciliations
  <2>4. rec' \in [Configs -> Reconciliations]
    BY <1>5, <2>3 DEF StartReconcile, TypeOK
  <2>5. cq' \subseteq Configs
    BY <1>5 DEF StartReconcile, TypeOK
  <2> QED BY <1>5, <2>4, <2>5 DEF StartReconcile, TypeOK
<1>6. ASSUME NEW c \in Configs, EndReconcile(c) PROVE TypeOK'
  <2>1. rec' \in [Configs -> Reconciliations]
    BY <1>6, InitialTypes DEF EndReconcile, TypeOK
  <2>2. cq' \subseteq Configs
    BY <1>6 DEF EndReconcile, TypeOK
  <2> QED BY <1>6, <2>1, <2>2 DEF EndReconcile, TypeOK
<1>7. ASSUME NEW c \in Configs, NEW d \in Devices, CreateExecution(c, d) PROVE TypeOK'
  <2> DEFINE w == rec[c].work[d]
             appended == [w EXCEPT !.list[c] = "Deploying"]
  <2>1. w \in Works /\ appended \in Works
    BY WorkOfDevice, AppendedType
  <2>2. CASE /\ pe' = [pe EXCEPT ![d][c] = w.i]
             /\ rec' = [rec EXCEPT ![c].work[d] = [appended EXCEPT !.at = "record"]]
             /\ UNCHANGED left
    <3>1. [appended EXCEPT !.at = "record"] \in Works
      BY <2>1 DEF Works
    <3>2. rec' \in [Configs -> Reconciliations]
      BY <2>2, <3>1, WorkType
    <3>3. pe' \in [Devices -> [Configs -> Nat]]
      BY <2>1, <2>2 DEF TypeOK, Works
    <3> QED BY <1>7, <2>2, <3>2, <3>3 DEF CreateExecution, TypeOK
  <2>3. CASE /\ rec' = [rec EXCEPT ![c].work[d] = NextPlaybook(appended, TRUE)]
             /\ UNCHANGED pe
             /\ UNCHANGED left \/ Fault("create")
    <3>1. rec' \in [Configs -> Reconciliations]
      BY <2>1, <2>3, NextPlaybookType, WorkType
    <3>2. left' \in Budgets
      BY <2>3, FaultType DEF TypeOK
    <3> QED BY <1>7, <2>3, <3>1, <3>2 DEF CreateExecution, TypeOK
  <2> QED BY <1>7, <2>2, <2>3 DEF CreateExecution
<1>8. ASSUME NEW c \in Configs, NEW d \in Devices, RecordExecution(c, d) PROVE TypeOK'
  <2> DEFINE w == rec[c].work[d]
  <2>1. w \in Works /\ w.list \in Lists
    BY WorkOfDevice DEF Works
  <2>2. rec' \in [Configs -> Reconciliations]
    <3>1. PICK failed \in BOOLEAN : rec' = [rec EXCEPT ![c].work[d] = NextPlaybook(w, failed)]
      BY <1>8 DEF RecordExecution
    <3> QED BY <2>1, <3>1, NextPlaybookType, WorkType
  <2>3. dev' \in [Devices -> DeviceObjects]
    BY <1>8, <2>1, RelistedType DEF RecordExecution, TypeOK
  <2>4. left' \in Budgets
    BY <1>8, FaultType DEF RecordExecution, TypeOK
  <2> QED BY <1>8, <2>2, <2>3, <2>4 DEF RecordExecution, TypeOK
<1>9. ASSUME NEW d \in Devices, SyncDevice(d) PROVE TypeOK'
  <2>1. cdev' \in [Devices -> DeviceObjects] /\ lq' \subseteq Devices
    BY <1>9 DEF SyncDevice, TypeOK
  <2> QED BY <1>9, <2>1 DEF SyncDevice, TypeOK
<1>10. ASSUME NEW d \in Devices, UpdatePlaybookExecutions(d) PROVE TypeOK'
  <2>1. dev' = dev
    BY <1>10, RelabelledSame DEF UpdatePlaybookExecutions
  <2>2. lq' \subseteq Devices
    BY <1>10 DEF UpdatePlaybookExecutions, TypeOK
  <2> QED BY <1>10, <2>1, <2>2 DEF UpdatePlaybookExecutions, TypeOK
<1>11. ASSUME NEW d \in Devices, GetPlaybookExecutions(d) PROVE TypeOK'
  <2>1. dev[d].label \in Configs
    BY <1>11 DEF GetPlaybookExecutions, TypeOK, DeviceObjects, Labels
  <2>2. agent' \in [Devices -> Lists]
    BY <1>11, <2>1 DEF GetPlaybookExecutions, TypeOK, Lists, Statuses
  <2> QED BY <1>11, <2>2 DEF GetPlaybookExecutions, manager, TypeOK
<1>12. ASSUME NEW d \in Devices, NEW c \in Configs, AgentFinishes(d, c) PROVE TypeOK'
  <2>1. agent' \in [Devices -> Lists]
    BY <1>12 DEF AgentFinishes, TypeOK, Lists, Statuses
  <2> QED BY <1>12, <2>1 DEF AgentFinishes, manager, TypeOK
<1>13. ASSUME NEW d \in Devices, SendHeartbeat(d) PROVE TypeOK'
  <2>1. [NoBeat EXCEPT !.at = "read", !.report = agent[d]] \in Beats
    BY InitialTypes DEF TypeOK, Beats
  <2>2. hb' \in [Devices -> Beats]
    BY <1>13, <2>1 DEF SendHeartbeat, TypeOK
  <2>3. left' \in Budgets
    BY <1>13 DEF SendHeartbeat, TypeOK, Budgets
  <2> QED BY <1>13, <2>2, <2>3 DEF SendHeartbeat, manager, TypeOK
<1>14. ASSUME NEW d \in Devices, ReadDevice(d) PROVE TypeOK'
  <2>1. hb[d] \in Beats /\ dev[d].list \in Lists
    BY DEF TypeOK, DeviceObjects
  <2>2. [ProcessEvents(hb[d]) EXCEPT !.at = "status", !.copy = dev[d].list] \in Beats
    BY <2>1, BeatTypes DEF Beats
  <2>3. hb' \in [Devices -> Beats]
    BY <1>14, <2>1, <2>2, BeatTypes DEF ReadDevice, TypeOK
  <2>4. left' \in Budgets
    BY <1>14, FaultType DEF ReadDevice, TypeOK
  <2> QED BY <1>14, <2>3, <2>4 DEF ReadDevice, manager, TypeOK
<1>15. ASSUME NEW d \in Devices, PatchDeviceStatus(d) PROVE TypeOK'
  <2>1. hb[d] \in Beats /\ hb[d].copy \in Lists /\ hb[d].report \in Lists
    BY DEF TypeOK, Beats
  <2>2. dev' \in [Devices -> DeviceObjects]
    BY <1>15, <2>1, UpdatedListType, RelistedType DEF PatchDeviceStatus, TypeOK
  <2>3. [hb[d] EXCEPT !.at = "labels"] \in Beats
    BY <2>1 DEF Beats
  <2>4. hb' \in [Devices -> Beats]
    BY <1>15, <2>1, <2>3, BeatTypes DEF PatchDeviceStatus, TypeOK
  <2>5. left' \in Budgets
    BY <1>15, FaultType DEF PatchDeviceStatus, TypeOK
  <2> QED BY <1>15, <2>2, <2>4, <2>5 DEF PatchDeviceStatus, manager, TypeOK
<1>16. ASSUME NEW d \in Devices, StatusUnchanged(d) PROVE TypeOK'
  <2>1. dev' = dev
    BY <1>16, RelabelledSame DEF StatusUnchanged
  <2>2. hb' \in [Devices -> Beats]
    BY <1>16 DEF StatusUnchanged, TypeOK, Beats
  <2> QED BY <1>16, <2>1, <2>2 DEF StatusUnchanged, manager, TypeOK
<1>17. ASSUME NEW d \in Devices, UpdateHardwareLabels(d) PROVE TypeOK'
  <2>1. hb' \in [Devices -> Beats]
    BY <1>17, BeatTypes, InitialTypes DEF UpdateHardwareLabels, TypeOK
  <2>2. left' \in Budgets
    BY <1>17, FaultType DEF UpdateHardwareLabels, TypeOK
  <2> QED BY <1>17, <2>1, <2>2 DEF UpdateHardwareLabels, manager, TypeOK
<1>18. CASE UNCHANGED vars
  BY <1>18 DEF vars, TypeOK
<1> QED
  BY <1>1, <1>2, <1>3, <1>4, <1>5, <1>6, <1>7, <1>8, <1>9, <1>10, <1>11, <1>12, <1>13, <1>14,
     <1>15, <1>16, <1>17, <1>18 DEF Next, User, Reconcile, Visit, Agent, Process

\* PlaybooksTypeCorrect: the reconciler, the labels controller, delivery and
\* the heartbeats keep lists, executions and half-done work well formed; no
\* heartbeat is tried a fifth time.
THEOREM PlaybooksTypeCorrect == Spec => []TypeOK
BY InitTypeOK, StepTypeOK, PTL DEF Spec

-----------------------------------------------------------------------------
\* Every entry of a list has its execution.
Made(list, d) == \A c \in Configs : list[c] # "none" => pe[d][c] # 0

\* What the reconciliation of config c knows of device d: the entries it read
\* have their executions; its own entry has one once it is to be recorded.
WorkMade(c, d) ==
    /\ \A x \in Configs : rec[c].work[d].list[x] # "none" => pe[d][x] # 0 \/ x = c
    /\ rec[c].work[d].at = "record" => pe[d][c] # 0

\* ExecutionFirst of every place a list is kept: the devices, the cache, the
\* heartbeats and the reconciliations.
ExecInv ==
    /\ \A d \in Devices : Made(dev[d].list, d) /\ Made(cdev[d].list, d) /\ Made(hb[d].copy, d)
    /\ \A c \in Configs, d \in Devices : WorkMade(c, d)

LEMMA InitExec == Init => ExecInv
BY DEF Init, ExecInv, Made, WorkMade, NoList, NoBeat, Idle, Resting

\* A step that leaves the executions and the reconciliations alone.
LEMMA ListStep ==
    ASSUME ExecInv, UNCHANGED <<pe, rec>>,
           \A d \in Devices : /\ Made(dev'[d].list, d)
                              /\ Made(cdev'[d].list, d)
                              /\ Made(hb'[d].copy, d)
    PROVE  ExecInv'
BY DEF ExecInv, Made, WorkMade

\* A step that leaves the lists outside the reconciliations alone, and only
\* creates executions.
LEMMA WorkStep ==
    ASSUME ExecInv, UNCHANGED <<dev, cdev, hb>>,
           \A d \in Devices, c \in Configs : pe[d][c] # 0 => pe'[d][c] # 0,
           \A c \in Configs, d \in Devices : WorkMade(c, d)'
    PROVE  ExecInv'
BY DEF ExecInv, Made

\* The retry keeps or forgets the copy.
LEMMA NextTryMade ==
    ASSUME NEW b \in Beats, NEW d \in Devices, Made(b.copy, d)
    PROVE  Made(NextTry(b).copy, d)
<1>1. NextTry(b).copy = b.copy \/ NextTry(b) = NoBeat
  BY DEF NextTry, Beats
<1>2. Made(NoBeat.copy, d)
  BY DEF Made, NoBeat, NoList
<1> QED BY <1>1, <1>2

LEMMA StartingWork ==
    ASSUME NEW list
    PROVE  /\ [Resting EXCEPT !.at = "create", !.list = list].list = list
           /\ [Resting EXCEPT !.at = "create", !.list = list].at = "create"
           /\ Resting.list = NoList
           /\ Resting.at = "none"
BY DEF Resting

\* Every step keeps the executions ahead of the lists.
LEMMA StepExec == TypeOK /\ ExecInv /\ [Next]_vars => ExecInv'
<1> SUFFICES ASSUME TypeOK, ExecInv, [Next]_vars PROVE ExecInv'
  OBVIOUS
<1>0. \A d \in Devices : Made(dev[d].list, d) /\ Made(cdev[d].list, d) /\ Made(hb[d].copy, d)
  BY DEF ExecInv
<1>1. ASSUME NEW c \in Configs, CreateConfig(c) PROVE ExecInv'
  BY <1>0, <1>1, ListStep DEF CreateConfig, manager
<1>2. ASSUME NEW d \in Devices, NEW c \in Labels, LabelDevice(d, c) PROVE ExecInv'
  <2>1. \A e \in Devices : dev'[e].list = dev[e].list
    BY <1>2 DEF LabelDevice, TypeOK, DeviceObjects
  <2> QED BY <1>0, <1>2, <2>1, ListStep DEF LabelDevice, manager
<1>3. ASSUME NEW c \in Configs, SyncConfig(c) PROVE ExecInv'
  BY <1>0, <1>3, ListStep DEF SyncConfig
<1>4. ASSUME NEW c \in Configs, Resync(c) PROVE ExecInv'
  BY <1>0, <1>4, ListStep DEF Resync
<1>5. ASSUME NEW c \in Configs, StartReconcile(c) PROVE ExecInv'
  <2>1. ASSUME NEW x \in Configs, NEW d \in Devices PROVE WorkMade(x, d)'
    <3>1. CASE x # c
      BY <1>5, <3>1 DEF StartReconcile, TypeOK, ExecInv, WorkMade
    <3>2. CASE x = c
      <4>1. \/ rec'[c].work[d] = [Resting EXCEPT !.at = "create", !.list = cdev[d].list]
            \/ rec'[c].work[d] = Resting
        BY <1>5 DEF StartReconcile, TypeOK
      <4>2. /\ rec'[c].work[d].at # "record"
            /\ rec'[c].work[d].list = cdev[d].list \/ rec'[c].work[d].list = NoList
        BY <4>1, StartingWork
      <4>3. pe' = pe
        BY <1>5 DEF StartReconcile
      <4> QED BY <1>0, <3>2, <4>2, <4>3 DEF WorkMade, Made, NoList
    <3> QED BY <3>1, <3>2
  <2> QED BY <1>5, <2>1, WorkStep DEF StartReconcile
<1>6. ASSUME NEW c \in Configs, EndReconcile(c) PROVE ExecInv'
  <2>1. ASSUME NEW x \in Configs, NEW d \in Devices PROVE WorkMade(x, d)'
    <3>1. CASE x # c
      BY <1>6, <3>1 DEF EndReconcile, TypeOK, ExecInv, WorkMade
    <3>2. CASE x = c
      BY <1>6, <3>2 DEF EndReconcile, TypeOK, WorkMade, Idle, Resting, NoList
    <3> QED BY <3>1, <3>2
  <2> QED BY <1>6, <2>1, WorkStep DEF EndReconcile
<1>7. ASSUME NEW c \in Configs, NEW d \in Devices, CreateExecution(c, d) PROVE ExecInv'
  <2> DEFINE w == rec[c].work[d]
             appended == [w EXCEPT !.list[c] = "Deploying"]
  <2>1. w \in Works /\ appended \in Works
    BY WorkOfDevice, AppendedType
  <2>2. \A x \in Configs : x # c => appended.list[x] = w.list[x]
    BY <2>1 DEF Works, Lists
  <2>3. \A e \in Devices, x \in Configs : pe[e][x] # 0 => pe'[e][x] # 0
    <3>1. pe' = pe \/ pe' = [pe EXCEPT ![d][c] = w.i]
      BY <1>7 DEF CreateExecution
    <3>2. w.i # 0
      BY <2>1 DEF Works
    <3> QED BY <3>1, <3>2 DEF TypeOK
  <2>4. PICK u \in Works : /\ rec' = [rec EXCEPT ![c].work[d] = u]
                           /\ u.list = appended.list
                           /\ u.at = "record" => pe'[d][c] # 0
    <3>1. CASE /\ pe' = [pe EXCEPT ![d][c] = w.i]
               /\ rec' = [rec EXCEPT ![c].work[d] = [appended EXCEPT !.at = "record"]]
      <4>1. pe'[d][c] # 0
        BY <2>1, <3>1 DEF TypeOK, Works
      <4>2. /\ [appended EXCEPT !.at = "record"] \in Works
            /\ [appended EXCEPT !.at = "record"].list = appended.list
        BY <2>1 DEF Works
      <4> QED BY <3>1, <4>1, <4>2
    <3>2. CASE rec' = [rec EXCEPT ![c].work[d] = NextPlaybook(appended, TRUE)]
      <4>1. NextPlaybook(appended, TRUE) \in Works
        BY <2>1, NextPlaybookType
      <4>2. /\ NextPlaybook(appended, TRUE).list = appended.list
            /\ NextPlaybook(appended, TRUE).at # "record"
        BY <2>1 DEF NextPlaybook, Works
      <4> QED BY <3>2, <4>1, <4>2
    <3> QED BY <1>7, <3>1, <3>2 DEF CreateExecution
  <2>5. ASSUME NEW x \in Configs, NEW e \in Devices PROVE WorkMade(x, e)'
    <3>1. rec'[x].work[e] = IF x = c /\ e = d THEN u ELSE rec[x].work[e]
      BY <2>4 DEF TypeOK, Reconciliations
    <3>2. WorkMade(x, e)
      BY DEF ExecInv
    <3>3. CASE x = c /\ e = d
      <4>1. rec'[x].work[e].at = "record" => pe'[e][x] # 0
        BY <2>4, <3>1, <3>3
      <4>2. ASSUME NEW y \in Configs, rec'[x].work[e].list[y] # "none", y # x
            PROVE  pe'[e][y] # 0
        <5>1. w.list[y] # "none"
          BY <2>2, <2>4, <3>1, <3>3, <4>2
        <5> QED BY <2>3, <3>2, <3>3, <4>2, <5>1 DEF WorkMade
      <4> QED BY <4>1, <4>2 DEF WorkMade
    <3>4. CASE ~(x = c /\ e = d)
      BY <2>3, <3>1, <3>2, <3>4 DEF WorkMade
    <3> QED BY <3>3, <3>4
  <2> QED BY <1>7, <2>3, <2>5, WorkStep DEF CreateExecution
<1>8. ASSUME NEW c \in Configs, NEW d \in Devices, RecordExecution(c, d) PROVE ExecInv'
  <2> DEFINE w == rec[c].work[d]
  <2>1. w \in Works /\ WorkMade(c, d) /\ w.at = "record"
    BY <1>8, WorkOfDevice DEF ExecInv, RecordExecution
  <2>2. Made(w.list, d)
    BY <2>1 DEF WorkMade, Made
  <2>3. PICK failed \in BOOLEAN : rec' = [rec EXCEPT ![c].work[d] = NextPlaybook(w, failed)]
    BY <1>8 DEF RecordExecution
  <2>4. /\ NextPlaybook(w, failed).list = w.list
        /\ NextPlaybook(w, failed).at # "record"
    BY <2>1 DEF NextPlaybook, Works
  <2>5. ASSUME NEW x \in Configs, NEW e \in Devices PROVE WorkMade(x, e)'
    <3>1. rec'[x].work[e] = IF x = c /\ e = d THEN NextPlaybook(w, failed) ELSE rec[x].work[e]
      BY <2>3 DEF TypeOK, Reconciliations
    <3>2. WorkMade(x, e) /\ pe' = pe
      BY <1>8 DEF ExecInv, RecordExecution
    <3> QED BY <2>4, <3>1, <3>2 DEF WorkMade
  <2>6. \A e \in Devices : Made(dev'[e].list, e)
    <3>1. dev' = dev \/ dev' = [dev EXCEPT ![d].list = w.list]
      BY <1>8 DEF RecordExecution
    <3>2. dev \in [Devices -> DeviceObjects]
      BY DEF TypeOK
    <3>3. \A e \in Devices : dev'[e].list \in {dev[e].list} \cup (IF e = d THEN {w.list} ELSE {})
      BY ONLY <3>1, <3>2 DEF DeviceObjects
    <3>4. \A e \in Devices : Made(dev[e].list, e)
      BY <1>0
    <3> QED BY ONLY <2>2, <3>3, <3>4
  <2>7. pe' = pe /\ cdev' = cdev /\ hb' = hb
    BY <1>8 DEF RecordExecution
  <2> QED BY <1>0, <2>5, <2>6, <2>7 DEF ExecInv, Made
<1>9. ASSUME NEW d \in Devices, SyncDevice(d) PROVE ExecInv'
  <2>1. \A e \in Devices : Made(cdev'[e].list, e)
    BY <1>0, <1>9 DEF SyncDevice, TypeOK
  <2> QED BY <1>0, <1>9, <2>1, ListStep DEF SyncDevice
<1>10. ASSUME NEW d \in Devices, UpdatePlaybookExecutions(d) PROVE ExecInv'
  <2>1. dev' = dev
    BY <1>10, RelabelledSame DEF UpdatePlaybookExecutions
  <2> QED BY <1>0, <1>10, <2>1, ListStep DEF UpdatePlaybookExecutions
<1>11. ASSUME NEW d \in Devices, GetPlaybookExecutions(d) PROVE ExecInv'
  BY <1>0, <1>11, ListStep DEF GetPlaybookExecutions, manager
<1>12. ASSUME NEW d \in Devices, NEW c \in Configs, AgentFinishes(d, c) PROVE ExecInv'
  BY <1>0, <1>12, ListStep DEF AgentFinishes, manager
<1>13. ASSUME NEW d \in Devices, SendHeartbeat(d) PROVE ExecInv'
  <2>1. hb'[d].copy = NoList
    BY <1>13 DEF SendHeartbeat, TypeOK, NoBeat
  <2>2. \A e \in Devices : Made(hb'[e].copy, e)
    BY <1>0, <1>13, <2>1 DEF SendHeartbeat, TypeOK, Made, NoList
  <2> QED BY <1>0, <1>13, <2>2, ListStep DEF SendHeartbeat, manager
<1>14. ASSUME NEW d \in Devices, ReadDevice(d) PROVE ExecInv'
  <2>1. hb[d] \in Beats /\ ProcessEvents(hb[d]) \in Beats
    BY BeatTypes DEF TypeOK
  <2>2. [ProcessEvents(hb[d]) EXCEPT !.at = "status", !.copy = dev[d].list].copy = dev[d].list
    BY <2>1 DEF Beats
  <2>3. Made(hb'[d].copy, d)
    BY <1>0, <1>14, <2>1, <2>2, NextTryMade DEF ReadDevice, TypeOK
  <2>4. \A e \in Devices : Made(hb'[e].copy, e)
    BY <1>0, <1>14, <2>3 DEF ReadDevice, TypeOK
  <2> QED BY <1>0, <1>14, <2>4, ListStep DEF ReadDevice, manager
<1>15. ASSUME NEW d \in Devices, PatchDeviceStatus(d) PROVE ExecInv'
  <2> DEFINE new == updatePlaybookExecutionStatuses(hb[d].copy, hb[d].report)
  <2>1. hb[d] \in Beats /\ Made(new, d)
    BY <1>0 DEF TypeOK, updatePlaybookExecutionStatuses, Made
  <2>2. \A e \in Devices : Made(dev'[e].list, e)
    BY <1>0, <1>15, <2>1 DEF PatchDeviceStatus, TypeOK, DeviceObjects
  <2>3. [hb[d] EXCEPT !.at = "labels"].copy = hb[d].copy
    BY <2>1 DEF Beats
  <2>4. Made(hb'[d].copy, d)
    BY <1>0, <1>15, <2>1, <2>3, NextTryMade DEF PatchDeviceStatus, TypeOK
  <2>5. \A e \in Devices : Made(hb'[e].copy, e)
    BY <1>0, <1>15, <2>4 DEF PatchDeviceStatus, TypeOK
  <2> QED BY <1>0, <1>15, <2>2, <2>5, ListStep DEF PatchDeviceStatus, manager
<1>16. ASSUME NEW d \in Devices, StatusUnchanged(d) PROVE ExecInv'
  <2>1. dev' = dev
    BY <1>16, RelabelledSame DEF StatusUnchanged
  <2>2. \A e \in Devices : hb'[e].copy = hb[e].copy
    BY <1>16 DEF StatusUnchanged, TypeOK, Beats
  <2> QED BY <1>0, <1>16, <2>1, <2>2, ListStep DEF StatusUnchanged, manager
<1>17. ASSUME NEW d \in Devices, UpdateHardwareLabels(d) PROVE ExecInv'
  <2>1. hb[d] \in Beats /\ Made(NoBeat.copy, d)
    BY DEF TypeOK, NoBeat, NoList, Made
  <2>2. Made(hb'[d].copy, d)
    BY <1>0, <1>17, <2>1, NextTryMade DEF UpdateHardwareLabels, TypeOK
  <2>3. \A e \in Devices : Made(hb'[e].copy, e)
    BY <1>0, <1>17, <2>2 DEF UpdateHardwareLabels, TypeOK
  <2> QED BY <1>0, <1>17, <2>3, ListStep DEF UpdateHardwareLabels, manager
<1>18. CASE UNCHANGED vars
  BY <1>0, <1>18, ListStep DEF vars
<1> QED
  BY <1>1, <1>2, <1>3, <1>4, <1>5, <1>6, <1>7, <1>8, <1>9, <1>10, <1>11, <1>12, <1>13, <1>14,
     <1>15, <1>16, <1>17, <1>18 DEF Next, User, Reconcile, Visit, Agent, Process

\* ExecutionComesFirst: for any devices, configs, playbooks, heartbeats and
\* failures, no stale list brings an entry into a device's status whose
\* PlaybookExecution was not created before.
THEOREM ExecutionComesFirst == Spec => []ExecutionFirst
<1>1. ExecInv => ExecutionFirst
  BY DEF ExecInv, Made, ExecutionFirst
<1> QED BY <1>1, PlaybooksTypeCorrect, InitExec, StepExec, PTL DEF Spec

-----------------------------------------------------------------------------
\* Events are recorded once; before the first attempt they are not recorded.
Once(b) == b.events <= 1 /\ (b.at = "read" /\ b.try = 1 => b.events = 0)

OnceInv == \A d \in Devices : Once(hb[d])

LEMMA InitOnce == Init => OnceInv
<1>1. Once(NoBeat)
  BY DEF Once, NoBeat
<1> QED BY <1>1 DEF Init, OnceInv

LEMMA NextTryOnce ==
    ASSUME NEW b \in Beats, Once(b)
    PROVE  Once(NextTry(b))
<1>1. CASE b.try < 4
  <2>1. b.try + 1 # 1
    BY DEF Beats
  <2> QED BY <1>1, <2>1 DEF NextTry, Once, Beats
<1>2. CASE ~(b.try < 4)
  BY <1>2 DEF NextTry, Once, NoBeat
<1> QED BY <1>1, <1>2

\* A step of one heartbeat.
LEMMA OnceStep ==
    ASSUME TypeOK, OnceInv, NEW d \in Devices, NEW b, Once(b), hb' = [hb EXCEPT ![d] = b]
    PROVE  OnceInv'
BY DEF TypeOK, OnceInv, Once

\* Every step keeps the count of recorded events at one.
LEMMA StepOnce == TypeOK /\ OnceInv /\ [Next]_vars => OnceInv'
<1> SUFFICES ASSUME TypeOK, OnceInv, [Next]_vars PROVE OnceInv'
  OBVIOUS
<1>1. CASE UNCHANGED hb
  BY <1>1 DEF OnceInv, Once
<1>2. ASSUME NEW d \in Devices, SendHeartbeat(d) PROVE OnceInv'
  <2>1. Once([NoBeat EXCEPT !.at = "read", !.report = agent[d]])
    BY DEF Once, NoBeat
  <2> QED BY <1>2, <2>1, OnceStep DEF SendHeartbeat
<1>3. ASSUME NEW d \in Devices, ReadDevice(d) PROVE OnceInv'
  <2>1. hb[d] \in Beats /\ Once(hb[d])
    BY DEF TypeOK, OnceInv
  <2>2. ProcessEvents(hb[d]).events <= 1 /\ ProcessEvents(hb[d]) \in Beats
    BY <1>3, <2>1, BeatTypes DEF ReadDevice, Once, ProcessEvents, Beats
  <2>3. Once([ProcessEvents(hb[d]) EXCEPT !.at = "status", !.copy = dev[d].list])
    BY <2>2 DEF Once, Beats
  <2>4. PICK b : Once(b) /\ hb' = [hb EXCEPT ![d] = b]
    BY <1>3, <2>1, <2>3, NextTryOnce DEF ReadDevice
  <2> QED BY <2>4, OnceStep
<1>4. ASSUME NEW d \in Devices, PatchDeviceStatus(d) \/ StatusUnchanged(d) PROVE OnceInv'
  <2>1. hb[d] \in Beats /\ Once(hb[d])
    BY DEF TypeOK, OnceInv
  <2>2. Once([hb[d] EXCEPT !.at = "labels"])
    BY <2>1 DEF Once, Beats
  <2>3. PICK b : Once(b) /\ hb' = [hb EXCEPT ![d] = b]
    <3>1. CASE hb' = [hb EXCEPT ![d].at = "labels"]
      BY <2>2, <3>1
    <3>2. CASE hb' = [hb EXCEPT ![d] = NextTry(@)]
      BY <2>1, <3>2, NextTryOnce
    <3> QED BY <1>4, <3>1, <3>2 DEF PatchDeviceStatus, StatusUnchanged
  <2> QED BY <2>3, OnceStep
<1>5. ASSUME NEW d \in Devices, UpdateHardwareLabels(d) PROVE OnceInv'
  <2>1. hb[d] \in Beats /\ Once(hb[d]) /\ Once(NoBeat)
    BY DEF TypeOK, OnceInv, Once, NoBeat
  <2>2. PICK b : Once(b) /\ hb' = [hb EXCEPT ![d] = b]
    BY <1>5, <2>1, NextTryOnce DEF UpdateHardwareLabels
  <2> QED BY <2>2, OnceStep
<1>6. ASSUME NEW c \in Configs,
             CreateConfig(c) \/ SyncConfig(c) \/ Resync(c) \/ StartReconcile(c) \/ EndReconcile(c)
      PROVE  UNCHANGED hb
  BY <1>6 DEF CreateConfig, SyncConfig, Resync, StartReconcile, EndReconcile
<1>7. ASSUME NEW c \in Configs, NEW d \in Devices,
             CreateExecution(c, d) \/ RecordExecution(c, d) \/ AgentFinishes(d, c)
      PROVE  UNCHANGED hb
  BY <1>7 DEF CreateExecution, RecordExecution, AgentFinishes
<1>8. ASSUME NEW d \in Devices,
             \/ SyncDevice(d) \/ UpdatePlaybookExecutions(d) \/ GetPlaybookExecutions(d)
             \/ \E c \in Labels : LabelDevice(d, c)
      PROVE  UNCHANGED hb
  BY <1>8 DEF SyncDevice, UpdatePlaybookExecutions, GetPlaybookExecutions, LabelDevice
<1> QED
  BY <1>1, <1>2, <1>3, <1>4, <1>5, <1>6, <1>7, <1>8
     DEF Next, User, Reconcile, Visit, Agent, Process, vars

\* EventsAreRecordedOnce: whatever fails and however often a heartbeat is
\* tried, RetryingDelegatingHandler and the handler record its events once at
\* most.
THEOREM EventsAreRecordedOnce == Spec => []EventsOnce
<1>1. OnceInv => EventsOnce
  BY DEF OnceInv, Once, EventsOnce
<1> QED BY <1>1, PlaybooksTypeCorrect, InitOnce, StepOnce, PTL DEF Spec
=============================================================================
