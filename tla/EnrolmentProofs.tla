-------------------------- MODULE EnrolmentProofs --------------------------
(***************************************************************************)
(* Type correctness of Enrolment, its safety invariants, the order of a    *)
(* removal and the refinement of DeviceLife, for any number of namespaces, *)
(* calls, failures, restarts and user operations.                          *)
(***************************************************************************)
EXTENDS Enrolment, TLAPS

\* The conditions of a request stay a list of conditions.
LEMMA MarkType ==
    ASSUME NEW conds \in Seq(Conditions), NEW t \in {"pending", "approved"}
    PROVE  Mark(conds, t) \in Seq(Conditions)
<1> DEFINE lowered == [i \in DOMAIN conds |-> [conds[i] EXCEPT !.status = "false"]]
<1>1. ASSUME NEW i \in DOMAIN conds
      PROVE  [conds[i] EXCEPT !.status = "false"] \in Conditions
  <2>1. conds[i] \in Conditions
    BY <1>1
  <2> QED BY <2>1 DEF Conditions
<1>2. lowered \in Seq(Conditions)
  BY <1>1
<1>3. [type |-> t, status |-> "true"] \in Conditions
  BY DEF Conditions
<1> QED BY <1>2, <1>3 DEF Mark

LEMMA RequestTypes == NoRequest \in Requests /\ RequestIdle.read \in Requests
BY EnrolmentAssumption DEF NoRequest, Requests, RequestIdle

\* The initial state has the right types.
LEMMA InitTypeOK == Init => TypeOK
<1> SUFFICES ASSUME Init PROVE TypeOK
  OBVIOUS
<1>1. edsr \in Requests /\ cedsr \in Requests
  BY RequestTypes DEF Init
<1>2. dev \in [Namespaces -> DeviceObjects] /\ cdev \in [Namespaces -> DeviceObjects]
  BY DEF Init, NoDevice, DeviceObjects
<1>3. sr \in RequestWork
  BY RequestTypes DEF Init, RequestIdle, RequestWork
<1>4. left \in Budgets
  BY EnrolmentAssumption DEF Init, Budgets
<1>5. /\ enr \in [busy : BOOLEAN, ns : Namespaces]
      /\ reg \in [Calls -> CallStates]
  BY EnrolmentAssumption DEF Init, NoEnrolment, NoCall, CallStates
<1>6. /\ news \in Events
      /\ dr \in [Namespaces -> DevicePhases]
      /\ creator \in [Namespaces -> Nat]
      /\ rq \in BOOLEAN
      /\ claim = {} /\ cclaim = {} /\ dq = {} /\ certs = {} /\ approvedFor = {}
      /\ lost = {} /\ behind = {} /\ deleted = {}
  BY DEF Init, Events, DevicePhases
<1> QED BY <1>1, <1>2, <1>3, <1>4, <1>5, <1>6 DEF TypeOK

\* Writing a request of the right type keeps everything it touches typed.
LEMMA WriteRequestType ==
    ASSUME TypeOK, NEW o \in Requests, WriteRequest(o)
    PROVE  /\ edsr' \in Requests
           /\ news' \in Events
           /\ approvedFor' \subseteq Namespaces
<1>1. edsr' \in Requests /\ approvedFor' \subseteq Namespaces
  BY DEF WriteRequest, TypeOK, Requests
<1>2. news' \in Events
  BY DEF WriteRequest, TypeOK, Events
<1> QED BY <1>1, <1>2

LEMMA WriteDeviceType ==
    ASSUME TypeOK, NEW n \in Namespaces, NEW o \in DeviceObjects, WriteDevice(n, o)
    PROVE  /\ dev' \in [Namespaces -> DeviceObjects]
           /\ news' \in Events
BY DEF WriteDevice, TypeOK, Events

LEMMA FaultType ==
    ASSUME TypeOK, NEW call, Fault(call)
    PROVE  left' \in Budgets
BY DEF Fault, TypeOK, Budgets

LEMMA UserOpType ==
    ASSUME TypeOK, NEW what, UserOp(what)
    PROVE  left' \in Budgets
BY DEF UserOp, TypeOK, Budgets

LEMMA FailsType ==
    ASSUME TypeOK, NEW refused, NEW call, Fails(refused, call)
    PROVE  left' \in Budgets
BY FaultType DEF Fails, TypeOK

\* What is written to a device stays a device.
LEMMA DeviceEdits ==
    ASSUME NEW o \in DeviceObjects, NEW b \in BOOLEAN
    PROVE  /\ [o EXCEPT !.state = "deleting"] \in DeviceObjects
           /\ [o EXCEPT !.init = b] \in DeviceObjects
           /\ [o EXCEPT !.fin = FALSE] \in DeviceObjects
           /\ [o EXCEPT !.obc = TRUE] \in DeviceObjects
           /\ NoDevice \in DeviceObjects
BY DEF DeviceObjects, NoDevice

\* A deleted request leaves its uid behind.
LEMMA DeletedRequestType ==
    ASSUME TypeOK
    PROVE  [NoRequest EXCEPT !.uid = edsr.uid] \in Requests
BY RequestTypes DEF TypeOK, Requests

\* Every step keeps the types.
LEMMA StepTypeOK ==
    ASSUME TypeOK, [Next]_vars
    PROVE  TypeOK'
<1> USE EnrolmentAssumption
<1>1. ASSUME NEW b \in BOOLEAN, SetApproved(b) PROVE TypeOK'
  <2>1. [edsr EXCEPT !.approved = b] \in Requests
    BY DEF TypeOK, Requests
  <2>2. edsr' \in Requests /\ news' \in Events /\ approvedFor' \subseteq Namespaces
    BY <1>1, <2>1, WriteRequestType DEF SetApproved
  <2>3. left' \in Budgets
    BY <1>1, UserOpType DEF SetApproved
  <2> QED BY <1>1, <2>1, <2>2, <2>3 DEF TypeOK, SetApproved, api, cache, queues, calls, history, marks
<1>2. ASSUME UserDeletesRequest PROVE TypeOK'
  <2>1. edsr' \in Requests /\ news' \in Events /\ approvedFor' \subseteq Namespaces
    BY <1>2, DeletedRequestType, WriteRequestType DEF UserDeletesRequest
  <2>2. left' \in Budgets
    BY <1>2, UserOpType DEF UserDeletesRequest
  <2> QED BY <1>2, <2>1, <2>2 DEF TypeOK, UserDeletesRequest, api, cache, queues, calls, history, marks
<1>3. ASSUME NEW n \in Namespaces, UserDeletesDevice(n) PROVE TypeOK'
  <2>1. dev[n] \in DeviceObjects
    BY DEF TypeOK
  <2>2. (IF dev[n].fin THEN [dev[n] EXCEPT !.state = "deleting"] ELSE NoDevice) \in DeviceObjects
    BY <2>1, DeviceEdits
  <2>3. dev' \in [Namespaces -> DeviceObjects] /\ news' \in Events
    BY <1>3, <2>2, WriteDeviceType DEF UserDeletesDevice
  <2>4. left' \in Budgets
    BY <1>3, UserOpType DEF UserDeletesDevice
  <2> QED BY <1>3, <2>1, <2>2, <2>3, <2>4 DEF TypeOK, UserDeletesDevice, api, cache, queues, calls, history, marks
<1>4. ASSUME SyncRequest PROVE TypeOK'
  <2>1. news' \in Events /\ rq' \in BOOLEAN
    BY <1>4 DEF SyncRequest, TypeOK, Events
  <2> QED BY <1>4, <2>1 DEF TypeOK, SyncRequest, api, cache, queues, calls, history, marks
<1>5. ASSUME NEW n \in Namespaces, SyncDevice(n) PROVE TypeOK'
  <2>1. news' \in Events
    BY <1>5 DEF SyncDevice, TypeOK, Events
  <2>2. cdev' \in [Namespaces -> DeviceObjects]
    BY <1>5 DEF SyncDevice, TypeOK
  <2> QED BY <1>5, <2>1, <2>2 DEF TypeOK, SyncDevice, api, cache, queues, calls, history, marks
<1>6. ASSUME SyncClaims PROVE TypeOK'
  BY <1>6 DEF TypeOK, SyncClaims, api, cache, queues, calls, history, marks
<1>7. ASSUME NEW n \in Namespaces, Resync(n) PROVE TypeOK'
  BY <1>7 DEF TypeOK, Resync, api, cache, queues, calls, history, marks
<1>8. ASSUME RequestGone PROVE TypeOK'
  BY <1>8 DEF TypeOK, RequestGone, api, cache, queues, calls, history, marks
<1>9. ASSUME AutoApprove PROVE TypeOK'
  <2>1. [edsr EXCEPT !.approved = TRUE] \in Requests
    BY DEF TypeOK, Requests
  <2>2. /\ edsr' \in Requests
        /\ news' \in Events
        /\ approvedFor' \subseteq Namespaces
        /\ left' \in Budgets
    BY <1>9, <2>1, WriteRequestType, FaultType DEF AutoApprove, TypeOK
  <2> QED BY <1>9, <2>1, <2>2 DEF TypeOK, AutoApprove, api, cache, queues, calls, history, marks
<1>10. ASSUME MarkStatusPending PROVE TypeOK'
  <2>1. Mark(cedsr.conds, "pending") \in Seq(Conditions)
    BY MarkType DEF TypeOK, Requests
  <2>2. [edsr EXCEPT !.conds = Mark(cedsr.conds, "pending")] \in Requests
    BY <2>1 DEF TypeOK, Requests
  <2>3. edsr \in Requests
    BY DEF TypeOK
  <2>4. /\ edsr' \in Requests
        /\ news' \in Events
        /\ approvedFor' \subseteq Namespaces
        /\ left' \in Budgets
        /\ rq' \in BOOLEAN
    BY <1>10, <2>2, <2>3, WriteRequestType, FaultType DEF MarkStatusPending, TypeOK
  <2> QED BY <1>10, <2>1, <2>2, <2>3, <2>4 DEF TypeOK, MarkStatusPending, api, cache, queues, calls, history, marks
<1>11. ASSUME StartRequest PROVE TypeOK'
  <2>1. sr' \in RequestWork
    BY <1>11 DEF StartRequest, TypeOK, RequestWork
  <2> QED BY <1>11, <2>1 DEF TypeOK, StartRequest, api, cache, queues, calls, history, marks
<1>12. ASSUME CreateDevice PROVE TypeOK'
  <2>1. sr.read \in Requests /\ sr.read.target \in Namespaces /\ sr.read.uid \in Nat
    BY DEF TypeOK, RequestWork, Requests
  <2>2. [state |-> "live", init |-> TRUE, fin |-> TRUE, obc |-> FALSE] \in DeviceObjects
    BY DEF DeviceObjects
  <2>3. dev' \in [Namespaces -> DeviceObjects] /\ news' \in Events /\ left' \in Budgets
    BY <1>12, <2>1, <2>2, WriteDeviceType, FailsType DEF CreateDevice, TypeOK
  <2>4. creator' \in [Namespaces -> Nat] /\ rq' \in BOOLEAN /\ lost' \subseteq Namespaces
    BY <1>12, <2>1 DEF CreateDevice, TypeOK
  <2>5. sr' \in RequestWork
    BY <1>12, <2>1, RequestTypes DEF CreateDevice, TypeOK, RequestWork, RequestIdle
  <2> QED BY <1>12, <2>1, <2>2, <2>3, <2>4, <2>5 DEF TypeOK, CreateDevice, api, cache, queues, calls, history, marks
<1>13. ASSUME MarkStatusApproved PROVE TypeOK'
  <2>1. Mark(sr.read.conds, "approved") \in Seq(Conditions)
    BY MarkType DEF TypeOK, RequestWork, Requests
  <2>2. [edsr EXCEPT !.conds = Mark(sr.read.conds, "approved")] \in Requests
    BY <2>1 DEF TypeOK, Requests
  <2>3. /\ edsr' \in Requests
        /\ news' \in Events
        /\ approvedFor' \subseteq Namespaces
        /\ left' \in Budgets
        /\ rq' \in BOOLEAN
    BY <1>13, <2>2, WriteRequestType, FailsType DEF MarkStatusApproved, TypeOK
  <2>4. sr' \in RequestWork
    BY <1>13, RequestTypes DEF MarkStatusApproved, RequestWork, RequestIdle
  <2> QED BY <1>13, <2>1, <2>2, <2>3, <2>4 DEF TypeOK, MarkStatusApproved, api, cache, queues, calls, history, marks
<1>14. ASSUME NEW n \in Namespaces, StartDevice(n) PROVE TypeOK'
  <2>1. NextFor(n) \in DevicePhases
    BY DEF NextFor, DevicePhases
  <2>2. dr' \in [Namespaces -> DevicePhases] /\ dq' \subseteq Namespaces
    BY <1>14, <2>1 DEF StartDevice, TypeOK
  <2> QED BY <1>14, <2>1, <2>2 DEF TypeOK, StartDevice, api, cache, queues, calls, history, marks
<1>15. ASSUME NEW n \in Namespaces, RemoveRelatedEDSR(n) PROVE TypeOK'
  <2>1. /\ edsr' \in Requests
        /\ news' \in Events
        /\ approvedFor' \subseteq Namespaces
        /\ left' \in Budgets
    BY <1>15, DeletedRequestType, WriteRequestType, FailsType DEF RemoveRelatedEDSR, TypeOK
  <2>2. dr' \in [Namespaces -> DevicePhases] /\ dq' \subseteq Namespaces
    BY <1>15 DEF RemoveRelatedEDSR, TypeOK, DevicePhases
  <2> QED BY <1>15, <2>1, <2>2 DEF TypeOK, RemoveRelatedEDSR, api, cache, queues, calls, history, marks
<1>16. ASSUME NEW n \in Namespaces, RemoveFinalizer(n) PROVE TypeOK'
  <2>1. dev[n] \in DeviceObjects
    BY DEF TypeOK
  <2>2. (IF dev[n].state = "live" THEN [dev[n] EXCEPT !.fin = FALSE] ELSE NoDevice) \in DeviceObjects
    BY <2>1, DeviceEdits
  <2>3. dev' \in [Namespaces -> DeviceObjects] /\ news' \in Events /\ left' \in Budgets
    BY <1>16, <2>2, WriteDeviceType, FaultType DEF RemoveFinalizer, TypeOK
  <2>4. dr' \in [Namespaces -> DevicePhases]
    BY <1>16 DEF RemoveFinalizer, TypeOK, DevicePhases
  <2> QED BY <1>16, <2>1, <2>2, <2>3, <2>4 DEF TypeOK, RemoveFinalizer, api, cache, queues, calls, history, marks
<1>17. ASSUME NEW n \in Namespaces, CreateClaim(n) PROVE TypeOK'
  <2>1. claim' \subseteq Namespaces /\ dq' \subseteq Namespaces /\ left' \in Budgets
    BY <1>17, FailsType DEF CreateClaim, TypeOK
  <2>2. dr' \in [Namespaces -> DevicePhases]
    BY <1>17 DEF CreateClaim, TypeOK, DevicePhases
  <2> QED BY <1>17, <2>1, <2>2 DEF TypeOK, CreateClaim, api, cache, queues, calls, history, marks
<1>18. ASSUME NEW n \in Namespaces, AddObcReference(n) PROVE TypeOK'
  <2>1. [dev[n] EXCEPT !.obc = TRUE] \in DeviceObjects
    BY DeviceEdits DEF TypeOK
  <2>2. dev' \in [Namespaces -> DeviceObjects] /\ news' \in Events /\ left' \in Budgets
    BY <1>18, <2>1, WriteDeviceType, FailsType DEF AddObcReference, TypeOK
  <2>3. dr' \in [Namespaces -> DevicePhases] /\ dq' \subseteq Namespaces
    BY <1>18 DEF AddObcReference, TypeOK, DevicePhases
  <2> QED BY <1>18, <2>1, <2>2, <2>3 DEF TypeOK, AddObcReference, api, cache, queues, calls, history, marks
<1>19. ASSUME NEW n \in Namespaces, Enrol(n) PROVE TypeOK'
  <2> DEFINE once == [left EXCEPT !.enrols = @ - 1]
             faulty == [left EXCEPT !.enrols = @ - 1, !.faults = @ - 1]
  <2>1. left \in Budgets /\ left.enrols - 1 \in Nat
    BY <1>19 DEF Enrol, TypeOK, Budgets
  <2>2. once \in Budgets
    BY <2>1 DEF Budgets
  <2>3. ASSUME left.faults > 0 PROVE faulty \in Budgets
    <3>1. left.faults - 1 \in Nat
      BY <2>1, <2>3 DEF Budgets
    <3>2. [left EXCEPT !.enrols = left.enrols - 1, !.faults = left.faults - 1] \in Budgets
      BY <2>1, <3>1 DEF Budgets
    <3> QED BY <3>2
  <2>4. left' = once \/ (left.faults > 0 /\ left' = faulty)
    BY <1>19 DEF Enrol
  <2> HIDE DEF once, faulty
  <2>5. left' \in Budgets
    BY <2>2, <2>3, <2>4
  <2>6. enr' \in [busy : BOOLEAN, ns : Namespaces]
    BY <1>19 DEF Enrol
  <2> QED BY <1>19, <2>5, <2>6 DEF TypeOK, Enrol, api, cache, queues, calls, history, marks
<1>20. ASSUME CreateRequest PROVE TypeOK'
  <2>1. edsr.uid + 1 \in Nat /\ enr.ns \in Namespaces
    BY DEF TypeOK, Requests
  <2>2. [NoRequest EXCEPT !.there = TRUE, !.uid = edsr.uid + 1, !.target = enr.ns] \in Requests
    BY <2>1, RequestTypes DEF Requests
  <2>3. edsr' \in Requests /\ news' \in Events /\ approvedFor' \subseteq Namespaces
    BY <1>20, <2>2, WriteRequestType DEF CreateRequest, TypeOK
  <2>4. enr' \in [busy : BOOLEAN, ns : Namespaces]
    BY <1>20 DEF CreateRequest, NoEnrolment
  <2> QED BY <1>20, <2>1, <2>2, <2>3, <2>4 DEF TypeOK, CreateRequest, api, cache, queues, calls, history, marks
<1>21. ASSUME NEW c \in Calls, NEW n \in Namespaces, NEW own \in BOOLEAN, StartRegistration(c, n, own) PROVE TypeOK'
  <2>1. left' \in Budgets
    BY <1>21 DEF StartRegistration, TypeOK, Budgets
  <2>2. reg' \in [Calls -> CallStates]
    BY <1>21 DEF StartRegistration, TypeOK, CallStates
  <2> QED BY <1>21, <2>1, <2>2 DEF TypeOK, StartRegistration, api, cache, queues, calls, history, marks
<1>22. ASSUME NEW c \in Calls, ReadForRegister(c) PROVE TypeOK'
  <2>1. reg[c] \in CallStates /\ dev[reg[c].ns].init \in BOOLEAN
    BY DEF TypeOK, CallStates, DeviceObjects
  <2>2. /\ [reg[c] EXCEPT !.phase = "label", !.init = dev[reg[c].ns].init] \in CallStates
        /\ NoCall \in CallStates
    BY <2>1 DEF CallStates, NoCall
  <2>3. reg' \in [Calls -> CallStates]
    BY <1>22, <2>2 DEF ReadForRegister, TypeOK
  <2> QED BY <1>22, <2>1, <2>2, <2>3 DEF TypeOK, ReadForRegister, api, cache, queues, calls, history, marks
<1>23. ASSUME NEW c \in Calls, PatchDevice(c) PROVE TypeOK'
  <2>1. reg[c] \in CallStates /\ reg[c].ns \in Namespaces
    BY DEF TypeOK, CallStates
  <2>2. [reg[c] EXCEPT !.phase = "status"] \in CallStates /\ NoCall \in CallStates
    BY <2>1 DEF CallStates, NoCall
  <2>3. reg' \in [Calls -> CallStates]
    BY <1>23, <2>2 DEF PatchDevice, TypeOK
  <2>4. dev[reg[c].ns] \in DeviceObjects /\ (dev[reg[c].ns].init /\ ~reg[c].init) \in BOOLEAN
    BY <2>1 DEF TypeOK
  <2>5. [dev[reg[c].ns] EXCEPT !.init = @ /\ ~reg[c].init] \in DeviceObjects
    BY <2>4, DeviceEdits
  <2>6. dev' \in [Namespaces -> DeviceObjects] /\ news' \in Events /\ left' \in Budgets
    BY <1>23, <2>1, <2>5, WriteDeviceType, FailsType DEF PatchDevice, TypeOK
  <2> QED BY <1>23, <2>1, <2>2, <2>3, <2>4, <2>5, <2>6 DEF TypeOK, PatchDevice, api, cache, queues, calls, history, marks
<1>24. ASSUME NEW c \in Calls, UpdateDeviceStatus(c) PROVE TypeOK'
  <2>1. reg[c].ns \in Namespaces /\ NoCall \in CallStates
    BY DEF TypeOK, CallStates, NoCall
  <2>2. reg' \in [Calls -> CallStates]
    BY <1>24, <2>1 DEF UpdateDeviceStatus, TypeOK
  <2>3. certs' \subseteq Namespaces /\ lost' \subseteq Namespaces /\ left' \in Budgets
    BY <1>24, <2>1, FailsType, FaultType DEF UpdateDeviceStatus, TypeOK
  <2> QED BY <1>24, <2>1, <2>2, <2>3 DEF TypeOK, UpdateDeviceStatus, api, cache, queues, calls, history, marks
<1>25. ASSUME Restart PROVE TypeOK'
  <2>1. left' \in Budgets
    BY <1>25 DEF Restart, TypeOK, Budgets
  <2>2. sr' \in RequestWork /\ dr' \in [Namespaces -> DevicePhases] /\ news' \in Events
    BY <1>25, RequestTypes DEF Restart, RequestWork, RequestIdle, DevicePhases, Events
  <2>3. dq' \subseteq Namespaces /\ rq' \in BOOLEAN
    BY <1>25 DEF Restart, TypeOK, Requests
  <2> QED BY <1>25, <2>1, <2>2, <2>3 DEF TypeOK, Restart, api, cache, queues, calls, history, marks
<1>26. ASSUME StopEdgeAPI PROVE TypeOK'
  <2>1. left' \in Budgets
    BY <1>26, FaultType DEF StopEdgeAPI
  <2>2. reg' \in [Calls -> CallStates] /\ enr' \in [busy : BOOLEAN, ns : Namespaces]
    BY <1>26 DEF StopEdgeAPI, NoCall, NoEnrolment, CallStates
  <2>3. lost' \subseteq Namespaces
    BY <1>26 DEF StopEdgeAPI, TypeOK, CallStates
  <2> QED BY <1>26, <2>1, <2>2, <2>3 DEF TypeOK, StopEdgeAPI, api, cache, queues
<1>27. CASE UNCHANGED vars
  BY <1>27 DEF vars, TypeOK
<1> QED
  BY <1>1, <1>2, <1>3, <1>4, <1>5, <1>6, <1>7, <1>8, <1>9, <1>10, <1>11, <1>12, <1>13,
     <1>14, <1>15, <1>16, <1>17, <1>18, <1>19, <1>20, <1>21, <1>22, <1>23, <1>24, <1>25, <1>26,
     <1>27 DEF Next, User, ReconcileRequest, ReconcileDevice, Serve

\* Type correctness of the enrolment model.
THEOREM EnrolmentTypeCorrect == Spec => []TypeOK
BY InitTypeOK, StepTypeOK, PTL DEF Spec


\* What backend.Register's first patch does to the devices and to the call.
LEMMA PatchedDevice ==
    ASSUME TypeOK, NEW c \in Calls, PatchDevice(c), NEW m \in Namespaces
    PROVE  /\ dev'[m].state = dev[m].state
           /\ dev'[m] = dev[m] \/ (m = reg[c].ns /\ reg' = [reg EXCEPT ![c].phase = "status"])
<1>1. reg[c].ns \in Namespaces /\ dev[m] \in DeviceObjects
  BY DEF TypeOK, CallStates
<1>2. CASE dev' = dev
  BY <1>2
<1>3. CASE /\ dev' = [dev EXCEPT ![reg[c].ns] = [dev[reg[c].ns] EXCEPT
                                                   !.init = @ /\ ~reg[c].init]]
           /\ reg' = [reg EXCEPT ![c].phase = "status"]
  BY <1>1, <1>3 DEF TypeOK, DeviceObjects
<1> QED BY <1>2, <1>3 DEF PatchDevice, WriteDevice

\* Everything that leads to a device or a certificate goes back to an
\* approved request: the request itself, its copies in the cache and in the
\* reconciler's hands, the devices, and the calls being served.
ApprovalInv ==
    /\ edsr.approved => edsr.target \in approvedFor
    /\ cedsr.approved => cedsr.target \in approvedFor
    /\ sr.phase = "create" => sr.read.target \in approvedFor
    /\ \A n \in Namespaces : Exists(n) => n \in approvedFor
    /\ \A c \in Calls : reg[c].phase # "idle" => reg[c].ns \in approvedFor
    /\ certs \subseteq approvedFor

LEMMA InitApproval == Init => ApprovalInv
BY DEF Init, ApprovalInv, NoRequest, RequestIdle, NoDevice, NoCall, Exists

\* Every step keeps the trail of approvals.
LEMMA StepApproval ==
    ASSUME TypeOK, ApprovalInv, [Next]_vars
    PROVE  ApprovalInv'
<1> USE EnrolmentAssumption DEF TypeOK
<1>1. ASSUME NEW b \in BOOLEAN, SetApproved(b) PROVE ApprovalInv'
  BY <1>1 DEF ApprovalInv, SetApproved, WriteRequest, Exists, api, cache, queues, calls, history, marks
<1>2. ASSUME UserDeletesRequest PROVE ApprovalInv'
  BY <1>2 DEF ApprovalInv, UserDeletesRequest, WriteRequest, Exists, NoRequest, api, cache, queues, calls, history, marks
<1>3. ASSUME NEW n \in Namespaces, UserDeletesDevice(n) PROVE ApprovalInv'
  BY <1>3 DEF ApprovalInv, UserDeletesDevice, WriteDevice, Exists, NoDevice, api, cache, queues, calls, history, marks
<1>4. ASSUME SyncRequest PROVE ApprovalInv'
  BY <1>4 DEF ApprovalInv, SyncRequest, Exists, api, cache, queues, calls, history, marks
<1>5. ASSUME NEW n \in Namespaces, SyncDevice(n) PROVE ApprovalInv'
  BY <1>5 DEF ApprovalInv, SyncDevice, Exists, api, cache, queues, calls, history, marks
<1>6. ASSUME SyncClaims PROVE ApprovalInv'
  BY <1>6 DEF ApprovalInv, SyncClaims, Exists, api, cache, queues, calls, history, marks
<1>7. ASSUME NEW n \in Namespaces, Resync(n) PROVE ApprovalInv'
  BY <1>7 DEF ApprovalInv, Resync, Exists, api, cache, queues, calls, history, marks
<1>8. ASSUME RequestGone PROVE ApprovalInv'
  BY <1>8 DEF ApprovalInv, RequestGone, Exists, api, cache, queues, calls, history, marks
<1>9. ASSUME AutoApprove PROVE ApprovalInv'
  BY <1>9 DEF ApprovalInv, AutoApprove, WriteRequest, Exists, api, cache, queues, calls, history, marks
<1>10. ASSUME MarkStatusPending PROVE ApprovalInv'
  BY <1>10 DEF ApprovalInv, MarkStatusPending, WriteRequest, Exists, api, cache, queues, calls, history, marks
<1>11. ASSUME StartRequest PROVE ApprovalInv'
  BY <1>11 DEF ApprovalInv, StartRequest, Exists, api, cache, queues, calls, history, marks
<1>12. ASSUME CreateDevice PROVE ApprovalInv'
  <2> DEFINE t == sr.read.target
  <2>1. t \in Namespaces /\ t \in approvedFor
    BY <1>12 DEF CreateDevice, ApprovalInv, RequestWork, Requests
  <2>2. \A m \in Namespaces \ {t} : dev'[m] = dev[m]
    BY <1>12, <2>1 DEF CreateDevice, WriteDevice
  <2>3. UNCHANGED <<edsr, cedsr, reg, certs, approvedFor>> /\ sr'.phase # "create"
    BY <1>12 DEF CreateDevice, RequestIdle, RequestWork, cache, calls
  <2> QED BY <2>1, <2>2, <2>3 DEF ApprovalInv, Exists
<1>13. ASSUME MarkStatusApproved PROVE ApprovalInv'
  BY <1>13 DEF ApprovalInv, MarkStatusApproved, WriteRequest, Exists, RequestIdle, api, cache, queues, calls, history, marks
<1>14. ASSUME NEW n \in Namespaces, StartDevice(n) PROVE ApprovalInv'
  BY <1>14 DEF ApprovalInv, StartDevice, Exists, api, cache, queues, calls, history, marks
<1>15. ASSUME NEW n \in Namespaces, RemoveRelatedEDSR(n) PROVE ApprovalInv'
  BY <1>15 DEF ApprovalInv, RemoveRelatedEDSR, WriteRequest, Exists, NoRequest, api, cache, queues, calls, history, marks
<1>16. ASSUME NEW n \in Namespaces, RemoveFinalizer(n) PROVE ApprovalInv'
  BY <1>16 DEF ApprovalInv, RemoveFinalizer, WriteDevice, Exists, NoDevice, api, cache, queues, calls, history, marks
<1>17. ASSUME NEW n \in Namespaces, CreateClaim(n) PROVE ApprovalInv'
  BY <1>17 DEF ApprovalInv, CreateClaim, Exists, api, cache, queues, calls, history, marks
<1>18. ASSUME NEW n \in Namespaces, AddObcReference(n) PROVE ApprovalInv'
  BY <1>18 DEF ApprovalInv, AddObcReference, WriteDevice, Exists, api, cache, queues, calls, history, marks
<1>19. ASSUME NEW n \in Namespaces, Enrol(n) PROVE ApprovalInv'
  BY <1>19 DEF ApprovalInv, Enrol, Exists, api, cache, queues, calls, history, marks
<1>20. ASSUME CreateRequest PROVE ApprovalInv'
  <2>1. UNCHANGED <<cedsr, sr, dev, reg, certs>>
    BY <1>20 DEF CreateRequest, cache
  <2>2. (edsr'.approved => edsr'.target \in approvedFor') /\ approvedFor \subseteq approvedFor'
    <3>1. CASE edsr.there
      BY <1>20, <3>1 DEF CreateRequest, ApprovalInv
    <3>2. CASE ~edsr.there
      <4> DEFINE o == [NoRequest EXCEPT !.there = TRUE, !.uid = edsr.uid + 1, !.target = enr.ns]
      <4>1. ~o.approved
        BY DEF NoRequest
      <4>2. WriteRequest(o)
        BY <1>20, <3>2 DEF CreateRequest
      <4> HIDE DEF o
      <4> QED BY <4>1, <4>2 DEF WriteRequest
    <3> QED BY <3>1, <3>2
  <2> QED BY <2>1, <2>2 DEF ApprovalInv, Exists
<1>21. ASSUME NEW c \in Calls, NEW n \in Namespaces, NEW own \in BOOLEAN, StartRegistration(c, n, own) PROVE ApprovalInv'
  BY <1>21 DEF ApprovalInv, StartRegistration, GetTargetNamespace, Exists, api, cache, queues, calls, history, marks
<1>22. ASSUME NEW c \in Calls, ReadForRegister(c) PROVE ApprovalInv'
  BY <1>22 DEF ApprovalInv, ReadForRegister, Exists, NoCall, api, cache, queues, calls, history, marks
<1>23. ASSUME NEW c \in Calls, PatchDevice(c) PROVE ApprovalInv'
  <2>1. \A m \in Namespaces : dev'[m].state = dev[m].state
    BY <1>23, PatchedDevice
  <2>2. \A x \in Calls : reg'[x].phase # "idle" => reg[x].phase # "idle" /\ reg'[x].ns = reg[x].ns
    BY <1>23 DEF PatchDevice, NoCall, CallStates
  <2>3. UNCHANGED <<edsr, cedsr, sr, certs, approvedFor>>
    BY <1>23 DEF PatchDevice, cache, history
  <2> QED BY <2>1, <2>2, <2>3 DEF ApprovalInv, Exists
<1>24. ASSUME NEW c \in Calls, UpdateDeviceStatus(c) PROVE ApprovalInv'
  BY <1>24 DEF ApprovalInv, UpdateDeviceStatus, Exists, NoCall, api, cache, queues, calls, history, marks
<1>25. ASSUME Restart PROVE ApprovalInv'
  BY <1>25 DEF ApprovalInv, Restart, RequestIdle, Exists, api, cache, queues, calls, history, marks
<1>26. ASSUME StopEdgeAPI PROVE ApprovalInv'
  BY <1>26 DEF ApprovalInv, StopEdgeAPI, NoCall, Exists, api, cache
<1>27. CASE UNCHANGED vars
  BY <1>27 DEF vars, ApprovalInv, Exists
<1> QED
  BY <1>1, <1>2, <1>3, <1>4, <1>5, <1>6, <1>7, <1>8, <1>9, <1>10, <1>11, <1>12, <1>13,
     <1>14, <1>15, <1>16, <1>17, <1>18, <1>19, <1>20, <1>21, <1>22, <1>23, <1>24, <1>25, <1>26,
     <1>27 DEF Next, User, ReconcileRequest, ReconcileDevice, Serve

\* No device and no certificate without an approval, for every value of the
\* constants (EdgeDeviceSignedRequestReconciler.Reconcile, backend.Register).
THEOREM ApprovalComesFirst == Spec => []ApprovedFirst
<1>1. ApprovalInv => ApprovedFirst
  BY DEF ApprovalInv, ApprovedFirst
<1> QED BY <1>1, InitTypeOK, StepTypeOK, InitApproval, StepApproval, PTL DEF Spec

\* Every step keeps a registered device's way in, or notes its loss.
LEMMA StepLockedOut ==
    ASSUME TypeOK, LockedOutOnlyByLoss, [Next]_vars
    PROVE  LockedOutOnlyByLoss'
<1> USE EnrolmentAssumption DEF TypeOK
<1>1. ASSUME NEW b \in BOOLEAN, SetApproved(b) PROVE LockedOutOnlyByLoss'
  BY <1>1 DEF LockedOutOnlyByLoss, HasOrGets, SetApproved, WriteRequest, Exists, api, cache, queues, calls, history, marks
<1>2. ASSUME UserDeletesRequest PROVE LockedOutOnlyByLoss'
  BY <1>2 DEF LockedOutOnlyByLoss, HasOrGets, UserDeletesRequest, WriteRequest, Exists, NoRequest, api, cache, queues, calls, history, marks
<1>3. ASSUME NEW n \in Namespaces, UserDeletesDevice(n) PROVE LockedOutOnlyByLoss'
  BY <1>3 DEF LockedOutOnlyByLoss, HasOrGets, UserDeletesDevice, WriteDevice, Exists, NoDevice, api, cache, queues, calls, history, marks
<1>4. ASSUME SyncRequest PROVE LockedOutOnlyByLoss'
  BY <1>4 DEF LockedOutOnlyByLoss, HasOrGets, SyncRequest, Exists, api, cache, queues, calls, history, marks
<1>5. ASSUME NEW n \in Namespaces, SyncDevice(n) PROVE LockedOutOnlyByLoss'
  BY <1>5 DEF LockedOutOnlyByLoss, HasOrGets, SyncDevice, Exists, api, cache, queues, calls, history, marks
<1>6. ASSUME SyncClaims PROVE LockedOutOnlyByLoss'
  BY <1>6 DEF LockedOutOnlyByLoss, HasOrGets, SyncClaims, Exists, api, cache, queues, calls, history, marks
<1>7. ASSUME NEW n \in Namespaces, Resync(n) PROVE LockedOutOnlyByLoss'
  BY <1>7 DEF LockedOutOnlyByLoss, HasOrGets, Resync, Exists, api, cache, queues, calls, history, marks
<1>8. ASSUME RequestGone PROVE LockedOutOnlyByLoss'
  BY <1>8 DEF LockedOutOnlyByLoss, HasOrGets, RequestGone, Exists, api, cache, queues, calls, history, marks
<1>9. ASSUME AutoApprove PROVE LockedOutOnlyByLoss'
  BY <1>9 DEF LockedOutOnlyByLoss, HasOrGets, AutoApprove, WriteRequest, Exists, api, cache, queues, calls, history, marks
<1>10. ASSUME MarkStatusPending PROVE LockedOutOnlyByLoss'
  BY <1>10 DEF LockedOutOnlyByLoss, HasOrGets, MarkStatusPending, WriteRequest, Exists, api, cache, queues, calls, history, marks
<1>11. ASSUME StartRequest PROVE LockedOutOnlyByLoss'
  BY <1>11 DEF LockedOutOnlyByLoss, HasOrGets, StartRequest, Exists, api, cache, queues, calls, history, marks
<1>12. ASSUME CreateDevice PROVE LockedOutOnlyByLoss'
  BY <1>12 DEF LockedOutOnlyByLoss, HasOrGets, CreateDevice, WriteDevice, Exists, RequestIdle, api, cache, queues, calls, history, marks
<1>13. ASSUME MarkStatusApproved PROVE LockedOutOnlyByLoss'
  BY <1>13 DEF LockedOutOnlyByLoss, HasOrGets, MarkStatusApproved, WriteRequest, Exists, RequestIdle, api, cache, queues, calls, history, marks
<1>14. ASSUME NEW n \in Namespaces, StartDevice(n) PROVE LockedOutOnlyByLoss'
  BY <1>14 DEF LockedOutOnlyByLoss, HasOrGets, StartDevice, Exists, api, cache, queues, calls, history, marks
<1>15. ASSUME NEW n \in Namespaces, RemoveRelatedEDSR(n) PROVE LockedOutOnlyByLoss'
  BY <1>15 DEF LockedOutOnlyByLoss, HasOrGets, RemoveRelatedEDSR, WriteRequest, Exists, NoRequest, api, cache, queues, calls, history, marks
<1>16. ASSUME NEW n \in Namespaces, RemoveFinalizer(n) PROVE LockedOutOnlyByLoss'
  <2> DEFINE o == IF dev[n].state = "live" THEN [dev[n] EXCEPT !.fin = FALSE] ELSE NoDevice
  <2>1. dev[n] \in DeviceObjects
    OBVIOUS
  <2>2. o.state = "live" /\ ~o.init => dev[n].state = "live" /\ ~dev[n].init
    BY <2>1 DEF DeviceObjects, NoDevice
  <2>3. dev' = dev \/ dev' = [dev EXCEPT ![n] = o]
    BY <1>16 DEF RemoveFinalizer, WriteDevice
  <2>4. UNCHANGED <<reg, certs, lost>>
    BY <1>16 DEF RemoveFinalizer, calls, history
  <2> HIDE DEF o
  <2> QED BY <2>2, <2>3, <2>4 DEF LockedOutOnlyByLoss, HasOrGets
<1>17. ASSUME NEW n \in Namespaces, CreateClaim(n) PROVE LockedOutOnlyByLoss'
  BY <1>17 DEF LockedOutOnlyByLoss, HasOrGets, CreateClaim, Exists, api, cache, queues, calls, history, marks
<1>18. ASSUME NEW n \in Namespaces, AddObcReference(n) PROVE LockedOutOnlyByLoss'
  <2>1. \A m \in Namespaces : dev'[m].state = "live" /\ ~dev'[m].init
                                => dev[m].state = "live" /\ ~dev[m].init
    <3>1. dev' = dev \/ dev' = [dev EXCEPT ![n] = [dev[n] EXCEPT !.obc = TRUE]]
      BY <1>18 DEF AddObcReference, WriteDevice
    <3>2. dev \in [Namespaces -> DeviceObjects]
      BY DEF TypeOK
    <3> QED BY ONLY <3>1, <3>2 DEF DeviceObjects
  <2>2. UNCHANGED <<reg, certs, lost>>
    BY <1>18 DEF AddObcReference, calls, history
  <2> QED BY <2>1, <2>2 DEF LockedOutOnlyByLoss, HasOrGets
<1>19. ASSUME NEW n \in Namespaces, Enrol(n) PROVE LockedOutOnlyByLoss'
  BY <1>19 DEF LockedOutOnlyByLoss, HasOrGets, Enrol, Exists, api, cache, queues, calls, history, marks
<1>20. ASSUME CreateRequest PROVE LockedOutOnlyByLoss'
  BY <1>20 DEF LockedOutOnlyByLoss, HasOrGets, CreateRequest, WriteRequest, Exists, NoRequest, api, cache, queues, calls, history, marks
<1>21. ASSUME NEW c \in Calls, NEW n \in Namespaces, NEW own \in BOOLEAN, StartRegistration(c, n, own) PROVE LockedOutOnlyByLoss'
  BY <1>21 DEF LockedOutOnlyByLoss, HasOrGets, StartRegistration, GetTargetNamespace, Exists, api, cache, queues, calls, history, marks
<1>22. ASSUME NEW c \in Calls, ReadForRegister(c) PROVE LockedOutOnlyByLoss'
  BY <1>22 DEF LockedOutOnlyByLoss, HasOrGets, ReadForRegister, Exists, NoCall, api, cache, queues, calls, history, marks
<1>23. ASSUME NEW c \in Calls, PatchDevice(c) PROVE LockedOutOnlyByLoss'
  <2> SUFFICES ASSUME NEW m \in Namespaces, dev'[m].state = "live", ~dev'[m].init
               PROVE  \/ m \in certs' \/ m \in lost'
                      \/ \E x \in Calls : reg'[x].phase = "status" /\ reg'[x].ns = m
    BY DEF LockedOutOnlyByLoss, HasOrGets
  <2>1. dev'[m] = dev[m] \/ (m = reg[c].ns /\ reg' = [reg EXCEPT ![c].phase = "status"])
    BY <1>23, PatchedDevice
  <2>2. CASE m = reg[c].ns /\ reg' = [reg EXCEPT ![c].phase = "status"]
    BY <2>2 DEF CallStates
  <2>3. CASE dev'[m] = dev[m]
    <3>1. m \in certs \/ m \in lost \/ \E x \in Calls : reg[x].phase = "status" /\ reg[x].ns = m
      BY <2>3 DEF LockedOutOnlyByLoss, HasOrGets
    <3>2. \A x \in Calls : reg[x].phase = "status" => reg'[x] = reg[x]
      BY <1>23 DEF PatchDevice
    <3>3. UNCHANGED <<certs, lost>>
      BY <1>23 DEF PatchDevice, history
    <3> QED BY <3>1, <3>2, <3>3
  <2> QED BY <2>1, <2>2, <2>3
<1>24. ASSUME NEW c \in Calls, UpdateDeviceStatus(c) PROVE LockedOutOnlyByLoss'
  <2>1. reg[c].ns \in certs' \cup lost'
    BY <1>24 DEF UpdateDeviceStatus
  <2>2. certs \subseteq certs' /\ lost \subseteq lost' /\ dev' = dev
    BY <1>24 DEF UpdateDeviceStatus, api
  <2>3. \A x \in Calls \ {c} : reg'[x] = reg[x]
    BY <1>24 DEF UpdateDeviceStatus
  <2> QED BY <2>1, <2>2, <2>3 DEF LockedOutOnlyByLoss, HasOrGets
<1>25. ASSUME Restart PROVE LockedOutOnlyByLoss'
  BY <1>25 DEF LockedOutOnlyByLoss, HasOrGets, Restart, RequestIdle, Exists, api, cache, queues, calls, history, marks
<1>26. ASSUME StopEdgeAPI PROVE LockedOutOnlyByLoss'
  <2>1. UNCHANGED <<dev, certs>>
    BY <1>26 DEF StopEdgeAPI, api
  <2>2. lost \subseteq lost' /\ \A c \in Calls : reg[c].phase = "status" => reg[c].ns \in lost'
    BY <1>26 DEF StopEdgeAPI
  <2> QED BY <2>1, <2>2 DEF LockedOutOnlyByLoss, HasOrGets
<1>27. CASE UNCHANGED vars
  BY <1>27 DEF vars, LockedOutOnlyByLoss, HasOrGets
<1> QED
  BY <1>1, <1>2, <1>3, <1>4, <1>5, <1>6, <1>7, <1>8, <1>9, <1>10, <1>11, <1>12, <1>13,
     <1>14, <1>15, <1>16, <1>17, <1>18, <1>19, <1>20, <1>21, <1>22, <1>23, <1>24, <1>25, <1>26,
     <1>27 DEF Next, User, ReconcileRequest, ReconcileDevice, Serve

\* LockedOutOnlyByLoss, whatever fails: a device without the label of its first
\* registration has a certificate or is about to get it, unless a call that had
\* removed the label was cut off before its answer: backend.Register removes
\* the label only as its last step but one.
THEOREM LossAloneLocksOut == Spec => []LockedOutOnlyByLoss
<1>1. Init => LockedOutOnlyByLoss
  BY DEF Init, LockedOutOnlyByLoss, NoDevice
<1>2. TypeOK /\ LockedOutOnlyByLoss /\ [Next]_vars => LockedOutOnlyByLoss'
  BY StepLockedOut
<1> QED BY <1>1, <1>2, EnrolmentTypeCorrect, PTL DEF Spec

-----------------------------------------------------------------------------
(* What the parts of Next do to devices, their events and their             *)
(* reconciliations, and to the request and its events.                      *)

\* A write of the request is an event, unless it changes nothing; it is one of
\* a new generation if it changes more than the conditions.
Base(r) == [r EXCEPT !.conds = <<>>]

LEMMA WriteRequestStep ==
    ASSUME TypeOK, NEW o, WriteRequest(o)
    PROVE  /\ edsr' = o /\ news'.dev = news.dev
           /\ ~news'.edsr => ~news.edsr /\ o = edsr
           /\ ~news'.gen => ~news.gen /\ Base(o) = Base(edsr)
<1>1. news \in Events
  BY DEF TypeOK
<1>2. news' = [news EXCEPT !.edsr = news.edsr \/ o # edsr,
                           !.gen  = news.gen \/ Base(o) # Base(edsr)]
  BY DEF WriteRequest, Base
<1> DEFINE e == news.edsr \/ o # edsr
           g == news.gen \/ Base(o) # Base(edsr)
<1>3. news'.dev = news.dev /\ news'.edsr = e /\ news'.gen = g
  BY <1>1, <1>2 DEF Events
<1> QED BY <1>3 DEF WriteRequest

\* A write of a device is an event, unless it changes nothing.
LEMMA WriteDeviceStep ==
    ASSUME TypeOK, NEW n \in Namespaces, NEW o, WriteDevice(n, o)
    PROVE  /\ \A m \in Namespaces : dev'[m] = IF m = n THEN o ELSE dev[m]
           /\ news'.dev = IF o = dev[n] THEN news.dev ELSE news.dev \cup {n}
           /\ news'.edsr = news.edsr /\ news'.gen = news.gen
<1>1. news \in Events /\ dev \in [Namespaces -> DeviceObjects]
  BY DEF TypeOK
<1>2. \A m \in Namespaces : dev'[m] = IF m = n THEN o ELSE dev[m]
  BY <1>1 DEF WriteDevice
<1>3. /\ news'.dev = IF o = dev[n] THEN news.dev ELSE news.dev \cup {n}
      /\ news'.edsr = news.edsr /\ news'.gen = news.gen
  BY <1>1 DEF WriteDevice, Events
<1> QED BY <1>2, <1>3

\* The edits of a device touch the field they are about.
LEMMA EditFields ==
    ASSUME TypeOK, NEW n \in Namespaces, NEW b
    PROVE  /\ [dev[n] EXCEPT !.init = b].state = dev[n].state
           /\ [dev[n] EXCEPT !.init = b].obc = dev[n].obc
           /\ [dev[n] EXCEPT !.obc = TRUE].state = dev[n].state
           /\ [dev[n] EXCEPT !.obc = TRUE].obc = TRUE
           /\ [dev[n] EXCEPT !.fin = FALSE].state = dev[n].state
           /\ [dev[n] EXCEPT !.state = "deleting"].state = "deleting"
           /\ NoDevice.state = "absent"
<1>1. dev[n] \in DeviceObjects
  BY DEF TypeOK
<1> QED BY ONLY <1>1 DEF DeviceObjects, NoDevice

\* The work on requests, and the calls that only read, touch no device.
RequestSide ==
    \/ \E b \in BOOLEAN : SetApproved(b)
    \/ UserDeletesRequest \/ SyncRequest \/ SyncClaims
    \/ RequestGone \/ AutoApprove \/ MarkStatusPending \/ StartRequest \/ MarkStatusApproved
    \/ CreateRequest \/ StopEdgeAPI
    \/ \E n \in Namespaces : Enrol(n)
    \/ \E c \in Calls : ReadForRegister(c) \/ UpdateDeviceStatus(c)
    \/ \E c \in Calls, n \in Namespaces, own \in BOOLEAN : StartRegistration(c, n, own)
    \/ UNCHANGED vars

LEMMA RequestSideStep ==
    ASSUME TypeOK, RequestSide
    PROVE  UNCHANGED <<dev, cdev, dq, dr, creator>> /\ news'.dev = news.dev
<1> USE DEF api, cache, queues, calls, history, marks
<1>1. news \in Events
  BY DEF TypeOK
<1>2. ASSUME NEW b \in BOOLEAN, SetApproved(b)
      PROVE  UNCHANGED <<dev, cdev, dq, dr, creator>> /\ news'.dev = news.dev
  BY <1>2, WriteRequestStep DEF SetApproved
<1>3. CASE UserDeletesRequest
  BY <1>3, WriteRequestStep DEF UserDeletesRequest
<1>4. CASE SyncRequest
  BY <1>1, <1>4 DEF SyncRequest, Events
<1>5. CASE AutoApprove
  BY <1>5, WriteRequestStep DEF AutoApprove
<1>6. CASE MarkStatusPending
  <2>1. UNCHANGED news \/ \E o : WriteRequest(o)
    BY <1>6 DEF MarkStatusPending
  <2>2. UNCHANGED <<dev, cdev, dq, dr, creator>>
    BY <1>6 DEF MarkStatusPending
  <2> QED BY <2>1, <2>2, WriteRequestStep
<1>7. CASE MarkStatusApproved
  BY <1>7, WriteRequestStep DEF MarkStatusApproved
<1>8. CASE CreateRequest
  BY <1>8, WriteRequestStep DEF CreateRequest
<1>9. CASE SyncClaims \/ RequestGone \/ StartRequest \/ StopEdgeAPI \/ UNCHANGED vars
  BY <1>9 DEF SyncClaims, RequestGone, StartRequest, StopEdgeAPI, vars
<1>10. ASSUME NEW n \in Namespaces, Enrol(n)
       PROVE  UNCHANGED <<dev, cdev, dq, dr, creator, news>>
  BY <1>10 DEF Enrol
<1>11. ASSUME NEW c \in Calls, ReadForRegister(c) \/ UpdateDeviceStatus(c)
       PROVE  UNCHANGED <<dev, cdev, dq, dr, creator, news>>
  BY <1>11 DEF ReadForRegister, UpdateDeviceStatus
<1>12. ASSUME NEW c \in Calls, NEW n \in Namespaces, NEW own \in BOOLEAN, StartRegistration(c, n, own)
       PROVE  UNCHANGED <<dev, cdev, dq, dr, creator, news>>
  BY <1>12 DEF StartRegistration
<1> QED BY <1>2, <1>3, <1>4, <1>5, <1>6, <1>7, <1>8, <1>9, <1>10, <1>11, <1>12 DEF RequestSide

\* The writers of devices touch neither the cache nor take one from the queue.
DeviceWriter ==
    \/ CreateDevice
    \/ \E n \in Namespaces : UserDeletesDevice(n) \/ RemoveFinalizer(n) \/ AddObcReference(n)
    \/ \E c \in Calls : PatchDevice(c)

LEMMA DeviceWriterStep ==
    ASSUME TypeOK, DeviceWriter
    PROVE  /\ cdev' = cdev /\ dq \subseteq dq'
           /\ UNCHANGED <<dev, news>> \/ \E n \in Namespaces : \E o : WriteDevice(n, o)
<1> USE DEF api, cache, queues, calls, history, marks
<1>1. CASE CreateDevice
  <2>1. sr.read.target \in Namespaces
    BY DEF TypeOK, RequestWork, Requests
  <2> QED BY <1>1, <2>1 DEF CreateDevice
<1>2. ASSUME NEW n \in Namespaces, UserDeletesDevice(n) \/ RemoveFinalizer(n) \/ AddObcReference(n)
      PROVE  /\ cdev' = cdev /\ dq \subseteq dq'
             /\ UNCHANGED <<dev, news>> \/ \E o : WriteDevice(n, o)
  BY <1>2 DEF UserDeletesDevice, RemoveFinalizer, AddObcReference
<1>3. ASSUME NEW c \in Calls, PatchDevice(c)
      PROVE  /\ cdev' = cdev /\ dq \subseteq dq'
             /\ UNCHANGED <<dev, news>> \/ \E n \in Namespaces : \E o : WriteDevice(n, o)
  <2>1. reg[c].ns \in Namespaces
    BY DEF TypeOK, CallStates
  <2> QED BY <1>3, <2>1 DEF PatchDevice
<1> QED BY <1>1, <1>2, <1>3 DEF DeviceWriter

\* The rest of Next is the work of the cache and of the device controller.
LEMMA NextParts ==
    ASSUME [Next]_vars
    PROVE  \/ RequestSide \/ DeviceWriter \/ Restart
           \/ \E n \in Namespaces : \/ SyncDevice(n) \/ Resync(n) \/ StartDevice(n)
                                    \/ RemoveRelatedEDSR(n) \/ CreateClaim(n)
BY DEF Next, User, ReconcileRequest, ReconcileDevice, Serve, RequestSide, DeviceWriter

\* These change no device.
LEMMA DeviceSideStep ==
    ASSUME TypeOK, NEW n \in Namespaces,
           \/ SyncDevice(n) \/ Resync(n) \/ StartDevice(n) \/ RemoveRelatedEDSR(n) \/ CreateClaim(n)
    PROVE  /\ UNCHANGED <<dev, creator>>
           /\ ~SyncDevice(n) => cdev' = cdev /\ news'.dev = news.dev
           /\ ~StartDevice(n) => dq \subseteq dq'
<1> USE DEF api, cache, queues, calls, history, marks
<1>1. CASE SyncDevice(n) \/ Resync(n) \/ StartDevice(n) \/ CreateClaim(n)
  BY <1>1 DEF SyncDevice, Resync, StartDevice, CreateClaim
<1>2. CASE RemoveRelatedEDSR(n)
  <2>1. UNCHANGED <<dev, creator, cdev>> /\ dq \subseteq dq'
    BY <1>2 DEF RemoveRelatedEDSR
  <2>2. UNCHANGED news \/ \E o : WriteRequest(o)
    BY <1>2 DEF RemoveRelatedEDSR
  <2> QED BY <2>1, <2>2, WriteRequestStep
<1> QED BY <1>1, <1>2

-----------------------------------------------------------------------------
(* RemovalIsPending and BucketIsPending.  A worker that takes a device from *)
(* the queue sees it as it is on the server unless another event is on its  *)
(* way (DevicesCurrent); what it starts then is what is left to do.         *)

DevicesCurrent == \A n \in Namespaces : n \notin news.dev => cdev[n] = dev[n]

LEMMA StepDevicesCurrent ==
    ASSUME TypeOK, DevicesCurrent, [Next]_vars
    PROVE  DevicesCurrent'
<1>1. CASE RequestSide
  BY <1>1, RequestSideStep DEF DevicesCurrent
<1>2. CASE DeviceWriter
  BY <1>2, DeviceWriterStep, WriteDeviceStep DEF DevicesCurrent
<1>3. CASE Restart
  BY <1>3 DEF Restart, DevicesCurrent, api
<1>4. ASSUME NEW n \in Namespaces, SyncDevice(n) PROVE DevicesCurrent'
  <2>1. cdev' = [cdev EXCEPT ![n] = dev[n]] /\ dev' = dev /\ news' = [news EXCEPT !.dev = @ \ {n}]
    BY <1>4 DEF SyncDevice, api
  <2>2. news'.dev = news.dev \ {n}
    BY <2>1 DEF TypeOK, Events
  <2> QED BY <2>1, <2>2 DEF DevicesCurrent, TypeOK
<1>5. ASSUME NEW n \in Namespaces,
             Resync(n) \/ StartDevice(n) \/ RemoveRelatedEDSR(n) \/ CreateClaim(n), ~SyncDevice(n)
      PROVE  DevicesCurrent'
  BY <1>5, DeviceSideStep DEF DevicesCurrent
<1> QED BY <1>1, <1>2, <1>3, <1>4, <1>5, NextParts

\* Every change of a device is an event.
LEMMA DeviceChangeIsEvent ==
    ASSUME TypeOK, [Next]_vars, NEW n \in Namespaces, dev'[n] # dev[n]
    PROVE  n \in news'.dev
<1>1. CASE DeviceWriter
  BY <1>1, DeviceWriterStep, WriteDeviceStep
<1>2. Restart => dev' = dev
  BY DEF Restart, api
<1> QED BY <1>1, <1>2, NextParts, RequestSideStep, DeviceSideStep

\* A queued device stays queued, or has an event on its way, until a worker has
\* seen it as it is on the server.
LEMMA DevicePending ==
    ASSUME TypeOK, DevicesCurrent, [Next]_vars, NEW n \in Namespaces,
           n \in news.dev \cup dq, Exists(n)
    PROVE  n \in news'.dev \cup dq' \/ (cdev[n] = dev[n] /\ StartDevice(n))
<1>1. CASE RequestSide
  BY <1>1, RequestSideStep
<1>2. CASE DeviceWriter
  BY <1>2, DeviceWriterStep, WriteDeviceStep
<1>3. CASE Restart
  BY <1>3 DEF Restart
<1>4. ASSUME NEW m \in Namespaces, SyncDevice(m) PROVE n \in news'.dev \cup dq'
  <2>1. dq' = dq \cup {m} /\ news' = [news EXCEPT !.dev = @ \ {m}]
    BY <1>4 DEF SyncDevice
  <2>2. news'.dev = news.dev \ {m}
    BY <2>1 DEF TypeOK, Events
  <2> QED BY <2>1, <2>2
<1>5. ASSUME NEW m \in Namespaces, StartDevice(m)
      PROVE  n \in news'.dev \cup dq' \/ (cdev[n] = dev[n] /\ StartDevice(n))
  <2>1. news' = news /\ dq' = dq \ {m}
    BY <1>5 DEF StartDevice
  <2>2. n \notin news.dev => cdev[n] = dev[n]
    BY DEF DevicesCurrent
  <2> QED BY <1>5, <2>1, <2>2
<1>6. ASSUME NEW m \in Namespaces, ~SyncDevice(m), ~StartDevice(m),
             Resync(m) \/ RemoveRelatedEDSR(m) \/ CreateClaim(m)
      PROVE  n \in news'.dev \cup dq'
  BY <1>6, DeviceSideStep
<1> QED BY <1>1, <1>2, <1>3, <1>4, <1>5, <1>6, NextParts

\* A reconciliation of a device goes on until its last step, a failure that is
\* tried again, or the end of the manager.
LEMMA WorkStep ==
    ASSUME TypeOK, [Next]_vars, NEW n \in Namespaces, dr[n] # "idle"
    PROVE  \/ dr'[n] = dr[n]
           \/ n \in dq'
           \/ dr[n] = "request" /\ dr'[n] = "finalizer"
           \/ dr[n] = "claim" /\ dr'[n] = "reference"
           \/ dr[n] = "finalizer" /\ RemoveFinalizer(n)
           \/ dr[n] = "reference" /\ AddObcReference(n)
           \/ Restart
<1> USE DEF api, cache, queues, calls, history, marks, TypeOK
<1>1. ASSUME CreateDevice \/ (\E m \in Namespaces : UserDeletesDevice(m)) \/ (\E c \in Calls : PatchDevice(c))
      PROVE  dr' = dr
  BY <1>1 DEF CreateDevice, UserDeletesDevice, PatchDevice
<1>2. ASSUME NEW m \in Namespaces, RemoveFinalizer(m)
      PROVE  dr[m] = "finalizer" /\ (m # n => dr'[n] = dr[n])
  BY <1>2 DEF RemoveFinalizer
<1>3. ASSUME NEW m \in Namespaces, AddObcReference(m)
      PROVE  dr[m] = "reference" /\ (m # n => dr'[n] = dr[n])
  BY <1>3 DEF AddObcReference
<1>4. ASSUME NEW m \in Namespaces, SyncDevice(m) \/ Resync(m) PROVE dr' = dr
  BY <1>4 DEF SyncDevice, Resync
<1>5. ASSUME NEW m \in Namespaces, StartDevice(m) PROVE dr'[n] = dr[n]
  BY <1>5 DEF StartDevice
<1>6. ASSUME NEW m \in Namespaces, RemoveRelatedEDSR(m)
      PROVE  \/ dr'[n] = dr[n] \/ n \in dq'
             \/ dr[n] = "request" /\ dr'[n] = "finalizer"
  BY <1>6 DEF RemoveRelatedEDSR
<1>7. ASSUME NEW m \in Namespaces, CreateClaim(m)
      PROVE  \/ dr'[n] = dr[n] \/ n \in dq'
             \/ dr[n] = "claim" /\ dr'[n] = "reference"
  BY <1>7 DEF CreateClaim
<1>8. RequestSide => dr' = dr
  BY RequestSideStep
<1> QED BY <1>1, <1>2, <1>3, <1>4, <1>5, <1>6, <1>7, <1>8, NextParts DEF DeviceWriter

\* Every step keeps RemovalIsPending, as long as the patch of RemoveFinalizer
\* does not fail.
LEMMA StepRemoval ==
    ASSUME "finalizer" \notin FailAt,
           TypeOK, DevicesCurrent, RemovalIsPending, [Next]_vars
    PROVE  RemovalIsPending'
<1> SUFFICES ASSUME NEW n \in Namespaces, dev'[n].state = "deleting"
             PROVE  n \in news'.dev \cup dq' \/ dr'[n] \in {"request", "finalizer"}
  BY DEF RemovalIsPending
<1>1. CASE dev'[n] # dev[n]
  BY <1>1, DeviceChangeIsEvent
<1>2. CASE dev'[n] = dev[n]
  <2>1. dev[n].state = "deleting" /\ Exists(n)
    BY <1>2 DEF Exists
  <2>2. n \in news.dev \cup dq \/ dr[n] \in {"request", "finalizer"}
    BY <2>1 DEF RemovalIsPending
  <2>3. CASE n \in news.dev \cup dq
    <3>1. ASSUME cdev[n] = dev[n], StartDevice(n) PROVE dr'[n] \in {"request", "finalizer"}
      <4>1. dr'[n] = NextFor(n)
        BY <3>1 DEF StartDevice, TypeOK
      <4> QED BY <2>1, <3>1, <4>1 DEF NextFor
    <3> QED BY <2>1, <2>3, <3>1, DevicePending
  <2>4. CASE dr[n] \in {"request", "finalizer"}
    <3>1. ~RemoveFinalizer(n)
      <4>1. ASSUME RemoveFinalizer(n)
            PROVE  WriteDevice(n, IF dev[n].state = "live" THEN [dev[n] EXCEPT !.fin = FALSE]
                                                           ELSE NoDevice)
        BY <4>1 DEF RemoveFinalizer, Fault
      <4>2. ASSUME RemoveFinalizer(n) PROVE dev'[n] = NoDevice
        BY <2>1, <4>1, <4>2, WriteDeviceStep
      <4> QED BY <1>2, <2>1, <4>2 DEF NoDevice
    <3>2. Restart => n \in dq'
      BY <2>1 DEF Restart
    <3> QED BY <2>4, <3>1, <3>2, WorkStep
  <2> QED BY <2>2, <2>3, <2>4
<1> QED BY <1>1, <1>2

\* Every step keeps BucketIsPending.
LEMMA StepBucket ==
    ASSUME TypeOK, DevicesCurrent, BucketIsPending, [Next]_vars
    PROVE  BucketIsPending'
<1> SUFFICES ASSUME NEW n \in Namespaces, WantsOBC, dev'[n].state = "live", ~dev'[n].obc
             PROVE  n \in news'.dev \cup dq' \/ dr'[n] \in {"claim", "reference"}
  BY DEF BucketIsPending
<1>1. CASE dev'[n] # dev[n]
  BY <1>1, DeviceChangeIsEvent
<1>2. CASE dev'[n] = dev[n]
  <2>1. dev[n].state = "live" /\ ~dev[n].obc /\ Exists(n)
    BY <1>2 DEF Exists
  <2>2. n \in news.dev \cup dq \/ dr[n] \in {"claim", "reference"}
    BY <2>1 DEF BucketIsPending
  <2>3. CASE n \in news.dev \cup dq
    <3>1. ASSUME cdev[n] = dev[n], StartDevice(n) PROVE dr'[n] \in {"claim", "reference"}
      <4>1. dr'[n] = NextFor(n)
        BY <3>1 DEF StartDevice, TypeOK
      <4> QED BY <2>1, <3>1, <4>1 DEF NextFor
    <3> QED BY <2>1, <2>3, <3>1, DevicePending
  <2>4. CASE dr[n] \in {"claim", "reference"}
    <3>1. ASSUME AddObcReference(n) PROVE n \in dq'
      <4>1. WriteDevice(n, [dev[n] EXCEPT !.obc = TRUE]) \/ n \in dq'
        BY <3>1 DEF AddObcReference
      <4>2. ASSUME WriteDevice(n, [dev[n] EXCEPT !.obc = TRUE]) PROVE dev'[n].obc = TRUE
        <5>1. dev'[n] = [dev[n] EXCEPT !.obc = TRUE]
          BY <4>2, WriteDeviceStep
        <5> QED BY <5>1, EditFields
      <4> QED BY <1>2, <2>1, <4>1, <4>2
    <3>2. Restart => n \in dq'
      BY <2>1 DEF Restart
    <3> QED BY <2>4, <3>1, <3>2, WorkStep
  <2> QED BY <2>2, <2>3, <2>4
<1> QED BY <1>1, <1>2

LEMMA InitPending == Init => DevicesCurrent /\ RemovalIsPending /\ BucketIsPending
BY DEF Init, NoDevice, DevicesCurrent, RemovalIsPending, BucketIsPending

\* RemovalIsPending: a device marked for deletion is never forgotten, unless
\* the patch whose error CRRepository.RemoveFinalizer drops fails.
THEOREM EnrolmentRemovalPending ==
    ASSUME "finalizer" \notin FailAt
    PROVE  Spec => []RemovalIsPending
<1>1. Init => TypeOK /\ DevicesCurrent /\ RemovalIsPending
  BY InitTypeOK, InitPending
<1>2. TypeOK /\ DevicesCurrent /\ RemovalIsPending /\ [Next]_vars
        => (TypeOK /\ DevicesCurrent /\ RemovalIsPending)'
  BY StepTypeOK, StepDevicesCurrent, StepRemoval
<1> QED BY <1>1, <1>2, PTL DEF Spec

\* BucketIsPending: a device that wants a bucket and has no reference to it has
\* a reconciliation on its way, whichever call of EdgeDeviceReconciler fails.
THEOREM EnrolmentBucketPending == Spec => []BucketIsPending
<1>1. Init => TypeOK /\ DevicesCurrent /\ BucketIsPending
  BY InitTypeOK, InitPending
<1>2. TypeOK /\ DevicesCurrent /\ BucketIsPending /\ [Next]_vars
        => (TypeOK /\ DevicesCurrent /\ BucketIsPending)'
  BY StepTypeOK, StepDevicesCurrent, StepBucket
<1> QED BY <1>1, <1>2, PTL DEF Spec

-----------------------------------------------------------------------------
(* RequestGoneFirst.                                                        *)
(*                                                                          *)
(* RequestCurrent: without an event on its way the request is in the cache  *)
(* as it is on the server.  UidInv: no device was created from a request    *)
(* that is still to come.  RemovalInv: a reconciliation that began with the *)
(* cache up to date (not behind) removes a device that is marked for it,    *)
(* and its finalizer after its request, whatever has happened since.        *)

RequestCurrent == ~news.edsr => cedsr = edsr

UidInv ==
    /\ cedsr.uid <= edsr.uid
    /\ sr.read.uid <= edsr.uid
    /\ \A n \in Namespaces : creator[n] <= edsr.uid

RemovalInv ==
    \A n \in Namespaces \ behind :
        /\ dr[n] \in {"request", "finalizer"} => dev[n].state = "deleting"
        /\ dr[n] = "finalizer" => ~(edsr.there /\ edsr.uid = creator[n])

\* The request keeps its uid until the next one is created.
LEMMA RequestStep ==
    ASSUME TypeOK, [Next]_vars
    PROVE  /\ edsr.uid <= edsr'.uid
           /\ edsr'.there => \/ edsr.there /\ edsr'.uid = edsr.uid
                             \/ edsr'.uid = edsr.uid + 1
<1> USE DEF api, cache, queues, calls, history, marks
<1>0. edsr \in Requests /\ edsr.uid \in Nat /\ NoRequest \in Requests
  BY RequestTypes DEF TypeOK, Requests
<1>1. ASSUME edsr' = [NoRequest EXCEPT !.uid = edsr.uid]
      PROVE  edsr'.uid = edsr.uid /\ ~edsr'.there
  BY <1>0, <1>1 DEF NoRequest
<1>2. ASSUME NEW b, edsr' = [edsr EXCEPT !.approved = b]
      PROVE  edsr'.uid = edsr.uid /\ edsr'.there = edsr.there
  BY ONLY <1>0, <1>2 DEF Requests
<1>3. ASSUME NEW k, edsr' = [edsr EXCEPT !.conds = k]
      PROVE  edsr'.uid = edsr.uid /\ edsr'.there = edsr.there
  BY ONLY <1>0, <1>3 DEF Requests
<1>4. ASSUME NEW b \in BOOLEAN, SetApproved(b) PROVE edsr' = [edsr EXCEPT !.approved = b]
  BY <1>4 DEF SetApproved, WriteRequest
<1>5. ASSUME AutoApprove PROVE edsr' = edsr \/ edsr' = [edsr EXCEPT !.approved = TRUE]
  BY <1>5 DEF AutoApprove, WriteRequest
<1>6. ASSUME UserDeletesRequest \/ \E n \in Namespaces : RemoveRelatedEDSR(n)
      PROVE  edsr' = edsr \/ edsr' = [NoRequest EXCEPT !.uid = edsr.uid]
  BY <1>6 DEF UserDeletesRequest, RemoveRelatedEDSR, WriteRequest
<1>7. ASSUME MarkStatusPending \/ MarkStatusApproved
      PROVE  edsr' = edsr \/ \E k : edsr' = [edsr EXCEPT !.conds = k]
  BY <1>7 DEF MarkStatusPending, MarkStatusApproved, WriteRequest
<1>8. ASSUME CreateRequest PROVE edsr' = edsr \/ edsr'.uid = edsr.uid + 1
  <2>1. edsr' = edsr \/ edsr' = [NoRequest EXCEPT !.there = TRUE, !.uid = edsr.uid + 1, !.target = enr.ns]
    BY <1>8 DEF CreateRequest, WriteRequest
  <2> QED BY <2>1 DEF NoRequest
<1>9. ASSUME \/ SyncRequest \/ SyncClaims \/ RequestGone \/ StartRequest \/ CreateDevice \/ Restart
             \/ StopEdgeAPI \/ UNCHANGED vars
      PROVE  edsr' = edsr
  BY <1>9 DEF SyncRequest, SyncClaims, RequestGone, StartRequest, CreateDevice, Restart,
              StopEdgeAPI, vars
<1>10. ASSUME NEW n \in Namespaces,
              \/ UserDeletesDevice(n) \/ SyncDevice(n) \/ Resync(n) \/ StartDevice(n)
              \/ RemoveFinalizer(n) \/ CreateClaim(n) \/ AddObcReference(n) \/ Enrol(n)
       PROVE  edsr' = edsr
  BY <1>10 DEF UserDeletesDevice, SyncDevice, Resync, StartDevice, RemoveFinalizer, CreateClaim,
               AddObcReference, Enrol
<1>11. ASSUME NEW c \in Calls, ReadForRegister(c) \/ PatchDevice(c) \/ UpdateDeviceStatus(c)
       PROVE  edsr' = edsr
  BY <1>11 DEF ReadForRegister, PatchDevice, UpdateDeviceStatus
<1>12. ASSUME NEW c \in Calls, NEW n \in Namespaces, NEW own \in BOOLEAN, StartRegistration(c, n, own)
       PROVE  edsr' = edsr
  BY <1>12 DEF StartRegistration
<1>13. CASE edsr' = edsr
  BY <1>0, <1>13
<1>14. CASE edsr'.uid = edsr.uid /\ (edsr'.there => edsr.there)
  BY <1>0, <1>14
<1>15. CASE edsr'.uid = edsr.uid + 1
  BY <1>0, <1>15
<1>16. \/ edsr' = edsr \/ edsr' = [NoRequest EXCEPT !.uid = edsr.uid]
       \/ \E b : edsr' = [edsr EXCEPT !.approved = b]
       \/ \E k : edsr' = [edsr EXCEPT !.conds = k]
       \/ edsr'.uid = edsr.uid + 1
  BY <1>4, <1>5, <1>6, <1>7, <1>8, <1>9, <1>10, <1>11, <1>12
     DEF Next, User, ReconcileRequest, ReconcileDevice, Serve
<1> QED BY <1>1, <1>2, <1>3, <1>13, <1>14, <1>15, <1>16

\* The cache receives the request as it is, or a change of it is an event: of
\* a new generation if it is more than a change of the conditions.
LEMMA RequestEvents ==
    ASSUME TypeOK, [Next]_vars
    PROVE  \/ cedsr' = edsr /\ edsr' = edsr /\ (SyncRequest \/ Restart)
           \/ /\ cedsr' = cedsr
              /\ ~news'.edsr => ~news.edsr /\ edsr' = edsr
              /\ ~news'.gen => ~news.gen /\ Base(edsr') = Base(edsr)
<1> USE DEF api, cache, queues, calls, history, marks
<1> DEFINE Told == /\ cedsr' = cedsr
                   /\ ~news'.edsr => ~news.edsr /\ edsr' = edsr
                   /\ ~news'.gen => ~news.gen /\ Base(edsr') = Base(edsr)
<1>1. ASSUME cedsr' = cedsr, UNCHANGED <<edsr, news>> \/ \E o : WriteRequest(o) PROVE Told
  <2>1. CASE UNCHANGED <<edsr, news>>
    BY <1>1, <2>1
  <2>2. ASSUME NEW o, WriteRequest(o) PROVE Told
    BY <1>1, <2>2, WriteRequestStep
  <2> QED BY <1>1, <2>1, <2>2
<1>2. ASSUME cedsr' = cedsr, edsr' = edsr, news'.edsr = news.edsr, news'.gen = news.gen PROVE Told
  BY <1>2
<1>3. ASSUME NEW b \in BOOLEAN, SetApproved(b) PROVE Told
  BY <1>1, <1>3 DEF SetApproved
<1>4. ASSUME UserDeletesRequest \/ AutoApprove \/ MarkStatusPending \/ MarkStatusApproved \/ CreateRequest
      PROVE  Told
  <2>1. cedsr' = cedsr /\ (UNCHANGED <<edsr, news>> \/ \E o : WriteRequest(o))
    BY <1>4 DEF UserDeletesRequest, AutoApprove, MarkStatusPending, MarkStatusApproved, CreateRequest
  <2> QED BY <1>1, <2>1
<1>5. ASSUME NEW n \in Namespaces, RemoveRelatedEDSR(n) PROVE Told
  BY <1>1, <1>5 DEF RemoveRelatedEDSR
<1>6. ASSUME SyncRequest \/ Restart PROVE cedsr' = edsr /\ edsr' = edsr
  BY <1>6 DEF SyncRequest, Restart
<1>7. ASSUME SyncClaims \/ RequestGone \/ StartRequest \/ StopEdgeAPI \/ UNCHANGED vars PROVE Told
  BY <1>1, <1>7 DEF SyncClaims, RequestGone, StartRequest, StopEdgeAPI, vars
<1>8. ASSUME DeviceWriter PROVE Told
  <2>1. UNCHANGED <<edsr, cedsr>>
    BY <1>8 DEF DeviceWriter, CreateDevice, UserDeletesDevice, RemoveFinalizer, AddObcReference,
                PatchDevice
  <2>2. news'.edsr = news.edsr /\ news'.gen = news.gen
    BY <1>8, DeviceWriterStep, WriteDeviceStep
  <2> QED BY <1>2, <2>1, <2>2
<1>9. ASSUME NEW n \in Namespaces, SyncDevice(n) PROVE Told
  <2>1. UNCHANGED <<edsr, cedsr>> /\ news' = [news EXCEPT !.dev = @ \ {n}]
    BY <1>9 DEF SyncDevice
  <2>2. news'.edsr = news.edsr /\ news'.gen = news.gen
    BY <2>1 DEF TypeOK, Events
  <2> QED BY <1>2, <2>1, <2>2
<1>10. ASSUME NEW n \in Namespaces, Resync(n) \/ StartDevice(n) \/ CreateClaim(n) \/ Enrol(n)
       PROVE  Told
  BY <1>1, <1>10 DEF Resync, StartDevice, CreateClaim, Enrol
<1>11. ASSUME NEW c \in Calls, ReadForRegister(c) \/ UpdateDeviceStatus(c) PROVE Told
  BY <1>1, <1>11 DEF ReadForRegister, UpdateDeviceStatus
<1>12. ASSUME NEW c \in Calls, NEW n \in Namespaces, NEW own \in BOOLEAN, StartRegistration(c, n, own)
       PROVE  Told
  BY <1>1, <1>12 DEF StartRegistration
<1> HIDE DEF Told
<1>13. Told \/ (cedsr' = edsr /\ edsr' = edsr /\ (SyncRequest \/ Restart))
  BY <1>3, <1>4, <1>5, <1>6, <1>7, <1>8, <1>9, <1>10, <1>11, <1>12, NextParts DEF RequestSide
<1> QED BY <1>13 DEF Told

LEMMA StepRequestCurrent ==
    ASSUME TypeOK, RequestCurrent, [Next]_vars
    PROVE  RequestCurrent'
BY RequestEvents DEF RequestCurrent

\* What the request reconciler holds, and what it notes as a device's origin.
LEMMA OriginStep ==
    ASSUME TypeOK, [Next]_vars
    PROVE  /\ sr'.read \in {sr.read, cedsr, NoRequest}
           /\ \A n \in Namespaces : creator'[n] = creator[n] \/ (creator'[n] = sr.read.uid /\ ~Exists(n))
<1> USE DEF api, cache, queues, calls, history, marks
<1>1. ASSUME UNCHANGED sr PROVE sr'.read \in {sr.read, cedsr, NoRequest}
  BY <1>1
<1>2. CASE CreateDevice
  <2>1. sr' = RequestIdle \/ sr' = [sr EXCEPT !.phase = "mark"]
    BY <1>2 DEF CreateDevice
  <2>2. sr'.read \in {sr.read, NoRequest}
    BY <2>1 DEF RequestIdle, TypeOK, RequestWork
  <2>3. creator' = creator \/ (~Exists(sr.read.target) /\ creator' = [creator EXCEPT ![sr.read.target] = sr.read.uid])
    BY <1>2 DEF CreateDevice
  <2>4. \A n \in Namespaces : creator'[n] = creator[n] \/ (creator'[n] = sr.read.uid /\ ~Exists(n))
    BY <2>3 DEF TypeOK
  <2> QED BY <2>2, <2>4
<1>3. ASSUME StartRequest \/ MarkStatusApproved \/ Restart
      PROVE  sr'.read \in {sr.read, cedsr, NoRequest} /\ creator' = creator
  BY <1>3 DEF StartRequest, MarkStatusApproved, Restart, RequestIdle
<1>4. ASSUME \/ \E b \in BOOLEAN : SetApproved(b)
             \/ UserDeletesRequest \/ SyncRequest \/ SyncClaims \/ RequestGone \/ AutoApprove
             \/ MarkStatusPending \/ CreateRequest \/ StopEdgeAPI \/ UNCHANGED vars
      PROVE  UNCHANGED <<sr, creator>>
  BY <1>4 DEF SetApproved, UserDeletesRequest, SyncRequest, SyncClaims, RequestGone, AutoApprove,
              MarkStatusPending, CreateRequest, StopEdgeAPI, vars
<1>5. ASSUME NEW n \in Namespaces,
             \/ UserDeletesDevice(n) \/ SyncDevice(n) \/ Resync(n) \/ StartDevice(n)
             \/ RemoveRelatedEDSR(n) \/ RemoveFinalizer(n) \/ CreateClaim(n) \/ AddObcReference(n)
             \/ Enrol(n)
      PROVE  UNCHANGED <<sr, creator>>
  BY <1>5 DEF UserDeletesDevice, SyncDevice, Resync, StartDevice, RemoveRelatedEDSR,
              RemoveFinalizer, CreateClaim, AddObcReference, Enrol
<1>6. ASSUME NEW c \in Calls, ReadForRegister(c) \/ PatchDevice(c) \/ UpdateDeviceStatus(c)
      PROVE  UNCHANGED <<sr, creator>>
  BY <1>6 DEF ReadForRegister, PatchDevice, UpdateDeviceStatus
<1>7. ASSUME NEW c \in Calls, NEW n \in Namespaces, NEW own \in BOOLEAN, StartRegistration(c, n, own)
      PROVE  UNCHANGED <<sr, creator>>
  BY <1>7 DEF StartRegistration
<1> QED BY <1>1, <1>2, <1>3, <1>4, <1>5, <1>6, <1>7 DEF Next, User, ReconcileRequest, ReconcileDevice, Serve

LEMMA StepUid ==
    ASSUME TypeOK, UidInv, [Next]_vars
    PROVE  UidInv'
<1>1. edsr.uid \in Nat /\ edsr'.uid \in Nat /\ cedsr.uid \in Nat /\ sr.read.uid \in Nat
      /\ creator \in [Namespaces -> Nat]
  BY StepTypeOK DEF TypeOK, Requests, RequestWork
<1>2. edsr.uid <= edsr'.uid
  BY RequestStep
<1>3. cedsr' = cedsr \/ cedsr' = edsr
  BY RequestEvents
<1>4. cedsr'.uid <= edsr'.uid
  BY <1>1, <1>2, <1>3 DEF UidInv
<1>5. NoRequest.uid = 0
  BY DEF NoRequest
<1>6. sr'.read.uid <= edsr'.uid
  BY <1>1, <1>2, <1>5, OriginStep DEF UidInv
<1>7. ASSUME NEW n \in Namespaces PROVE creator'[n] <= edsr'.uid
  BY <1>1, <1>2, OriginStep DEF UidInv
<1> QED BY <1>4, <1>6, <1>7 DEF UidInv

\* A device that is being deleted stays so until its finalizer is removed.
LEMMA DeletingStep ==
    ASSUME TypeOK, [Next]_vars, NEW n \in Namespaces, dev[n].state = "deleting"
    PROVE  dev'[n].state = "deleting" \/ RemoveFinalizer(n)
<1> USE DEF api, cache, queues, calls, history, marks
<1>1. CASE CreateDevice
  <2>1. UNCHANGED dev \/ (dev' = [dev EXCEPT ![sr.read.target] =
            [state |-> "live", init |-> TRUE, fin |-> TRUE, obc |-> FALSE]]
          /\ ~Exists(sr.read.target))
    BY <1>1 DEF CreateDevice, WriteDevice
  <2> QED BY <2>1 DEF Exists, TypeOK
<1>2. ASSUME NEW m \in Namespaces, UserDeletesDevice(m) PROVE dev'[n] = dev[n]
  BY <1>2 DEF UserDeletesDevice, WriteDevice, TypeOK
<1>3. ASSUME NEW m \in Namespaces, RemoveFinalizer(m), m # n PROVE dev'[n] = dev[n]
  BY <1>3 DEF RemoveFinalizer, WriteDevice, TypeOK
<1>4. ASSUME NEW m \in Namespaces, AddObcReference(m) PROVE dev'[n].state = dev[n].state
  <2>1. dev' = dev \/ WriteDevice(m, [dev[m] EXCEPT !.obc = TRUE])
    BY <1>4 DEF AddObcReference
  <2>2. ASSUME WriteDevice(m, [dev[m] EXCEPT !.obc = TRUE]) PROVE dev'[n].state = dev[n].state
    <3>1. dev'[n] = IF n = m THEN [dev[m] EXCEPT !.obc = TRUE] ELSE dev[n]
      BY <2>2, WriteDeviceStep
    <3> QED BY <3>1, EditFields
  <2> QED BY <2>1, <2>2
<1>5. ASSUME NEW c \in Calls, PatchDevice(c) PROVE dev'[n].state = dev[n].state
  BY <1>5, PatchedDevice
<1>6. Restart => dev' = dev
  BY DEF Restart
<1> QED BY <1>1, <1>2, <1>3, <1>4, <1>5, <1>6, NextParts, RequestSideStep, DeviceSideStep DEF DeviceWriter

\* What the device reconciler may be up to next.
LEMMA RemovalWork ==
    ASSUME TypeOK, [Next]_vars, NEW n \in Namespaces, dr'[n] \in {"request", "finalizer"}
    PROVE  \/ dr'[n] = dr[n]
           \/ StartDevice(n) /\ dr'[n] = NextFor(n)
           \/ dr[n] = "request" /\ dr'[n] = "finalizer" /\ ~edsr'.there
<1> USE DEF api, cache, queues, calls, history, marks, TypeOK
<1>1. ASSUME CreateDevice \/ (\E m \in Namespaces : UserDeletesDevice(m)) \/ (\E c \in Calls : PatchDevice(c))
      PROVE  dr' = dr
  BY <1>1 DEF CreateDevice, UserDeletesDevice, PatchDevice
<1>2. ASSUME NEW m \in Namespaces, RemoveFinalizer(m) \/ AddObcReference(m) PROVE dr'[n] = dr[n]
  BY <1>2 DEF RemoveFinalizer, AddObcReference
<1>3. ASSUME NEW m \in Namespaces, SyncDevice(m) \/ Resync(m) PROVE dr' = dr
  BY <1>3 DEF SyncDevice, Resync
<1>4. ASSUME NEW m \in Namespaces, StartDevice(m)
      PROVE  dr'[n] = dr[n] \/ (m = n /\ dr'[n] = NextFor(n))
  BY <1>4 DEF StartDevice
<1>5. ASSUME NEW m \in Namespaces, RemoveRelatedEDSR(m)
      PROVE  dr'[n] = dr[n] \/ (dr[n] = "request" /\ dr'[n] = "finalizer" /\ ~edsr'.there)
  BY <1>5 DEF RemoveRelatedEDSR, WriteRequest, NoRequest
<1>6. ASSUME NEW m \in Namespaces, CreateClaim(m) PROVE dr'[n] = dr[n]
  BY <1>6 DEF CreateClaim
<1>7. RequestSide => dr' = dr
  BY RequestSideStep
<1>8. ~Restart
  BY DEF Restart
<1> QED BY <1>1, <1>2, <1>3, <1>4, <1>5, <1>6, <1>7, <1>8, NextParts DEF DeviceWriter

\* Deletions by users are remembered, and that a removal began on an old cache
\* until the next reconciliation of the device.
LEMMA MarksStep ==
    ASSUME [Next]_vars
    PROVE  /\ deleted \subseteq deleted'
           /\ \A n \in behind : n \in behind' \/ StartDevice(n)
<1> USE DEF history, marks
<1> DEFINE Kept == UNCHANGED <<behind, deleted>>
<1>1. ASSUME NEW n \in Namespaces, UserDeletesDevice(n)
      PROVE  behind' = behind /\ deleted \subseteq deleted'
  BY <1>1 DEF UserDeletesDevice
<1>2. ASSUME NEW n \in Namespaces, StartDevice(n)
      PROVE  behind \ {n} \subseteq behind' /\ deleted' = deleted
  BY <1>2 DEF StartDevice
<1>3. ASSUME \/ \E b \in BOOLEAN : SetApproved(b)
             \/ UserDeletesRequest \/ SyncRequest \/ SyncClaims \/ RequestGone \/ AutoApprove
             \/ MarkStatusPending \/ StartRequest \/ MarkStatusApproved \/ CreateDevice
      PROVE  Kept
  BY <1>3 DEF SetApproved, UserDeletesRequest, SyncRequest, SyncClaims, RequestGone, AutoApprove,
              MarkStatusPending, StartRequest, MarkStatusApproved, CreateDevice
<1>4. ASSUME CreateRequest \/ Restart \/ StopEdgeAPI \/ UNCHANGED vars
      PROVE  Kept
  BY <1>4 DEF CreateRequest, Restart, StopEdgeAPI, vars
<1>5. ASSUME NEW n \in Namespaces,
             \/ SyncDevice(n) \/ Resync(n) \/ RemoveRelatedEDSR(n) \/ RemoveFinalizer(n)
             \/ CreateClaim(n) \/ AddObcReference(n) \/ Enrol(n)
      PROVE  Kept
  BY <1>5 DEF SyncDevice, Resync, RemoveRelatedEDSR, RemoveFinalizer, CreateClaim,
              AddObcReference, Enrol
<1>6. ASSUME NEW c \in Calls, ReadForRegister(c) \/ PatchDevice(c) \/ UpdateDeviceStatus(c)
      PROVE  Kept
  BY <1>6 DEF ReadForRegister, PatchDevice, UpdateDeviceStatus
<1>7. ASSUME NEW c \in Calls, NEW n \in Namespaces, NEW own \in BOOLEAN, StartRegistration(c, n, own)
      PROVE  Kept
  BY <1>7 DEF StartRegistration
<1> QED BY <1>1, <1>2, <1>3, <1>4, <1>5, <1>6, <1>7
        DEF Next, User, ReconcileRequest, ReconcileDevice, Serve

\* Every step keeps RemovalInv.
LEMMA StepRemovalInv ==
    ASSUME TypeOK, DevicesCurrent, RequestCurrent, UidInv, RemovalInv, [Next]_vars
    PROVE  RemovalInv'
<1> SUFFICES ASSUME NEW n \in Namespaces, n \notin behind', dr'[n] \in {"request", "finalizer"}
             PROVE  /\ dev'[n].state = "deleting"
                    /\ dr'[n] = "finalizer" => ~(edsr'.there /\ edsr'.uid = creator'[n])
  BY DEF RemovalInv
<1>1. ~RemoveFinalizer(n)
  BY DEF RemoveFinalizer, TypeOK
<1>2. CASE dr'[n] = dr[n]
  <2>0. n \notin behind
    <3>1. ~StartDevice(n)
      BY <1>2 DEF StartDevice
    <3> QED BY <3>1, MarksStep
  <2>1. dev[n].state = "deleting" /\ (dr[n] = "finalizer" => ~(edsr.there /\ edsr.uid = creator[n]))
    BY <1>2, <2>0 DEF RemovalInv
  <2>2. dev'[n].state = "deleting"
    BY <1>1, <2>1, DeletingStep
  <2>3. creator'[n] = creator[n]
    BY <2>1, OriginStep DEF Exists
  <2>4. creator[n] <= edsr.uid /\ creator[n] \in Nat /\ edsr.uid \in Nat
    BY DEF UidInv, TypeOK, Requests
  <2>5. edsr.uid + 1 # creator[n]
    BY <2>4
  <2> QED BY <1>2, <2>1, <2>2, <2>3, <2>5, RequestStep
<1>3. CASE StartDevice(n) /\ dr'[n] = NextFor(n)
  <2>0. cdev[n].state = "deleting"
    BY <1>3 DEF NextFor
  <2>1. ~news.edsr /\ n \notin news.dev /\ UNCHANGED <<edsr, dev>>
    BY <1>3, <2>0 DEF StartDevice, api
  <2>2. cdev[n] = dev[n] /\ cedsr = edsr
    BY <2>1 DEF DevicesCurrent, RequestCurrent
  <2> QED BY <1>3, <2>1, <2>2 DEF NextFor
<1>4. CASE dr[n] = "request" /\ dr'[n] = "finalizer" /\ ~edsr'.there
  <2>0. n \notin behind
    <3>1. ~StartDevice(n)
      BY <1>4 DEF StartDevice
    <3> QED BY <3>1, MarksStep
  <2>1. dev[n].state = "deleting"
    BY <1>4, <2>0 DEF RemovalInv
  <2> QED BY <1>1, <1>4, <2>1, DeletingStep
<1> QED BY <1>2, <1>3, <1>4, RemovalWork

\* RequestGoneFirst: the device controller removes the finalizer of a device
\* only after the request the device was created from, in every reconciliation
\* that read both as they were at its start, however far the cache falls behind
\* otherwise and whatever users, agents and failures do before its end.
THEOREM EnrolmentRequestGoneFirst == Spec => RequestGoneFirst
<1> DEFINE IInv == TypeOK /\ DevicesCurrent /\ RequestCurrent /\ UidInv /\ RemovalInv
           Ordered == \A n \in Namespaces :
                         dev[n].state = "deleting" /\ dev'[n].state = "absent" /\ n \notin behind =>
                             ~(edsr.there /\ edsr.uid = creator[n])
<1>1. Init => IInv
  <2>1. Init => RequestCurrent /\ UidInv /\ RemovalInv
    BY DEF Init, RequestCurrent, UidInv, RemovalInv, NoRequest, RequestIdle
  <2> QED BY <2>1, InitTypeOK, InitPending
<1>2. IInv /\ [Next]_vars => IInv'
  BY StepTypeOK, StepDevicesCurrent, StepRequestCurrent, StepUid, StepRemovalInv
<1>3. IInv /\ [Next]_vars => [Ordered]_vars
  <2> SUFFICES ASSUME IInv, [Next]_vars, NEW n \in Namespaces,
                      dev[n].state = "deleting", dev'[n].state = "absent", n \notin behind
               PROVE  ~(edsr.there /\ edsr.uid = creator[n])
    OBVIOUS
  <2>1. RemoveFinalizer(n)
    BY DeletingStep
  <2>2. dr[n] = "finalizer"
    BY <2>1 DEF RemoveFinalizer
  <2> QED BY <2>2 DEF RemovalInv
<1>4. Spec => []IInv
  BY <1>1, <1>2, PTL DEF Spec
<1> QED BY <1>3, <1>4, PTL DEF Spec, RequestGoneFirst

-----------------------------------------------------------------------------
(* ApprovalIsPending.                                                       *)
(*                                                                          *)
(* NoneDeleted: where users have deleted no device, none is on its way out, *)
(* and a device in the cache exists.  GenerationCurrent: without an event   *)
(* of a new generation the cache differs from the server in the conditions  *)
(* at most, which decide nothing about an approved request.                 *)

NoneDeleted ==
    \A n \in Namespaces \ deleted :
        /\ dev[n].state # "deleting" /\ cdev[n].state # "deleting"
        /\ cdev[n].state # "absent" => dev[n].state # "absent"
        /\ dr[n] \notin {"request", "finalizer"}

GenerationCurrent == ~news.gen => Base(cedsr) = Base(edsr)

LEMMA StepGeneration ==
    ASSUME TypeOK, GenerationCurrent, [Next]_vars
    PROVE  GenerationCurrent'
BY RequestEvents DEF GenerationCurrent

\* Two requests that differ in their conditions only.
LEMMA BaseFields ==
    ASSUME NEW r \in Requests, NEW q \in Requests, Base(r) = Base(q)
    PROVE  r.there = q.there /\ r.target = q.target /\ r.approved = q.approved
<1>1. ASSUME NEW x \in Requests
      PROVE  /\ Base(x).there = x.there /\ Base(x).target = x.target
             /\ Base(x).approved = x.approved
  BY DEF Base, Requests
<1> QED BY <1>1

\* What exists goes on existing.
LEMMA StillExists ==
    ASSUME TypeOK, NoneDeleted, [Next]_vars, NEW n \in Namespaces, n \notin deleted'
    PROVE  /\ Exists(n) => dev'[n].state # "absent"
           /\ dev'[n].state # "deleting"
<1> USE DEF api, cache, queues, calls, history, marks
<1>1. dev[n].state # "deleting" /\ dev[n] \in DeviceObjects /\ dr[n] # "finalizer"
  BY MarksStep DEF NoneDeleted, TypeOK
<1>2. CASE CreateDevice
  <2>1. UNCHANGED dev \/ dev' = [dev EXCEPT ![sr.read.target] =
            [state |-> "live", init |-> TRUE, fin |-> TRUE, obc |-> FALSE]]
    BY <1>2 DEF CreateDevice, WriteDevice
  <2> QED BY <1>1, <2>1 DEF Exists, TypeOK
<1>3. ASSUME NEW m \in Namespaces, UserDeletesDevice(m) \/ RemoveFinalizer(m)
      PROVE  dev'[n].state = dev[n].state
  <2>1. m # n
    BY <1>1, <1>3 DEF UserDeletesDevice, RemoveFinalizer
  <2>2. UNCHANGED dev \/ \E o : WriteDevice(m, o)
    BY <1>3 DEF UserDeletesDevice, RemoveFinalizer
  <2> QED BY <2>1, <2>2, WriteDeviceStep
<1>4. ASSUME NEW m \in Namespaces, AddObcReference(m) PROVE dev'[n].state = dev[n].state
  <2>1. dev' = dev \/ WriteDevice(m, [dev[m] EXCEPT !.obc = TRUE])
    BY <1>4 DEF AddObcReference
  <2>2. ASSUME WriteDevice(m, [dev[m] EXCEPT !.obc = TRUE]) PROVE dev'[n].state = dev[n].state
    <3>1. dev'[n] = IF n = m THEN [dev[m] EXCEPT !.obc = TRUE] ELSE dev[n]
      BY <2>2, WriteDeviceStep
    <3> QED BY <3>1, EditFields
  <2> QED BY <2>1, <2>2
<1>5. ASSUME NEW c \in Calls, PatchDevice(c) PROVE dev'[n].state = dev[n].state
  BY <1>5, PatchedDevice
<1>6. Restart => dev' = dev
  BY DEF Restart
<1>7. CASE dev'[n].state = dev[n].state
  BY <1>1, <1>7 DEF Exists
<1> QED BY <1>2, <1>3, <1>4, <1>5, <1>6, <1>7, NextParts, RequestSideStep, DeviceSideStep
        DEF DeviceWriter

LEMMA StepNoneDeleted ==
    ASSUME TypeOK, NoneDeleted, [Next]_vars
    PROVE  NoneDeleted'
<1> SUFFICES ASSUME NEW n \in Namespaces, n \notin deleted'
             PROVE  /\ dev'[n].state # "deleting" /\ cdev'[n].state # "deleting"
                    /\ cdev'[n].state # "absent" => dev'[n].state # "absent"
                    /\ dr'[n] \notin {"request", "finalizer"}
  BY DEF NoneDeleted
<1>1. cdev'[n] = cdev[n] \/ cdev'[n] = dev[n]
  <2>1. ASSUME NEW m \in Namespaces, SyncDevice(m) PROVE cdev'[n] = cdev[n] \/ cdev'[n] = dev[n]
    BY <2>1 DEF SyncDevice, TypeOK
  <2>2. Restart => cdev' = dev
    BY DEF Restart
  <2> QED BY <2>1, <2>2, NextParts, RequestSideStep, DeviceSideStep, DeviceWriterStep
<1>2. /\ dev[n].state # "deleting" /\ cdev[n].state # "deleting"
      /\ cdev[n].state # "absent" => Exists(n)
      /\ dr[n] \notin {"request", "finalizer"}
  BY MarksStep DEF NoneDeleted, Exists
<1>3. dr'[n] \notin {"request", "finalizer"}
  <2>1. NextFor(n) \notin {"request", "finalizer"}
    BY <1>2 DEF NextFor
  <2> QED BY <1>2, <2>1, RemovalWork
<1>4. cdev'[n].state # "absent" => Exists(n)
  BY <1>1, <1>2 DEF Exists
<1> QED BY <1>1, <1>2, <1>3, <1>4, StillExists

\* An approved request is taken from the queue only towards its device.
LEMMA ApprovalStep ==
    ASSUME TypeOK, NoneDeleted, GenerationCurrent, [Next]_vars,
           ~news'.gen, ~rq', edsr.there, edsr.approved, edsr.target \notin deleted, news.gen \/ rq
    PROVE  Exists(edsr.target) \/ (sr'.phase = "create" /\ sr'.read.target = edsr.target)
<1> USE DEF api, cache, queues, calls, history, marks
<1>1. ~Restart
  BY DEF Restart
<1>2. ~SyncRequest
  BY DEF SyncRequest
<1>3. ~news.gen /\ rq
  BY <1>1, <1>2, RequestEvents
<1>4. cedsr.there /\ cedsr.approved /\ cedsr.target = edsr.target /\ edsr.target \in Namespaces
  <2>1. edsr \in Requests /\ cedsr \in Requests /\ Base(cedsr) = Base(edsr)
    BY <1>3 DEF TypeOK, GenerationCurrent
  <2>2. cedsr.there = edsr.there /\ cedsr.target = edsr.target /\ cedsr.approved = edsr.approved
    BY <2>1, BaseFields
  <2> QED BY <2>1, <2>2 DEF Requests
<1>5. StartRequest
  <2>1. ~RequestGone /\ ~MarkStatusPending
    BY <1>4 DEF RequestGone, MarkStatusPending
  <2>2. \/ SyncClaims \/ AutoApprove \/ CreateRequest \/ CreateDevice \/ MarkStatusApproved
        \/ UserDeletesRequest \/ StopEdgeAPI \/ UNCHANGED vars
        => rq' \/ rq' = rq
    BY DEF SyncClaims, AutoApprove, CreateRequest, CreateDevice, MarkStatusApproved,
           UserDeletesRequest, StopEdgeAPI, vars
  <2>3. ASSUME NEW b \in BOOLEAN, SetApproved(b) PROVE rq' = rq
    BY <2>3 DEF SetApproved
  <2>4. ASSUME NEW n \in Namespaces,
               \/ UserDeletesDevice(n) \/ SyncDevice(n) \/ Resync(n) \/ StartDevice(n)
               \/ RemoveRelatedEDSR(n) \/ RemoveFinalizer(n) \/ CreateClaim(n)
               \/ AddObcReference(n) \/ Enrol(n)
        PROVE  rq' = rq
    BY <2>4 DEF UserDeletesDevice, SyncDevice, Resync, StartDevice, RemoveRelatedEDSR,
                RemoveFinalizer, CreateClaim, AddObcReference, Enrol
  <2>5. ASSUME NEW c \in Calls, ReadForRegister(c) \/ PatchDevice(c) \/ UpdateDeviceStatus(c)
        PROVE  rq' = rq
    BY <2>5 DEF ReadForRegister, PatchDevice, UpdateDeviceStatus
  <2>6. ASSUME NEW c \in Calls, NEW n \in Namespaces, NEW own \in BOOLEAN,
               StartRegistration(c, n, own)
        PROVE  rq' = rq
    BY <2>6 DEF StartRegistration
  <2> QED BY <1>1, <1>2, <1>3, <2>1, <2>2, <2>3, <2>4, <2>5, <2>6
          DEF Next, User, ReconcileRequest, ReconcileDevice, Serve
<1>6. sr' = [phase |-> IF cdev[cedsr.target].state # "absent" THEN "mark" ELSE "create",
             read  |-> cedsr]
  BY <1>5 DEF StartRequest
<1> QED BY <1>4, <1>6 DEF NoneDeleted, Exists

\* The creation of a device ends with the device, a retry or the manager.
LEMMA CreationStep ==
    ASSUME TypeOK, [Next]_vars, sr.phase = "create"
    PROVE  \/ sr' = sr
           \/ dev'[sr.read.target].state # "absent"
           \/ rq'
           \/ Restart
<1> USE DEF api, cache, queues, calls, history, marks
<1>0. sr.read.target \in Namespaces /\ sr.phase # "idle" /\ sr.phase # "mark"
  BY DEF TypeOK, RequestWork, Requests
<1>1. ASSUME CreateDevice PROVE dev'[sr.read.target].state # "absent" \/ rq'
  <2>1. \/ rq'
        \/ dev' = [dev EXCEPT ![sr.read.target] =
                     [state |-> "live", init |-> TRUE, fin |-> TRUE, obc |-> FALSE]]
    BY <1>1 DEF CreateDevice, WriteDevice
  <2> QED BY <1>0, <2>1 DEF TypeOK
<1>2. ~StartRequest /\ ~MarkStatusApproved
  BY <1>0 DEF StartRequest, MarkStatusApproved, RequestReady
<1>3. ASSUME \/ \E b \in BOOLEAN : SetApproved(b)
             \/ UserDeletesRequest \/ SyncRequest \/ SyncClaims \/ RequestGone \/ AutoApprove
             \/ MarkStatusPending \/ CreateRequest \/ StopEdgeAPI \/ UNCHANGED vars
      PROVE  sr' = sr
  BY <1>3 DEF SetApproved, UserDeletesRequest, SyncRequest, SyncClaims, RequestGone, AutoApprove,
              MarkStatusPending, CreateRequest, StopEdgeAPI, vars
<1>4. ASSUME NEW n \in Namespaces,
             \/ UserDeletesDevice(n) \/ SyncDevice(n) \/ Resync(n) \/ StartDevice(n)
             \/ RemoveRelatedEDSR(n) \/ RemoveFinalizer(n) \/ CreateClaim(n) \/ AddObcReference(n)
             \/ Enrol(n)
      PROVE  sr' = sr
  BY <1>4 DEF UserDeletesDevice, SyncDevice, Resync, StartDevice, RemoveRelatedEDSR,
              RemoveFinalizer, CreateClaim, AddObcReference, Enrol
<1>5. ASSUME NEW c \in Calls, ReadForRegister(c) \/ PatchDevice(c) \/ UpdateDeviceStatus(c)
      PROVE  sr' = sr
  BY <1>5 DEF ReadForRegister, PatchDevice, UpdateDeviceStatus
<1>6. ASSUME NEW c \in Calls, NEW n \in Namespaces, NEW own \in BOOLEAN, StartRegistration(c, n, own)
      PROVE  sr' = sr
  BY <1>6 DEF StartRegistration
<1> QED BY <1>1, <1>2, <1>3, <1>4, <1>5, <1>6 DEF Next, User, ReconcileRequest, ReconcileDevice, Serve

\* Every step keeps ApprovalIsPending.
LEMMA StepApprovalPending ==
    ASSUME TypeOK, NoneDeleted, GenerationCurrent, ApprovalIsPending, [Next]_vars
    PROVE  ApprovalIsPending'
<1> DEFINE t == edsr.target
<1> SUFFICES ASSUME edsr'.there, edsr'.approved, edsr'.target \notin deleted', ~news'.gen, ~rq'
             PROVE  \/ dev'[edsr'.target].state # "absent"
                    \/ sr'.phase = "create" /\ sr'.read.target = edsr'.target
  BY DEF ApprovalIsPending, Exists
<1>1. edsr \in Requests /\ edsr' \in Requests /\ t \in Namespaces
  BY StepTypeOK DEF TypeOK, Requests
<1>2. Base(edsr') = Base(edsr)
  BY RequestEvents
<1>3. edsr.there /\ edsr.approved /\ edsr'.target = t /\ t \notin deleted
  BY <1>1, <1>2, BaseFields, MarksStep
<1>4. Exists(t) => dev'[t].state # "absent"
  BY <1>1, <1>3, StillExists
<1>5. CASE news.gen \/ rq
  BY <1>3, <1>4, <1>5, ApprovalStep
<1>6. CASE sr.phase = "create" /\ sr.read.target = t
  <2>1. ~Restart
    BY <1>3 DEF Restart, api
  <2> QED BY <1>3, <1>6, <2>1, CreationStep
<1> QED BY <1>3, <1>4, <1>5, <1>6 DEF ApprovalIsPending

\* ApprovalIsPending: an approved request whose device does not exist is never
\* forgotten by EdgeDeviceSignedRequestReconciler, whatever fails and however
\* far its cache is behind, in a namespace where users have deleted no device.
THEOREM EnrolmentApprovalPending == Spec => []ApprovalIsPending
<1>1. Init => TypeOK /\ NoneDeleted /\ GenerationCurrent /\ ApprovalIsPending
  <2>1. Init => NoneDeleted /\ GenerationCurrent /\ ApprovalIsPending
    BY DEF Init, NoneDeleted, GenerationCurrent, ApprovalIsPending, NoDevice, NoRequest
  <2> QED BY <2>1, InitTypeOK
<1>2. TypeOK /\ NoneDeleted /\ GenerationCurrent /\ ApprovalIsPending /\ [Next]_vars
        => (TypeOK /\ NoneDeleted /\ GenerationCurrent /\ ApprovalIsPending)'
  BY StepTypeOK, StepNoneDeleted, StepGeneration, StepApprovalPending
<1> QED BY <1>1, <1>2, PTL DEF Spec

-----------------------------------------------------------------------------
(* Enrolment implements DeviceLife.  Every step changes at most one of the  *)
(* states of the devices, the approvals and the certificates.               *)

States == [n \in Namespaces |-> dev[n].state]

\* A write of a device changes its state only.
LEMMA StatesStep ==
    ASSUME TypeOK, NEW n \in Namespaces, NEW o, WriteDevice(n, o)
    PROVE  States' = [States EXCEPT ![n] = o.state]
<1>1. \A m \in Namespaces : dev'[m] = IF m = n THEN o ELSE dev[m]
  BY WriteDeviceStep
<1> QED BY <1>1 DEF States

LEMMA SameStates ==
    ASSUME TypeOK, NEW n \in Namespaces, NEW o, WriteDevice(n, o), o.state = dev[n].state
    PROVE  States' = States
<1>1. States' = [States EXCEPT ![n] = dev[n].state]
  BY StatesStep
<1> QED BY <1>1 DEF States

\* The writers of devices create one for an approved request, mark one for
\* deletion, remove one, or leave its state as it is.
LEMMA WriterRefines ==
    ASSUME TypeOK, ApprovalInv, DeviceWriter
    PROVE  [Life!Next]_(Life!vars)
<1> USE DEF api, cache, queues, calls, history, marks
<1>0. UNCHANGED <<approvedFor, certs>>
  <2>1. CASE CreateDevice
    BY <2>1 DEF CreateDevice
  <2>2. ASSUME NEW n \in Namespaces, UserDeletesDevice(n) \/ RemoveFinalizer(n) \/ AddObcReference(n)
        PROVE  UNCHANGED <<approvedFor, certs>>
    BY <2>2 DEF UserDeletesDevice, RemoveFinalizer, AddObcReference
  <2>3. ASSUME NEW c \in Calls, PatchDevice(c) PROVE UNCHANGED <<approvedFor, certs>>
    BY <2>3 DEF PatchDevice
  <2> QED BY <2>1, <2>2, <2>3 DEF DeviceWriter
<1>1. ASSUME States' = States PROVE [Life!Next]_(Life!vars)
  BY <1>0, <1>1 DEF Life!vars, States
<1>2. ASSUME NEW n \in Namespaces, n \in approvedFor, dev[n].state = "absent",
             States' = [States EXCEPT ![n] = "live"]
      PROVE  [Life!Next]_(Life!vars)
  <2>1. Life!Create(n)
    BY <1>0, <1>2 DEF Life!Create, States
  <2> QED BY <2>1 DEF Life!Next
<1>3. ASSUME NEW n \in Namespaces, dev[n].state = "live",
             NEW s \in {"deleting", "absent"}, States' = [States EXCEPT ![n] = s]
      PROVE  [Life!Next]_(Life!vars)
  <2>1. Life!Delete(n)
    BY <1>0, <1>3 DEF Life!Delete, States
  <2> QED BY <2>1 DEF Life!Next
<1>4. ASSUME NEW n \in Namespaces, dev[n].state = "deleting",
             States' = [States EXCEPT ![n] = "absent"]
      PROVE  [Life!Next]_(Life!vars)
  <2>1. Life!Remove(n)
    BY <1>0, <1>4 DEF Life!Remove, States
  <2> QED BY <2>1 DEF Life!Next
<1>5. CASE CreateDevice
  <2> DEFINE n == sr.read.target
             o == [state |-> "live", init |-> TRUE, fin |-> TRUE, obc |-> FALSE]
  <2>1. n \in Namespaces /\ n \in approvedFor
    BY <1>5 DEF CreateDevice, ApprovalInv, TypeOK, RequestWork, Requests
  <2>2. dev' = dev \/ (~Exists(n) /\ WriteDevice(n, o))
    BY <1>5 DEF CreateDevice
  <2>3. CASE dev' = dev
    BY <1>1, <2>3 DEF States
  <2>4. CASE ~Exists(n) /\ WriteDevice(n, o)
    <3>1. States' = [States EXCEPT ![n] = o.state]
      BY <2>1, <2>4, StatesStep
    <3>2. dev[n].state = "absent" /\ o.state = "live"
      BY <2>4 DEF Exists
    <3> QED BY <1>2, <2>1, <3>1, <3>2
  <2> QED BY <2>2, <2>3, <2>4
<1>6. ASSUME NEW n \in Namespaces, UserDeletesDevice(n) PROVE [Life!Next]_(Life!vars)
  <2> DEFINE o == IF dev[n].fin THEN [dev[n] EXCEPT !.state = "deleting"] ELSE NoDevice
  <2>1. dev[n].state = "live" /\ WriteDevice(n, o)
    BY <1>6 DEF UserDeletesDevice
  <2>2. o.state \in {"deleting", "absent"}
    BY EditFields
  <2> HIDE DEF o
  <2>3. States' = [States EXCEPT ![n] = o.state]
    BY <2>1, StatesStep
  <2> QED BY <1>3, <2>1, <2>2, <2>3
<1>7. ASSUME NEW n \in Namespaces, RemoveFinalizer(n) PROVE [Life!Next]_(Life!vars)
  <2> DEFINE o == IF dev[n].state = "live" THEN [dev[n] EXCEPT !.fin = FALSE] ELSE NoDevice
  <2>1. dev' = dev \/ WriteDevice(n, o)
    BY <1>7 DEF RemoveFinalizer
  <2>2. o.state = IF dev[n].state = "live" THEN dev[n].state ELSE "absent"
    BY EditFields
  <2>3. dev[n].state \in {"absent", "live", "deleting"}
    BY DEF TypeOK, DeviceObjects
  <2> HIDE DEF o
  <2>4. CASE dev' = dev
    BY <1>1, <2>4 DEF States
  <2>5. CASE WriteDevice(n, o) /\ dev[n].state = "deleting"
    <3>1. States' = [States EXCEPT ![n] = o.state]
      BY <2>5, StatesStep
    <3> QED BY <1>4, <2>2, <2>5, <3>1
  <2>6. CASE WriteDevice(n, o) /\ dev[n].state # "deleting"
    <3>1. o.state = dev[n].state
      BY <2>2, <2>3, <2>6
    <3> QED BY <1>1, <2>6, <3>1, SameStates
  <2> QED BY <2>1, <2>4, <2>5, <2>6
<1>8. ASSUME NEW n \in Namespaces, AddObcReference(n) PROVE [Life!Next]_(Life!vars)
  <2> DEFINE o == [dev[n] EXCEPT !.obc = TRUE]
  <2>1. dev' = dev \/ WriteDevice(n, o)
    BY <1>8 DEF AddObcReference
  <2>2. o.state = dev[n].state
    BY EditFields
  <2> HIDE DEF o
  <2>3. States' = States
    BY <2>1, <2>2, SameStates DEF States
  <2> QED BY <1>1, <2>3
<1>9. ASSUME NEW c \in Calls, PatchDevice(c) PROVE [Life!Next]_(Life!vars)
  <2>1. \A m \in Namespaces : dev'[m].state = dev[m].state
    BY <1>9, PatchedDevice
  <2> QED BY <1>1, <2>1 DEF States
<1> QED BY <1>5, <1>6, <1>7, <1>8, <1>9 DEF DeviceWriter

\* Everything but the answers to registrations and the writes of devices leaves
\* both alone, and approves at most the request's own target.
LEMMA ApprovalsStep ==
    ASSUME TypeOK, [Next]_vars, ~DeviceWriter, ~(\E c \in Calls : UpdateDeviceStatus(c))
    PROVE  /\ UNCHANGED <<dev, certs>>
           /\ approvedFor' = approvedFor \/ approvedFor' = approvedFor \cup {edsr'.target}
<1> USE DEF api, cache, queues, calls, history, marks
<1>1. ASSUME NEW o, WriteRequest(o)
      PROVE  approvedFor' = approvedFor \/ approvedFor' = approvedFor \cup {edsr'.target}
  BY <1>1 DEF WriteRequest
<1>2. ASSUME \/ \E b \in BOOLEAN : SetApproved(b)
             \/ UserDeletesRequest \/ AutoApprove \/ MarkStatusPending \/ MarkStatusApproved \/ CreateRequest
             \/ \E n \in Namespaces : RemoveRelatedEDSR(n)
      PROVE  UNCHANGED <<dev, certs>> /\ (UNCHANGED approvedFor \/ \E o : WriteRequest(o))
  BY <1>2 DEF SetApproved, UserDeletesRequest, AutoApprove, MarkStatusPending, MarkStatusApproved,
              CreateRequest, RemoveRelatedEDSR
<1>3. ASSUME \/ SyncRequest \/ SyncClaims \/ RequestGone \/ StartRequest \/ Restart
             \/ StopEdgeAPI \/ UNCHANGED vars
      PROVE  UNCHANGED <<dev, certs, approvedFor>>
  BY <1>3 DEF SyncRequest, SyncClaims, RequestGone, StartRequest, Restart, StopEdgeAPI, vars
<1>4. ASSUME NEW n \in Namespaces,
             SyncDevice(n) \/ Resync(n) \/ StartDevice(n) \/ CreateClaim(n) \/ Enrol(n)
      PROVE  UNCHANGED <<dev, certs, approvedFor>>
  BY <1>4 DEF SyncDevice, Resync, StartDevice, CreateClaim, Enrol
<1>5. ASSUME NEW c \in Calls, ReadForRegister(c) PROVE UNCHANGED <<dev, certs, approvedFor>>
  BY <1>5 DEF ReadForRegister
<1>6. ASSUME NEW c \in Calls, NEW n \in Namespaces, NEW own \in BOOLEAN, StartRegistration(c, n, own)
      PROVE  UNCHANGED <<dev, certs, approvedFor>>
  BY <1>6 DEF StartRegistration
<1> QED BY <1>1, <1>2, <1>3, <1>4, <1>5, <1>6, NextParts DEF RequestSide

\* Every step of Enrolment is a step of DeviceLife, or none.
LEMMA LifeStep ==
    ASSUME TypeOK, ApprovalInv, [Next]_vars
    PROVE  [Life!Next]_(Life!vars)
<1>1. CASE DeviceWriter
  BY <1>1, WriterRefines
<1>2. ASSUME NEW c \in Calls, UpdateDeviceStatus(c) PROVE [Life!Next]_(Life!vars)
  <2> DEFINE n == reg[c].ns
  <2>1. n \in Namespaces /\ UNCHANGED <<dev, approvedFor>>
    BY <1>2 DEF UpdateDeviceStatus, TypeOK, CallStates, api, history
  <2>2. certs' = certs \/ (Exists(n) /\ certs' = certs \cup {n})
    BY <1>2 DEF UpdateDeviceStatus
  <2>3. CASE certs' = certs
    BY <2>1, <2>3 DEF Life!vars
  <2>4. CASE Exists(n) /\ certs' = certs \cup {n}
    <3>1. Life!Certify(n)
      BY <2>1, <2>4 DEF Life!Certify, Exists
    <3> QED BY <2>1, <3>1 DEF Life!Next
  <2> QED BY <2>2, <2>3, <2>4
<1>3. CASE ~DeviceWriter /\ ~(\E c \in Calls : UpdateDeviceStatus(c))
  <2>1. edsr'.target \in Namespaces
    BY StepTypeOK DEF TypeOK, Requests
  <2>2. UNCHANGED <<dev, certs>>
    BY <1>3, ApprovalsStep
  <2>3. CASE approvedFor' = approvedFor
    BY <2>2, <2>3 DEF Life!vars
  <2>4. CASE approvedFor' = approvedFor \cup {edsr'.target}
    <3>1. Life!Approve(edsr'.target)
      BY <2>2, <2>4 DEF Life!Approve
    <3> QED BY <2>1, <3>1 DEF Life!Next
  <2> QED BY <1>3, <2>3, <2>4, ApprovalsStep
<1> QED BY <1>1, <1>2, <1>3

\* EnrolmentImplementsDeviceLife: the controllers and the edge API together
\* implement DeviceLife for any number of namespaces and calls, over stale
\* caches, failures, restarts and user operations.
THEOREM EnrolmentImplementsDeviceLife == Spec => ImplementsDeviceLife
<1>1. Init => Life!Init
  BY DEF Init, Life!Init, NoDevice
<1> QED
  BY <1>1, InitTypeOK, StepTypeOK, InitApproval, StepApproval, LifeStep, PTL
     DEF Spec, ImplementsDeviceLife, Life!Spec
=============================================================================
