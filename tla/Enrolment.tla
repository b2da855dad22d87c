----------------------------- MODULE Enrolment -----------------------------
(***************************************************************************)
(* The life of one device name: the agent's enrolment creates an           *)
(* EdgeDeviceSignedRequest in the initial namespace, its approval creates  *)
(* an EdgeDevice in the target namespace, the agent registers and receives *)
(* its certificate, the controller claims a bucket, and the deletion of    *)
(* the device removes the request before the device itself.                *)
(*                                                                         *)
(* Two controllers of the manager (request and device) work from an        *)
(* informer cache that lags behind the API server, object by object; the   *)
(* edge API serves enrolments and registrations meanwhile.  A read from    *)
(* the edge API's own cache is a read that happened earlier.  Every write  *)
(* names its object by name only: it also reaches an object that was       *)
(* deleted and created again since it was read.                            *)
(***************************************************************************)
EXTENDS Naturals, Sequences

CONSTANTS
    Namespaces,    \* namespaces a device may be enrolled into
    Initial,       \* InitialDeviceNamespace, where the requests live
    Calls,         \* registration calls the edge API serves at the same time
    AutoApproval,  \* the reconciler approves requests by itself
    WantsOBC,      \* ObcAutoCreate, or the device's own spec asks for a bucket
    Lag,           \* may a reconciliation start on a cache that is behind?
    Resyncs,       \* is the periodic resync part of the run?
    UserMay,       \* "approve", "withdraw", "deleteDevice", "deleteRequest"
    FailAt,        \* what may fail, see Failures
    MaxEnrols, MaxRegs, MaxOps, MaxFaults, MaxCrashes   \* bounds on the environment

\* Calls, the answer of a registration, and "stop": the edge API itself.
Failures ==
    {"request", "create", "finalizer", "claim", "label", "status", "answer", "read", "stop"}

ASSUME EnrolmentAssumption ==
    /\ Initial \in Namespaces
    /\ {AutoApproval, WantsOBC, Lag, Resyncs} \subseteq BOOLEAN
    /\ UserMay \subseteq {"approve", "withdraw", "deleteDevice", "deleteRequest"}
    /\ FailAt \subseteq Failures
    /\ {MaxEnrols, MaxRegs, MaxOps, MaxFaults, MaxCrashes} \subseteq Nat

VARIABLES
    edsr, dev,       \* the request, and the device in each namespace
    claim,           \* namespaces with an ObjectBucketClaim for the device
    cedsr, cdev, cclaim,   \* the same in the manager's cache
    news,            \* watch events not delivered yet
    rq, dq,          \* is the request queued?  the queued devices
    sr,              \* the reconciliation of the request
    dr,              \* the reconciliation of the device in each namespace
    enr,             \* the enrolment call that is about to create a request
    reg,             \* the registration calls
    certs,           \* the namespaces certificates of this name were sent for
    left,            \* what is left of the environment's bounds
    approvedFor,     \* history: the targets of requests while approved
    creator,         \* history: the request each device was created from
    lost,            \* history: devices whose certificate was made but not received
    behind,          \* history: devices whose removal began on an old cache
    deleted          \* history: devices that users have deleted

api == <<edsr, dev, claim>>
cache == <<cedsr, cdev, cclaim>>
queues == <<rq, dq>>
calls == <<enr, reg>>
marks == <<lost, behind, deleted>>
history == <<approvedFor, creator, lost, behind, deleted>>
vars == <<edsr, dev, claim, cedsr, cdev, cclaim, news, rq, dq, sr, dr, enr, reg, certs, left,
          approvedFor, creator, lost, behind, deleted>>

-----------------------------------------------------------------------------
Conditions == [type : {"pending", "approved"}, status : {"true", "false"}]

NoRequest ==
    [there |-> FALSE, uid |-> 0, target |-> Initial, approved |-> FALSE, conds |-> <<>>]

NoDevice == [state |-> "absent", init |-> FALSE, fin |-> FALSE, obc |-> FALSE]

NoCall == [phase |-> "idle", ns |-> Initial, init |-> FALSE]

NoEnrolment == [busy |-> FALSE, ns |-> Initial]

RequestIdle == [phase |-> "idle", read |-> NoRequest]

Init ==
    /\ edsr = NoRequest
    /\ dev = [n \in Namespaces |-> NoDevice]
    /\ claim = {}
    /\ cedsr = edsr
    /\ cdev = dev
    /\ cclaim = {}
    /\ news = [edsr |-> FALSE, gen |-> FALSE, dev |-> {}]
    /\ rq = FALSE
    /\ dq = {}
    /\ sr = RequestIdle
    /\ dr = [n \in Namespaces |-> "idle"]
    /\ enr = NoEnrolment
    /\ reg = [c \in Calls |-> NoCall]
    /\ certs = {}
    /\ left = [enrols |-> MaxEnrols, regs |-> MaxRegs, ops |-> MaxOps,
               faults |-> MaxFaults, crashes |-> MaxCrashes]
    /\ approvedFor = {}
    /\ creator = [n \in Namespaces |-> 0]
    /\ lost = {}
    /\ behind = {}
    /\ deleted = {}

-----------------------------------------------------------------------------
(* The API server.  A change of a request's spec gives it a new generation, *)
(* a change of its status does not.                                         *)

WriteRequest(o) ==
    /\ edsr' = o
    /\ news' = [news EXCEPT
                  !.edsr = @ \/ o # edsr,
                  !.gen  = @ \/ [o EXCEPT !.conds = <<>>] # [edsr EXCEPT !.conds = <<>>]]
    /\ approvedFor' = IF o.approved THEN approvedFor \cup {o.target} ELSE approvedFor

WriteDevice(n, o) ==
    /\ dev' = [dev EXCEPT ![n] = o]
    /\ news' = IF o = dev[n] THEN news ELSE [news EXCEPT !.dev = @ \cup {n}]

Exists(n) == dev[n].state # "absent"

Fault(call) ==
    /\ call \in FailAt
    /\ left.faults > 0
    /\ left' = [left EXCEPT !.faults = @ - 1]

\* A call fails: the API server refuses it, or it cannot be reached.
Fails(refused, call) == (refused /\ UNCHANGED left) \/ Fault(call)

-----------------------------------------------------------------------------
(* Users.                                                                   *)

UserOp(what) == what \in UserMay /\ left.ops > 0 /\ left' = [left EXCEPT !.ops = @ - 1]

SetApproved(b) ==
    /\ UserOp(IF b THEN "approve" ELSE "withdraw")
    /\ edsr.there /\ edsr.approved # b
    /\ WriteRequest([edsr EXCEPT !.approved = b])
    /\ UNCHANGED <<dev, claim, cache, queues, sr, dr, calls, certs, creator, marks>>

UserDeletesRequest ==
    /\ UserOp("deleteRequest")
    /\ edsr.there
    /\ WriteRequest([NoRequest EXCEPT !.uid = edsr.uid])
    /\ UNCHANGED <<dev, claim, cache, queues, sr, dr, calls, certs, creator, marks>>

\* A device with a finalizer is only marked for deletion.
UserDeletesDevice(n) ==
    /\ UserOp("deleteDevice")
    /\ dev[n].state = "live"
    /\ WriteDevice(n, IF dev[n].fin THEN [dev[n] EXCEPT !.state = "deleting"] ELSE NoDevice)
    /\ deleted' = deleted \cup {n}
    /\ UNCHANGED <<edsr, claim, cache, queues, sr, dr, calls, certs, approvedFor, creator, lost, behind>>

-----------------------------------------------------------------------------
(* The cache.  The request controller is not told of a change that keeps    *)
(* the generation (GenerationChangedPredicate), so neither of a resync; the *)
(* device controller is told of everything.                                 *)

SyncRequest ==
    /\ news.edsr
    /\ cedsr' = edsr
    /\ news' = [news EXCEPT !.edsr = FALSE, !.gen = FALSE]
    /\ rq' = (rq \/ news.gen)
    /\ UNCHANGED <<api, cdev, cclaim, dq, sr, dr, calls, certs, left, history>>

SyncDevice(n) ==
    /\ n \in news.dev
    /\ cdev' = [cdev EXCEPT ![n] = dev[n]]
    /\ news' = [news EXCEPT !.dev = @ \ {n}]
    /\ dq' = dq \cup {n}
    /\ UNCHANGED <<api, cedsr, cclaim, rq, sr, dr, calls, certs, left, history>>

SyncClaims ==
    /\ cclaim # claim
    /\ cclaim' = claim
    /\ UNCHANGED <<api, cedsr, cdev, news, queues, sr, dr, calls, certs, left, history>>

Resync(n) ==
    /\ Resyncs
    /\ cdev[n].state # "absent"
    /\ dq' = dq \cup {n}
    /\ UNCHANGED <<api, cache, news, rq, sr, dr, calls, certs, left, history>>

CacheReady == Lag \/ (~news.edsr /\ news.dev = {} /\ cclaim = claim)

-----------------------------------------------------------------------------
(* EdgeDeviceSignedRequestReconciler.Reconcile.                             *)

RequestReady == rq /\ sr.phase = "idle" /\ CacheReady

RequestGone ==
    /\ RequestReady
    /\ ~cedsr.there
    /\ rq' = FALSE
    /\ UNCHANGED <<api, cache, news, dq, sr, dr, calls, certs, left, history>>

\* The request is patched and requeued, whether the patch succeeds or not.
AutoApprove ==
    /\ RequestReady
    /\ cedsr.there /\ ~cedsr.approved /\ AutoApproval
    /\ \/ /\ edsr.there
          /\ WriteRequest([edsr EXCEPT !.approved = TRUE])
          /\ UNCHANGED left
       \/ Fault("request") /\ UNCHANGED <<edsr, news, approvedFor>>
    /\ UNCHANGED <<dev, claim, cache, queues, sr, dr, calls, certs, creator, marks>>

\* Mutant: the new condition is left without a status.
MarkEmpty(conds, t) == Append(conds, [type |-> t, status |-> ""])

\* The new condition holds, all earlier ones do not.
Mark(conds, t) ==
    Append([i \in DOMAIN conds |-> [conds[i] EXCEPT !.status = "false"]],
           [type |-> t, status |-> "true"])

\* It asks for the status "True", but Mark writes "true".
IsPending(r) ==
    \/ r.conds = <<>>
    \/ \E i \in DOMAIN r.conds : r.conds[i].status = "True" /\ r.conds[i].type = "pending"

MarkStatusPending ==
    LET already == IsPending(cedsr) /\ cedsr.conds # <<>>
    IN  /\ RequestReady
        /\ cedsr.there /\ ~cedsr.approved /\ ~AutoApproval
        /\ \/ /\ already \/ edsr.there
              /\ WriteRequest(IF already THEN edsr
                              ELSE [edsr EXCEPT !.conds = Mark(cedsr.conds, "pending")])
              /\ rq' = FALSE
              /\ UNCHANGED left
           \/ ~already /\ Fault("request") /\ UNCHANGED <<edsr, news, approvedFor, rq>>
        /\ UNCHANGED <<dev, claim, cache, dq, sr, dr, calls, certs, creator, marks>>

\* Mutant: the approval is not asked for.
StartUnapproved ==
    /\ RequestReady
    /\ cedsr.there
    /\ rq' = FALSE
    /\ sr' = [phase |-> IF cdev[cedsr.target].state # "absent" THEN "mark" ELSE "create",
              read  |-> cedsr]
    /\ UNCHANGED <<api, cache, news, dq, dr, calls, certs, left, history>>

\* An approved request: is there a device?  One that is being deleted counts.
StartRequest ==
    /\ RequestReady
    /\ cedsr.there /\ cedsr.approved
    /\ rq' = FALSE
    /\ sr' = [phase |-> IF cdev[cedsr.target].state # "absent" THEN "mark" ELSE "create",
              read  |-> cedsr]
    /\ UNCHANGED <<api, cache, news, dq, dr, calls, certs, left, history>>

\* Mutant: a failed creation ends the reconciliation without a requeue.
CreateForgets ==
    LET n == sr.read.target
    IN  /\ sr.phase = "create"
        /\ \/ /\ ~Exists(n)
              /\ WriteDevice(n, [state |-> "live", init |-> TRUE, fin |-> TRUE, obc |-> FALSE])
              /\ creator' = [creator EXCEPT ![n] = sr.read.uid]
              /\ lost' = lost \ {n}
              /\ sr' = [sr EXCEPT !.phase = "mark"]
              /\ UNCHANGED left
           \/ /\ Fails(Exists(n), "create")
              /\ sr' = RequestIdle
              /\ UNCHANGED <<dev, news, creator, lost>>
        /\ UNCHANGED <<edsr, claim, cache, queues, dr, calls, certs, approvedFor, behind, deleted>>

CreateDevice ==
    LET n == sr.read.target
    IN  /\ sr.phase = "create"
        /\ \/ /\ ~Exists(n)
              /\ WriteDevice(n, [state |-> "live", init |-> TRUE, fin |-> TRUE, obc |-> FALSE])
              /\ creator' = [creator EXCEPT ![n] = sr.read.uid]
              /\ lost' = lost \ {n}
              /\ sr' = [sr EXCEPT !.phase = "mark"]
              /\ UNCHANGED <<rq, left>>
           \/ /\ Fails(Exists(n), "create")
              /\ sr' = RequestIdle
              /\ rq' = TRUE
              /\ UNCHANGED <<dev, news, creator, lost>>
        /\ UNCHANGED <<edsr, claim, cache, dq, dr, calls, certs, approvedFor, behind, deleted>>

\* Mutant: a failed patch ends the reconciliation without a requeue.
MarkForgets ==
    /\ sr.phase = "mark"
    /\ \/ /\ edsr.there
          /\ WriteRequest([edsr EXCEPT !.conds = Mark(sr.read.conds, "approved")])
          /\ UNCHANGED left
       \/ /\ Fails(~edsr.there, "request")
          /\ UNCHANGED <<edsr, news, approvedFor>>
    /\ sr' = RequestIdle
    /\ UNCHANGED <<dev, claim, cache, queues, dr, calls, certs, creator, marks>>

MarkStatusApproved ==
    /\ sr.phase = "mark"
    /\ \/ /\ edsr.there
          /\ WriteRequest([edsr EXCEPT !.conds = Mark(sr.read.conds, "approved")])
          /\ UNCHANGED <<rq, left>>
       \/ /\ Fails(~edsr.there, "request")
          /\ rq' = TRUE
          /\ UNCHANGED <<edsr, news, approvedFor>>
    /\ sr' = RequestIdle
    /\ UNCHANGED <<dev, claim, cache, dq, dr, calls, certs, creator, marks>>

-----------------------------------------------------------------------------
(* EdgeDeviceReconciler.Reconcile.                                          *)

\* Mutant: without a request there is nothing to remove.
NextForDeletedOnly(n) ==
    CASE cdev[n].state = "deleting" -> IF cedsr.there THEN "request" ELSE "idle"
      [] cdev[n].state = "live" /\ WantsOBC /\ ~cdev[n].obc ->
             IF n \in cclaim THEN "reference" ELSE "claim"
      [] OTHER -> "idle"

\* What is there to do for the device as it is in the cache?
NextFor(n) ==
    CASE cdev[n].state = "deleting" -> IF cedsr.there THEN "request" ELSE "finalizer"
      [] cdev[n].state = "live" /\ WantsOBC /\ ~cdev[n].obc ->
             IF n \in cclaim THEN "reference" ELSE "claim"
      [] OTHER -> "idle"

StartDevice(n) ==
    /\ n \in dq
    /\ dr[n] = "idle"
    /\ CacheReady
    /\ dq' = dq \ {n}
    /\ dr' = [dr EXCEPT ![n] = NextFor(n)]
    /\ behind' = IF cdev[n].state = "deleting" /\ (news.edsr \/ n \in news.dev)
                 THEN behind \cup {n} ELSE behind \ {n}
    /\ UNCHANGED <<api, cache, news, rq, sr, calls, certs, left, approvedFor, creator, lost, deleted>>

\* Mutant: the error of the deletion is dropped.
RemoveRelatedUnchecked(n) ==
    /\ dr[n] = "request"
    /\ \/ /\ edsr.there
          /\ WriteRequest([NoRequest EXCEPT !.uid = edsr.uid])
          /\ UNCHANGED left
       \/ /\ Fails(~edsr.there, "request")
          /\ UNCHANGED <<edsr, news, approvedFor>>
    /\ dr' = [dr EXCEPT ![n] = "finalizer"]
    /\ UNCHANGED <<dev, claim, cache, queues, sr, calls, certs, creator, marks>>

\* Mutant: a failed deletion of the request is not tried again.
RemoveRelatedForgets(n) ==
    /\ dr[n] = "request"
    /\ \/ /\ edsr.there
          /\ WriteRequest([NoRequest EXCEPT !.uid = edsr.uid])
          /\ dr' = [dr EXCEPT ![n] = "finalizer"]
          /\ UNCHANGED left
       \/ /\ Fails(~edsr.there, "request")
          /\ dr' = [dr EXCEPT ![n] = "idle"]
          /\ UNCHANGED <<edsr, news, approvedFor>>
    /\ UNCHANGED <<dev, claim, cache, queues, sr, calls, certs, creator, marks>>

\* The request of this name is deleted, whatever its target.
RemoveRelatedEDSR(n) ==
    /\ dr[n] = "request"
    /\ \/ /\ edsr.there
          /\ WriteRequest([NoRequest EXCEPT !.uid = edsr.uid])
          /\ dr' = [dr EXCEPT ![n] = "finalizer"]
          /\ UNCHANGED <<dq, left>>
       \/ /\ Fails(~edsr.there, "request")
          /\ dr' = [dr EXCEPT ![n] = "idle"]
          /\ dq' = dq \cup {n}
          /\ UNCHANGED <<edsr, news, approvedFor>>
    /\ UNCHANGED <<dev, claim, cache, rq, sr, calls, certs, creator, marks>>

\* CRRepository.RemoveFinalizer drops the error of its patch.
RemoveFinalizer(n) ==
    /\ dr[n] = "finalizer"
    /\ \/ /\ WriteDevice(n, IF dev[n].state = "live" THEN [dev[n] EXCEPT !.fin = FALSE] ELSE NoDevice)
          /\ UNCHANGED left
       \/ Fault("finalizer") /\ UNCHANGED <<dev, news>>
    /\ dr' = [dr EXCEPT ![n] = "idle"]
    /\ UNCHANGED <<edsr, claim, cache, queues, sr, calls, certs, history>>

CreateClaim(n) ==
    /\ dr[n] = "claim"
    /\ \/ /\ n \notin claim
          /\ claim' = claim \cup {n}
          /\ dr' = [dr EXCEPT ![n] = "reference"]
          /\ UNCHANGED <<dq, left>>
       \/ /\ Fails(n \in claim, "claim")
          /\ dr' = [dr EXCEPT ![n] = "idle"]
          /\ dq' = dq \cup {n}
          /\ UNCHANGED claim
    /\ UNCHANGED <<edsr, dev, cache, news, rq, sr, calls, certs, history>>

\* Mutant: a failed patch of the reference is not tried again.
ReferenceForgets(n) ==
    /\ dr[n] = "reference"
    /\ \/ /\ Exists(n)
          /\ WriteDevice(n, [dev[n] EXCEPT !.obc = TRUE])
          /\ UNCHANGED left
       \/ /\ Fails(~Exists(n), "claim")
          /\ UNCHANGED <<dev, news>>
    /\ dr' = [dr EXCEPT ![n] = "idle"]
    /\ UNCHANGED <<edsr, claim, cache, queues, sr, calls, certs, history>>

AddObcReference(n) ==
    /\ dr[n] = "reference"
    /\ \/ /\ Exists(n)
          /\ WriteDevice(n, [dev[n] EXCEPT !.obc = TRUE])
          /\ UNCHANGED <<dq, left>>
       \/ /\ Fails(~Exists(n), "claim")
          /\ dq' = dq \cup {n}
          /\ UNCHANGED <<dev, news>>
    /\ dr' = [dr EXCEPT ![n] = "idle"]
    /\ UNCHANGED <<edsr, claim, cache, rq, sr, calls, certs, history>>

-----------------------------------------------------------------------------
(* The edge API.                                                            *)

\* backend.Enrol, the reads.  If the device or a request exists, the answer
\* says so and nothing is written; a read that fails counts as "not there".
Enrol(n) ==
    /\ left.enrols > 0
    /\ ~enr.busy
    /\ \/ /\ ~Exists(n) /\ ~edsr.there
          /\ left' = [left EXCEPT !.enrols = @ - 1]
       \/ /\ "read" \in FailAt /\ left.faults > 0
          /\ left' = [left EXCEPT !.enrols = @ - 1, !.faults = @ - 1]
    /\ enr' = [busy |-> TRUE, ns |-> n]
    /\ UNCHANGED <<api, cache, news, queues, sr, dr, reg, certs, history>>

\* backend.Enrol, the write; refused if there is a request by now.
CreateRequest ==
    /\ enr.busy
    /\ IF edsr.there THEN UNCHANGED <<edsr, news, approvedFor>>
       ELSE WriteRequest([NoRequest EXCEPT !.there = TRUE, !.uid = edsr.uid + 1, !.target = enr.ns])
    /\ enr' = NoEnrolment
    /\ UNCHANGED <<dev, claim, cache, queues, sr, dr, reg, certs, left, creator, marks>>

\* backend.GetTargetNamespace: the namespace n, for a call with a certificate
\* of this name or another one: the registration certificate, for which the
\* request says the namespace, or that of a device of another namespace.
GetTargetNamespace(n, own) ==
    /\ Exists(n)
    /\ IF own THEN n \in certs
       ELSE dev[n].init /\ (n # Initial \/ (edsr.there /\ n = edsr.target))

\* The certificate is signed; the answer waits for backend.Register.
StartRegistration(c, n, own) ==
    /\ left.regs > 0
    /\ reg[c].phase = "idle"
    /\ GetTargetNamespace(n, own)
    /\ left' = [left EXCEPT !.regs = @ - 1]
    /\ reg' = [reg EXCEPT ![c] = [phase |-> "read", ns |-> n, init |-> FALSE]]
    /\ UNCHANGED <<api, cache, news, queues, sr, dr, enr, certs, history>>

\* backend.Register reads the device and does not look at the error: for a
\* device that is gone by now the handler ends without an answer.
ReadForRegister(c) ==
    LET n == reg[c].ns
    IN  /\ reg[c].phase = "read"
        /\ reg' = [reg EXCEPT ![c] = IF Exists(n)
                                     THEN [@ EXCEPT !.phase = "label", !.init = dev[n].init]
                                     ELSE NoCall]
        /\ UNCHANGED <<api, cache, news, queues, sr, dr, enr, certs, left, history>>

\* Mutant: the label is removed although the call fails.
PatchDeviceBlind(c) ==
    LET n == reg[c].ns
    IN  /\ reg[c].phase = "label"
        /\ IF Exists(n) THEN WriteDevice(n, [dev[n] EXCEPT !.init = @ /\ ~reg[c].init])
                        ELSE UNCHANGED <<dev, news>>
        /\ \/ Exists(n) /\ reg' = [reg EXCEPT ![c].phase = "status"] /\ UNCHANGED left
           \/ Fails(~Exists(n), "label") /\ reg' = [reg EXCEPT ![c] = NoCall]
        /\ UNCHANGED <<edsr, claim, cache, queues, sr, dr, enr, certs, history>>

\* The patch takes the label away if the device that was read had it.
PatchDevice(c) ==
    LET n == reg[c].ns
    IN  /\ reg[c].phase = "label"
        /\ \/ /\ Exists(n)
              /\ WriteDevice(n, [dev[n] EXCEPT !.init = @ /\ ~reg[c].init])
              /\ reg' = [reg EXCEPT ![c].phase = "status"]
              /\ UNCHANGED left
           \/ /\ Fails(~Exists(n), "label")
              /\ reg' = [reg EXCEPT ![c] = NoCall]
              /\ UNCHANGED <<dev, news>>
        /\ UNCHANGED <<edsr, claim, cache, queues, sr, dr, enr, certs, history>>

\* Mutant: the answer carries the certificate although the device is gone.
UpdateStatusUnchecked(c) ==
    LET n == reg[c].ns
    IN  /\ reg[c].phase = "status"
        /\ \/ certs' = certs \cup {n} /\ UNCHANGED <<lost, left>>
           \/ /\ Fails(~Exists(n), "status") \/ Fault("answer")
              /\ lost' = lost \cup {n}
              /\ UNCHANGED certs
        /\ reg' = [reg EXCEPT ![c] = NoCall]
        /\ UNCHANGED <<api, cache, news, queues, sr, dr, enr, approvedFor, creator, behind, deleted>>

\* The hardware is written to the status, and the answer carries the
\* certificate.  The agent gets none if the device is gone or all four
\* attempts fail ("status"), or if the answer does not reach it ("answer").
UpdateDeviceStatus(c) ==
    LET n == reg[c].ns
    IN  /\ reg[c].phase = "status"
        /\ \/ Exists(n) /\ certs' = certs \cup {n} /\ UNCHANGED <<lost, left>>
           \/ /\ Fails(~Exists(n), "status") \/ (Exists(n) /\ Fault("answer"))
              /\ lost' = lost \cup {n}
              /\ UNCHANGED certs
        /\ reg' = [reg EXCEPT ![c] = NoCall]
        /\ UNCHANGED <<api, cache, news, queues, sr, dr, enr, approvedFor, creator, behind, deleted>>

-----------------------------------------------------------------------------
\* The manager restarts: its cache is filled anew and every object is queued.
Restart ==
    /\ left.crashes > 0
    /\ left' = [left EXCEPT !.crashes = @ - 1]
    /\ cedsr' = edsr
    /\ cdev' = dev
    /\ cclaim' = claim
    /\ news' = [edsr |-> FALSE, gen |-> FALSE, dev |-> {}]
    /\ rq' = edsr.there
    /\ dq' = {n \in Namespaces : Exists(n)}
    /\ sr' = RequestIdle
    /\ dr' = [n \in Namespaces |-> "idle"]
    /\ UNCHANGED <<api, calls, certs, history>>

\* The edge API stops: the calls it was serving end where they are.
StopEdgeAPI ==
    /\ Fault("stop")
    /\ enr' = NoEnrolment
    /\ reg' = [c \in Calls |-> NoCall]
    /\ lost' = lost \cup {reg[c].ns : c \in {x \in Calls : reg[x].phase = "status"}}
    /\ UNCHANGED <<api, cache, news, queues, sr, dr, certs, approvedFor, creator, behind, deleted>>

User ==
    \/ \E b \in BOOLEAN : SetApproved(b)
    \/ UserDeletesRequest
    \/ \E n \in Namespaces : UserDeletesDevice(n)

ReconcileRequest ==
    \/ RequestGone \/ AutoApprove \/ MarkStatusPending
    \/ StartRequest \/ CreateDevice \/ MarkStatusApproved

ReconcileDevice(n) ==
    \/ StartDevice(n) \/ RemoveRelatedEDSR(n) \/ RemoveFinalizer(n)
    \/ CreateClaim(n) \/ AddObcReference(n)

Serve(c) == ReadForRegister(c) \/ PatchDevice(c) \/ UpdateDeviceStatus(c)

Next ==
    \/ User
    \/ SyncRequest \/ SyncClaims \/ ReconcileRequest \/ CreateRequest
    \/ Restart \/ StopEdgeAPI
    \/ \E n \in Namespaces : SyncDevice(n) \/ Resync(n) \/ ReconcileDevice(n) \/ Enrol(n)
    \/ \E c \in Calls : Serve(c)
    \/ \E c \in Calls, n \in Namespaces, own \in BOOLEAN : StartRegistration(c, n, own)

\* Watch events arrive, workers and handlers keep working; users, agents,
\* failures and restarts happen or not.
Fairness ==
    /\ WF_vars(SyncRequest) /\ WF_vars(SyncClaims) /\ WF_vars(ReconcileRequest)
    /\ WF_vars(CreateRequest)
    /\ \A n \in Namespaces : WF_vars(SyncDevice(n)) /\ WF_vars(ReconcileDevice(n))
    /\ \A c \in Calls : WF_vars(Serve(c))

Spec == Init /\ [][Next]_vars

FairSpec == Spec /\ Fairness

-----------------------------------------------------------------------------
Requests ==
    [there : BOOLEAN, uid : Nat, target : Namespaces, approved : BOOLEAN, conds : Seq(Conditions)]

DeviceObjects ==
    [state : {"absent", "live", "deleting"}, init : BOOLEAN, fin : BOOLEAN, obc : BOOLEAN]

Events == [edsr : BOOLEAN, gen : BOOLEAN, dev : SUBSET Namespaces]

RequestWork == [phase : {"idle", "create", "mark"}, read : Requests]

DevicePhases == {"idle", "request", "finalizer", "claim", "reference"}

CallStates == [phase : {"idle", "read", "label", "status"}, ns : Namespaces, init : BOOLEAN]

Budgets == [enrols : Nat, regs : Nat, ops : Nat, faults : Nat, crashes : Nat]

TypeOK ==
    /\ edsr \in Requests /\ cedsr \in Requests
    /\ dev \in [Namespaces -> DeviceObjects] /\ cdev \in [Namespaces -> DeviceObjects]
    /\ claim \subseteq Namespaces /\ cclaim \subseteq Namespaces
    /\ news \in Events
    /\ rq \in BOOLEAN /\ dq \subseteq Namespaces
    /\ sr \in RequestWork
    /\ dr \in [Namespaces -> DevicePhases]
    /\ enr \in [busy : BOOLEAN, ns : Namespaces]
    /\ reg \in [Calls -> CallStates]
    /\ certs \subseteq Namespaces
    /\ left \in Budgets
    /\ approvedFor \subseteq Namespaces
    /\ creator \in [Namespaces -> Nat]
    /\ lost \subseteq Namespaces /\ behind \subseteq Namespaces /\ deleted \subseteq Namespaces

\* ApprovedFirst: no device exists in a namespace, and no certificate for it
\* is given out, unless a request for that namespace has been approved: not
\* by a stale cache, a withdrawn approval, or calls for a re-created device.
ApprovedFirst ==
    /\ \A n \in Namespaces : Exists(n) => n \in approvedFor
    /\ certs \subseteq approvedFor

HasOrGets(n) == n \in certs \/ \E c \in Calls : reg[c].phase = "status" /\ reg[c].ns = n

\* NotLockedOut: a device that has lost the label of its first registration,
\* and so refuses the registration certificate, has a certificate of its own
\* or is about to receive it ("the first time that tries to register should
\* be able to use register certificate", backend.go).  It does not hold.
NotLockedOut ==
    \A n \in Namespaces : dev[n].state = "live" /\ ~dev[n].init => HasOrGets(n)

\* LockedOutOnlyByLoss: NotLockedOut fails in one way only: since the device was
\* created, a call was cut off between its label patch and its answer, by a
\* failing status patch, an answer that did not arrive or a stop of the edge
\* API.  Registrations at the same time, failures before that patch and calls
\* begun for an earlier device of the name lock nobody out.
LockedOutOnlyByLoss ==
    \A n \in Namespaces :
        dev[n].state = "live" /\ ~dev[n].init => HasOrGets(n) \/ n \in lost

\* RequestGoneFirst: a device marked for deletion disappears only after the
\* request it was created from; otherwise the request would create it again.
\* Stated for removals that began on a cache which had the device and the
\* request as they were at that moment; what changes later does not matter.
\* On an older cache a request may be overlooked.
RequestGoneFirst ==
    [][\A n \in Namespaces :
         dev[n].state = "deleting" /\ dev'[n].state = "absent" /\ n \notin behind =>
             ~(edsr.there /\ edsr.uid = creator[n])]_vars

\* RemovalIsPending: a device marked for deletion is never forgotten, over
\* stale caches, requests that are gone already and restarts.  Only
\* RemoveFinalizer, which drops the error of its patch, can lose it: the
\* property is stated for patches that do not fail.
RemovalIsPending ==
    \A n \in Namespaces :
        dev[n].state = "deleting" =>
            n \in news.dev \cup dq \/ dr[n] \in {"request", "finalizer"}

\* BucketIsPending: a device without the reference to its bucket is on its way
\* to it, also if the claim was there before or the device was created anew
\* while the reconciliation of the one before it was ending.
BucketIsPending ==
    \A n \in Namespaces :
        WantsOBC /\ dev[n].state = "live" /\ ~dev[n].obc =>
            n \in news.dev \cup dq \/ dr[n] \in {"claim", "reference"}

\* ApprovalIsPending: an approved request without its device is on its way to
\* it, although the request controller looks only at changes of the spec and a
\* reconciliation may be busy with a request that was replaced.  Stated for
\* namespaces where users have deleted no device: a new request that meets the
\* device of an earlier one on its way out is taken for done (StartRequest).
ApprovalIsPending ==
    edsr.there /\ edsr.approved /\ edsr.target \notin deleted =>
        \/ Exists(edsr.target)
        \/ news.gen \/ rq
        \/ sr.phase = "create" /\ sr.read.target = edsr.target

Life ==
    INSTANCE DeviceLife
    WITH state <- [n \in Namespaces |-> dev[n].state], approved <- approvedFor, certs <- certs

\* ImplementsDeviceLife: seen from outside, every step of the controllers and
\* of the edge API is a step of DeviceLife or none: no write to a device that
\* was read earlier, and may be another one by now, creates one without an
\* approval, takes a deletion back or gives a certificate for nothing.
ImplementsDeviceLife == Life!Spec

ApprovedMark(conds) == conds # <<>> /\ conds[Len(conds)] = [type |-> "approved", status |-> "true"]

\* ApprovedIsHonoured: a request that stays approved has its device, in a
\* namespace where users have deleted none, and says so in its status.
ApprovedIsHonoured ==
    \A n \in Namespaces :
        <>[](edsr.there /\ edsr.approved /\ edsr.target = n /\ n \notin deleted) =>
            <>[](Exists(n) /\ ApprovedMark(edsr.conds))

\* DeletionCompletes: if the informers resync now and then, a device marked for
\* deletion disappears, also if the patch that removes its finalizer fails and
\* the error is dropped: the resync brings it back.
DeletionCompletes ==
    (\A n \in Namespaces : WF_vars(Resync(n))) =>
        \A n \in Namespaces : dev[n].state = "deleting" ~> dev[n].state # "deleting"

\* BucketIsReferenced: a device that wants a bucket gets its claim recorded.
BucketIsReferenced ==
    \A n \in Namespaces :
        <>[](WantsOBC /\ dev[n].state = "live") => <>[](n \in claim /\ dev[n].obc)
=============================================================================
