----------------------------- MODULE DeviceLife -----------------------------
(***************************************************************************)
(* What users and agents may rely on for the devices of one name, whatever *)
(* the controllers, the cache and the edge API do in between: a device is  *)
(* created only where a request has been approved, a device marked for     *)
(* deletion never comes back to life but can only disappear, and a         *)
(* certificate is given out only while the device is there.                *)
(*                                                                         *)
(* Requests, reconciliations, watch events, registration calls, failures   *)
(* and restarts are no part of it.  Enrolment is shown to implement it.    *)
(***************************************************************************)
CONSTANTS Namespaces

VARIABLES
    state,      \* the device in each namespace: "absent", "live" or "deleting"
    approved,   \* the namespaces a request has been approved for
    certs       \* the namespaces the agent has a certificate for

vars == <<state, approved, certs>>

Init ==
    /\ state = [n \in Namespaces |-> "absent"]
    /\ approved = {}
    /\ certs = {}

\* A user, or the automatic approval, approves a request.
Approve(n) ==
    /\ approved' = approved \cup {n}
    /\ UNCHANGED <<state, certs>>

Create(n) ==
    /\ n \in approved
    /\ state[n] = "absent"
    /\ state' = [state EXCEPT ![n] = "live"]
    /\ UNCHANGED <<approved, certs>>

\* A device whose finalizer is gone disappears at once.
Delete(n) ==
    /\ state[n] = "live"
    /\ \E s \in {"deleting", "absent"} : state' = [state EXCEPT ![n] = s]
    /\ UNCHANGED <<approved, certs>>

Remove(n) ==
    /\ state[n] = "deleting"
    /\ state' = [state EXCEPT ![n] = "absent"]
    /\ UNCHANGED <<approved, certs>>

\* A registration ends well; the device may be on its way out.
Certify(n) ==
    /\ state[n] # "absent"
    /\ certs' = certs \cup {n}
    /\ UNCHANGED <<state, approved>>

Next == \E n \in Namespaces : Approve(n) \/ Create(n) \/ Delete(n) \/ Remove(n) \/ Certify(n)

Spec == Init /\ [][Next]_vars
=============================================================================
